----------------------------- MODULE MCPlaintext -----------------------------
(* Plaintext for TLC: texts of two blocks and of lengths that are refused.  *)
EXTENDS Plaintext, MCPaddingOracle

MCTexts == {[n \in 1 .. k |-> (n * n + 2) % Radix] :
              k \in {0, 1, 2 * BlockSize, 2 * BlockSize + 1}}

\* The two blocks of the text have other bytes, so that two keys try every
\* value of each place.
SomeKeys ==
  {k \in Block : k[0] \in {0, 2} /\ \A j \in Index : k[j] = (3 * k[0] + j) % Radix}
=============================================================================
