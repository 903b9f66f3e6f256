-------------------------- MODULE MCPaddingOracle --------------------------
(* Small instances of PaddingOracle: bytes of two bits. *)
EXTENDS PaddingOracle, TLC

Bit(a, i) == (a \div 2^i) % 2

\* Exclusive-or of two numbers below 4, bit by bit.
MCXor(a, b) == LET x(i) == (Bit(a, i) + Bit(b, i)) % 2 IN x(0) + 2 * x(1)

\* Only the exclusive-or of ciphertext and key matters, so all keys are tried
\* against one ciphertext.
MCCiphertexts == {[j \in Index |-> (j + 1) % Radix]}
MCKeys        == Block
MCPrevious    == {[j \in Index |-> (3 * j + 2) % Radix]}

NoFaults  == {}
AllFaults == {"sever", "kill_client", "kill_server"}

=============================================================================
