---------------------------------- MODULE GF ----------------------------------
(***************************************************************************)
(* GCM::Polynomial (src/gcm/polynomial.cpp): the field of 2^Width elements *)
(* in which GHASH and Cantor-Zassenhaus compute, Width being 128.  An      *)
(* element is the set of its exponents (to_exponents), so that the order   *)
(* of bits in GCM is no matter here.                                       *)
(***************************************************************************)
EXTENDS Integers, FiniteSets

CONSTANTS
  Width,     \* 128
  Reduction  \* REDUCTION_POLYNOMIAL, without x^Width: {0, 1, 2, 7}

ASSUME FieldAssumption ==
  Width \in Nat \ {0} /\ Reduction \subseteq 0 .. Width - 1

Element == SUBSET (0 .. Width - 1)

zero == {}
one  == {0}

\* _mm_xor_si128.
Plus(a, b) == (a \ b) \cup (b \ a)

\* The carry-less product of the four _mm_clmulepi64_si128.
ClMul(a, b) ==
  {k \in 0 .. 2 * Width - 2 : Cardinality({m \in a : k - m \in b}) % 2 = 1}

\* The rest of operator*= reduces it: x^Width is the sum of Reduction.
Reduced(p) ==
  LET Folded(u, k) == IF k \in u THEN Plus(u \ {k}, {k - Width + e : e \in Reduction}) ELSE u
      down[k \in Width .. 2 * Width - 1] ==
        IF k = 2 * Width - 1 THEN p ELSE Folded(down[k + 1], k)
  IN down[Width]

Products == [a \in Element |-> [b \in Element |-> Reduced(ClMul(a, b))]]

Times(a, b) == Products[a][b]

\* pow, for every exponent.
Power(a, n) ==
  LET pow[k \in 0 .. n] ==
        IF k = 0 THEN one
        ELSE IF k % 2 = 1 THEN Times(pow[k - 1], a)
             ELSE Times(pow[k \div 2], pow[k \div 2])
  IN pow[n]

\* The inverse, and 0 for 0.
modular_inverse == [a \in Element |-> Power(a, 2 ^ Width - 2)]

\* The polynomial of the reduction is irreducible: what is not zero has its
\* inverse in the power that pow computes.
ASSUME FieldInverses == \A a \in Element \ {zero} : Times(a, modular_inverse[a]) = one

Over(a, b) == Times(a, modular_inverse[b])

===============================================================================
