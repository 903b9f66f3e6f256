------------------------------ MODULE GcmBlock ------------------------------
(***************************************************************************)
(* GCM::Polynomial as it is in memory (src/gcm/polynomial.cpp): a register *)
(* of 128 bits, in which the bit 127 - e stands for x^e.  A register is    *)
(* the set of its bits, a byte the set of its bits 0 to 7.  Module GF says *)
(* what the multiplication is to compute, this one how it does it: with    *)
(* products of halves and with shifts that work on bytes of the register   *)
(* or within its lanes of 32 bits.                                         *)
(***************************************************************************)
EXTENDS Integers, FiniteSets, Sequences

Bit == 0 .. 127

Byte == SUBSET (0 .. 7)

\* _mm_xor_si128.
xor(a, b) == (a \ b) \cup (b \ a)

\* Shifts of the register by n bytes ...
slli_si128(x, n) == {k \in Bit : k - 8 * n \in x}
srli_si128(x, n) == {k \in Bit : k + 8 * n \in x}

\* ... and of each of its lanes by n bits.
slli_epi32(x, n) == {k \in Bit : (k % 32) >= n /\ k - n \in x}
srli_epi32(x, n) == {k \in Bit : (k % 32) + n < 32 /\ k + n \in x}

\* The product of the half i of a and the half j of b.
clmulepi64(a, b, i, j) ==
  LET p == {k \in 0 .. 63 : k + 64 * i \in a}
      q == {k \in 0 .. 63 : k + 64 * j \in b}
  IN {k \in 0 .. 126 : Cardinality({m \in p : k - m \in q}) % 2 = 1}

-----------------------------------------------------------------------------
one_block  == {127}

from_gcm_bytes(bytes) == UNION {{8 * (16 - n) + k : k \in bytes[n]} : n \in 1 .. 16}
to_gcm_bytes(x)       == [n \in 1 .. 16 |-> {k \in 0 .. 7 : 8 * (16 - n) + k \in x}]

from_exponents(exponents) == {127 - e : e \in exponents}
to_exponents(x)           == {e \in 0 .. 127 : 127 - e \in x}

\* Mutant of Folded: off by one.
FoldedWrong(low) == xor(xor(slli_epi32(low, 31), slli_epi32(low, 30)), slli_epi32(low, 24))

\* What the lanes of the lower half lose when it is divided by x, x^2, x^7.
Folded(low) == xor(xor(slli_epi32(low, 31), slli_epi32(low, 30)), slli_epi32(low, 25))

\* The lower half, divided by them; f is what was Folded.
Divided(low, f) ==
  xor(xor(srli_epi32(low, 1), srli_epi32(low, 2)),
      xor(srli_epi32(low, 7), srli_si128(f, 4)))

\* operator*=.
BlockTimes(a, b) ==
  LET middle == xor(clmulepi64(a, b, 0, 1), clmulepi64(a, b, 1, 0))
      low    == xor(clmulepi64(a, b, 0, 0), slli_si128(middle, 8))
      high   == xor(clmulepi64(a, b, 1, 1), srli_si128(middle, 8))
      \* The 256 bits are moved up by one since their order is reversed.
      carry  == srli_epi32(low, 31)
      low1   == slli_epi32(low, 1) \cup slli_si128(carry, 4)
      high1  == slli_epi32(high, 1) \cup slli_si128(srli_epi32(high, 31), 4)
                  \cup srli_si128(carry, 12)
      \* The lower half stands for x^128 and more, and is reduced.
      f      == Folded(low1)
      low2   == xor(low1, slli_si128(f, 12))
  IN xor(high1, xor(low2, Divided(low2, f)))

\* Mutant of NextExponent: what a lane loses is not carried.
NextExponentInLanes(exponent) == srli_epi32(exponent, 1)

\* pow moves its exponent down by one, lane by lane.
NextExponent(exponent) ==
  srli_epi32(exponent, 1) \cup srli_si128(slli_epi32(exponent, 31), 4)

\* The exponent of modular_inverse.
inverse_exponent == Bit \ {0}

-----------------------------------------------------------------------------
(* For the properties: blocks as SP 800-38D has them.                       *)

\* The polynomial of a block of bytes: the first bit is the highest one of
\* the first byte.
Exponents(bytes) == UNION {{8 * (n - 1) + 7 - k : k \in bytes[n]} : n \in 1 .. 16}

\* Once over x^128 + x^7 + x^2 + x + 1: x^128 is the sum of the others.
Wrapped(p) ==
  LET Moved(n) == {k - 128 + n : k \in {m \in p : m >= 128}}
  IN xor(xor(p \cap 0 .. 127, Moved(0)), xor(xor(Moved(1), Moved(2)), Moved(7)))

\* The product of two polynomials modulo that: below x^255, it is within two.
FieldProduct(p, s) ==
  Wrapped(Wrapped({k \in 0 .. 254 : Cardinality({m \in p : k - m \in s}) % 2 = 1}))

=============================================================================
