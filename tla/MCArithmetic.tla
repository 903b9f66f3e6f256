---------------------------- MODULE MCArithmetic ----------------------------
(* Arithmetic for TLC: polynomials over the field of four elements, and     *)
(* registers of 128 bits.                                                   *)
EXTENDS Arithmetic

UpTo(n) == UNION {[1 .. k -> Element] : k \in 0 .. n}

Quadratics == UpTo(3)

\* The bytes of a polynomial, by the bits of SP 800-38D.
Block(exponents) == [n \in 1 .. 16 |-> {k \in 0 .. 7 : 8 * (n - 1) + 7 - k \in exponents}]

Dense == {{n \in 0 .. 127 : (n % 3) # 1}, {n \in 0 .. 127 : ((n * n + 5 * n) % 7) \in {0, 3, 6}}, 0 .. 127}

Short == [n \in 1 .. 15 |-> {}]

MCBlocks == {Block({n}) : n \in 0 .. 127} \cup {Block(p) : p \in Dense \cup {{}}} \cup {Short}

\* The products of monomials determine the others; Short is refused.
MCFactors ==
  {<<Block({i}), Block({k})>> : i \in 0 .. 127, k \in 0 .. 127}
    \cup {<<Block(p), Block(s)>> : p \in Dense, s \in Dense}
    \cup {<<Short, Block({})>>, <<Block({}), Short>>}

MCFractions ==
  {<<Block({1}), Block({})>>, <<Block({3, 127}), Block({0})>>, <<Block(0 .. 127), Block({1, 65})>>}

\* What fits a register, what a byte turns into it, and what neither does.
MCLists == SUBSET {0, 127, 128, 256, 383, 384} \cup {{0, 1, 2, 3, 125, 126, 127}}

Small == SUBSET (0 .. 2)

\* Constants have powers of any size.
MCPowers ==
  (UpTo(2) \X Small) \cup ([1 .. 1 -> Element] \X {{31}, {32}, {63}, 0 .. 63, {64}})

MCModPowers ==
  (UpTo(2) \X (Small \cup {{64}}) \X Quadratics)
    \cup ({<<{}, one>>, <<one, {1}>>} \X {{31}, {32}, {33, 63}, 0 .. 63} \X {<<{1}, one, one>>, <<{1}, one>>})
=============================================================================
