----------------------------- MODULE MCFactorize -----------------------------
(* Factorize for TLC on polynomials with an irreducible factor.             *)
EXTENDS Factorize

\* Two without zeros, of degree 2, and the product of one and a linear one.
Irreducible == {<<{1}, one, one>>, <<{0, 1}, one, one>>, Mul(<<{1}, one, one>>, <<one, one>>)}

Init == \E p \in Irreducible : ZerosOf(p)

Spec == Init /\ [][ZerosStep]_zerosVars
=============================================================================
