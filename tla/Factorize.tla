------------------------------ MODULE Factorize ------------------------------
(***************************************************************************)
(* CantorZassenhaus::zeros (src/gcm/cantor_zassenhaus/factorize.cpp): a    *)
(* polynomial is split by random attempts until all its factors are        *)
(* linear.  The loops run one factor, and one attempt, at a time; an       *)
(* attempt that fails changes nothing.                                     *)
(***************************************************************************)
EXTENDS CzPolynomial

VARIABLES
  f,              \* x, monic from the first step on
  factors, new_factors, final_factors,
  i,              \* the factor the inner loop is at
  pc

zerosVars == <<f, factors, new_factors, final_factors, i, pc>>

\* (2^Width - 1) / 3.
Exponent == (2 ^ Width - 1) \div 3

\* Mutant of random: one coefficient is missing.
random_short(degree) == [1 .. degree -> Element]

\* Polynomial::random: any coefficients, leading zeros as well.
random(degree) == [1 .. degree + 1 -> Element]

\* An attempt to find two factors of p, or none, with the random h.
cantor_zassenhaus(p, h) ==
  LET g == Add(PowMod(h, Exponent, f), <<one>>)
      q == ensure_monic(gcd(p, g))
      m == ensure_monic(p)
  IN IF q \in {<<one>>, m} THEN <<>> ELSE <<q, ensure_monic(divmod(m, q).q)>>

\* Its assertions, when it found two.
AssertionsHold(p, s) ==
  /\ divmod(ensure_monic(p), s[1]).r = <<>>
  /\ Mul(s[1], s[2]) = ensure_monic(p)

-----------------------------------------------------------------------------
\* zeros is called with p.
ZerosOf(p) ==
  /\ f = p
  /\ factors = <<>> /\ new_factors = <<>> /\ final_factors = <<>>
  /\ i = 1
  /\ pc = "start"

Start ==
  /\ pc = "start"
  /\ f' = ensure_monic(f)
  /\ new_factors' = <<f'>>
  /\ pc' = "outer"
  /\ UNCHANGED <<factors, final_factors, i>>

\* Mutant of NextRound: new_factors is not cleared.
NextRoundKeeping ==
  /\ pc = "outer" /\ new_factors # <<>>
  /\ factors' = new_factors
  /\ i' = 1
  /\ pc' = "inner"
  /\ UNCHANGED <<f, new_factors, final_factors>>

NextRound ==
  /\ pc = "outer" /\ new_factors # <<>>
  /\ factors' = new_factors
  /\ new_factors' = <<>>
  /\ i' = 1
  /\ pc' = "inner"
  /\ UNCHANGED <<f, final_factors>>

RoundDone ==
  /\ pc = "inner" /\ i > Len(factors)
  /\ pc' = "outer"
  /\ UNCHANGED <<f, factors, new_factors, final_factors, i>>

\* Mutant of Linear: the factor replaces the ones before.
LinearOnly ==
  /\ pc = "inner" /\ i <= Len(factors) /\ Degree(factors[i]) = 1
  /\ final_factors' = <<factors[i]>>
  /\ i' = i + 1
  /\ UNCHANGED <<f, factors, new_factors, pc>>

Linear ==
  /\ pc = "inner" /\ i <= Len(factors) /\ Degree(factors[i]) = 1
  /\ final_factors' = Append(final_factors, factors[i])
  /\ i' = i + 1
  /\ UNCHANGED <<f, factors, new_factors, pc>>

Attempting == pc = "inner" /\ i <= Len(factors) /\ Degree(factors[i]) # 1

\* random(degree - 1) of a constant takes all memory: the degree wraps.
Exhausted ==
  /\ Attempting /\ Degree(f) = 0
  /\ pc' = "threw"
  /\ UNCHANGED <<f, factors, new_factors, final_factors, i>>

Attempt ==
  /\ Attempting /\ Degree(f) > 0
  /\ \E s \in {cantor_zassenhaus(factors[i], h) : h \in random(Degree(f) - 1)} :
       IF s = <<>> THEN UNCHANGED <<new_factors, i, pc>>
       ELSE IF AssertionsHold(factors[i], s)
            THEN new_factors' = new_factors \o s /\ i' = i + 1 /\ UNCHANGED pc
            ELSE pc' = "aborted" /\ UNCHANGED <<new_factors, i>>
  /\ UNCHANGED <<f, factors, final_factors>>

\* The zero of a monic linear factor is its constant.
Zeros == [k \in 1 .. Len(final_factors) |-> Coefficient(final_factors[k], 1)]

Found ==
  /\ pc = "outer" /\ new_factors = <<>>
  /\ pc' = IF \A k \in 1 .. Len(final_factors) : Degree(final_factors[k]) = 1
           THEN "done" ELSE "aborted"
  /\ UNCHANGED <<f, factors, new_factors, final_factors, i>>

ZerosStep ==
  \/ Start \/ NextRound \/ RoundDone \/ Linear \/ Exhausted \/ Attempt \/ Found

-----------------------------------------------------------------------------
(* Properties.                                                              *)

Product(s) ==
  LET upTo[k \in 0 .. Len(s)] == IF k = 0 THEN <<one>> ELSE Mul(upTo[k - 1], s[k])
  IN upTo[Len(s)]

\* No split loses a factor or invents one: those that wait, in both lists,
\* and those that are final always multiply to the polynomial.
FactorsMultiply ==
  pc \in {"outer", "inner"} =>
    f = IF pc = "outer" THEN Mul(Product(new_factors), Product(final_factors))
        ELSE Mul(Mul(Product(SubSeq(factors, i, Len(factors))), Product(new_factors)),
                 Product(final_factors))

\* The result is complete: all the zeros, and nothing else.
ZerosAreRight ==
  pc = "done" => {Zeros[k] : k \in 1 .. Len(Zeros)} = {a \in Element : ValueAt(f, a) = zero}

\* Whether a polynomial is a product of linear ones.
SplitsUp(p) ==
  /\ Degree(p) > 0
  /\ \E z \in [1 .. Degree(p) -> Element] :
       Product([k \in 1 .. Degree(p) |-> <<z[k], one>>]) = ensure_monic(p)

\* The inner loop only goes on until a draw is lucky, so some draw has to
\* be: of a product of linear polynomials, multiple ones as well, every
\* factor of degree 2 and more is split by one of the draws.
SomeDrawSplits ==
  Attempting /\ SplitsUp(f) =>
    \E h \in random(Degree(f) - 1) : cantor_zassenhaus(factors[i], h) # <<>>

\* factorize.hpp:7, of any polynomial: "find solutions for the equation
\* p = 0".  No draw ever ends the loop at a factor that has no zeros.
SearchGoesOn ==
  Attempting /\ Degree(f) > 0 =>
    \E h \in random(Degree(f) - 1) : cantor_zassenhaus(factors[i], h) # <<>>

=============================================================================
