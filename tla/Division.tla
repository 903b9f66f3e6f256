------------------------------- MODULE Division -------------------------------
(***************************************************************************)
(* CantorZassenhaus::Polynomial::divmod, round by round, of polynomials as *)
(* the actions of Arithmetic give them: of any coefficients, the leading   *)
(* ones included, since from_json does not normalise.                      *)
(***************************************************************************)
EXTENDS CzPolynomial

VARIABLES
  dividend, divisor,  \* *this and the argument
  q, r,
  pc

divisionVars == <<dividend, divisor, q, r, pc>>

\* divmod is called.
Divide(p, by) ==
  /\ dividend' = p /\ divisor' = by
  /\ q' = <<>> /\ r' = <<>>
  /\ pc' = "start"

\* A dividend of a lower degree is returned as it is.
Start ==
  /\ pc = "start"
  /\ r' = dividend
  /\ IF Degree(dividend) < Degree(divisor)
     THEN q' = <<>> /\ pc' = "done"
     ELSE /\ q' = [k \in 1 .. Degree(dividend) - Degree(divisor) + 1 |-> zero]
          /\ pc' = "loop"
  /\ UNCHANGED <<dividend, divisor>>

Round ==
  /\ pc = "loop" /\ Divisible(r, divisor) /\ divisor # <<>>
  /\ LET s == DivisionRound([q |-> q, r |-> r], divisor)
     IN q' = s.q /\ r' = s.r
  /\ UNCHANGED <<dividend, divisor, pc>>

\* An empty divisor has no leading coefficient: at throws.
NoDivisor ==
  /\ pc = "loop" /\ Divisible(r, divisor) /\ divisor = <<>>
  /\ pc' = "threw"
  /\ UNCHANGED <<dividend, divisor, q, r>>

\* The assertion compares with the dividend as it was given.
Finish ==
  /\ pc = "loop" /\ ~Divisible(r, divisor)
  /\ IF Add(Mul(q, divisor), r) = dividend
     THEN /\ pc' = "done"
          /\ q' = ensure_normalized(q)
          /\ r' = ensure_normalized(r)
     ELSE pc' = "aborted" /\ UNCHANGED <<q, r>>
  /\ UNCHANGED <<dividend, divisor>>

DivisionStep == Start \/ Round \/ NoDivisor \/ Finish

-----------------------------------------------------------------------------
(* Properties.                                                              *)

\* What the division returns: the quotient and the remainder, which is zero
\* or of a lower degree, and both normal when the dividend is.  It fails only
\* for a dividend that is not normal, or by nothing.
DivisionIsRight ==
  /\ pc = "done" =>
       /\ ensure_normalized(Add(Mul(q, divisor), r)) = ensure_normalized(dividend)
       /\ r = <<>> \/ Degree(r) < Degree(divisor)
       /\ IsNormal(dividend) => IsNormal(q) /\ IsNormal(r)
  /\ pc = "aborted" => ~IsNormal(dividend)
  /\ pc = "threw" => divisor = <<>>

\* The loop ends: by a divisor whose leading coefficient is not zero, each
\* round shortens the remainder.  (A leading zero, which is its own inverse,
\* would be subtracted forever.)
RoundsShorten ==
  [][pc = "loop" /\ pc' = "loop" /\ IsNormal(divisor) => Len(r') < Len(r)]_divisionVars

===============================================================================
