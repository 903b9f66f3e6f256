--------------------------- MODULE Arithmetic_proofs ---------------------------
(***************************************************************************)
(* The actions on polynomials for every field and all polynomials: the     *)
(* division of Division as the actions take it, whatever zeros they lead   *)
(* with; the values of sums, products and powers; the greatest common      *)
(* divisor; the power modulo a polynomial; and the products and quotients  *)
(* that operators on blocks compute in their registers.                    *)
(***************************************************************************)
EXTENDS Arithmetic, CzPolynomial_proofs

\* Quotient times divisor and the remainder add up to the dividend.
AddsUp ==
  \A k \in Nat \ {0} :
    Plus(Conv(q, divisor, k), Coefficient(r, k)) = Coefficient(dividend, k)

\* The divisor has a leading coefficient, so that rounds shorten.
Divisor == divisor # <<>> /\ Lead(divisor) # zero

\* It is zero: a round does not shorten a normal remainder, and the loop
\* never ends.
Stuck == divisor # <<>> /\ Lead(divisor) = zero /\ Divisible(r, divisor)

DivisionTypeOK ==
  /\ dividend \in Poly /\ divisor \in Poly /\ q \in Poly /\ r \in Poly
  /\ pc \in {"idle", "start", "loop", "done", "aborted", "threw"}

\* What holds between two rounds: the coefficients of the quotient that are
\* still to come are zero.
InTheLoop ==
  pc = "loop" =>
    /\ Degree(dividend) >= Degree(divisor)
    /\ Len(q) = Degree(dividend) - Degree(divisor) + 1
    /\ Len(r) <= Len(dividend)
    /\ IsNormal(dividend) => IsNormal(r) /\ (AddsUp \/ Stuck)
    /\ Divisor => /\ AddsUp
                  /\ \A k \in 1 .. Len(q) : k <= Len(r) - Len(divisor) + 1 => q[k] = zero

DivisionInv == DivisionTypeOK /\ InTheLoop /\ DivisionIsRight

-----------------------------------------------------------------------------
(* The division.                                                            *)

LEMMA MulAddIs ==
  ASSUME NEW u \in Poly, NEW s \in Poly, NEW v \in Poly
  PROVE  /\ Add(Mul(u, s), v) \in Poly /\ IsNormal(Add(Mul(u, s), v))
         /\ \A k \in Nat \ {0} :
              Coefficient(Add(Mul(u, s), v), k) = Plus(Conv(u, s, k), Coefficient(v, k))
<1>1. Mul(u, s) \in Poly /\ \A k \in Nat \ {0} : Coefficient(Mul(u, s), k) = Conv(u, s, k)
  BY MulIs
<1> QED
  BY <1>1, AddIs

\* Of quotient and remainder only the coefficients matter.
LEMMA NormalizedAddsUp ==
  ASSUME NEW u \in Poly, NEW s \in Poly, NEW v \in Poly
  PROVE  Add(Mul(ensure_normalized(u), s), ensure_normalized(v)) = Add(Mul(u, s), v)
<1> DEFINE x == ensure_normalized(u)
           y == ensure_normalized(v)
<1>1. x \in Poly /\ y \in Poly /\ Same(x, u) /\ Same(y, v)
  BY NormalizedIs
<1> HIDE DEF x, y
<1>2. Same(Add(Mul(x, s), y), Add(Mul(u, s), v))
  <2>1. ASSUME NEW k \in Nat \ {0}
        PROVE  Coefficient(Add(Mul(x, s), y), k) = Coefficient(Add(Mul(u, s), v), k)
    <3>1. Conv(x, s, k) = Conv(u, s, k) /\ Coefficient(y, k) = Coefficient(v, k)
      BY <1>1, ConvSame DEF Same
    <3> QED
      BY <1>1, <3>1, MulAddIs
  <2> QED
    BY <2>1 DEF Same
<1> QED
  BY <1>1, <1>2, MulAddIs, NormalEqual DEF x, y

LEMMA ZerosAddUp ==
  ASSUME NEW u \in Poly, NEW s \in Poly, \A k \in 1 .. Len(u) : u[k] = zero, NEW k \in Nat \ {0}
  PROVE  Conv(u, s, k) = zero
<1>1. \A m \in Nat \ {0} : Coefficient(u, m) = zero
  BY DEF Coefficient
<1>2. ASSUME NEW m \in 1 .. k PROVE Terms(u, s, k)[m] = zero
  BY <1>1, CoefficientsAreElements, TimesZeroOne DEF Terms
<1> QED
  BY <1>2, SumOfZeros DEF Conv

LEMMA StartKeeps ==
  ASSUME DivisionInv, Start
  PROVE  DivisionInv'
<1>1. dividend' = dividend /\ divisor' = divisor /\ r' = dividend /\ pc = "start"
      /\ dividend \in Poly /\ divisor \in Poly
  BY DEF Start, DivisionInv, DivisionTypeOK
<1>2. CASE Degree(dividend) < Degree(divisor)
  <2>1. q' = <<>> /\ pc' = "done"
    BY <1>2 DEF Start
  <2>2. <<>> \in Poly
    BY DEF Poly
  <2>3. DivisionTypeOK' /\ InTheLoop'
    BY <1>1, <2>1, <2>2 DEF DivisionTypeOK, InTheLoop
  <2>4. ensure_normalized(Add(Mul(<<>>, divisor), dividend)) = ensure_normalized(dividend)
    <3>1. \A k \in 1 .. Len(<<>>) : FALSE
      OBVIOUS
    <3>2. ASSUME NEW k \in Nat \ {0}
          PROVE  Coefficient(Add(Mul(<<>>, divisor), dividend), k) = Coefficient(dividend, k)
      <4>1. Conv(<<>>, divisor, k) = zero
        BY <1>1, <2>2, <3>1, ZerosAddUp
      <4>2. Coefficient(Add(Mul(<<>>, divisor), dividend), k) = Plus(zero, Coefficient(dividend, k))
        BY <1>1, <2>2, <4>1, MulAddIs
      <4> QED
        BY <4>2, PlusLaws DEF zero
    <3>3. Add(Mul(<<>>, divisor), dividend) \in Poly
      BY <1>1, <2>2, MulAddIs
    <3> QED
      BY <1>1, <3>2, <3>3, NormalizedSame DEF Same
  <2>5. DivisionIsRight'
    BY <1>1, <1>2, <2>1, <2>4 DEF DivisionIsRight, IsNormal
  <2> QED
    BY <2>3, <2>5 DEF DivisionInv
<1>3. CASE ~(Degree(dividend) < Degree(divisor))
  <2> DEFINE n == Degree(dividend) - Degree(divisor) + 1
  <2>1. q' = [k \in 1 .. n |-> zero] /\ pc' = "loop"
    BY <1>3 DEF Start
  <2>2. n \in Nat /\ Degree(dividend) >= Degree(divisor) /\ Len(dividend) <= Len(dividend)
    BY <1>1, <1>3, DegreeIs
  <2>3. q' \in Poly /\ Len(q') = n /\ \A k \in 1 .. n : q'[k] = zero
    <3> HIDE DEF n
    <3>1. q' \in [1 .. n -> Element] /\ \A k \in 1 .. n : q'[k] = zero
      BY <2>1, ElementPlus
    <3> QED
      BY <2>2, <3>1, PolyOf
  <2>4. ASSUME NEW k \in Nat \ {0}
        PROVE  Plus(Conv(q', divisor, k), Coefficient(dividend, k)) = Coefficient(dividend, k)
    <3>1. Conv(q', divisor, k) = zero
      BY <1>1, <2>3, ZerosAddUp
    <3> QED
      BY <3>1, PlusLaws DEF zero
  <2>5. DivisionTypeOK'
    BY <1>1, <2>1, <2>3 DEF DivisionTypeOK
  <2>6. AddsUp'
    BY <1>1, <2>4 DEF AddsUp
  <2>7. InTheLoop'
    BY <1>1, <2>2, <2>3, <2>6 DEF InTheLoop
  <2>8. DivisionIsRight'
    BY <2>1 DEF DivisionIsRight
  <2> QED
    BY <2>5, <2>7, <2>8 DEF DivisionInv
<1> QED
  BY <1>2, <1>3

LEMMA RoundInLoop ==
  ASSUME DivisionInv, Round
  PROVE  /\ q \in Poly /\ r \in Poly /\ divisor \in Poly /\ divisor # <<>> /\ dividend \in Poly
         /\ Divisible(r, divisor) /\ Degree(r) - Degree(divisor) + 1 <= Len(q)
         /\ q' = DivisionRound([q |-> q, r |-> r], divisor).q
         /\ r' = DivisionRound([q |-> q, r |-> r], divisor).r
         /\ dividend' = dividend /\ divisor' = divisor /\ pc = "loop" /\ pc' = "loop"
<1>1. q \in Poly /\ r \in Poly /\ divisor \in Poly /\ dividend \in Poly
  BY DEF DivisionInv, DivisionTypeOK
<1>2. pc = "loop" /\ Divisible(r, divisor) /\ divisor # <<>> /\ dividend' = dividend
      /\ divisor' = divisor /\ pc' = pc
      /\ q' = DivisionRound([q |-> q, r |-> r], divisor).q
      /\ r' = DivisionRound([q |-> q, r |-> r], divisor).r
  BY DEF Round
<1>3. Len(q) = Degree(dividend) - Degree(divisor) + 1 /\ Len(r) <= Len(dividend)
  BY <1>2 DEF DivisionInv, InTheLoop
<1>4. r # <<>> /\ Degree(r) + 1 = Len(r) /\ Len(r) \in Nat \ {0} /\ Len(dividend) \in Nat
      /\ Len(dividend) <= Degree(dividend) + 1 /\ Degree(dividend) \in Nat /\ Degree(r) \in Nat
      /\ Degree(divisor) \in Nat
  BY <1>1, <1>2, DegreeIs DEF Divisible
<1>5. PICK x \in Nat, y \in Nat, z \in Nat :
        x = Degree(r) /\ y = Degree(dividend) /\ z = Degree(divisor)
  BY <1>4
<1>6. x <= y
  <2>1. \A l, m \in Nat : x + 1 = l /\ l <= m /\ m <= y + 1 => x <= y
    OBVIOUS
  <2>2. x + 1 = Len(r) /\ Len(r) <= Len(dividend) /\ Len(dividend) <= y + 1
    BY <1>3, <1>4, <1>5
  <2>3. Len(r) \in Nat /\ Len(dividend) \in Nat
    BY <1>4
  <2> QED
    BY <2>1, <2>2, <2>3, Zenon
<1>7. x - z + 1 <= y - z + 1
  BY <1>6
<1> QED
  BY <1>1, <1>2, <1>3, <1>5, <1>7

LEMMA RoundKeepsInv ==
  ASSUME DivisionInv, Round
  PROVE  DivisionInv'
<1>1. /\ q \in Poly /\ r \in Poly /\ divisor \in Poly /\ divisor # <<>> /\ dividend \in Poly
      /\ Divisible(r, divisor) /\ Degree(r) - Degree(divisor) + 1 <= Len(q)
  BY RoundInLoop
<1>2. /\ q' = DivisionRound([q |-> q, r |-> r], divisor).q
      /\ r' = DivisionRound([q |-> q, r |-> r], divisor).r
      /\ dividend' = dividend /\ divisor' = divisor /\ pc = "loop" /\ pc' = "loop"
  BY RoundInLoop
<1> DEFINE d == RoundAt(r, divisor)
<1>3. /\ d \in Nat /\ d + 1 \in 1 .. Len(q) /\ d + 1 = Len(r) - Len(divisor) + 1
      /\ q' = [q EXCEPT ![d + 1] = RoundBy(r, divisor)] /\ q' \in Poly /\ Len(q') = Len(q)
      /\ r' \in Poly /\ IsNormal(r')
  <2>1. IsRound(q, r, divisor)
    BY <1>1, DivisionRoundIs
  <2> QED
    BY <1>2, <2>1 DEF IsRound
<1>4. /\ Len(r') <= Len(r)
      /\ Lead(divisor) # zero => Len(r') < Len(r)
      /\ Lead(divisor) = zero /\ IsNormal(r) => Len(r') = Len(r)
  BY <1>1, <1>2, RoundShortens
<1>5. q[d + 1] = zero /\ AddsUp => AddsUp'
  <2> SUFFICES ASSUME q[d + 1] = zero, AddsUp, NEW k \in Nat \ {0}
               PROVE  Plus(Conv(q', divisor, k), Coefficient(r', k)) = Coefficient(dividend, k)
    BY <1>2 DEF AddsUp
  <2>1. q[Degree(r) - Degree(divisor) + 1] = zero
    BY DEF RoundAt
  <2>2. Plus(Conv(q', divisor, k), Coefficient(r', k)) = Plus(Conv(q, divisor, k), Coefficient(r, k))
    BY <1>1, <1>2, <2>1, RoundKeeps
  <2> QED
    BY <2>2 DEF AddsUp
<1>6. /\ Degree(dividend) >= Degree(divisor)
      /\ Len(q) = Degree(dividend) - Degree(divisor) + 1
      /\ Len(r) <= Len(dividend)
      /\ IsNormal(dividend) => IsNormal(r) /\ (AddsUp \/ Stuck)
      /\ Divisor => AddsUp
      /\ Divisor => \A k \in 1 .. Len(q) : k <= Len(r) - Len(divisor) + 1 => q[k] = zero
  BY <1>2 DEF DivisionInv, InTheLoop
<1>7. Len(r) \in Nat /\ Len(r') \in Nat /\ Len(dividend) \in Nat /\ Len(divisor) \in Nat /\ Len(q) \in Nat
  BY <1>1, <1>3, DegreeIs
<1> HIDE DEF d
<1>8. DivisionTypeOK'
  BY <1>1, <1>2, <1>3 DEF DivisionTypeOK
<1>9. CASE Divisor
  <2>1. Len(r') < Len(r)
    BY <1>4, <1>9 DEF Divisor
  <2>2. q[d + 1] = zero
    <3>1. d + 1 \in 1 .. Len(q) /\ d + 1 <= Len(r) - Len(divisor) + 1
      BY <1>3, <1>7
    <3> QED
      BY <1>6, <1>9, <3>1
  <2>3. AddsUp'
    BY <1>5, <1>6, <1>9, <2>2
  <2>4. ASSUME NEW k \in 1 .. Len(q'), k <= Len(r') - Len(divisor) + 1 PROVE q'[k] = zero
    <3>1. k \in 1 .. Len(q) /\ k <= Len(r) - Len(divisor) + 1 /\ k # d + 1
      <4>1. \A a, b, c \in Nat : b < a /\ k <= b - c + 1 => k <= a - c + 1 /\ k # a - c + 1
        OBVIOUS
      <4>2. k <= Len(r) - Len(divisor) + 1 /\ k # Len(r) - Len(divisor) + 1
        BY <1>7, <2>1, <2>4, <4>1, Zenon
      <4> QED
        BY <1>3, <4>2
    <3>2. q[k] = zero
      BY <1>6, <1>9, <3>1
    <3> QED
      BY <1>1, <1>3, <3>1, <3>2 DEF Poly
  <2>5. Len(r') <= Len(dividend)
    BY <1>6, <1>7, <2>1
  <2>6. InTheLoop'
    BY <1>2, <1>3, <1>6, <2>3, <2>4, <2>5 DEF InTheLoop
  <2>7. DivisionIsRight'
    BY <1>2 DEF DivisionIsRight
  <2> QED
    BY <1>8, <2>6, <2>7 DEF DivisionInv
<1>10. CASE ~Divisor
  <2>1. Lead(divisor) = zero /\ ~Divisor'
    BY <1>1, <1>2, <1>10 DEF Divisor
  <2>2. Len(r') <= Len(r)
    BY <1>4
  <2>3. Len(r') <= Len(dividend)
    BY <1>6, <1>7, <2>2
  <2>4. ASSUME IsNormal(dividend) PROVE Stuck'
    <3>1. IsNormal(r)
      BY <1>6, <2>4
    <3>2. Len(r') = Len(r) /\ r # <<>> /\ Degree(r) >= Degree(divisor)
      BY <1>1, <1>4, <2>1, <3>1 DEF Divisible
    <3>3. r' # <<>> /\ Degree(r') = Degree(r)
      <4>1. Len(r) # 0 /\ Degree(r) = Len(r) - 1
        BY <1>1, <3>2, DegreeIs DEF Degree
      <4>2. r' # <<>>
        BY <1>3, <3>2, <4>1, DegreeIs
      <4> QED
        BY <3>2, <4>1, <4>2 DEF Degree
    <3> QED
      BY <1>1, <1>2, <2>1, <3>2, <3>3 DEF Stuck, Divisible
  <2>5. InTheLoop'
    BY <1>2, <1>3, <1>6, <2>1, <2>3, <2>4 DEF InTheLoop
  <2>6. DivisionIsRight'
    BY <1>2 DEF DivisionIsRight
  <2> QED
    BY <1>8, <2>5, <2>6 DEF DivisionInv
<1> QED
  BY <1>9, <1>10

LEMMA NoDivisorKeeps ==
  ASSUME DivisionInv, NoDivisor
  PROVE  DivisionInv'
<1>1. pc' = "threw" /\ divisor = <<>> /\ dividend' = dividend /\ divisor' = divisor /\ q' = q /\ r' = r
  BY DEF NoDivisor
<1>2. DivisionTypeOK' /\ InTheLoop' /\ DivisionIsRight'
  BY <1>1 DEF DivisionInv, DivisionTypeOK, InTheLoop, DivisionIsRight
<1> QED
  BY <1>2 DEF DivisionInv

LEMMA FinishKeeps ==
  ASSUME DivisionInv, Finish
  PROVE  DivisionInv'
<1>1. q \in Poly /\ r \in Poly /\ divisor \in Poly /\ dividend \in Poly
  BY DEF DivisionInv, DivisionTypeOK
<1>2. pc = "loop" /\ ~Divisible(r, divisor) /\ dividend' = dividend /\ divisor' = divisor
  BY DEF Finish
<1>3. CASE Add(Mul(q, divisor), r) = dividend
  <2>1. pc' = "done" /\ q' = ensure_normalized(q) /\ r' = ensure_normalized(r)
    BY <1>3 DEF Finish
  <2>2. q' \in Poly /\ r' \in Poly /\ IsNormal(q') /\ IsNormal(r') /\ Len(r') <= Len(r)
    BY <1>1, <2>1, NormalizedIs
  <2>3. Add(Mul(q', divisor), r') = dividend
    BY <1>1, <1>3, <2>1, NormalizedAddsUp
  <2>4. r' = <<>> \/ Degree(r') < Degree(divisor)
    <3>1. CASE r = <<>>
      <4>1. Len(r') = 0
        BY <1>1, <2>2, <3>1, DegreeIs
      <4> QED
        BY <2>2, <4>1, DegreeIs
    <3>2. CASE r # <<>> /\ r' # <<>>
      <4>1. /\ Degree(r') + 1 = Len(r') /\ Degree(r) + 1 = Len(r) /\ Degree(r') \in Nat
            /\ Degree(r) \in Nat /\ Degree(divisor) \in Nat /\ ~(Degree(r) >= Degree(divisor))
        BY <1>1, <1>2, <2>2, <3>2, DegreeIs DEF Divisible
      <4>2. Degree(r') <= Degree(r)
        BY <2>2, <4>1
      <4> QED
        BY <4>1, <4>2
    <3> QED
      BY <3>1, <3>2
  <2>5. DivisionTypeOK' /\ InTheLoop'
    BY <1>1, <1>2, <2>1, <2>2 DEF DivisionTypeOK, InTheLoop
  <2>6. DivisionIsRight'
    BY <1>2, <2>1, <2>2, <2>3, <2>4 DEF DivisionIsRight
  <2> QED
    BY <2>5, <2>6 DEF DivisionInv
<1>4. CASE Add(Mul(q, divisor), r) # dividend
  <2>1. pc' = "aborted" /\ q' = q /\ r' = r
    BY <1>4 DEF Finish
  <2>2. ASSUME IsNormal(dividend) PROVE FALSE
    <3>1. IsNormal(r) /\ AddsUp
      BY <1>2, <2>2 DEF DivisionInv, InTheLoop, Stuck
    <3>2. Same(Add(Mul(q, divisor), r), dividend)
      BY <1>1, <3>1, MulAddIs DEF AddsUp, Same
    <3> QED
      BY <1>1, <1>4, <2>2, <3>2, MulAddIs, NormalEqual
  <2>3. DivisionTypeOK' /\ InTheLoop' /\ DivisionIsRight'
    BY <1>1, <1>2, <2>1, <2>2 DEF DivisionTypeOK, InTheLoop, DivisionIsRight
  <2> QED
    BY <2>3 DEF DivisionInv
<1> QED
  BY <1>3, <1>4

LEMMA DivideKeeps ==
  ASSUME NEW p \in Poly, NEW s \in Poly, Divide(p, s)
  PROVE  DivisionInv'
<1>1. <<>> \in Poly
  BY DEF Poly
<1> QED
  BY <1>1 DEF Divide, DivisionInv, DivisionTypeOK, InTheLoop, DivisionIsRight

LEMMA DivisionUnchanged ==
  ASSUME DivisionInv, UNCHANGED divisionVars
  PROVE  DivisionInv'
BY DEF divisionVars, DivisionInv, DivisionTypeOK, InTheLoop, DivisionIsRight, AddsUp, Divisor, Stuck

-----------------------------------------------------------------------------
(* The actions.                                                             *)

\* The arguments of requests on polynomials, and the variables of pow.
RequestTypeOK ==
  /\ request.action \in {"gcm_poly_add", "gcm_poly_mul", "gcm_poly_div", "gcm_poly_mod", "gcm_poly_gcd"} =>
       request.a \in Poly /\ request.b \in Poly
  /\ request.action \in {"gcm_poly_pow", "gcm_poly_powmod"} => request.base \in Poly
  /\ request.action = "gcm_poly_powmod" => request.modulo \in Poly

PowTypeOK ==
  /\ at \in {"pow", "base", "out"} =>
       base \in Poly /\ out \in Poly /\ request.action \in {"gcm_poly_pow", "gcm_poly_powmod"}
  /\ at \in {"base", "out"} => request.action = "gcm_poly_powmod"

\* The inductive invariant.
IInv == RequestTypeOK /\ PowTypeOK /\ DivisionInv

LEMMA InitIsInv == Init => IInv
<1> SUFFICES ASSUME Init PROVE IInv
  OBVIOUS
<1>1. RequestTypeOK
  BY ArithmeticAssumption DEF Init, RequestTypeOK, Poly
<1>2. PowTypeOK
  BY DEF Init, PowTypeOK
<1>3. DivisionInv
  BY DEF Init, DivisionInv, DivisionTypeOK, InTheLoop, DivisionIsRight, Poly
<1> QED
  BY <1>1, <1>2, <1>3 DEF IInv

\* What returns, fails or computes with blocks leaves the division alone and
\* is no step of pow.
LEMMA OthersKeep ==
  ASSUME IInv, request' = request, UNCHANGED divisionVars, at' \notin {"pow", "base", "out"}
  PROVE  IInv'
<1>1. DivisionInv'
  BY DivisionUnchanged DEF IInv
<1>2. RequestTypeOK' /\ PowTypeOK'
  BY DEF IInv, RequestTypeOK, PowTypeOK
<1> QED
  BY <1>1, <1>2 DEF IInv

LEMMA GcdOfKeeps ==
  ASSUME IInv, NEW p \in Poly, NEW s \in Poly, GcdOf(p, s)
  PROVE  IInv'
<1>1. CASE s = <<>>
  BY <1>1, OthersKeep DEF GcdOf, Return
<1>2. CASE s # <<>>
  <2>1. Divide(p, s) /\ at' = "gcd" /\ request' = request
    BY <1>2 DEF GcdOf, DivideFor
  <2>2. DivisionInv'
    BY <2>1, DivideKeeps
  <2>3. RequestTypeOK' /\ PowTypeOK'
    BY <2>1 DEF IInv, RequestTypeOK, PowTypeOK
  <2> QED
    BY <2>2, <2>3 DEF IInv
<1> QED
  BY <1>1, <1>2

LEMMA DividingKeeps ==
  ASSUME IInv, Dividing
  PROVE  IInv'
<1>1. request' = request /\ at' = at /\ base' = base /\ out' = out /\ DivisionStep
  BY DEF Dividing, loopVars
<1>2. DivisionInv'
  BY <1>1, StartKeeps, RoundKeepsInv, NoDivisorKeeps, FinishKeeps DEF DivisionStep, IInv
<1>3. RequestTypeOK' /\ PowTypeOK'
  BY <1>1 DEF IInv, RequestTypeOK, PowTypeOK
<1> QED
  BY <1>2, <1>3 DEF IInv

LEMMA PowKeeps ==
  ASSUME IInv, StartPow \/ gcm_poly_pow \/ gcm_poly_powmod \/ BaseReduced \/ OutReduced \/ PowDone
  PROVE  IInv'
<1>1. CASE StartPow
  <2>1. CASE Unsigned(request.exponent)
    <3>1. /\ request.action \in {"gcm_poly_pow", "gcm_poly_powmod"} /\ request' = request
          /\ out' = <<one>> /\ base' = request.base /\ at' = "pow" /\ UNCHANGED divisionVars
      BY <1>1, <2>1 DEF StartPow, Called
    <3>2. request.base \in Poly /\ <<one>> \in Poly
      BY <3>1, ElementPlus DEF IInv, RequestTypeOK, Poly
    <3>3. RequestTypeOK' /\ PowTypeOK'
      BY <3>1, <3>2 DEF IInv, RequestTypeOK, PowTypeOK
    <3> QED
      BY <3>1, <3>3, DivisionUnchanged DEF IInv
  <2>2. CASE ~Unsigned(request.exponent)
    BY <1>1, <2>2, OthersKeep DEF StartPow, Fail
  <2> QED
    BY <2>1, <2>2
<1>2. ASSUME at = "pow" PROVE base \in Poly /\ out \in Poly /\ Multiplied(base) \in Poly /\ Mul(base, base) \in Poly
  BY <1>2, MulIs DEF IInv, PowTypeOK, Multiplied
<1>3. CASE gcm_poly_pow
  <2>1. at = "pow" /\ request' = request /\ at' = "pow" /\ UNCHANGED divisionVars
        /\ out' = Multiplied(base) /\ base' = Mul(base, base)
    BY <1>3 DEF gcm_poly_pow
  <2>2. RequestTypeOK' /\ PowTypeOK'
    BY <1>2, <2>1 DEF IInv, RequestTypeOK, PowTypeOK
  <2> QED
    BY <2>1, <2>2, DivisionUnchanged DEF IInv
<1>4. CASE gcm_poly_powmod
  <2>1. at = "pow" /\ request.action = "gcm_poly_powmod" /\ request' = request /\ at' = "base"
        /\ Divide(Mul(base, base), request.modulo)
        /\ out' = Multiplied(base) /\ base' = Mul(base, base)
    BY <1>4 DEF gcm_poly_powmod, DivideFor
  <2>2. RequestTypeOK' /\ PowTypeOK'
    BY <1>2, <2>1 DEF IInv, RequestTypeOK, PowTypeOK
  <2>3. DivisionInv'
    BY <1>2, <2>1, DivideKeeps DEF IInv, RequestTypeOK
  <2> QED
    BY <2>2, <2>3 DEF IInv
<1>5. CASE BaseReduced
  <2>1. at = "base" /\ request' = request /\ at' = "out" /\ base' = r /\ out' = out
        /\ Divide(out, request.modulo)
    BY <1>5 DEF BaseReduced, DivideFor
  <2>2. r \in Poly /\ out \in Poly /\ request.action = "gcm_poly_powmod" /\ request.modulo \in Poly
    BY <2>1 DEF IInv, DivisionInv, DivisionTypeOK, PowTypeOK, RequestTypeOK
  <2>3. RequestTypeOK' /\ PowTypeOK'
    BY <2>1, <2>2 DEF IInv, RequestTypeOK, PowTypeOK
  <2>4. DivisionInv'
    BY <2>1, <2>2, DivideKeeps
  <2> QED
    BY <2>3, <2>4 DEF IInv
<1>6. CASE OutReduced
  <2>1. at = "out" /\ request' = request /\ at' = "pow" /\ out' = r /\ base' = base /\ UNCHANGED divisionVars
    BY <1>6 DEF OutReduced
  <2>2. r \in Poly
    BY DEF IInv, DivisionInv, DivisionTypeOK
  <2>3. RequestTypeOK' /\ PowTypeOK'
    BY <2>1, <2>2 DEF IInv, RequestTypeOK, PowTypeOK
  <2> QED
    BY <2>1, <2>3, DivisionUnchanged DEF IInv
<1>7. CASE PowDone
  BY <1>7, OthersKeep DEF PowDone, Return
<1> QED
  BY <1>1, <1>3, <1>4, <1>5, <1>6, <1>7

LEMMA StepKeepsInv == IInv /\ [Next]_vars => IInv'
<1> SUFFICES ASSUME IInv, [Next]_vars PROVE IInv'
  OBVIOUS
<1>1. CASE gcm_block2poly \/ gcm_poly2block \/ gcm_clmul \/ BlockDivided \/ gcm_poly_add \/ gcm_poly_mul
           \/ DivisionReturned \/ DivisionFailed
  BY <1>1, OthersKeep
     DEF gcm_block2poly, gcm_poly2block, gcm_clmul, BlockDivided, gcm_poly_add, gcm_poly_mul,
         DivisionReturned, DivisionFailed, Return, Fail
<1>2. CASE BlockDivide \/ BlockPowRound
  BY <1>2, OthersKeep DEF BlockDivide, BlockPowRound
<1>3. CASE gcm_poly_divmod
  <2>1. request.action \in {"gcm_poly_div", "gcm_poly_mod"} /\ request' = request /\ at' = "divide"
        /\ Divide(request.a, request.b)
    BY <1>3 DEF gcm_poly_divmod, DivideFor, Called
  <2>2. request.a \in Poly /\ request.b \in Poly
    BY <2>1 DEF IInv, RequestTypeOK
  <2>3. DivisionInv'
    BY <2>1, <2>2, DivideKeeps
  <2>4. RequestTypeOK' /\ PowTypeOK'
    BY <2>1 DEF IInv, RequestTypeOK, PowTypeOK
  <2> QED
    BY <2>3, <2>4 DEF IInv
<1>4. CASE gcm_poly_gcd
  <2>1. request.a \in Poly /\ request.b \in Poly
    BY <1>4 DEF gcm_poly_gcd, Called, IInv, RequestTypeOK
  <2> QED
    BY <1>4, <2>1, GcdOfKeeps DEF gcm_poly_gcd
<1>5. CASE GcdRound
  <2>1. divisor \in Poly /\ r \in Poly
    BY DEF IInv, DivisionInv, DivisionTypeOK
  <2> QED
    BY <1>5, <2>1, GcdOfKeeps DEF GcdRound
<1>6. CASE StartPow \/ gcm_poly_pow \/ gcm_poly_powmod \/ BaseReduced \/ OutReduced \/ PowDone
  BY <1>6, PowKeeps
<1>7. CASE Dividing
  BY <1>7, DividingKeeps
<1>8. CASE UNCHANGED vars
  <2>1. request' = request /\ at' = at /\ base' = base /\ out' = out /\ UNCHANGED divisionVars
    BY <1>8 DEF vars, loopVars
  <2>2. RequestTypeOK' /\ PowTypeOK'
    BY <2>1 DEF IInv, RequestTypeOK, PowTypeOK
  <2> QED
    BY <2>1, <2>2, DivisionUnchanged DEF IInv
<1> QED
  BY <1>1, <1>2, <1>3, <1>4, <1>5, <1>6, <1>7, <1>8 DEF Next

\* Of every division, whichever action takes it, quotient times divisor and the
\* remainder add up to the dividend after each round.
THEOREM Invariance == Spec => []IInv
<1>1. Init => IInv
  BY InitIsInv
<1>2. IInv /\ [Next]_vars => IInv'
  BY StepKeepsInv
<1> QED
  BY <1>1, <1>2, PTL DEF Spec

\* Division.tla's divmod, wherever an action calls it: quotient times divisor
\* and remainder are the dividend, the remainder is short, and the assertion
\* only fails for a dividend that leads with zeros.
THEOREM DivisionIsAlwaysRight == Spec => []DivisionIsRight
<1>1. IInv => DivisionIsRight
  BY DEF IInv, DivisionInv
<1> QED
  BY <1>1, Invariance, PTL

LEMMA StepShortens ==
  ASSUME IInv, [Next]_vars
  PROVE  [pc = "loop" /\ pc' = "loop" /\ IsNormal(divisor) => Len(r') < Len(r)]_divisionVars
<1> SUFFICES ASSUME pc = "loop", pc' = "loop", IsNormal(divisor), ~UNCHANGED divisionVars
             PROVE  Len(r') < Len(r)
  OBVIOUS
<1>1. ~\E p, s : Divide(p, s)
  BY DEF Divide
<1>2. Dividing
  BY <1>1
     DEF Next, vars, gcm_block2poly, gcm_poly2block, gcm_clmul, BlockDivide, BlockPowRound, BlockDivided,
         gcm_poly_add, gcm_poly_mul, gcm_poly_divmod, DivisionReturned, gcm_poly_gcd, GcdRound, GcdOf,
         StartPow, gcm_poly_pow, gcm_poly_powmod, BaseReduced, OutReduced, PowDone, DivisionFailed,
         Return, Fail, DivideFor
<1>3. Round
  BY <1>2 DEF Dividing, DivisionStep, Start, NoDivisor, Finish
<1>4. /\ q \in Poly /\ r \in Poly /\ divisor \in Poly /\ divisor # <<>>
      /\ Divisible(r, divisor) /\ Degree(r) - Degree(divisor) + 1 <= Len(q)
      /\ r' = DivisionRound([q |-> q, r |-> r], divisor).r
  BY <1>3, RoundInLoop DEF IInv
<1>5. Lead(divisor) # zero
  BY <1>4 DEF IsNormal
<1> QED
  BY <1>4, <1>5, RoundShortens

\* The loop of divmod ends: a round shortens the remainder, by a divisor that
\* has a leading coefficient.
THEOREM RoundsAlwaysShorten == Spec => RoundsShorten
<1>1. IInv /\ [Next]_vars =>
        [pc = "loop" /\ pc' = "loop" /\ IsNormal(divisor) => Len(r') < Len(r)]_divisionVars
  BY StepShortens
<1> QED
  BY <1>1, Invariance, PTL DEF Spec, RoundsShorten

-----------------------------------------------------------------------------
(* The values of what is returned.                                          *)

\* The functions of ValueToThe.
Squares(a) ==
  LET square[k \in 0 .. 63] ==
        IF k = 0 THEN a ELSE LET s == square[k - 1] IN Times(s, s)
  IN square

PowersUpTo(a, n) ==
  LET upTo[k \in 0 .. 64] ==
        IF k = 0 THEN one
        ELSE IF k - 1 \in n THEN Times(upTo[k - 1], Squares(a)[k - 1]) ELSE upTo[k - 1]
  IN upTo

LEMMA SquaresAre ==
  ASSUME NEW a \in Element
  PROVE  /\ Squares(a)[0] = a
         /\ \A k \in 1 .. 63 : Squares(a)[k] = Times(Squares(a)[k - 1], Squares(a)[k - 1])
         /\ \A k \in 0 .. 63 : Squares(a)[k] \in Element
<1> DEFINE step == [k \in 1 .. 63 |-> [s \in Element |-> Times(s, s)]]
           Rule(h) == [k \in 0 .. 63 |-> IF k = 0 THEN a ELSE Times(h[k - 1], h[k - 1])]
           square == CHOOSE h : h = Rule(h)
<1>1. step \in [1 .. 63 -> [Element -> Element]]
  BY TimesIs
<1>2. PICK g \in [0 .. 63 -> Element] : Runs(g, a, step, 63)
  <2> HIDE DEF step
  <2> QED
    BY <1>1, Recursion
<1>3. g[0] = a /\ \A k \in 1 .. 63 : g[k] = Times(g[k - 1], g[k - 1])
  <2>1. ASSUME NEW k \in 1 .. 63 PROVE g[k] = Times(g[k - 1], g[k - 1])
    <3>1. g[k] = step[k][g[k - 1]] /\ k - 1 \in 0 .. 63
      BY <1>2 DEF Runs
    <3> QED
      BY <3>1
  <2> QED
    BY <1>2, <2>1 DEF Runs
<1>4. g = Rule(g)
  <2>1. \A k \in 0 .. 63 : g[k] = IF k = 0 THEN a ELSE Times(g[k - 1], g[k - 1])
    BY <1>3
  <2> QED
    BY <2>1
<1>5. square = Rule(square)
  <2> HIDE DEF Rule
  <2> QED
    BY <1>4
<1>6. Squares(a) = square
  BY DEF Squares
<1> HIDE DEF square, step
<1>7. \A k \in 0 .. 63 : square[k] = IF k = 0 THEN a ELSE Times(square[k - 1], square[k - 1])
  BY <1>5
<1> DEFINE T == {k \in 0 .. 63 : square[k] \in Element}
<1>8. 0 \in T
  BY <1>7
<1>9. ASSUME NEW k \in 0 .. 63 - 1, k \in T PROVE k + 1 \in T
  <2>1. k + 1 \in 0 .. 63 /\ k + 1 # 0 /\ (k + 1) - 1 = k
    OBVIOUS
  <2>2. square[k + 1] = Times(square[k], square[k])
    BY <1>7, <2>1
  <2> QED
    BY <1>9, <2>1, <2>2, TimesIs
<1> HIDE DEF T
<1>10. 0 .. 63 \subseteq T
  BY <1>8, <1>9, Induction
<1>11. \A k \in 0 .. 63 : square[k] \in Element
  BY <1>10 DEF T
<1>12. \A k \in 1 .. 63 : k \in 0 .. 63 /\ k # 0
  OBVIOUS
<1> QED
  BY <1>6, <1>7, <1>11, <1>12

LEMMA PowersUpToAre ==
  ASSUME NEW a \in Element, NEW n
  PROVE  /\ PowersUpTo(a, n)[0] = one
         /\ \A k \in 0 .. 63 : PowersUpTo(a, n)[k + 1] =
              IF k \in n THEN Times(PowersUpTo(a, n)[k], Squares(a)[k]) ELSE PowersUpTo(a, n)[k]
         /\ \A k \in 0 .. 64 : PowersUpTo(a, n)[k] \in Element
         /\ ValueToThe(a, n) = PowersUpTo(a, n)[64]
<1> DEFINE F == Squares(a)
           step == [k \in 1 .. 64 |-> [s \in Element |-> IF k - 1 \in n THEN Times(s, F[k - 1]) ELSE s]]
           Rule(h) == [k \in 0 .. 64 |-> IF k = 0 THEN one
                        ELSE IF k - 1 \in n THEN Times(h[k - 1], F[k - 1]) ELSE h[k - 1]]
           upTo == CHOOSE h : h = Rule(h)
<1>0. PowersUpTo(a, n) = upTo
  BY DEF PowersUpTo
<1>1. ValueToThe(a, n) = upTo[64]
  BY DEF ValueToThe, Squares
<1>2. \A k \in 0 .. 63 : F[k] \in Element
  BY SquaresAre
<1> HIDE DEF F
<1>3. step \in [1 .. 64 -> [Element -> Element]]
  <2>1. ASSUME NEW k \in 1 .. 64, NEW s \in Element
        PROVE  (IF k - 1 \in n THEN Times(s, F[k - 1]) ELSE s) \in Element
    <3>1. k - 1 \in 0 .. 63
      OBVIOUS
    <3> QED
      BY <1>2, <3>1, TimesIs
  <2> QED
    BY <2>1
<1>4. PICK g \in [0 .. 64 -> Element] : Runs(g, one, step, 64)
  <2> HIDE DEF step
  <2> QED
    BY <1>3, Recursion, ElementPlus
<1>5. \A k \in 0 .. 64 : g[k] = IF k = 0 THEN one
                        ELSE IF k - 1 \in n THEN Times(g[k - 1], F[k - 1]) ELSE g[k - 1]
  <2>1. ASSUME NEW k \in 1 .. 64 PROVE g[k] = IF k - 1 \in n THEN Times(g[k - 1], F[k - 1]) ELSE g[k - 1]
    <3>1. g[k] = step[k][g[k - 1]] /\ k - 1 \in 0 .. 64
      BY <1>4 DEF Runs
    <3> QED
      BY <3>1
  <2> QED
    BY <1>4, <2>1 DEF Runs
<1>6. g = Rule(g)
  BY <1>5
<1>7. upTo = Rule(upTo)
  <2> HIDE DEF Rule
  <2> QED
    BY <1>6
<1> HIDE DEF upTo, step
<1>8. \A k \in 0 .. 64 : upTo[k] = IF k = 0 THEN one
                        ELSE IF k - 1 \in n THEN Times(upTo[k - 1], F[k - 1]) ELSE upTo[k - 1]
  BY <1>7
<1>9. \A k \in 0 .. 63 : upTo[k + 1] = IF k \in n THEN Times(upTo[k], F[k]) ELSE upTo[k]
  <2>1. ASSUME NEW k \in 0 .. 63 PROVE upTo[k + 1] = IF k \in n THEN Times(upTo[k], F[k]) ELSE upTo[k]
    <3>1. k + 1 \in 0 .. 64 /\ k + 1 # 0 /\ (k + 1) - 1 = k
      OBVIOUS
    <3> QED
      BY <1>8, <3>1
  <2> QED
    BY <2>1
<1> DEFINE T == {k \in 0 .. 64 : upTo[k] \in Element}
<1>10. upTo[0] = one
  BY <1>8
<1>11. 0 \in T
  BY <1>10, ElementPlus
<1>12. ASSUME NEW k \in 0 .. 64 - 1, k \in T PROVE k + 1 \in T
  <2>1. k + 1 \in 0 .. 64 /\ k \in 0 .. 63
    OBVIOUS
  <2> QED
    BY <1>2, <1>9, <1>12, <2>1, TimesIs
<1> HIDE DEF T
<1>13. 0 .. 64 \subseteq T
  BY <1>11, <1>12, Induction
<1>14. \A k \in 0 .. 64 : upTo[k] \in Element
  BY <1>13 DEF T
<1> QED
  BY <1>0, <1>1, <1>9, <1>10, <1>14 DEF F

LEMMA OneNormal == <<one>> \in NormalPoly
<1>1. <<one>> \in Poly /\ <<one>> # <<>> /\ Len(<<one>>) = 1 /\ <<one>>[1] = one
  BY ElementPlus DEF Poly
<1>2. one # zero
  BY DEF one, zero
<1> QED
  BY <1>1, <1>2, NormalLength DEF NormalPoly

\* The functions of PolynomialToThe.
PolySquares(p) ==
  LET square[k \in 0 .. 63] ==
        IF k = 0 THEN ensure_normalized(p) ELSE LET s == square[k - 1] IN Mul(s, s)
  IN square

PolyPowersUpTo(p, n) ==
  LET upTo[k \in 0 .. 64] ==
        IF k = 0 THEN <<one>>
        ELSE IF k - 1 \in n THEN Mul(upTo[k - 1], PolySquares(p)[k - 1]) ELSE upTo[k - 1]
  IN upTo

LEMMA PolySquaresAre ==
  ASSUME NEW b \in Poly
  PROVE  /\ PolySquares(b)[0] = ensure_normalized(b)
         /\ \A k \in 1 .. 63 : PolySquares(b)[k] = Mul(PolySquares(b)[k - 1], PolySquares(b)[k - 1])
         /\ \A k \in 0 .. 63 : PolySquares(b)[k] \in NormalPoly
<1> DEFINE S == NormalPoly
           x == ensure_normalized(b)
           next(s) == Mul(s, s)
           step == [k \in 1 .. 63 |-> [s \in S |-> next(s)]]
           Rule(h) == [k \in 0 .. 63 |-> IF k = 0 THEN x ELSE next(h[k - 1])]
           square == CHOOSE h : h = Rule(h)
<1>0. PolySquares(b) = square
  BY DEF PolySquares
<1>1. x \in S /\ \A s \in S : next(s) \in S
  BY NormalPolyIs, NormalizedIs DEF NormalPoly
<1> HIDE DEF S, x, next
<1>2. step \in [1 .. 63 -> [S -> S]]
  BY <1>1
<1>3. PICK g \in [0 .. 63 -> S] : Runs(g, x, step, 63)
  <2> HIDE DEF step
  <2> QED
    BY <1>1, <1>2, Recursion
<1>4. \A k \in 0 .. 63 : g[k] = IF k = 0 THEN x ELSE next(g[k - 1])
  <2>0. \A k \in 1 .. 63 : k - 1 \in 0 .. 63
    OBVIOUS
  <2>1. \A k \in 1 .. 63 : k - 1 \in 0 .. 63 /\ g[k - 1] \in S
    BY <2>0, Zenon
  <2>2. \A k \in 1 .. 63, s \in S : step[k][s] = next(s)
    OBVIOUS
  <2> HIDE DEF step
  <2>3. g[0] = x /\ \A k \in 1 .. 63 : g[k] = step[k][g[k - 1]]
    BY <1>3 DEF Runs
  <2>4. \A k \in 0 .. 63 : k # 0 => k \in 1 .. 63
    OBVIOUS
  <2> QED
    BY <2>1, <2>2, <2>3, <2>4
<1>5. g = Rule(g)
  BY <1>4
<1>6. square = Rule(square)
  <2> HIDE DEF Rule
  <2> QED
    BY <1>5
<1> HIDE DEF square, step
<1>7. \A k \in 1 .. 63 : k \in 0 .. 63 /\ k # 0
  OBVIOUS
<1>8. square[0] = x /\ \A k \in 1 .. 63 : square[k] = next(square[k - 1])
  BY <1>6, <1>7
<1>9. \A k \in 0 .. 63 : square[k] \in S
  <2>1. square[0] \in S /\ \A k \in 1 .. 63 : square[k - 1] \in S => square[k] \in S
    BY <1>1, <1>8
  <2> QED
    BY <2>1, StaysIn, ZenonT(30)
<1> QED
  BY <1>0, <1>8, <1>9 DEF S, x, next

\* What f is that takes the bits of n one by one.
PolyProducts(b, n, f) ==
  /\ f[0] = <<one>>
  /\ \A k \in 0 .. 63 :
       /\ k \in n => f[k + 1] = Mul(f[k], PolySquares(b)[k])
       /\ k \notin n => f[k + 1] = f[k]
  /\ \A k \in 0 .. 64 : f[k] \in NormalPoly

LEMMA PolyPowersUpToAre ==
  ASSUME NEW b \in Poly, NEW n
  PROVE  /\ PolyProducts(b, n, PolyPowersUpTo(b, n))
         /\ PolynomialToThe(b, n) = PolyPowersUpTo(b, n)[64]
<1> DEFINE S == NormalPoly
           F == PolySquares(b)
           x == <<one>>
           next(k, s) == IF k - 1 \in n THEN Mul(s, F[k - 1]) ELSE s
           step == [k \in 1 .. 64 |-> [s \in S |-> next(k, s)]]
           Rule(h) == [k \in 0 .. 64 |-> IF k = 0 THEN x ELSE next(k, h[k - 1])]
           upTo == CHOOSE h : h = Rule(h)
<1>0. PolyPowersUpTo(b, n) = upTo /\ PolynomialToThe(b, n) = upTo[64]
  BY DEF PolyPowersUpTo, PolynomialToThe, PolySquares
<1>1. \A k \in 0 .. 63 : F[k] \in S
  BY PolySquaresAre
<1> HIDE DEF F
<1>2. x \in S
  BY OneNormal
<1>3. \A k \in 1 .. 64, s \in S : next(k, s) \in S
  <2>1. ASSUME NEW k \in 1 .. 64, NEW s \in S PROVE next(k, s) \in S
    <3>1. k - 1 \in 0 .. 63
      OBVIOUS
    <3> QED
      BY <1>1, <3>1, NormalPolyIs
  <2> QED
    BY <2>1
<1> HIDE DEF S, x, next
<1>4. step \in [1 .. 64 -> [S -> S]]
  BY <1>3
<1>5. PICK g \in [0 .. 64 -> S] : Runs(g, x, step, 64)
  <2> HIDE DEF step
  <2> QED
    BY <1>2, <1>4, Recursion
<1>6. \A k \in 0 .. 64 : g[k] = IF k = 0 THEN x ELSE next(k, g[k - 1])
  <2>0. \A k \in 1 .. 64 : k - 1 \in 0 .. 64
    OBVIOUS
  <2>1. \A k \in 1 .. 64 : k - 1 \in 0 .. 64 /\ g[k - 1] \in S
    BY <2>0, Zenon
  <2>2. \A k \in 1 .. 64, s \in S : step[k][s] = next(k, s)
    OBVIOUS
  <2> HIDE DEF step
  <2>3. g[0] = x /\ \A k \in 1 .. 64 : g[k] = step[k][g[k - 1]]
    BY <1>5 DEF Runs
  <2>4. \A k \in 0 .. 64 : k # 0 => k \in 1 .. 64
    OBVIOUS
  <2> QED
    BY <2>1, <2>2, <2>3, <2>4
<1>7. g = Rule(g)
  BY <1>6
<1>8. upTo = Rule(upTo)
  <2> HIDE DEF Rule
  <2> QED
    BY <1>7
<1> HIDE DEF upTo, step
<1>9. \A k \in 1 .. 64 : k \in 0 .. 64 /\ k # 0
  OBVIOUS
<1>10. upTo[0] = x /\ \A k \in 1 .. 64 : upTo[k] = next(k, upTo[k - 1])
  BY <1>8, <1>9
<1>11. \A k \in 0 .. 64 : upTo[k] \in S
  <2>1. upTo[0] \in S /\ \A k \in 1 .. 64 : upTo[k - 1] \in S => upTo[k] \in S
    BY <1>2, <1>3, <1>10, ZenonT(30)
  <2> QED
    BY <2>1, StaysIn, ZenonT(30)
<1>12. ASSUME NEW k \in 0 .. 63 PROVE upTo[k + 1] = IF k \in n THEN Mul(upTo[k], F[k]) ELSE upTo[k]
  <2>1. k + 1 \in 1 .. 64 /\ (k + 1) - 1 = k
    OBVIOUS
  <2>2. upTo[k + 1] = next(k + 1, upTo[k])
    BY <1>10, <2>1
  <2> QED
    BY <2>1, <2>2 DEF next
<1>13. PolyProducts(b, n, upTo)
  BY <1>10, <1>11, <1>12 DEF PolyProducts, S, x, F
<1> QED
  BY <1>0, <1>13

\* What j rounds of pow leave of the exponent.
Above(n, j) == {k - j : k \in {b \in n : b >= j}}

LEMMA AboveIs ==
  ASSUME NEW n \in SUBSET (0 .. 63), NEW j \in 0 .. 64
  PROVE  /\ Above(n, 0) = n
         /\ (0 \in Above(n, j) <=> j \in n)
         /\ {k - 1 : k \in Above(n, j) \ {0}} = Above(n, j + 1)
         /\ Above(n, j) = {} => \A k \in j .. 63 : k \notin n
         /\ Above(n, j) # {} => j \in 0 .. 63
         /\ Above(n, j) \subseteq 0 .. 63
<1>1. Above(n, 0) = n
  <2>1. \A k \in n : k - 0 = k /\ k >= 0
    OBVIOUS
  <2> QED
    BY <2>1 DEF Above
<1>2. 0 \in Above(n, j) <=> j \in n
  <2>1. \A k \in n : k - j = 0 <=> k = j
    OBVIOUS
  <2>2. j >= j
    OBVIOUS
  <2> QED
    BY <2>1, <2>2 DEF Above
<1>3. {k - 1 : k \in Above(n, j) \ {0}} = Above(n, j + 1)
  <2>1. \A k \in n : (k - j) - 1 = k - (j + 1) /\ (k >= j + 1 <=> k >= j /\ k - j # 0)
    OBVIOUS
  <2>2. ASSUME NEW x \in {k - 1 : k \in Above(n, j) \ {0}} PROVE x \in Above(n, j + 1)
    <3>1. PICK k \in n : k >= j /\ k - j # 0 /\ x = (k - j) - 1
      BY <2>2 DEF Above
    <3> QED
      BY <2>1, <3>1 DEF Above
  <2>3. ASSUME NEW x \in Above(n, j + 1) PROVE x \in {k - 1 : k \in Above(n, j) \ {0}}
    <3>1. PICK k \in n : k >= j + 1 /\ x = k - (j + 1)
      BY <2>3 DEF Above
    <3>2. k - j \in Above(n, j) \ {0} /\ x = (k - j) - 1
      BY <2>1, <3>1 DEF Above
    <3> QED
      BY <3>2
  <2> QED
    BY <2>2, <2>3
<1>4. Above(n, j) = {} => \A k \in j .. 63 : k \notin n
  <2>1. \A k \in j .. 63 : k >= j
    OBVIOUS
  <2> QED
    BY <2>1 DEF Above
<1>5. Above(n, j) # {} => j \in 0 .. 63
  <2>1. \A k \in n : k >= j => j \in 0 .. 63
    OBVIOUS
  <2> QED
    BY <2>1 DEF Above
<1>6. Above(n, j) \subseteq 0 .. 63
  <2>1. \A k \in n : k >= j => k - j \in 0 .. 63
    OBVIOUS
  <2> QED
    BY <2>1 DEF Above
<1> QED
  BY <1>1, <1>2, <1>3, <1>4, <1>5, <1>6

\* n has no bit from j on; f only changes where n has a bit.
NoBitsFrom(n, j) == \A k \in j .. 63 : k \notin n

ChangesOnlyAt(n, f) == \A k \in 0 .. 63 : k \notin n => f[k + 1] = f[k]

\* What the bits from j on do not change.
LEMMA NoBitsAbove ==
  ASSUME NEW n, NEW j \in 0 .. 64, NoBitsFrom(n, j), NEW f, ChangesOnlyAt(n, f)
  PROVE  f[64] = f[j]
<1> USE DEF NoBitsFrom, ChangesOnlyAt
<1> DEFINE m == 64 - j
           T == {d \in 0 .. m : f[j + d] = f[j]}
<1>1. m \in Nat /\ j + m = 64 /\ j + 0 = j /\ 0 \in 0 .. m /\ m \in 0 .. m
  OBVIOUS
<1>2. 0 \in T
  BY <1>1
<1>3. ASSUME NEW d \in 0 .. m - 1, d \in T PROVE d + 1 \in T
  <2>1. d + 1 \in 0 .. m /\ j + d \in j .. 63 /\ j + d \in 0 .. 63 /\ j + (d + 1) = (j + d) + 1
    OBVIOUS
  <2>2. f[(j + d) + 1] = f[j + d]
    BY <2>1
  <2> QED
    BY <1>3, <2>1, <2>2
<1> HIDE DEF T, m
<1>4. 0 .. m \subseteq T
  BY <1>1, <1>2, <1>3, Induction
<1>5. m \in T
  BY <1>1, <1>4
<1> QED
  BY <1>1, <1>5 DEF T

\* Which request is at what.
ActionOK ==
  /\ at = "divide" => request.action \in {"gcm_poly_div", "gcm_poly_mod"}
  /\ at = "gcd" => request.action = "gcm_poly_gcd"
  /\ at = "block" => request.action = "operator/="

\* After j rounds of pow: out is the product of the powers for the bits below
\* j, and base the power for bit j, as polynomials and at every point.
PowAfter(j) ==
  /\ request.exponent \subseteq 0 .. 63
  /\ exponent = Above(request.exponent, j)
  /\ out = PolyPowersUpTo(request.base, request.exponent)[j]
  /\ j <= 63 => ensure_normalized(base) = PolySquares(request.base)[j]
  /\ \A x \in Element :
       LET a == ValueAt(request.base, x)
       IN /\ ValueAt(out, x) = PowersUpTo(a, request.exponent)[j]
          /\ j <= 63 => ValueAt(base, x) = Squares(a)[j]

PowValues == at = "pow" /\ request.action = "gcm_poly_pow" => \E j \in 0 .. 64 : PowAfter(j)

\* The inductive invariant of ValuesAreRight.
ValuesInv == ActionOK /\ PowValues /\ ValuesAreRight

LEMMA SumIsRight ==
  ASSUME NEW p \in Poly, NEW s \in Poly
  PROVE  /\ IsNormal(Add(p, s))
         /\ \A k \in 1 .. Len(Add(p, s)) + Len(p) + Len(s) :
              Coefficient(Add(p, s), k) = Plus(Coefficient(p, k), Coefficient(s, k))
         /\ \A x \in Element : ValueAt(Add(p, s), x) = Plus(ValueAt(p, x), ValueAt(s, x))
<1>1. \A k \in 1 .. Len(Add(p, s)) + Len(p) + Len(s) : k \in Nat \ {0}
  OBVIOUS
<1> QED
  BY <1>1, AddIs, ValueAdds

\* The zeros that a factor leads with do not matter.
LEMMA MulOfNormalized ==
  ASSUME NEW a \in Poly, NEW b \in Poly
  PROVE  Mul(a, b) = Mul(ensure_normalized(a), ensure_normalized(b))
<1> DEFINE p == ensure_normalized(a)
           s == ensure_normalized(b)
<1>1. p \in Poly /\ s \in Poly /\ Same(p, a) /\ Same(s, b)
  BY NormalizedIs
<1> HIDE DEF p, s
<1>2. Mul(p, b) = Mul(a, b) /\ Mul(s, p) = Mul(b, p)
  BY <1>1, MulSame
<1>3. Mul(p, b) = Mul(b, p) /\ Mul(p, s) = Mul(s, p)
  BY <1>1, MulCommutes
<1> QED
  BY <1>2, <1>3 DEF p, s

LEMMA ProductIsRight ==
  ASSUME NEW a \in Poly, NEW b \in Poly
  PROVE  LET p == ensure_normalized(a)
             s == ensure_normalized(b)
         IN /\ IsNormal(Mul(a, b))
            /\ IF p = <<>> \/ s = <<>> THEN Mul(a, b) = <<>>
               ELSE /\ Len(Mul(a, b)) = Len(p) + Len(s) - 1
                    /\ Lead(Mul(a, b)) = Times(Lead(p), Lead(s))
            /\ \A x \in Element : ValueAt(Mul(a, b), x) = Times(ValueAt(p, x), ValueAt(s, x))
<1> DEFINE p == ensure_normalized(a)
           s == ensure_normalized(b)
<1>1. p \in Poly /\ s \in Poly /\ IsNormal(p) /\ IsNormal(s)
  BY NormalizedIs
<1>2. Mul(a, b) = Mul(p, s)
  BY MulOfNormalized
<1> HIDE DEF p, s
<1>3. IsNormal(Mul(p, s)) /\ \A x \in Element : ValueAt(Mul(p, s), x) = Times(ValueAt(p, x), ValueAt(s, x))
  BY <1>1, MulIs, ValueOfMul
<1>4. IF p = <<>> \/ s = <<>> THEN Mul(p, s) = <<>>
      ELSE Len(Mul(p, s)) = Len(p) + Len(s) - 1 /\ Lead(Mul(p, s)) = Times(Lead(p), Lead(s))
  <2>1. p = <<>> => Mul(p, s) = <<>>
    BY <1>1, MulEmpty
  <2>2. s = <<>> => Mul(p, s) = <<>>
    BY <1>1, MulEmpty, MulCommutes
  <2>3. p # <<>> /\ s # <<>> =>
          Len(Mul(p, s)) = Len(p) + Len(s) - 1 /\ Lead(Mul(p, s)) = Times(Lead(p), Lead(s))
    BY <1>1, MulLength
  <2> QED
    BY <2>1, <2>2, <2>3
<1> QED
  BY <1>2, <1>3, <1>4 DEF p, s

\* 1, as the first out of pow.
LEMMA ValueOfOne ==
  /\ <<one>> \in Poly
  /\ \A x \in Element : ValueAt(<<one>>, x) = one
<1>1. <<one>> \in Poly /\ <<one>> # <<>>
  BY ElementPlus DEF Poly
<1>2. ASSUME NEW x \in Element PROVE ValueAt(<<one>>, x) = one
  <2>1. Tail(<<one>>) \in Poly /\ Len(Tail(<<one>>)) = 0
    <3> DEFINE p == <<one>>
    <3>1. Len(p) = 1 /\ p \in Poly /\ p # <<>>
      BY <1>1
    <3> HIDE DEF p
    <3>2. Tail(p) \in Poly /\ Len(Tail(p)) = Len(p) - 1
      BY <3>1, TailIs
    <3>3. Len(Tail(p)) = 0
      BY <3>1, <3>2
    <3> QED
      BY <3>2, <3>3 DEF p
  <2>2. Tail(<<one>>) = <<>>
    BY <2>1, DegreeIs
  <2>3. <<one>>[1] = one
    OBVIOUS
  <2>4. Coefficient(<<one>>, 1) = one
    BY <1>1, <2>3, TailIs
  <2>5. ValueAt(<<>>, x) = zero
    BY <2>1, <2>2, ValueOfRest
  <2>6. ValueAt(<<one>>, x) = Plus(one, Times(x, zero))
    BY <1>1, <2>2, <2>4, <2>5, ValueOfRest DEF Rest
  <2>7. Times(x, zero) = zero
    BY TimesZeroOne
  <2>8. Plus(one, zero) = one
    BY PlusLaws DEF zero
  <2> QED
    BY <2>6, <2>7, <2>8
<1> QED
  BY <1>1, <1>2

LEMMA StartPowValues ==
  ASSUME IInv, StartPow, Unsigned(request.exponent)
  PROVE  PowAfter(0)'
<1>1. /\ request.action \in {"gcm_poly_pow", "gcm_poly_powmod"} /\ request' = request
      /\ out' = <<one>> /\ base' = request.base /\ exponent' = request.exponent
  BY DEF StartPow, Called
<1>2. request.base \in Poly /\ request.exponent \subseteq 0 .. 63
  BY <1>1 DEF IInv, RequestTypeOK, Unsigned
<1>3. ASSUME NEW x \in Element
      PROVE  LET a == ValueAt(request.base, x)
             IN /\ ValueAt(<<one>>, x) = PowersUpTo(a, request.exponent)[0]
                /\ ValueAt(request.base, x) = Squares(a)[0]
  <2>1. ValueAt(request.base, x) \in Element /\ ValueAt(<<one>>, x) = one
    BY <1>2, ValueOfOne, ValueOfRest
  <2>2. \A a \in Element : Squares(a)[0] = a /\ PowersUpTo(a, request.exponent)[0] = one
    BY SquaresAre, PowersUpToAre
  <2> QED
    BY <2>1, <2>2
<1>4. 0 \in 0 .. 64
  OBVIOUS
<1>5. Above(request.exponent, 0) = request.exponent
  BY <1>2, <1>4, AboveIs
<1>6. /\ PolyPowersUpTo(request.base, request.exponent)[0] = <<one>>
      /\ PolySquares(request.base)[0] = ensure_normalized(request.base)
  BY <1>2, PolySquaresAre, PolyPowersUpToAre DEF PolyProducts
<1> QED
  BY <1>1, <1>2, <1>3, <1>5, <1>6 DEF PowAfter

LEMMA PowRoundValues ==
  ASSUME IInv, gcm_poly_pow, NEW j \in 0 .. 64, PowAfter(j)
  PROVE  j + 1 \in 0 .. 64 /\ PowAfter(j + 1)'
<1> DEFINE n == request.exponent
<1>1. /\ at = "pow" /\ request.action = "gcm_poly_pow" /\ request' = request /\ exponent # {}
      /\ out' = Multiplied(base) /\ base' = Mul(base, base) /\ exponent' = {k - 1 : k \in exponent \ {0}}
  BY DEF gcm_poly_pow
<1>2. base \in Poly /\ out \in Poly /\ request.base \in Poly
  BY <1>1 DEF IInv, PowTypeOK, RequestTypeOK
<1>3. n \in SUBSET (0 .. 63) /\ exponent = Above(n, j)
  BY DEF PowAfter
<1> HIDE DEF n
<1>4. j \in 0 .. 63 /\ (0 \in exponent <=> j \in n) /\ exponent' = Above(n, j + 1)
  BY <1>1, <1>3, AboveIs, SMTT(30)
<1>5. ASSUME NEW x \in Element
      PROVE  LET a == ValueAt(request.base, x)
             IN /\ ValueAt(out', x) = PowersUpTo(a, n)[j + 1]
                /\ j + 1 <= 63 => ValueAt(base', x) = Squares(a)[j + 1]
  <2> DEFINE a == ValueAt(request.base, x)
  <2>1. a \in Element
    BY <1>2, ValueOfRest
  <2>2. ValueAt(out, x) = PowersUpTo(a, n)[j] /\ ValueAt(base, x) = Squares(a)[j]
    BY <1>4 DEF PowAfter, n
  <2> HIDE DEF a
  <2>3. ValueAt(out', x) = PowersUpTo(a, n)[j + 1]
    <3>1. ValueAt(Mul(out, base), x) = Times(PowersUpTo(a, n)[j], Squares(a)[j])
      BY <1>2, <2>2, ValueOfMul
    <3>2. PowersUpTo(a, n)[j + 1] =
            IF j \in n THEN Times(PowersUpTo(a, n)[j], Squares(a)[j]) ELSE PowersUpTo(a, n)[j]
      BY <1>4, <2>1, PowersUpToAre, SMTT(30)
    <3>3. out' = IF j \in n THEN Mul(out, base) ELSE out
      BY <1>1, <1>4 DEF Multiplied
    <3>4. CASE j \in n
      BY <3>1, <3>2, <3>3, <3>4
    <3>5. CASE j \notin n
      BY <2>2, <3>2, <3>3, <3>5
    <3> QED
      BY <3>4, <3>5
  <2>4. ASSUME j + 1 <= 63 PROVE ValueAt(base', x) = Squares(a)[j + 1]
    <3>1. j + 1 \in 1 .. 63 /\ (j + 1) - 1 = j
      BY <1>4, <2>4
    <3>2. ValueAt(Mul(base, base), x) = Times(Squares(a)[j], Squares(a)[j])
      BY <1>2, <2>2, ValueOfMul
    <3> QED
      BY <1>1, <2>1, <3>1, <3>2, SquaresAre
  <2> QED
    BY <2>3, <2>4 DEF a
<1>6. j + 1 \in 0 .. 64
  BY <1>4
<1> DEFINE b == request.base
           square == PolySquares(b)
           upTo == PolyPowersUpTo(b, n)
<1>7. /\ out = upTo[j] /\ ensure_normalized(base) = square[j]
      /\ j + 1 <= 63 => square[j + 1] = Mul(square[j], square[j])
      /\ square[j] \in NormalPoly /\ upTo[j] \in NormalPoly
      /\ upTo[j + 1] = IF j \in n THEN Mul(upTo[j], square[j]) ELSE upTo[j]
  <2>1. out = upTo[j] /\ (j <= 63 => ensure_normalized(base) = square[j])
    BY DEF PowAfter, n
  <2>2. PolyProducts(b, n, upTo)
    BY <1>2, PolyPowersUpToAre
  <2>3. (\A k \in 1 .. 63 : square[k] = Mul(square[k - 1], square[k - 1])) /\ square[j] \in NormalPoly
    BY <1>2, <1>4, PolySquaresAre
  <2> HIDE DEF b, square, upTo
  <2>4. j <= 63 /\ j \in 0 .. 63 /\ (j + 1 <= 63 => j + 1 \in 1 .. 63 /\ (j + 1) - 1 = j)
    BY <1>4
  <2>5. square[j] \in NormalPoly /\ (j + 1 <= 63 => square[j + 1] = Mul(square[j], square[j]))
    BY <2>3, <2>4
  <2>6. j \in 0 .. 64 /\ j \in 0 .. 63
    BY <2>4
  <2>7. upTo[j] \in NormalPoly /\ upTo[j + 1] = IF j \in n THEN Mul(upTo[j], square[j]) ELSE upTo[j]
    <3>1. /\ j \in n => upTo[j + 1] = Mul(upTo[j], PolySquares(b)[j])
          /\ j \notin n => upTo[j + 1] = upTo[j]
          /\ upTo[j] \in NormalPoly
      BY <2>2, <2>6, Zenon DEF PolyProducts
    <3> QED
      BY <3>1 DEF square
  <2> QED
    BY <2>1, <2>4, <2>5, <2>7
<1> HIDE DEF b, square, upTo
<1>8. out' = upTo[j + 1]
  <2>1. ensure_normalized(out) = out
    BY <1>7, NormalPolyIs
  <2>2. Mul(out, base) = Mul(upTo[j], square[j])
    BY <1>2, <1>7, <2>1, MulOfNormalized
  <2> QED
    BY <1>1, <1>4, <1>7, <2>2 DEF Multiplied
<1>9. j + 1 <= 63 => ensure_normalized(base') = square[j + 1]
  <2>1. Mul(base, base) = Mul(square[j], square[j])
    BY <1>2, <1>7, MulOfNormalized
  <2>2. Mul(base, base) \in NormalPoly
    BY <1>2, NormalPolyIs
  <2>3. ensure_normalized(Mul(base, base)) = Mul(base, base)
    BY <2>2, NormalPolyIs
  <2> QED
    BY <1>1, <1>7, <2>1, <2>3
<1>10. PowAfter(j + 1)'
  BY <1>1, <1>3, <1>4, <1>5, <1>8, <1>9 DEF PowAfter, n, b, square, upTo
<1> QED
  BY <1>6, <1>10

LEMMA PowDoneValues ==
  ASSUME IInv, PowDone, request.action = "gcm_poly_pow", NEW j \in 0 .. 64, PowAfter(j)
  PROVE  /\ IsNormal(out)
         /\ out = PolynomialToThe(request.base, request.exponent)
         /\ \A x \in Element : ValueAt(out, x) = ValueToThe(ValueAt(request.base, x), request.exponent)
<1> DEFINE n == request.exponent
<1>1. exponent = {} /\ request.base \in Poly
  BY DEF PowDone, IInv, RequestTypeOK
<1>2. n \in SUBSET (0 .. 63) /\ exponent = Above(n, j)
  BY DEF PowAfter
<1> HIDE DEF n
<1>3. \A k \in j .. 63 : k \notin n
  BY <1>1, <1>2, AboveIs
<1>4. ASSUME NEW x \in Element PROVE ValueAt(out, x) = ValueToThe(ValueAt(request.base, x), n)
  <2> DEFINE a == ValueAt(request.base, x)
             f == PowersUpTo(a, n)
  <2>1. a \in Element
    BY <1>1, ValueOfRest
  <2>2. ValueAt(out, x) = f[j]
    BY DEF PowAfter, n
  <2> HIDE DEF a
  <2>3. (\A k \in 0 .. 63 : k \notin n => f[k + 1] = f[k]) /\ ValueToThe(a, n) = f[64]
    BY <2>1, PowersUpToAre, SMTT(30)
  <2> HIDE DEF f
  <2>4. f[64] = f[j]
    <3>1. NoBitsFrom(n, j)
      BY <1>3 DEF NoBitsFrom
    <3>2. ChangesOnlyAt(n, f)
      BY <2>3 DEF ChangesOnlyAt
    <3> QED
      BY <3>1, <3>2, NoBitsAbove
  <2> QED
    BY <2>2, <2>3, <2>4 DEF a
<1>5. IsNormal(out) /\ out = PolynomialToThe(request.base, n)
  <2> DEFINE f == PolyPowersUpTo(request.base, n)
  <2>1. PolyProducts(request.base, n, f) /\ PolynomialToThe(request.base, n) = f[64]
    BY <1>1, PolyPowersUpToAre
  <2>2. out = f[j]
    BY DEF PowAfter, n
  <2> HIDE DEF f
  <2>3. f[64] = f[j]
    <3>1. NoBitsFrom(n, j)
      BY <1>3 DEF NoBitsFrom
    <3>2. ChangesOnlyAt(n, f)
      BY <2>1 DEF ChangesOnlyAt, PolyProducts
    <3> QED
      BY <3>1, <3>2, NoBitsAbove
  <2>4. f[j] \in NormalPoly
    BY <2>1 DEF PolyProducts
  <2> QED
    BY <2>1, <2>2, <2>3, <2>4 DEF NormalPoly
<1> QED
  BY <1>4, <1>5 DEF n

\* A request whose values are not compared, or one that is not in pow and does
\* not return.
LEMMA OtherValues ==
  ASSUME ActionOK',
         \/ request'.action \notin {"gcm_poly_add", "gcm_poly_mul", "gcm_poly_pow"}
         \/ at' \notin {"pow", "returned"}
  PROVE  ValuesInv'
BY DEF ValuesInv, PowValues, ValuesAreRight, Returned

LEMMA PowStepValues ==
  ASSUME IInv, ValuesInv, StartPow \/ gcm_poly_pow \/ PowDone
  PROVE  ValuesInv'
<1>1. ActionOK' /\ request' = request
  BY DEF StartPow, gcm_poly_pow, PowDone, Return, Fail, ActionOK, ValuesInv
<1>2. CASE StartPow /\ Unsigned(request.exponent)
  <2>1. PowAfter(0)' /\ 0 \in 0 .. 64 /\ at' = "pow"
    BY <1>2, StartPowValues DEF StartPow
  <2>2. PowValues' /\ ValuesAreRight'
    BY <2>1 DEF PowValues, ValuesAreRight, Returned
  <2> QED
    BY <1>1, <2>2 DEF ValuesInv
<1>3. CASE StartPow /\ ~Unsigned(request.exponent)
  BY <1>1, <1>3, OtherValues DEF StartPow, Fail
<1>4. CASE gcm_poly_pow
  <2>1. at = "pow" /\ request.action = "gcm_poly_pow" /\ at' = "pow"
    BY <1>4 DEF gcm_poly_pow
  <2>2. PICK j \in 0 .. 64 : PowAfter(j)
    BY <2>1 DEF ValuesInv, PowValues
  <2>3. j + 1 \in 0 .. 64 /\ PowAfter(j + 1)'
    BY <1>4, <2>2, PowRoundValues
  <2>4. PowValues' /\ ValuesAreRight'
    BY <2>1, <2>3 DEF PowValues, ValuesAreRight, Returned
  <2> QED
    BY <1>1, <2>4 DEF ValuesInv
<1>5. CASE PowDone
  <2>1. at = "pow" /\ at' = "returned" /\ result' = out
    BY <1>5 DEF PowDone, Return
  <2>2. request.action \in {"gcm_poly_pow", "gcm_poly_powmod"}
    BY <2>1 DEF IInv, PowTypeOK
  <2>3. CASE request.action = "gcm_poly_powmod"
    BY <1>1, <2>3, OtherValues
  <2>4. CASE request.action = "gcm_poly_pow"
    <3>1. PICK j \in 0 .. 64 : PowAfter(j)
      BY <2>1, <2>4 DEF ValuesInv, PowValues
    <3>2. /\ IsNormal(out)
          /\ out = PolynomialToThe(request.base, request.exponent)
          /\ \A x \in Element : ValueAt(out, x) = ValueToThe(ValueAt(request.base, x), request.exponent)
      BY <1>5, <2>4, <3>1, PowDoneValues
    <3>3. PowValues' /\ ValuesAreRight'
      BY <1>1, <2>1, <2>4, <3>2 DEF PowValues, ValuesAreRight, Returned
    <3> QED
      BY <1>1, <3>3 DEF ValuesInv
  <2> QED
    BY <2>2, <2>3, <2>4
<1> QED
  BY <1>2, <1>3, <1>4, <1>5

LEMMA StepKeepsValues == IInv /\ ValuesInv /\ [Next]_vars => ValuesInv'
<1> SUFFICES ASSUME IInv, ValuesInv, [Next]_vars PROVE ValuesInv'
  OBVIOUS
<1>1. CASE gcm_block2poly \/ gcm_poly2block \/ gcm_clmul \/ BlockDivide \/ BlockPowRound \/ BlockDivided
  <2>1. request' = request /\ request.action \in {"gcm_block2poly", "gcm_poly2block", "gcm_clmul", "operator/="}
    BY <1>1 DEF gcm_block2poly, gcm_poly2block, gcm_clmul, BlockDivide, BlockPowRound, BlockDivided,
                Called, Return, Fail, ValuesInv, ActionOK
  <2>2. ActionOK'
    BY <1>1 DEF gcm_block2poly, gcm_poly2block, gcm_clmul, BlockDivide, BlockPowRound, BlockDivided,
                Called, Return, Fail, ValuesInv, ActionOK
  <2> QED
    BY <2>1, <2>2, OtherValues
<1>2. CASE gcm_poly_add
  <2>1. /\ at' = "returned" /\ result' = Add(request.a, request.b) /\ request' = request
        /\ request.action = "gcm_poly_add" /\ request.a \in Poly /\ request.b \in Poly
    BY <1>2 DEF gcm_poly_add, Called, Return, IInv, RequestTypeOK
  <2>2. ValuesAreRight' /\ PowValues' /\ ActionOK'
    BY <2>1, SumIsRight DEF ValuesAreRight, PowValues, ActionOK, Returned
  <2> QED
    BY <2>2 DEF ValuesInv
<1>3. CASE gcm_poly_mul
  <2>1. /\ at' = "returned" /\ result' = Mul(request.a, request.b) /\ request' = request
        /\ request.action = "gcm_poly_mul" /\ request.a \in Poly /\ request.b \in Poly
    BY <1>3 DEF gcm_poly_mul, Called, Return, IInv, RequestTypeOK
  <2>2. ValuesAreRight' /\ PowValues' /\ ActionOK'
    BY <2>1, ProductIsRight DEF ValuesAreRight, PowValues, ActionOK, Returned
  <2> QED
    BY <2>2 DEF ValuesInv
<1>4. CASE gcm_poly_divmod \/ DivisionReturned \/ gcm_poly_gcd \/ GcdRound
  <2>1. /\ request' = request
        /\ request.action \in {"gcm_poly_div", "gcm_poly_mod", "gcm_poly_gcd"}
        /\ at' \in {"divide", "gcd", "returned"}
        /\ (at' = "divide" => request.action \in {"gcm_poly_div", "gcm_poly_mod"})
        /\ (at' = "gcd" => request.action = "gcm_poly_gcd")
    BY <1>4 DEF gcm_poly_divmod, DivisionReturned, gcm_poly_gcd, GcdRound, GcdOf, DivideFor,
                Called, Return, ValuesInv, ActionOK
  <2>2. ActionOK'
    BY <2>1 DEF ActionOK
  <2> QED
    BY <2>1, <2>2, OtherValues
<1>5. CASE StartPow \/ gcm_poly_pow \/ PowDone
  BY <1>5, PowStepValues
<1>6. CASE gcm_poly_powmod \/ BaseReduced \/ OutReduced
  <2>1. request' = request /\ request.action = "gcm_poly_powmod" /\ at' \in {"base", "out", "pow"}
    BY <1>6 DEF gcm_poly_powmod, BaseReduced, OutReduced, DivideFor, IInv, PowTypeOK
  <2>2. ActionOK'
    BY <2>1 DEF ActionOK
  <2> QED
    BY <2>1, <2>2, OtherValues
<1>7. CASE Dividing
  <2>1. request' = request /\ at' = at /\ at \in {"divide", "gcd", "base", "out"}
    BY <1>7 DEF Dividing, InDivision
  <2>2. ActionOK'
    BY <2>1 DEF ActionOK, ValuesInv
  <2> QED
    BY <2>1, <2>2, OtherValues
<1>8. CASE DivisionFailed
  <2>1. at' = "failed"
    BY <1>8 DEF DivisionFailed, Fail
  <2>2. ActionOK'
    BY <2>1 DEF ActionOK
  <2> QED
    BY <2>1, <2>2, OtherValues
<1>9. CASE UNCHANGED vars
  BY <1>9 DEF vars, loopVars, ValuesInv, ActionOK, PowValues, PowAfter, ValuesAreRight, Returned
<1> QED
  BY <1>1, <1>2, <1>3, <1>4, <1>5, <1>6, <1>7, <1>8, <1>9 DEF Next

\* For every field, and polynomials of any length that lead with any zeros:
\* gcm_poly_add, gcm_poly_mul and gcm_poly_pow return normal polynomials with
\* the values that they must have; the sum has the coefficients, the product
\* the length and the leading coefficient that it must have; and the power is
\* exactly the product of the repeated squares of the base that the bits of
\* the exponent stand for.
THEOREM ValuesAreAlwaysRight == Spec => []ValuesAreRight
<1>1. Init => ValuesInv
  BY DEF Init, ValuesInv, ActionOK, PowValues, ValuesAreRight, Returned
<1>2. IInv /\ ValuesInv /\ [Next]_vars => ValuesInv'
  BY StepKeepsValues
<1>3. ValuesInv => ValuesAreRight
  BY DEF ValuesInv
<1> QED
  BY <1>1, <1>2, <1>3, Invariance, PTL DEF Spec

-----------------------------------------------------------------------------
(* pow modulo a polynomial.                                                 *)

\* The lanes of the shifted exponent: every bit moves down by one.
LEMMA NextExponentIs ==
  ASSUME NEW e \in SUBSET Bit
  PROVE  NextExponent(e) = {k - 1 : k \in e \ {0}}
<1>1. \A k \in Bit : (k + 32) % 32 = k % 32 /\ k % 32 \in 0 .. 31
  BY DEF Bit
<1>2. ASSUME NEW k \in Bit, k + 1 \in e PROVE k \in NextExponent(e)
  <2>1. CASE (k % 32) + 1 < 32
    BY <1>2, <2>1 DEF NextExponent, srli_epi32
  <2>2. CASE ~((k % 32) + 1 < 32)
    <3>1. k % 32 >= 31
      BY <1>1, <2>2
    <3>2. k + 1 <= 127
      BY <1>2 DEF Bit
    <3>3. k # 127 /\ k < 96
      BY <3>1, <3>2 DEF Bit
    <3>4. k + 8 * 4 \in Bit /\ k + 8 * 4 = k + 32 /\ (k + 32) - 31 = k + 1
      BY <3>3 DEF Bit
    <3>5. ((k + 32) % 32) >= 31
      BY <1>1, <3>1
    <3>6. k + 32 \in slli_epi32(e, 31)
      BY <1>2, <3>4, <3>5 DEF slli_epi32
    <3> QED
      BY <3>4, <3>6 DEF NextExponent, srli_si128
  <2> QED
    BY <2>1, <2>2
<1>3. ASSUME NEW k \in NextExponent(e) PROVE k \in Bit /\ k + 1 \in e
  <2>1. CASE k \in srli_epi32(e, 1)
    BY <2>1 DEF srli_epi32
  <2>2. CASE k \in srli_si128(slli_epi32(e, 31), 4)
    <3>1. k \in Bit /\ k + 8 * 4 \in slli_epi32(e, 31)
      BY <2>2 DEF srli_si128
    <3>2. (k + 8 * 4) - 31 \in e
      BY <3>1 DEF slli_epi32
    <3>3. (k + 8 * 4) - 31 = k + 1
      BY <3>1 DEF Bit
    <3> QED
      BY <3>1, <3>2, <3>3
  <2> QED
    BY <1>3, <2>1, <2>2 DEF NextExponent
<1>4. \A k \in e \ {0} : k - 1 \in Bit /\ (k - 1) + 1 = k
  BY DEF Bit
<1>5. \A k \in Bit : k + 1 # 0 /\ (k + 1) - 1 = k
  BY DEF Bit
<1>6. NextExponent(e) \subseteq {k - 1 : k \in e \ {0}}
  <2>1. ASSUME NEW k \in NextExponent(e) PROVE k \in {l - 1 : l \in e \ {0}}
    <3>1. k \in Bit /\ k + 1 \in e \ {0} /\ k = (k + 1) - 1
      BY <1>3, <1>5
    <3> QED
      BY <3>1
  <2> QED
    BY <2>1
<1>7. {k - 1 : k \in e \ {0}} \subseteq NextExponent(e)
  <2>1. ASSUME NEW k \in e \ {0} PROVE k - 1 \in NextExponent(e)
    BY <1>2, <1>4
  <2> QED
    BY <2>1
<1> QED
  BY <1>6, <1>7

\* The functions of PowerIsRight.
Remainder(p, m) == divmod(p, m).r

ModSquares(b, m) ==
  LET Mod(p) == divmod(p, m).r
      square[k \in 0 .. 63] ==
        IF k = 0 THEN Mod(ensure_normalized(b))
        ELSE LET s == square[k - 1] IN Mod(Mul(s, s))
  IN square

ModPowersUpTo(b, m, n) ==
  LET Mod(p) == divmod(p, m).r
      upTo[k \in 0 .. 64] ==
        IF k = 0 THEN Mod(<<one>>)
        ELSE IF k - 1 \in n THEN Mod(Mul(upTo[k - 1], ModSquares(b, m)[k - 1]))
        ELSE upTo[k - 1]
  IN upTo

LEMMA RemainderTyped ==
  ASSUME NEW m \in NormalPoly, m # <<>>
  PROVE  /\ \A p \in NormalPoly : Remainder(p, m) \in NormalPoly /\ Remainder(Remainder(p, m), m) = Remainder(p, m)
         /\ \A p, s \in NormalPoly : Remainder(Mul(p, s), m) \in NormalPoly
         /\ \A p, s \in NormalPoly : Remainder(Mul(p, s), m) = Remainder(Mul(Remainder(p, m), Remainder(s, m)), m)
<1>1. \A p \in NormalPoly : Remainder(p, m) \in NormalPoly /\ Remainder(Remainder(p, m), m) = Remainder(p, m)
  BY DivmodOfNormal, RemainderOfRemainder DEF Remainder
<1>2. \A p, s \in NormalPoly : Mul(p, s) \in NormalPoly
  BY NormalPolyIs
<1>3. \A p, s \in NormalPoly : Remainder(Mul(p, s), m) = Remainder(Mul(Remainder(p, m), Remainder(s, m)), m)
  BY RemainderOfMul DEF Remainder
<1> QED
  BY <1>1, <1>2, <1>3

LEMMA ModSquaresAre ==
  ASSUME NEW m \in NormalPoly, m # <<>>, NEW b \in Poly
  PROVE  /\ ModSquares(b, m)[0] = Remainder(ensure_normalized(b), m)
         /\ \A k \in 1 .. 63 :
              ModSquares(b, m)[k] = Remainder(Mul(ModSquares(b, m)[k - 1], ModSquares(b, m)[k - 1]), m)
         /\ \A k \in 0 .. 63 : ModSquares(b, m)[k] \in NormalPoly
<1> DEFINE S == NormalPoly
           x == Remainder(ensure_normalized(b), m)
           next(s) == Remainder(Mul(s, s), m)
           step == [k \in 1 .. 63 |-> [s \in S |-> next(s)]]
           Rule(h) == [k \in 0 .. 63 |-> IF k = 0 THEN x ELSE next(h[k - 1])]
           square == CHOOSE h : h = Rule(h)
<1>0. ModSquares(b, m) = square
  BY DEF ModSquares, Remainder
<1>1. x \in S /\ \A s \in S : next(s) \in S
  BY RemainderTyped, NormalizedIs DEF NormalPoly
<1> HIDE DEF S, x, next
<1>2. step \in [1 .. 63 -> [S -> S]]
  BY <1>1
<1>3. PICK g \in [0 .. 63 -> S] : Runs(g, x, step, 63)
  <2> HIDE DEF step
  <2> QED
    BY <1>1, <1>2, Recursion
<1>4. \A k \in 0 .. 63 : g[k] = IF k = 0 THEN x ELSE next(g[k - 1])
  <2>0. \A k \in 1 .. 63 : k - 1 \in 0 .. 63
    OBVIOUS
  <2>1. \A k \in 1 .. 63 : k - 1 \in 0 .. 63 /\ g[k - 1] \in S
    BY <2>0, Zenon
  <2>2. \A k \in 1 .. 63, s \in S : step[k][s] = next(s)
    OBVIOUS
  <2> HIDE DEF step
  <2>3. g[0] = x /\ \A k \in 1 .. 63 : g[k] = step[k][g[k - 1]]
    BY <1>3 DEF Runs
  <2>4. \A k \in 0 .. 63 : k # 0 => k \in 1 .. 63
    OBVIOUS
  <2> QED
    BY <2>1, <2>2, <2>3, <2>4
<1>5. g = Rule(g)
  BY <1>4
<1>6. square = Rule(square)
  <2> HIDE DEF Rule
  <2> QED
    BY <1>5
<1> HIDE DEF square, step
<1>7. \A k \in 1 .. 63 : k \in 0 .. 63 /\ k # 0
  OBVIOUS
<1>8. square[0] = x /\ \A k \in 1 .. 63 : square[k] = next(square[k - 1])
  BY <1>6, <1>7
<1>9. \A k \in 0 .. 63 : square[k] \in S
  <2>1. square[0] \in S /\ \A k \in 1 .. 63 : square[k - 1] \in S => square[k] \in S
    BY <1>1, <1>8
  <2> QED
    BY <2>1, StaysIn, ZenonT(30)
<1> QED
  BY <1>0, <1>8, <1>9 DEF S, x, next

\* What f is that takes the bits of n one by one.
ModProducts(b, m, n, f) ==
  /\ f[0] = Remainder(<<one>>, m)
  /\ \A k \in 0 .. 63 :
       /\ k \in n => f[k + 1] = Remainder(Mul(f[k], ModSquares(b, m)[k]), m)
       /\ k \notin n => f[k + 1] = f[k]
  /\ \A k \in 0 .. 64 : f[k] \in NormalPoly

LEMMA ModPowersUpToAre ==
  ASSUME NEW m \in NormalPoly, m # <<>>, NEW b \in Poly, NEW n \in SUBSET (0 .. 63)
  PROVE  ModProducts(b, m, n, ModPowersUpTo(b, m, n))
<1> DEFINE S == NormalPoly
           F == ModSquares(b, m)
           x == Remainder(<<one>>, m)
           next(k, s) == IF k - 1 \in n THEN Remainder(Mul(s, F[k - 1]), m) ELSE s
           step == [k \in 1 .. 64 |-> [s \in S |-> next(k, s)]]
           Rule(h) == [k \in 0 .. 64 |-> IF k = 0 THEN x ELSE next(k, h[k - 1])]
           upTo == CHOOSE h : h = Rule(h)
<1>0. ModPowersUpTo(b, m, n) = upTo
  BY DEF ModPowersUpTo, Remainder
<1>1. \A k \in 0 .. 63 : F[k] \in S
  BY ModSquaresAre
<1> HIDE DEF F
<1>2. x \in S
  <2>1. <<one>> \in NormalPoly
    BY OneNormal
  <2> QED
    BY <2>1, RemainderTyped
<1>3. \A k \in 1 .. 64, s \in S : next(k, s) \in S
  <2>1. ASSUME NEW k \in 1 .. 64, NEW s \in S PROVE next(k, s) \in S
    <3>1. k - 1 \in 0 .. 63
      OBVIOUS
    <3> QED
      BY <1>1, <3>1, RemainderTyped
  <2> QED
    BY <2>1
<1> HIDE DEF S, x, next
<1>4. step \in [1 .. 64 -> [S -> S]]
  BY <1>3
<1>5. PICK g \in [0 .. 64 -> S] : Runs(g, x, step, 64)
  <2> HIDE DEF step
  <2> QED
    BY <1>2, <1>4, Recursion
<1>6. \A k \in 0 .. 64 : g[k] = IF k = 0 THEN x ELSE next(k, g[k - 1])
  <2>0. \A k \in 1 .. 64 : k - 1 \in 0 .. 64
    OBVIOUS
  <2>1. \A k \in 1 .. 64 : k - 1 \in 0 .. 64 /\ g[k - 1] \in S
    BY <2>0, Zenon
  <2>2. \A k \in 1 .. 64, s \in S : step[k][s] = next(k, s)
    OBVIOUS
  <2> HIDE DEF step
  <2>3. g[0] = x /\ \A k \in 1 .. 64 : g[k] = step[k][g[k - 1]]
    BY <1>5 DEF Runs
  <2>4. \A k \in 0 .. 64 : k # 0 => k \in 1 .. 64
    OBVIOUS
  <2> QED
    BY <2>1, <2>2, <2>3, <2>4
<1>7. g = Rule(g)
  BY <1>6
<1>8. upTo = Rule(upTo)
  <2> HIDE DEF Rule
  <2> QED
    BY <1>7
<1> HIDE DEF upTo, step
<1>9. \A k \in 1 .. 64 : k \in 0 .. 64 /\ k # 0
  OBVIOUS
<1>10. upTo[0] = x /\ \A k \in 1 .. 64 : upTo[k] = next(k, upTo[k - 1])
  BY <1>8, <1>9
<1>11. \A k \in 0 .. 64 : upTo[k] \in S
  <2>1. upTo[0] \in S /\ \A k \in 1 .. 64 : upTo[k - 1] \in S => upTo[k] \in S
    BY <1>2, <1>3, <1>10, ZenonT(30)
  <2> QED
    BY <2>1, StaysIn, ZenonT(30)
<1>12. \A k \in 0 .. 63 : upTo[k + 1] = IF k \in n THEN Remainder(Mul(upTo[k], F[k]), m) ELSE upTo[k]
  <2>1. ASSUME NEW k \in 0 .. 63 PROVE upTo[k + 1] = IF k \in n THEN Remainder(Mul(upTo[k], F[k]), m) ELSE upTo[k]
    <3>1. k + 1 \in 1 .. 64 /\ (k + 1) - 1 = k
      OBVIOUS
    <3>2. upTo[k + 1] = next(k + 1, upTo[k])
      BY <1>10, <3>1
    <3> QED
      BY <3>1, <3>2 DEF next
  <2> QED
    BY <2>1
<1>13. ModProducts(b, m, n, upTo)
  <2>1. upTo[0] = Remainder(<<one>>, m) /\ \A k \in 0 .. 64 : upTo[k] \in NormalPoly
    BY <1>10, <1>11 DEF S, x
  <2>2. \A k \in 0 .. 63 :
          /\ k \in n => upTo[k + 1] = Remainder(Mul(upTo[k], ModSquares(b, m)[k]), m)
          /\ k \notin n => upTo[k + 1] = upTo[k]
    BY <1>12 DEF F
  <2> QED
    BY <2>1, <2>2 DEF ModProducts
<1> QED
  BY <1>0, <1>13

\* After j rounds of pow modulo a polynomial, before or after its reductions.
PowModAfter(j) ==
  /\ request.exponent \subseteq 0 .. 63
  /\ exponent = Above(request.exponent, j)
  /\ out \in NormalPoly
  /\ Remainder(out, request.modulo) = ModPowersUpTo(request.base, request.modulo, request.exponent)[j]
  /\ j <= 63 => Remainder(ensure_normalized(base), request.modulo) =
                  ModSquares(request.base, request.modulo)[j]

\* No round reduces what an exponent of zero returns; otherwise out has been
\* reduced when a round begins, except the first one.
PowModValues ==
  request.action = "gcm_poly_powmod" =>
    /\ at = "pow" /\ request.exponent = {} => out = <<one>> /\ exponent = {}
    /\ at \in {"base", "out"} => request.exponent # {}
    /\ request.modulo # <<>> /\ IsNormal(request.modulo) =>
         /\ at = "pow" =>
              \E j \in 0 .. 64 :
                PowModAfter(j) /\ (j > 0 => Remainder(out, request.modulo) = out)
         /\ at = "base" =>
              /\ \E j \in 1 .. 64 : PowModAfter(j)
              /\ base \in NormalPoly /\ dividend = base /\ divisor = request.modulo
         /\ at = "out" =>
              /\ \E j \in 1 .. 64 : PowModAfter(j)
              /\ dividend = out /\ divisor = request.modulo

\* The inductive invariant of PowerIsRight.
PowerInv == PowModValues /\ PowerIsRight

LEMMA PowerIsRightMeans ==
  PowerIsRight <=>
    (Returned("gcm_poly_powmod") =>
       IF request.exponent = {} THEN result = <<one>>
       ELSE request.modulo # <<>> /\ IsNormal(request.modulo) =>
              result = ModPowersUpTo(request.base, request.modulo, request.exponent)[64])
BY DEF PowerIsRight, ModPowersUpTo, ModSquares

\* What a division returns is divmod's remainder.
LEMMA DivisionReturnsRemainder ==
  ASSUME DivisionInv, pc = "done", dividend \in NormalPoly, divisor \in NormalPoly, divisor # <<>>
  PROVE  r \in NormalPoly /\ r = Remainder(dividend, divisor)
<1>1. /\ q \in Poly /\ r \in Poly /\ dividend \in Poly /\ divisor \in Poly
      /\ IsNormal(dividend) /\ IsNormal(q) /\ IsNormal(r)
      /\ ensure_normalized(Add(Mul(q, divisor), r)) = ensure_normalized(dividend)
      /\ Short(r, divisor)
  BY NormalPolyIs DEF DivisionInv, DivisionTypeOK, DivisionIsRight, Short
<1>2. r \in NormalPoly /\ q \in NormalPoly
  BY <1>1 DEF NormalPoly
<1>3. Mul(q, divisor) \in Poly /\ IsNormal(Mul(q, divisor))
  BY <1>1, MulIs
<1>4. dividend = Add(Mul(q, divisor), r)
  <2>1. Add(Mul(q, divisor), r) \in Poly /\ IsNormal(Add(Mul(q, divisor), r))
    BY <1>1, <1>3, AddIs
  <2> QED
    BY <1>1, <2>1, NormalizedSame
<1>5. Add(dividend, r) = Mul(q, divisor)
  <2>1. Add(Add(Mul(q, divisor), r), r) = Add(Mul(q, divisor), Add(r, r))
    BY <1>1, <1>3, AddLaws
  <2>2. Add(r, r) = <<>> /\ Add(Mul(q, divisor), <<>>) = Mul(q, divisor)
    BY <1>1, <1>3, AddLaws
  <2> QED
    BY <1>4, <2>1, <2>2
<1>6. DividedBy(Add(dividend, r), divisor)
  BY <1>2, <1>5 DEF DividedBy
<1>7. divmod(dividend, divisor).r = divmod(r, divisor).r
  BY <1>2, <1>6, RemaindersEqual
<1>8. divmod(r, divisor).r = r
  BY <1>1, <1>2, RemainderOfShort
<1> QED
  BY <1>2, <1>7, <1>8 DEF Remainder

LEMMA StartPowMod ==
  ASSUME IInv, StartPow, Unsigned(request.exponent), request.action = "gcm_poly_powmod"
  PROVE  PowModValues'
<1> DEFINE n == request.exponent
           m == request.modulo
           b == request.base
<1>1. /\ request' = request /\ at' = "pow"
      /\ out' = <<one>> /\ base' = b /\ exponent' = n
  BY DEF StartPow
<1>2. b \in Poly /\ m \in Poly /\ n \in SUBSET (0 .. 63)
  BY DEF IInv, RequestTypeOK, Unsigned
<1>3. Above(n, 0) = n
  <2>1. 0 \in 0 .. 64
    OBVIOUS
  <2> QED
    BY <1>2, <2>1, AboveIs
<1>4. ASSUME m # <<>>, IsNormal(m)
      PROVE  /\ Remainder(<<one>>, m) = ModPowersUpTo(b, m, n)[0]
             /\ Remainder(ensure_normalized(b), m) = ModSquares(b, m)[0]
  <2>1. m \in NormalPoly /\ m # <<>>
    BY <1>2, <1>4 DEF NormalPoly
  <2>2. b \in Poly /\ n \in SUBSET (0 .. 63)
    BY <1>2
  <2> HIDE DEF m, n, b
  <2>3. Remainder(<<one>>, m) = ModPowersUpTo(b, m, n)[0]
    <3>1. ModProducts(b, m, n, ModPowersUpTo(b, m, n))
      BY <2>1, <2>2, ModPowersUpToAre
    <3> QED
      BY <3>1 DEF ModProducts
  <2>4. Remainder(ensure_normalized(b), m) = ModSquares(b, m)[0]
    BY <2>1, <2>2, ModSquaresAre
  <2> QED
    BY <2>3, <2>4
<1>5. ASSUME m # <<>>, IsNormal(m) PROVE PowModAfter(0)'
  BY <1>1, <1>2, <1>3, <1>4, <1>5, OneNormal DEF PowModAfter
<1>6. 0 \in 0 .. 64 /\ ~(0 > 0)
  OBVIOUS
<1> QED
  BY <1>1, <1>5, <1>6 DEF PowModValues

LEMMA PowModRound ==
  ASSUME IInv, PowModValues, gcm_poly_powmod
  PROVE  PowModValues'
<1> DEFINE n == request.exponent
           m == request.modulo
           b == request.base
<1>1. /\ at = "pow" /\ request.action = "gcm_poly_powmod" /\ request' = request /\ exponent # {}
      /\ out' = Multiplied(base) /\ base' = Mul(base, base) /\ exponent' = NextExponent(exponent)
      /\ dividend' = Mul(base, base) /\ divisor' = m /\ at' = "base"
  BY DEF gcm_poly_powmod, DivideFor, Divide
<1>2. base \in Poly /\ out \in Poly /\ b \in Poly /\ m \in Poly
  BY <1>1 DEF IInv, PowTypeOK, RequestTypeOK
<1>3. n # {}
  BY <1>1 DEF PowModValues
<1>4. Mul(base, base) \in NormalPoly
  BY <1>2, NormalPolyIs
<1>5. ASSUME m # <<>>, IsNormal(m) PROVE \E j \in 1 .. 64 : PowModAfter(j)'
  <2>1. m \in NormalPoly /\ m # <<>>
    BY <1>2, <1>5 DEF NormalPoly
  <2>2. PICK j \in 0 .. 64 : PowModAfter(j)
    BY <1>1, <1>5 DEF PowModValues
  <2>3. n \in SUBSET (0 .. 63) /\ exponent = Above(n, j) /\ out \in NormalPoly
        /\ Remainder(out, m) = ModPowersUpTo(b, m, n)[j]
    BY <2>2 DEF PowModAfter
  <2>4. j \in 0 .. 63 /\ (0 \in exponent <=> j \in n) /\ exponent \in SUBSET Bit
        /\ {k - 1 : k \in exponent \ {0}} = Above(n, j + 1)
    <3>1. exponent \subseteq 0 .. 63
      BY <2>3, AboveIs
    <3>2. 0 .. 63 \subseteq Bit
      BY DEF Bit
    <3> HIDE DEF n
    <3>3. (Above(n, j) # {} => j \in 0 .. 63) /\ (0 \in Above(n, j) <=> j \in n)
          /\ {k - 1 : k \in Above(n, j) \ {0}} = Above(n, j + 1)
      BY <2>3, AboveIs, SMTT(30)
    <3>4. exponent # {}
      BY <1>1
    <3> QED
      BY <2>3, <3>1, <3>2, <3>3, <3>4
  <2>5. exponent' = Above(n, j + 1)
    BY <1>1, <2>4, NextExponentIs
  <2>6. j + 1 \in 1 .. 64
    BY <2>4
  <2> DEFINE x == ensure_normalized(base)
             F == ModSquares(b, m)
             G == ModPowersUpTo(b, m, n)
  <2>7. Remainder(x, m) = F[j]
    BY <2>2, <2>4 DEF PowModAfter
  <2>8. x \in NormalPoly /\ Mul(base, base) = Mul(x, x) /\ Mul(out, base) = Mul(out, x)
    <3>1. x \in Poly /\ IsNormal(x) /\ Same(x, base)
      BY <1>2, NormalizedIs
    <3>2. x \in NormalPoly
      BY <3>1 DEF NormalPoly
    <3> HIDE DEF x
    <3>3. Mul(x, base) = Mul(base, base) /\ Mul(x, x) = Mul(base, x) /\ Mul(x, out) = Mul(base, out)
      BY <1>2, <3>1, MulSame
    <3>4. Mul(x, base) = Mul(base, x) /\ Mul(x, out) = Mul(out, x) /\ Mul(base, out) = Mul(out, base)
      BY <1>2, <3>1, MulCommutes
    <3> QED
      BY <3>2, <3>3, <3>4
  <2> HIDE DEF x, n, m, b
  <2>9. out' \in NormalPoly /\ Remainder(out', m) = G[j + 1]
    <3>1. (j \in n => G[j + 1] = Remainder(Mul(G[j], F[j]), m)) /\ (j \notin n => G[j + 1] = G[j])
      <4>1. ModProducts(b, m, n, G)
        BY <1>2, <2>1, <2>3, ModPowersUpToAre
      <4> HIDE DEF G
      <4> QED
        BY <2>4, <4>1 DEF ModProducts, F
    <3>2. CASE j \in n
      <4>1. out' = Mul(out, x)
        BY <1>1, <2>4, <2>8, <3>2 DEF Multiplied
      <4>2. Mul(out, x) \in NormalPoly
        BY <2>3, <2>8, NormalPolyIs
      <4>3. Remainder(Mul(out, x), m) = Remainder(Mul(Remainder(out, m), Remainder(x, m)), m)
        BY <2>1, <2>3, <2>8, RemainderTyped
      <4> QED
        BY <2>3, <2>7, <3>1, <3>2, <4>1, <4>2, <4>3
    <3>3. CASE j \notin n
      <4>1. out' = out
        BY <1>1, <2>4, <3>3 DEF Multiplied
      <4> QED
        BY <2>3, <3>1, <3>3, <4>1
    <3> QED
      BY <3>2, <3>3
  <2>10. ASSUME j + 1 <= 63 PROVE Remainder(ensure_normalized(Mul(base, base)), m) = F[j + 1]
    <3>1. j + 1 \in 1 .. 63 /\ (j + 1) - 1 = j
      BY <2>4, <2>10
    <3>2. F[j + 1] = Remainder(Mul(F[j], F[j]), m)
      BY <1>2, <2>1, <3>1, ModSquaresAre
    <3>3. Remainder(Mul(x, x), m) = Remainder(Mul(Remainder(x, m), Remainder(x, m)), m)
      BY <2>1, <2>8, RemainderTyped
    <3>4. ensure_normalized(Mul(base, base)) = Mul(x, x)
      BY <1>4, <2>8, NormalPolyIs
    <3> QED
      BY <2>7, <3>2, <3>3, <3>4
  <2> HIDE DEF F, G
  <2>11. n' = n /\ m' = m /\ b' = b
    BY <1>1 DEF n, m, b
  <2>12. PowModAfter(j + 1)'
    BY <1>1, <2>3, <2>5, <2>9, <2>10, <2>11 DEF PowModAfter, n, m, b, F, G
  <2> QED
    BY <2>6, <2>12
<1> QED
  BY <1>1, <1>3, <1>4, <1>5 DEF PowModValues

LEMMA PowModDivides ==
  ASSUME IInv, PowModValues, BaseReduced \/ OutReduced
  PROVE  PowModValues'
<1> DEFINE n == request.exponent
           m == request.modulo
           b == request.base
<1>1. /\ at \in {"base", "out"} /\ pc = "done" /\ request' = request /\ exponent' = exponent
      /\ request.action = "gcm_poly_powmod" /\ b \in Poly /\ m \in Poly /\ n # {}
  BY DEF BaseReduced, OutReduced, PowModValues, IInv, PowTypeOK, RequestTypeOK, DivideFor
<1>2. ASSUME m # <<>>, IsNormal(m), NEW j \in 1 .. 64, PowModAfter(j)
      PROVE  /\ m \in NormalPoly /\ out \in NormalPoly
             /\ at = "base" => r = Remainder(base, m) /\ base \in NormalPoly
             /\ at = "out" => r = Remainder(out, m)
  <2>1. m \in NormalPoly /\ out \in NormalPoly
    BY <1>1, <1>2 DEF NormalPoly, PowModAfter
  <2>2. DivisionInv
    BY DEF IInv
  <2>3. CASE at = "base"
    <3>1. base \in NormalPoly /\ dividend = base /\ divisor = m
      BY <1>1, <1>2, <2>3 DEF PowModValues
    <3> QED
      BY <1>1, <1>2, <2>1, <2>2, <2>3, <3>1, DivisionReturnsRemainder
  <2>4. CASE at = "out"
    <3>1. dividend = out /\ divisor = m
      BY <1>1, <1>2, <2>4 DEF PowModValues
    <3> QED
      BY <1>1, <1>2, <2>1, <2>2, <2>4, <3>1, DivisionReturnsRemainder
  <2> QED
    BY <1>1, <2>1, <2>3, <2>4
<1>3. CASE BaseReduced
  <2>1. at = "base" /\ base' = r /\ out' = out /\ at' = "out" /\ dividend' = out /\ divisor' = m
    BY <1>3 DEF BaseReduced, DivideFor, Divide
  <2>2. ASSUME m # <<>>, IsNormal(m) PROVE \E j \in 1 .. 64 : PowModAfter(j)'
    <3>1. PICK j \in 1 .. 64 : PowModAfter(j)
      BY <1>1, <2>1, <2>2 DEF PowModValues
    <3>2. m \in NormalPoly /\ r = Remainder(base, m) /\ base \in NormalPoly
      BY <1>2, <2>1, <2>2, <3>1
    <3>3. r \in NormalPoly /\ Remainder(r, m) = Remainder(base, m)
      BY <2>2, <3>2, RemainderTyped
    <3>4. ensure_normalized(r) = r /\ ensure_normalized(base) = base
      BY <3>2, <3>3, NormalPolyIs
    <3>5. PowModAfter(j)'
      BY <1>1, <2>1, <3>1, <3>3, <3>4 DEF PowModAfter
    <3> QED
      BY <3>5
  <2> QED
    BY <1>1, <2>1, <2>2 DEF PowModValues
<1>4. CASE OutReduced
  <2>1. at = "out" /\ out' = r /\ base' = base /\ at' = "pow"
    BY <1>4 DEF OutReduced
  <2>2. ASSUME m # <<>>, IsNormal(m)
        PROVE  \E j \in 1 .. 64 : PowModAfter(j)' /\ Remainder(out', m) = out'
    <3>1. PICK j \in 1 .. 64 : PowModAfter(j)
      BY <1>1, <2>1, <2>2 DEF PowModValues
    <3>2. m \in NormalPoly /\ r = Remainder(out, m) /\ out \in NormalPoly
      BY <1>2, <2>1, <2>2, <3>1
    <3>3. r \in NormalPoly /\ Remainder(r, m) = Remainder(out, m) /\ Remainder(r, m) = r
      BY <2>2, <3>2, RemainderTyped
    <3>4. PowModAfter(j)'
      BY <1>1, <2>1, <3>1, <3>3 DEF PowModAfter
    <3> QED
      BY <2>1, <3>3, <3>4
  <2>3. \A j \in 1 .. 64 : j \in 0 .. 64
    OBVIOUS
  <2>4. ASSUME m # <<>>, IsNormal(m)
        PROVE  \E j \in 0 .. 64 : PowModAfter(j)' /\ (j > 0 => Remainder(out', m) = out')
    BY <2>2, <2>3, <2>4
  <2> QED
    BY <1>1, <2>1, <2>4 DEF PowModValues
<1> QED
  BY <1>3, <1>4

LEMMA PowModDone ==
  ASSUME IInv, PowModValues, PowDone, request.action = "gcm_poly_powmod"
  PROVE  PowerIsRight'
<1> DEFINE n == request.exponent
           m == request.modulo
           b == request.base
<1>1. at = "pow" /\ exponent = {} /\ request' = request /\ result' = out /\ b \in Poly /\ m \in Poly
  BY DEF PowDone, Return, IInv, RequestTypeOK
<1>2. n = {} => out = <<one>>
  BY <1>1 DEF PowModValues
<1>3. ASSUME n # {}, m # <<>>, IsNormal(m) PROVE out = ModPowersUpTo(b, m, n)[64]
  <2>1. PICK j \in 0 .. 64 : PowModAfter(j) /\ (j > 0 => Remainder(out, m) = out)
    BY <1>1, <1>3 DEF PowModValues
  <2>2. /\ n \in SUBSET (0 .. 63) /\ exponent = Above(n, j) /\ m \in NormalPoly
        /\ Remainder(out, m) = ModPowersUpTo(b, m, n)[j]
    BY <1>1, <1>3, <2>1 DEF PowModAfter, NormalPoly
  <2> DEFINE G == ModPowersUpTo(b, m, n)
  <2> HIDE DEF n, m, b
  <2>3. Above(n, 0) = n /\ \A k \in j .. 63 : k \notin n
    BY <1>1, <2>2, AboveIs
  <2>4. j # 0
    BY <1>1, <1>3, <2>2, <2>3
  <2>5. j > 0
    BY <2>4
  <2>6. \A k \in 0 .. 63 : k \notin n => G[k + 1] = G[k]
    <3>1. b \in Poly /\ m \in NormalPoly /\ m # <<>>
      BY <1>1, <1>3, <2>2
    <3>2. ModProducts(b, m, n, G)
      BY <2>2, <3>1, ModPowersUpToAre
    <3> HIDE DEF G
    <3> QED
      BY <3>2 DEF ModProducts
  <2> HIDE DEF G
  <2>7. G[64] = G[j]
    <3>1. NoBitsFrom(n, j)
      BY <2>3 DEF NoBitsFrom
    <3>2. ChangesOnlyAt(n, G)
      BY <2>6 DEF ChangesOnlyAt
    <3> QED
      BY <3>1, <3>2, NoBitsAbove
  <2> QED
    BY <2>1, <2>2, <2>5, <2>7 DEF G
<1>4. (request.exponent = {} => result' = <<one>>)
      /\ (request.exponent # {} /\ request.modulo # <<>> /\ IsNormal(request.modulo) =>
            result' = ModPowersUpTo(request.base, request.modulo, request.exponent)[64])
  BY <1>1, <1>2, <1>3
<1>5. IF request'.exponent = {} THEN result' = <<one>>
      ELSE request'.modulo # <<>> /\ IsNormal(request'.modulo) =>
             result' = ModPowersUpTo(request'.base, request'.modulo, request'.exponent)[64]
  BY <1>1, <1>4
<1>6. PowerIsRight' <=> (Returned("gcm_poly_powmod")' =>
       IF request'.exponent = {} THEN result' = <<one>>
       ELSE request'.modulo # <<>> /\ IsNormal(request'.modulo) =>
              result' = ModPowersUpTo(request'.base, request'.modulo, request'.exponent)[64])
  BY DEF PowerIsRight, ModPowersUpTo, ModSquares
<1> QED
  BY <1>5, <1>6

LEMMA NotReturned ==
  ASSUME at' # "returned" \/ request'.action # "gcm_poly_powmod"
  PROVE  PowerIsRight'
<1>1. PowerIsRight' <=> (Returned("gcm_poly_powmod")' =>
       IF request'.exponent = {} THEN result' = <<one>>
       ELSE request'.modulo # <<>> /\ IsNormal(request'.modulo) =>
              result' = ModPowersUpTo(request'.base, request'.modulo, request'.exponent)[64])
  BY DEF PowerIsRight, ModPowersUpTo, ModSquares
<1>2. ~Returned("gcm_poly_powmod")'
  BY DEF Returned
<1> QED
  BY <1>1, <1>2

\* A request whose power is not compared, or that fails.
LEMMA OtherPower ==
  ASSUME request' = request, request.action # "gcm_poly_powmod" \/ at' = "failed"
  PROVE  PowerInv'
<1>1. PowModValues'
  BY DEF PowModValues
<1>2. PowerIsRight'
  BY NotReturned
<1> QED
  BY <1>1, <1>2 DEF PowerInv

\* Nothing but a division goes on.
LEMMA DividingPower ==
  ASSUME PowModValues, request' = request, at' = at, at # "returned", UNCHANGED loopVars,
         dividend' = dividend, divisor' = divisor
  PROVE  PowerInv'
<1>1. \A j : PowModAfter(j)' <=> PowModAfter(j)
  BY DEF PowModAfter, loopVars
<1>2. PowModValues'
  <2>1. base' = base /\ out' = out /\ exponent' = exponent
    BY DEF loopVars
  <2> QED
    BY <1>1, <2>1 DEF PowModValues
<1>3. PowerIsRight'
  BY NotReturned
<1> QED
  BY <1>2, <1>3 DEF PowerInv

LEMMA StepKeepsPower == IInv /\ ValuesInv /\ PowerInv /\ [Next]_vars => PowerInv'
<1> SUFFICES ASSUME IInv, ValuesInv, PowerInv, [Next]_vars PROVE PowerInv'
  OBVIOUS
<1>0. PowModValues /\ PowerIsRight /\ ActionOK
  BY DEF PowerInv, ValuesInv
<1>1. CASE gcm_block2poly \/ gcm_poly2block \/ gcm_clmul \/ BlockDivide \/ BlockPowRound \/ BlockDivided
  <2>1. request' = request /\ request.action \in {"gcm_block2poly", "gcm_poly2block", "gcm_clmul", "operator/="}
    BY <1>0, <1>1 DEF gcm_block2poly, gcm_poly2block, gcm_clmul, BlockDivide, BlockPowRound, BlockDivided,
                      Called, Return, Fail, ActionOK
  <2> QED
    BY <2>1, OtherPower
<1>2. CASE gcm_poly_add \/ gcm_poly_mul \/ gcm_poly_divmod \/ DivisionReturned \/ gcm_poly_gcd \/ GcdRound
           \/ gcm_poly_pow
  <2>1. request' = request /\ request.action # "gcm_poly_powmod"
    BY <1>0, <1>2 DEF gcm_poly_add, gcm_poly_mul, gcm_poly_divmod, DivisionReturned, gcm_poly_gcd, GcdRound,
                      gcm_poly_pow, GcdOf, DivideFor, Called, Return, ActionOK
  <2> QED
    BY <2>1, OtherPower
<1>3. CASE StartPow
  <2>1. request' = request /\ request.action \in {"gcm_poly_pow", "gcm_poly_powmod"}
    BY <1>3 DEF StartPow, Called, Fail
  <2>2. CASE request.action = "gcm_poly_pow"
    BY <2>1, <2>2, OtherPower
  <2>3. CASE ~Unsigned(request.exponent)
    BY <1>3, <2>1, <2>3, OtherPower DEF StartPow, Fail
  <2>4. CASE request.action = "gcm_poly_powmod" /\ Unsigned(request.exponent)
    <3>1. PowModValues' /\ at' = "pow"
      BY <1>3, <2>4, StartPowMod DEF StartPow
    <3> QED
      BY <3>1, NotReturned DEF PowerInv
  <2> QED
    BY <2>1, <2>2, <2>3, <2>4
<1>4. CASE gcm_poly_powmod \/ BaseReduced \/ OutReduced
  <2>1. PowModValues' /\ at' # "returned"
    BY <1>0, <1>4, PowModRound, PowModDivides DEF gcm_poly_powmod, BaseReduced, OutReduced, DivideFor
  <2> QED
    BY <2>1, NotReturned DEF PowerInv
<1>5. CASE PowDone
  <2>1. request' = request /\ at' = "returned"
    BY <1>5 DEF PowDone, Return
  <2>2. CASE request.action # "gcm_poly_powmod"
    BY <2>1, <2>2, OtherPower
  <2>3. CASE request.action = "gcm_poly_powmod"
    <3>1. PowerIsRight'
      BY <1>0, <1>5, <2>3, PowModDone
    <3>2. PowModValues'
      BY <2>1 DEF PowModValues
    <3> QED
      BY <3>1, <3>2 DEF PowerInv
  <2> QED
    BY <2>2, <2>3
<1>6. CASE Dividing
  <2>1. request' = request /\ at' = at /\ at # "returned" /\ UNCHANGED loopVars /\ DivisionStep
    BY <1>6 DEF Dividing, InDivision
  <2>2. dividend' = dividend /\ divisor' = divisor
    BY <2>1 DEF DivisionStep, Start, Round, NoDivisor, Finish
  <2> QED
    BY <1>0, <2>1, <2>2, DividingPower
<1>7. CASE DivisionFailed
  BY <1>7, OtherPower DEF DivisionFailed, Fail
<1>8. CASE UNCHANGED vars
  <2>1. /\ request' = request /\ at' = at /\ base' = base /\ out' = out /\ exponent' = exponent
        /\ result' = result /\ dividend' = dividend /\ divisor' = divisor
    BY <1>8 DEF vars, loopVars, divisionVars
  <2>2. \A j : PowModAfter(j)' <=> PowModAfter(j)
    BY <2>1 DEF PowModAfter
  <2>3. PowModValues'
    BY <1>0, <2>1, <2>2 DEF PowModValues
  <2>4. PowerIsRight' <=> PowerIsRight
    BY <2>1 DEF PowerIsRight, Returned
  <2> QED
    BY <1>0, <2>3, <2>4 DEF PowerInv
<1> QED
  BY <1>1, <1>2, <1>3, <1>4, <1>5, <1>6, <1>7, <1>8 DEF Next

\* A power modulo a normal polynomial is the product of the powers that the
\* bits of the exponent stand for, modulo it, however the loop of pow reduces
\* its two variables, and 1 for an exponent of zero (gcm_poly_powmod).
THEOREM PowerIsAlwaysRight == Spec => []PowerIsRight
<1>1. Init => PowerInv
  BY DEF Init, PowerInv, PowModValues, PowerIsRight, Returned
<1>2. Init => ValuesInv
  BY DEF Init, ValuesInv, ActionOK, PowValues, ValuesAreRight, Returned
<1>3. IInv /\ ValuesInv /\ [Next]_vars => ValuesInv'
  BY StepKeepsValues
<1>4. IInv /\ ValuesInv /\ PowerInv /\ [Next]_vars => PowerInv'
  BY StepKeepsPower
<1>5. PowerInv => PowerIsRight
  BY DEF PowerInv
<1> QED
  BY <1>1, <1>2, <1>3, <1>4, <1>5, Invariance, PTL DEF Spec

-----------------------------------------------------------------------------
(* gcd.                                                                     *)

GcdRequest ==
  request.action = "gcm_poly_gcd" /\ request.a \in NormalPoly /\ request.b \in NormalPoly

SameDivisors(p, s, u, v) ==
  \A e \in NormalPoly : DividedBy(p, e) /\ DividedBy(s, e) <=> DividedBy(u, e) /\ DividedBy(v, e)

\* g is monic, or empty, and its divisors are the common ones of p and s.
GreatestDivisor(g, p, s) ==
  /\ g \in NormalPoly
  /\ g = <<>> \/ Lead(g) = one
  /\ \A e \in NormalPoly : DividedBy(p, e) /\ DividedBy(s, e) <=> DividedBy(g, e)

\* The inductive invariant of GcdIsGreatest: no round changes the common
\* divisors, and none divides by nothing.
GcdInv ==
  GcdRequest =>
    /\ at \in {"called", "gcd", "returned"}
    /\ at = "gcd" =>
         /\ dividend \in NormalPoly /\ divisor \in NormalPoly /\ divisor # <<>>
         /\ SameDivisors(request.a, request.b, dividend, divisor)
    /\ at = "returned" => GreatestDivisor(result, request.a, request.b)

LEMMA GcdOfIs ==
  ASSUME NEW p \in NormalPoly, NEW s \in NormalPoly, GcdRequest,
         SameDivisors(request.a, request.b, p, s), GcdOf(p, s)
  PROVE  GcdInv'
<1>1. request' = request
  BY DEF GcdOf, Return
<1>2. CASE s = <<>>
  <2>1. at' = "returned" /\ result' = ensure_monic(p)
    BY <1>2 DEF GcdOf, Return
  <2>2. \A e \in NormalPoly : DividedBy(<<>>, e)
    BY DividedByLaws
  <2>3. \A e \in NormalPoly : DividedBy(request.a, e) /\ DividedBy(request.b, e) <=> DividedBy(p, e)
    BY <1>2, <2>2 DEF SameDivisors
  <2>4. ensure_monic(p) \in NormalPoly
        /\ \A e \in NormalPoly : DividedBy(ensure_monic(p), e) <=> DividedBy(p, e)
    BY MonicDivides
  <2>5. ensure_monic(p) = <<>> \/ Lead(ensure_monic(p)) = one
    BY MonicIs, MonicOfEmpty
  <2>6. GreatestDivisor(ensure_monic(p), request.a, request.b)
    BY <2>3, <2>4, <2>5 DEF GreatestDivisor
  <2> QED
    BY <1>1, <2>1, <2>6 DEF GcdInv
<1>3. CASE s # <<>>
  <2>1. at' = "gcd" /\ dividend' = p /\ divisor' = s
    BY <1>3 DEF GcdOf, DivideFor, Divide
  <2> QED
    BY <1>1, <1>3, <2>1 DEF GcdInv
<1> QED
  BY <1>2, <1>3

LEMMA GcdRoundKeeps ==
  ASSUME IInv, GcdInv, GcdRequest, GcdRound
  PROVE  GcdInv'
<1>1. /\ at = "gcd" /\ pc = "done" /\ GcdOf(divisor, r)
      /\ dividend \in NormalPoly /\ divisor \in NormalPoly /\ divisor # <<>>
      /\ SameDivisors(request.a, request.b, dividend, divisor)
  BY DEF GcdInv, GcdRound
<1>2. r \in NormalPoly /\ r = Remainder(dividend, divisor)
  BY <1>1, DivisionReturnsRemainder DEF IInv
<1>3. DividedBy(Add(dividend, r), divisor)
  BY <1>1, <1>2, DivmodOfNormal DEF Remainder
<1>4. \A e \in NormalPoly :
         DividedBy(dividend, e) /\ DividedBy(divisor, e) <=> DividedBy(divisor, e) /\ DividedBy(r, e)
  BY <1>1, <1>2, <1>3, CommonDivisors
<1>5. SameDivisors(request.a, request.b, divisor, r)
  BY <1>1, <1>4 DEF SameDivisors
<1> QED
  BY <1>1, <1>2, <1>5, GcdOfIs

LEMMA StepKeepsGcd == IInv /\ GcdInv /\ [Next]_vars => GcdInv'
<1> SUFFICES ASSUME IInv, GcdInv, [Next]_vars PROVE GcdInv'
  OBVIOUS
<1>1. request' = request
  BY DEF Next, vars, gcm_block2poly, gcm_poly2block, gcm_clmul, BlockDivide, BlockPowRound, BlockDivided,
         gcm_poly_add, gcm_poly_mul, gcm_poly_divmod, DivisionReturned, gcm_poly_gcd, GcdRound, GcdOf,
         StartPow, gcm_poly_pow, gcm_poly_powmod, BaseReduced, OutReduced, PowDone, Dividing,
         DivisionFailed, DivideFor, Return, Fail
<1>2. SUFFICES ASSUME GcdRequest PROVE GcdInv'
  BY <1>1 DEF GcdInv, GcdRequest
<1>3. request.action = "gcm_poly_gcd" /\ at \in {"called", "gcd", "returned"}
  BY <1>2 DEF GcdRequest, GcdInv
<1>4. CASE gcm_poly_gcd
  <2>1. GcdOf(request.a, request.b) /\ request.a \in NormalPoly /\ request.b \in NormalPoly
    BY <1>2, <1>4 DEF gcm_poly_gcd, GcdRequest
  <2> QED
    BY <1>2, <2>1, GcdOfIs DEF SameDivisors
<1>5. CASE GcdRound
  BY <1>2, <1>5, GcdRoundKeeps
<1>6. CASE Dividing
  <2>1. at' = at /\ at = "gcd" /\ DivisionStep
    BY <1>3, <1>6 DEF Dividing, InDivision
  <2>2. dividend' = dividend /\ divisor' = divisor
    BY <2>1 DEF DivisionStep, Start, Round, NoDivisor, Finish
  <2> QED
    BY <1>1, <1>2, <2>1, <2>2 DEF GcdInv
<1>7. CASE DivisionFailed
  <2>1. at = "gcd" /\ pc \in {"aborted", "threw"}
    BY <1>3, <1>7 DEF DivisionFailed, InDivision
  <2>2. IsNormal(dividend) /\ divisor # <<>>
    BY <1>2, <2>1, NormalPolyIs DEF GcdInv
  <2> QED
    BY <2>1, <2>2 DEF IInv, DivisionInv, DivisionIsRight
<1>8. CASE UNCHANGED vars
  <2>1. at' = at /\ result' = result /\ dividend' = dividend /\ divisor' = divisor
    BY <1>8 DEF vars, divisionVars
  <2> QED
    BY <1>1, <1>2, <2>1 DEF GcdInv
<1>9. ~(\/ gcm_block2poly \/ gcm_poly2block \/ gcm_clmul
        \/ BlockDivide \/ BlockPowRound \/ BlockDivided
        \/ gcm_poly_add \/ gcm_poly_mul
        \/ gcm_poly_divmod \/ DivisionReturned
        \/ StartPow \/ gcm_poly_pow \/ gcm_poly_powmod
        \/ BaseReduced \/ OutReduced \/ PowDone)
  BY <1>3 DEF gcm_block2poly, gcm_poly2block, gcm_clmul, BlockDivide, BlockPowRound, BlockDivided,
         gcm_poly_add, gcm_poly_mul, gcm_poly_divmod, DivisionReturned,
         StartPow, gcm_poly_pow, gcm_poly_powmod, BaseReduced, OutReduced, PowDone, Called
<1> QED
  BY <1>4, <1>5, <1>6, <1>7, <1>8, <1>9 DEF Next

GcdIsGreatestOfAll ==
  GcdRequest => at # "failed" /\ (at = "returned" => GreatestDivisor(result, request.a, request.b))

\* gcd of any normal polynomials returns: a polynomial that is monic, or empty,
\* and whose divisors are the common divisors of both (gcm_poly_gcd).
THEOREM GcdIsGreatestOfAllPolynomials == Spec => []GcdIsGreatestOfAll
<1>1. Init => GcdInv
  BY DEF Init, GcdInv
<1>2. IInv /\ GcdInv /\ [Next]_vars => GcdInv'
  BY StepKeepsGcd
<1>3. GcdInv => GcdIsGreatestOfAll
  BY DEF GcdInv, GcdIsGreatestOfAll
<1> QED
  BY <1>1, <1>2, <1>3, Invariance, PTL DEF Spec

\* GcdIsGreatest looks for divisors and quotients among the polynomials of
\* requests: with one of them, each shorter one has to be there.
ShorterOnes == \A p \in Polynomials, s \in Poly : Len(s) <= Len(p) => s \in Polynomials

LEMMA NormalIs == Normal \subseteq NormalPoly /\ (ShorterOnes => \A p \in Normal, s \in NormalPoly : Len(s) <= Len(p) => s \in Normal)
<1>1. Polynomials \subseteq Poly
  BY ArithmeticAssumption DEF Poly
<1> QED
  BY <1>1, NormalPolyIs DEF Normal, NormalPoly, ShorterOnes

LEMMA DividesIs ==
  ASSUME ShorterOnes, NEW p \in Normal
  PROVE  /\ \A d : <<d, p>> \in Divides => d \in Normal /\ DividedBy(p, d)
         /\ \A d \in Normal : DividedBy(p, d) => <<d, p>> \in Divides
<1>1. p \in NormalPoly /\ p \in Poly
  BY NormalIs, NormalPolyIs
<1>2. ASSUME NEW d, <<d, p>> \in Divides PROVE d \in Normal /\ DividedBy(p, d)
  <2>1. PICK x \in Normal, s \in Normal : <<d, p>> = <<x, Mul(x, s)>>
    BY <1>2 DEF Divides
  <2>2. d = x /\ p = Mul(d, s)
    BY <2>1
  <2>3. d \in NormalPoly /\ s \in NormalPoly /\ d \in Poly /\ s \in Poly
    BY <2>2, NormalIs, NormalPolyIs
  <2>4. p = Mul(s, d)
    BY <2>2, <2>3, MulCommutes
  <2> QED
    BY <2>2, <2>3, <2>4 DEF DividedBy
<1>3. ASSUME NEW d \in Normal, DividedBy(p, d) PROVE <<d, p>> \in Divides
  <2>1. PICK u \in NormalPoly : p = Mul(u, d)
    BY <1>3 DEF DividedBy
  <2>2. d \in NormalPoly /\ d \in Poly /\ u \in Poly
    BY NormalIs, NormalPolyIs
  <2>3. p = Mul(d, u)
    BY <2>1, <2>2, MulCommutes
  <2>4. CASE p = <<>>
    <3>1. <<>> \in NormalPoly /\ <<>> \in Poly /\ Len(<<>>) = 0 /\ Len(p) \in Nat
      BY <1>1, NormalPolyIs, DegreeIs
    <3>2. <<>> \in Normal
      BY <2>4
    <3>3. Mul(d, <<>>) = <<>>
      BY <2>2, <3>1, MulEmpty, MulCommutes
    <3> QED
      BY <2>4, <3>2, <3>3 DEF Divides
  <2>5. CASE p # <<>>
    <3>1. Len(u) <= Len(p)
      BY <1>1, <2>1, <2>2, <2>5, DividedLength
    <3>2. u \in Normal
      BY <3>1, NormalIs
    <3> QED
      BY <2>3, <3>2 DEF Divides
  <2> QED
    BY <2>4, <2>5
<1> QED
  BY <1>2, <1>3

\* gcd of normal polynomials returns the greatest of the divisors that both
\* have among the polynomials of requests (gcm_poly_gcd).
THEOREM GcdIsAlwaysGreatest == ShorterOnes => (Spec => []GcdIsGreatest)
<1> SUFFICES ASSUME ShorterOnes PROVE Spec => []GcdIsGreatest
  OBVIOUS
<1>1. GcdIsGreatestOfAll => GcdIsGreatest
  <2> SUFFICES ASSUME GcdIsGreatestOfAll, request.action = "gcm_poly_gcd",
                      request.a \in Normal, request.b \in Normal
               PROVE  /\ at # "failed"
                      /\ at = "returned" =>
                           /\ result = <<>> \/ Lead(result) = one
                           /\ <<result, request.a>> \in Divides /\ <<result, request.b>> \in Divides
                           /\ \A p \in Normal : <<p, request.a>> \in Divides /\ <<p, request.b>> \in Divides
                                                  => <<p, result>> \in Divides
    BY DEF GcdIsGreatest
  <2>1. request.a \in NormalPoly /\ request.b \in NormalPoly /\ GcdRequest
    BY NormalIs DEF GcdRequest
  <2>2. at # "failed" /\ (at = "returned" => GreatestDivisor(result, request.a, request.b))
    BY <2>1 DEF GcdIsGreatestOfAll
  <2>3. ASSUME at = "returned"
        PROVE  /\ <<result, request.a>> \in Divides /\ <<result, request.b>> \in Divides
               /\ \A p \in Normal : <<p, request.a>> \in Divides /\ <<p, request.b>> \in Divides
                                      => <<p, result>> \in Divides
    <3>1. /\ result \in NormalPoly
          /\ \A e \in NormalPoly : DividedBy(request.a, e) /\ DividedBy(request.b, e) <=> DividedBy(result, e)
      BY <2>2, <2>3 DEF GreatestDivisor
    <3>2. DividedBy(request.a, result) /\ DividedBy(request.b, result)
      BY <3>1, DividedByLaws
    <3>3. result \in Normal
      <4>1. ASSUME NEW p \in Normal, p # <<>>, DividedBy(p, result) PROVE result \in Normal
        <5>1. PICK u \in NormalPoly : p = Mul(u, result)
          BY <4>1 DEF DividedBy
        <5>2. p \in NormalPoly
          BY NormalIs
        <5>3. Len(result) <= Len(p)
          BY <3>1, <4>1, <5>1, <5>2, DividedLength
        <5> QED
          BY <3>1, <5>3, NormalIs
      <4>2. ASSUME request.a = <<>>, request.b = <<>> PROVE result \in Normal
        <5>1. <<>> \in NormalPoly /\ DividedBy(<<>>, <<>>)
          BY DividedByLaws, NormalPolyIs
        <5>2. DividedBy(result, <<>>)
          BY <3>1, <4>2, <5>1
        <5> QED
          BY <3>1, <4>2, <5>2, DividedByLaws
      <4> QED
        BY <3>2, <4>1, <4>2
    <3>4. <<result, request.a>> \in Divides /\ <<result, request.b>> \in Divides
      BY <3>2, <3>3, DividesIs
    <3>5. ASSUME NEW p \in Normal, <<p, request.a>> \in Divides, <<p, request.b>> \in Divides
          PROVE  <<p, result>> \in Divides
      <4>1. p \in NormalPoly /\ DividedBy(request.a, p) /\ DividedBy(request.b, p)
        BY <3>5, DividesIs, NormalIs
      <4>2. DividedBy(result, p)
        BY <3>1, <4>1
      <4> QED
        BY <3>3, <4>2, DividesIs
    <3> QED
      BY <3>4, <3>5
  <2>4. at = "returned" => result = <<>> \/ Lead(result) = one
    BY <2>2 DEF GreatestDivisor
  <2> QED
    BY <2>2, <2>3, <2>4
<1> QED
  BY <1>1, GcdIsGreatestOfAllPolynomials, PTL

-----------------------------------------------------------------------------
(* The product of two registers.                                            *)

LEMMA OddMoved ==
  ASSUME NEW S \in SUBSET Int, IsFiniteSet(S), NEW n \in Int
  PROVE  /\ IsFiniteSet({k + n : k \in S}) /\ (Odd({k + n : k \in S}) <=> Odd(S))
         /\ IsFiniteSet({n - k : k \in S}) /\ (Odd({n - k : k \in S}) <=> Odd(S))
<1>1. \A T : (\E b : b \in Bijection(S, T)) => IsFiniteSet(T) /\ (Odd(T) <=> Odd(S))
  BY FS_Bijection DEF ExistsBijection, Odd
<1>2. [k \in S |-> k + n] \in Bijection(S, {k + n : k \in S})
  BY DEF Bijection, Injection, Surjection, IsInjective
<1>3. [k \in S |-> n - k] \in Bijection(S, {n - k : k \in S})
  BY DEF Bijection, Injection, Surjection, IsInjective
<1> QED
  BY <1>1, <1>2, <1>3

\* The pairs of bits whose product is the bit k.
Pairs(a, b, k) == {m \in a : k - m \in b}

Half(a, i) == {k \in 0 .. 63 : k + 64 * i \in a}

LEMMA HalfIs == \A a, i : Half(a, i) \in SUBSET (0 .. 63)
BY DEF Half

LEMMA BitsFinite ==
  ASSUME NEW n \in Int, NEW a \in SUBSET (0 .. n)
  PROVE  IsFiniteSet(a) /\ a \subseteq Int
<1>1. IsFiniteSet(0 .. n)
  BY FS_Interval
<1>2. a \subseteq 0 .. n /\ 0 .. n \subseteq Int
  OBVIOUS
<1> QED
  BY <1>1, <1>2, FS_Subset

LEMMA PairsFinite ==
  ASSUME NEW n \in Int, NEW a \in SUBSET (0 .. n), NEW b, NEW k \in Int
  PROVE  IsFiniteSet(Pairs(a, b, k)) /\ Pairs(a, b, k) \in SUBSET Int
<1>1. Pairs(a, b, k) \in SUBSET (0 .. n)
  BY DEF Pairs
<1> QED
  BY <1>1, BitsFinite

LEMMA HalfProduct ==
  ASSUME NEW a, NEW b, NEW i, NEW j, NEW k \in Int
  PROVE  k \in clmulepi64(a, b, i, j) <=> Odd(Pairs(Half(a, i), Half(b, j), k))
<1> DEFINE p == Half(a, i)
           s == Half(b, j)
<1>1. clmulepi64(a, b, i, j) = {e \in 0 .. 126 : Cardinality(Pairs(p, s, e)) % 2 = 1}
  BY DEF clmulepi64, Pairs, Half
<1>2. p \in SUBSET (0 .. 63) /\ s \in SUBSET (0 .. 63)
  BY HalfIs
<1> HIDE DEF p, s
<1>3. ASSUME k \notin 0 .. 126 PROVE Pairs(p, s, k) = {}
  <2>1. ASSUME NEW m \in p, k - m \in s PROVE FALSE
    <3>1. m \in 0 .. 63 /\ k - m \in 0 .. 63
      BY <1>2, <2>1
    <3>2. \A x, y \in Int : x \in 0 .. 63 /\ y - x \in 0 .. 63 => y \in 0 .. 126
      OBVIOUS
    <3> QED
      BY <1>3, <3>1, <3>2
  <2> QED
    BY <2>1 DEF Pairs
<1> QED
  BY <1>1, <1>3, OddSmall DEF Odd, p, s

\* The pairs of a bit from x on and a bit from y on, 64 of either.
Quarter(a, b, k, x, y) ==
  {m \in a : m \in x .. x + 63 /\ k - m \in b /\ k - m \in y .. y + 63}

LEMMA QuarterOdd ==
  ASSUME NEW a \in SUBSET Bit, NEW b \in SUBSET Bit, NEW k \in Int, NEW i \in {0, 1}, NEW j \in {0, 1}
  PROVE  /\ IsFiniteSet(Quarter(a, b, k, 64 * i, 64 * j))
         /\ Odd(Quarter(a, b, k, 64 * i, 64 * j)) <=> k - 64 * i - 64 * j \in clmulepi64(a, b, i, j)
<1> DEFINE x == 64 * i
           y == 64 * j
           p == Half(a, i)
           s == Half(b, j)
           Q == Quarter(a, b, k, x, y)
           T == Pairs(p, s, k - x - y)
<1>1. x \in Int /\ y \in Int
  OBVIOUS
<1>2. p = {m \in 0 .. 63 : m + x \in a} /\ s = {m \in 0 .. 63 : m + y \in b}
  BY DEF Half
<1>3. k - x - y \in clmulepi64(a, b, i, j) <=> Odd(T)
  BY <1>1, HalfProduct
<1>4. IsFiniteSet(T) /\ T \in SUBSET Int
  <2>1. p \in SUBSET (0 .. 63) /\ k - x - y \in Int /\ 63 \in Int
    BY <1>1, HalfIs
  <2> HIDE DEF p, s, x, y
  <2> QED
    BY <2>1, PairsFinite
<1>5. a \subseteq Int
  BY DEF Bit
<1> HIDE DEF x, y
<1>6. Q = {m + x : m \in T}
  <2>1. ASSUME NEW m \in Q PROVE m - x \in T /\ m = (m - x) + x
    <3>1. m \in Int /\ m \in a /\ m \in x .. x + 63 /\ k - m \in b /\ k - m \in y .. y + 63
      BY <1>5 DEF Quarter
    <3>2. (m - x) + x = m /\ m - x \in 0 .. 63 /\ k - x - y - (m - x) = (k - m) - y
      BY <1>1, <3>1
    <3>3. (k - m) - y \in 0 .. 63 /\ ((k - m) - y) + y = k - m
      BY <1>1, <3>1
    <3> QED
      BY <1>2, <3>1, <3>2, <3>3 DEF Pairs
  <2>2. ASSUME NEW m \in T PROVE m + x \in Q
    <3>1. m \in 0 .. 63 /\ m + x \in a /\ k - x - y - m \in 0 .. 63 /\ (k - x - y - m) + y \in b
      BY <1>2 DEF Pairs
    <3>2. (k - x - y - m) + y = k - (m + x) /\ m + x \in x .. x + 63 /\ k - (m + x) \in y .. y + 63
      BY <1>1, <3>1
    <3> QED
      BY <3>1, <3>2 DEF Quarter
  <2> HIDE DEF Q, T
  <2> QED
    BY <2>1, <2>2
<1> HIDE DEF Q, T
<1>7. IsFiniteSet(Q) /\ (Odd(Q) <=> Odd(T))
  <2>1. IsFiniteSet({m + x : m \in T}) /\ (Odd({m + x : m \in T}) <=> Odd(T))
    <3>1. T \in SUBSET Int /\ IsFiniteSet(T) /\ x \in Int
      BY <1>1, <1>4
    <3> QED
      BY <3>1, OddMoved, Zenon
  <2> QED
    BY <1>6, <2>1
<1> QED
  BY <1>3, <1>7 DEF x, y, Q

Middle(a, b) == xor(clmulepi64(a, b, 0, 1), clmulepi64(a, b, 1, 0))

LEMMA ProductOfHalves ==
  ASSUME NEW a \in SUBSET Bit, NEW b \in SUBSET Bit, NEW k \in Int
  PROVE  Odd(Pairs(a, b, k)) <=>
           (k \in clmulepi64(a, b, 0, 0) <=>
              (k - 64 \in Middle(a, b) <=> k - 128 \in clmulepi64(a, b, 1, 1)))
<1> DEFINE Q1 == Quarter(a, b, k, 0, 0)
           Q2 == Quarter(a, b, k, 0, 64)
           Q3 == Quarter(a, b, k, 64, 0)
           Q4 == Quarter(a, b, k, 64, 64)
           P == Pairs(a, b, k)
<1>1. /\ IsFiniteSet(Q1) /\ IsFiniteSet(Q2) /\ IsFiniteSet(Q3) /\ IsFiniteSet(Q4)
      /\ Odd(Q1) <=> k \in clmulepi64(a, b, 0, 0)
      /\ Odd(Q2) <=> k - 64 \in clmulepi64(a, b, 0, 1)
      /\ Odd(Q3) <=> k - 64 \in clmulepi64(a, b, 1, 0)
      /\ Odd(Q4) <=> k - 128 \in clmulepi64(a, b, 1, 1)
  <2>1. /\ 64 * 0 = 0 /\ 64 * 1 = 64 /\ k - 0 - 0 = k /\ k - 0 - 64 = k - 64 /\ k - 64 - 0 = k - 64
        /\ k - 64 - 64 = k - 128
    OBVIOUS
  <2>2. IsFiniteSet(Q1) /\ (Odd(Q1) <=> k \in clmulepi64(a, b, 0, 0))
    BY <2>1, QuarterOdd
  <2>3. IsFiniteSet(Q2) /\ (Odd(Q2) <=> k - 64 \in clmulepi64(a, b, 0, 1))
    BY <2>1, QuarterOdd
  <2>4. IsFiniteSet(Q3) /\ (Odd(Q3) <=> k - 64 \in clmulepi64(a, b, 1, 0))
    BY <2>1, QuarterOdd
  <2>5. IsFiniteSet(Q4) /\ (Odd(Q4) <=> k - 128 \in clmulepi64(a, b, 1, 1))
    BY <2>1, QuarterOdd
  <2> QED
    BY <2>2, <2>3, <2>4, <2>5
<1>2. a \subseteq 0 .. 127 /\ b \subseteq 0 .. 127
  BY DEF Bit
<1>9. \A x \in 0 .. 127 : x \in 0 .. 63 <=> x \notin 64 .. 127
  OBVIOUS
<1>10. /\ Q1 = {m \in a : m \in 0 .. 63 /\ k - m \in b /\ k - m \in 0 .. 63}
       /\ Q2 = {m \in a : m \in 0 .. 63 /\ k - m \in b /\ k - m \in 64 .. 127}
       /\ Q3 = {m \in a : m \in 64 .. 127 /\ k - m \in b /\ k - m \in 0 .. 63}
       /\ Q4 = {m \in a : m \in 64 .. 127 /\ k - m \in b /\ k - m \in 64 .. 127}
  <2>1. 0 + 63 = 63 /\ 64 + 63 = 127
    OBVIOUS
  <2> QED
    BY <2>1 DEF Quarter
<1> HIDE DEF Q1, Q2, Q3, Q4
<1>3. P = (Q1 \cup Q2) \cup (Q3 \cup Q4)
  BY <1>2, <1>9, <1>10, ZenonT(30) DEF Pairs
<1>4. /\ Q1 \cap Q2 = {} /\ Q3 \cap Q4 = {} /\ (Q1 \cup Q2) \cap (Q3 \cup Q4) = {}
  <2>1. ASSUME NEW m \in Q1, m \in Q2 PROVE FALSE
    BY <1>2, <1>9, <1>10, <2>1
  <2>2. ASSUME NEW m \in Q3, m \in Q4 PROVE FALSE
    BY <1>2, <1>9, <1>10, <2>2
  <2>3. ASSUME NEW m \in Q1 \cup Q2, m \in Q3 \cup Q4 PROVE FALSE
    <3>1. m \in 0 .. 63 /\ m \in 64 .. 127
      BY <1>10, <2>3
    <3> QED
      BY <3>1
  <2> QED
    BY <2>1, <2>2, <2>3

<1> HIDE DEF P
<1>5. P = Plus(Plus(Q1, Q2), Plus(Q3, Q4))
  BY <1>3, <1>4 DEF Plus
<1>6. /\ IsFiniteSet(Plus(Q1, Q2)) /\ (Odd(Plus(Q1, Q2)) <=> (Odd(Q1) <=> ~Odd(Q2)))
      /\ IsFiniteSet(Plus(Q3, Q4)) /\ (Odd(Plus(Q3, Q4)) <=> (Odd(Q3) <=> ~Odd(Q4)))
  BY <1>1, OddPlus
<1>7. Odd(P) <=> (Odd(Plus(Q1, Q2)) <=> ~Odd(Plus(Q3, Q4)))
  BY <1>5, <1>6, OddPlus
<1>8. k - 64 \in Middle(a, b) <=> (Odd(Q2) <=> ~Odd(Q3))
  BY <1>1 DEF Middle, xor
<1> QED
  BY <1>1, <1>6, <1>7, <1>8 DEF P

Low(a, b)  == xor(clmulepi64(a, b, 0, 0), slli_si128(Middle(a, b), 8))
High(a, b) == xor(clmulepi64(a, b, 1, 1), srli_si128(Middle(a, b), 8))

LEMMA LowIs ==
  ASSUME NEW a \in SUBSET Bit, NEW b \in SUBSET Bit
  PROVE  /\ Low(a, b) \in SUBSET Bit /\ High(a, b) \in SUBSET Bit
         /\ \A k \in Bit : k \in Low(a, b) <=> Odd(Pairs(a, b, k))
         /\ \A k \in Bit : k \in High(a, b) <=> Odd(Pairs(a, b, k + 128))
<1>1. \A i, j : clmulepi64(a, b, i, j) \in SUBSET (0 .. 126)
  BY DEF clmulepi64
<1>2. Middle(a, b) \in SUBSET (0 .. 126)
  BY <1>1 DEF Middle, xor
<1> DEFINE p == clmulepi64(a, b, 0, 0)
           s == clmulepi64(a, b, 1, 1)
           m == Middle(a, b)
<1>3. \A k \in Int : Odd(Pairs(a, b, k)) <=> (k \in p <=> (k - 64 \in m <=> k - 128 \in s))
  BY ProductOfHalves
<1>4. Low(a, b) = xor(p, slli_si128(m, 8)) /\ High(a, b) = xor(s, srli_si128(m, 8))
  BY DEF Low, High
<1>5. p \in SUBSET (0 .. 126) /\ s \in SUBSET (0 .. 126) /\ m \in SUBSET (0 .. 126)
  BY <1>1, <1>2
<1> HIDE DEF p, s, m
<1>6. Low(a, b) \in SUBSET Bit /\ High(a, b) \in SUBSET Bit
  <2>1. slli_si128(m, 8) \subseteq Bit /\ srli_si128(m, 8) \subseteq Bit /\ p \subseteq Bit /\ s \subseteq Bit
    BY <1>5 DEF slli_si128, srli_si128, Bit
  <2> QED
    BY <1>4, <2>1 DEF xor
<1>7. ASSUME NEW k \in Bit
      PROVE  k \in Low(a, b) <=> Odd(Pairs(a, b, k))
  <2> DEFINE j == k - 128
  <2>1. k \in Int /\ j \notin 0 .. 126 /\ k - 8 * 8 = k - 64
    <3>1. k \in 0 .. 127
      BY DEF Bit
    <3>2. k \in Int /\ k <= 127
      BY <3>1
    <3>3. j \in Int /\ j < 0
      BY <3>2
    <3> QED
      BY <3>2, <3>3
  <2>2. k - 128 \notin s
    BY <1>5, <2>1
  <2>3. k \in Low(a, b) <=> (k \in p <=> ~(k - 64 \in m))
    BY <1>4, <2>1 DEF xor, slli_si128
  <2> QED
    BY <1>3, <2>1, <2>2, <2>3
<1>8. ASSUME NEW k \in Bit
      PROVE  k \in High(a, b) <=> Odd(Pairs(a, b, k + 128))
  <2> DEFINE j == k + 128
  <2>1. /\ k \in Int /\ j \in Int /\ j \notin 0 .. 126 /\ k + 8 * 8 = k + 64
        /\ j - 64 = k + 64 /\ j - 128 = k
    <3>1. k \in 0 .. 127
      BY DEF Bit
    <3>2. k \in Int /\ k >= 0
      BY <3>1
    <3>3. j \in Int /\ j >= 128
      BY <3>2
    <3> QED
      BY <3>2, <3>3
  <2>2. k + 128 \notin p
    BY <1>5, <2>1
  <2>3. k \in High(a, b) <=> (k \in s <=> ~(k + 64 \in m))
    BY <1>4, <2>1 DEF xor, srli_si128
  <2> QED
    BY <1>3, <2>1, <2>2, <2>3
<1> QED
  BY <1>6, <1>7, <1>8

Low1(x) == slli_epi32(x, 1) \cup slli_si128(srli_epi32(x, 31), 4)

High1(x, y) ==
  slli_epi32(y, 1) \cup slli_si128(srli_epi32(y, 31), 4) \cup srli_si128(srli_epi32(x, 31), 12)

\* The two shifts of a register and its lanes are one of all its bits.
LEMMA MovedUp ==
  ASSUME NEW x \in SUBSET Bit
  PROVE  Low1(x) = {k \in Bit : k - 1 \in x}
<1>1. \A k \in Bit : k \in slli_epi32(x, 1) <=> k % 32 >= 1 /\ k - 1 \in x
  BY DEF slli_epi32
<1>2. \A k \in Bit : k \in slli_si128(srli_epi32(x, 31), 4) <=> k % 32 = 0 /\ k - 1 \in x
  <2>1. \A j : j \in srli_epi32(x, 31) <=> j \in Bit /\ (j % 32) + 31 < 32 /\ j + 31 \in x
    BY DEF srli_epi32
  <2>2. ASSUME NEW k \in Bit, k >= 32
        PROVE  /\ k - 8 * 4 \in Bit /\ k - 8 * 4 + 31 = k - 1
               /\ ((k - 8 * 4) % 32) + 31 < 32 <=> k % 32 = 0
    BY <2>2 DEF Bit
  <2>3. ASSUME NEW k \in Bit, ~(k >= 32)
        PROVE  k - 8 * 4 \notin Bit /\ (k % 32 = 0 => k - 1 \notin Bit)
    BY <2>3 DEF Bit
  <2> QED
    BY <2>1, <2>2, <2>3 DEF slli_si128
<1>3. \A k \in Bit : k % 32 >= 1 <=> ~(k % 32 = 0)
  BY DEF Bit
<1>4. slli_epi32(x, 1) \subseteq Bit /\ slli_si128(srli_epi32(x, 31), 4) \subseteq Bit
  BY DEF slli_epi32, slli_si128
<1> QED
  BY <1>1, <1>2, <1>3, <1>4 DEF Low1

LEMMA MovedUpHigh ==
  ASSUME NEW x \in SUBSET Bit, NEW y \in SUBSET Bit
  PROVE  High1(x, y) = {k \in Bit : k - 1 \in y \/ (k = 0 /\ 127 \in x)}
<1>1. High1(x, y) = Low1(y) \cup srli_si128(srli_epi32(x, 31), 12)
  BY DEF High1, Low1
<1>2. \A k \in Bit : k \in srli_si128(srli_epi32(x, 31), 12) <=> k = 0 /\ 127 \in x
  <2>1. \A j : j \in srli_epi32(x, 31) <=> j \in Bit /\ (j % 32) + 31 < 32 /\ j + 31 \in x
    BY DEF srli_epi32
  <2>2. ASSUME NEW k \in Bit
        PROVE  /\ k + 8 * 12 \in Bit /\ ((k + 8 * 12) % 32) + 31 < 32 <=> k = 0
               /\ k = 0 => k + 8 * 12 + 31 = 127
    BY DEF Bit
  <2> QED
    BY <2>1, <2>2 DEF srli_si128
<1> QED
  BY <1>1, <1>2, MovedUp DEF srli_si128

Low2(x) == xor(x, slli_si128(Folded(x), 12))

LEMMA FoldedIs ==
  ASSUME NEW x \in SUBSET Bit
  PROVE  /\ Folded(x) \in SUBSET Bit
         /\ \A k \in Bit : k \in Folded(x) <=>
              ((k % 32 >= 31 /\ k - 31 \in x) <=>
                 ((k % 32 >= 30 /\ k - 30 \in x) <=> (k % 32 >= 25 /\ k - 25 \in x)))
<1> DEFINE u == slli_epi32(x, 31)
           v == slli_epi32(x, 30)
           w == slli_epi32(x, 25)
<1>1. u \in SUBSET Bit /\ v \in SUBSET Bit /\ w \in SUBSET Bit
  BY DEF slli_epi32
<1>2. \A k \in Bit : /\ k \in u <=> k % 32 >= 31 /\ k - 31 \in x
                     /\ k \in v <=> k % 32 >= 30 /\ k - 30 \in x
                     /\ k \in w <=> k % 32 >= 25 /\ k - 25 \in x
  BY DEF slli_epi32
<1>3. Folded(x) = xor(xor(u, v), w)
  BY DEF Folded
<1> HIDE DEF u, v, w
<1>4. Folded(x) \in SUBSET Bit
  BY <1>1, <1>3 DEF xor
<1>5. \A k \in Bit : k \in Folded(x) <=> (k \in u <=> (k \in v <=> k \in w))
  BY <1>3 DEF xor
<1> QED
  BY <1>2, <1>4, <1>5

\* What is folded back into the lower half are its last bits.
LEMMA Low2Is ==
  ASSUME NEW x \in SUBSET Bit
  PROVE  /\ Low2(x) \in SUBSET Bit
         /\ \A k \in Bit : k \in Low2(x) <=>
              (k \in x <=> ~(k - 127 \in x <=> (k - 126 \in x <=> k - 121 \in x)))
<1>1. ASSUME NEW k \in Bit
      PROVE  k - 96 \in Folded(x) <=> (k - 127 \in x <=> (k - 126 \in x <=> k - 121 \in x))
  <2> DEFINE j == k - 96
  <2>1. j \in Int /\ j - 31 = k - 127 /\ j - 30 = k - 126 /\ j - 25 = k - 121
    BY DEF Bit
  <2>2. ASSUME j \in Bit PROVE j % 32 = j
    <3>1. j \in 0 .. 31
      BY <2>2 DEF Bit
    <3> HIDE DEF j
    <3> QED
      BY <3>1
  <2> HIDE DEF j
  <2>3. CASE j \in Bit
    <3>1. /\ j - 31 \in x => j >= 31
          /\ j - 30 \in x => j >= 30
          /\ j - 25 \in x => j >= 25
      BY <2>1 DEF Bit
    <3>2. j \in Folded(x) <=> (j - 31 \in x <=> (j - 30 \in x <=> j - 25 \in x))
      BY <2>2, <2>3, <3>1, FoldedIs
    <3> QED
      BY <2>1, <3>2 DEF j
  <2>4. CASE j \notin Bit
    <3>1. j < 0
      BY <2>1, <2>4 DEF Bit, j
    <3>2. j - 31 \notin Bit /\ j - 30 \notin Bit /\ j - 25 \notin Bit
      BY <2>1, <3>1 DEF Bit
    <3>3. j \notin Folded(x)
      BY <2>4, FoldedIs
    <3> QED
      BY <2>1, <3>2, <3>3 DEF j
  <2> QED
    BY <2>3, <2>4
<1>2. slli_si128(Folded(x), 12) = {k \in Bit : k - 96 \in Folded(x)}
  <2>1. 8 * 12 = 96
    OBVIOUS
  <2> QED
    BY <2>1 DEF slli_si128
<1> QED
  BY <1>1, <1>2 DEF Low2, xor

\* The division by x^n for the register, of which the lanes take a part and the
\* bits that were folded the rest.
LEMMA DividedIs ==
  ASSUME NEW x \in SUBSET Bit
  PROVE  \A k \in Bit : k \in Divided(Low2(x), Folded(x)) <=>
           (k + 1 \in Low2(x) <=> (k + 2 \in Low2(x) <=> k + 7 \in Low2(x)))
<1> DEFINE y == Low2(x)
           f == Folded(x)
<1>1. y \in SUBSET Bit /\ \A k \in Bit : k <= 120 => (k \in y <=> k \in x)
  <2>1. \A k \in Bit : k <= 120 => k - 127 \notin x /\ k - 126 \notin x /\ k - 121 \notin x
    BY DEF Bit
  <2> QED
    BY <2>1, Low2Is
<1>2. SUFFICES ASSUME NEW k \in Bit
               PROVE  k \in Divided(y, f) <=> (k + 1 \in y <=> (k + 2 \in y <=> k + 7 \in y))
  OBVIOUS
<1>3. k + 32 \in f <=>
        ((k % 32 >= 31 /\ k + 1 \in y) <=>
           ((k % 32 >= 30 /\ k + 2 \in y) <=> (k % 32 >= 25 /\ k + 7 \in y)))
  <2> DEFINE j == k + 32
  <2>1. j \in Int /\ j % 32 = k % 32 /\ j - 31 = k + 1 /\ j - 30 = k + 2 /\ j - 25 = k + 7
    BY DEF Bit
  <2>2. CASE j \in Bit
    <3>1. j \in f <=> ((k % 32 >= 31 /\ k + 1 \in x) <=>
                         ((k % 32 >= 30 /\ k + 2 \in x) <=> (k % 32 >= 25 /\ k + 7 \in x)))
      <4> HIDE DEF j
      <4>1. j \in f <=> ((j % 32 >= 31 /\ j - 31 \in x) <=>
                         ((j % 32 >= 30 /\ j - 30 \in x) <=> (j % 32 >= 25 /\ j - 25 \in x)))
        BY <2>2, FoldedIs
      <4> QED
        BY <2>1, <4>1
    <3>2. k + 1 \in Bit /\ k + 1 <= 120 /\ k + 2 \in Bit /\ k + 2 <= 120 /\ k + 7 \in Bit /\ k + 7 <= 120
      BY <2>2 DEF Bit
    <3> QED
      BY <1>1, <3>1, <3>2
  <2>3. CASE j \notin Bit
    <3>1. k >= 96 /\ k <= 127 /\ k \in Int
      BY <2>3 DEF Bit
    <3>2. /\ k % 32 >= 31 => k + 1 \notin Bit
          /\ k % 32 >= 30 => k + 2 \notin Bit
          /\ k % 32 >= 25 => k + 7 \notin Bit
      BY <3>1 DEF Bit
    <3>3. j \notin f
      BY <2>3, FoldedIs
    <3> QED
      BY <1>1, <3>2, <3>3
  <2> QED
    BY <2>2, <2>3
<1> DEFINE u == srli_epi32(y, 1)
           v == srli_epi32(y, 2)
           w == srli_epi32(y, 7)
           z == srli_si128(f, 4)
<1>4. /\ k \in u <=> (~(k % 32 >= 31) /\ k + 1 \in y)
      /\ k \in v <=> (~(k % 32 >= 30) /\ k + 2 \in y)
      /\ k \in w <=> (~(k % 32 >= 25) /\ k + 7 \in y)
  <2>1. /\ (k % 32) + 1 < 32 <=> ~(k % 32 >= 31)
        /\ (k % 32) + 2 < 32 <=> ~(k % 32 >= 30)
        /\ (k % 32) + 7 < 32 <=> ~(k % 32 >= 25)
    BY DEF Bit
  <2> QED
    BY <2>1 DEF srli_epi32
<1>5. k \in z <=> k + 32 \in f
  <2>1. 8 * 4 = 32
    OBVIOUS
  <2> QED
    BY <2>1 DEF srli_si128
<1>6. Divided(y, f) = xor(xor(u, v), xor(w, z))
  BY DEF Divided
<1> HIDE DEF u, v, w, z, y, f
<1>7. k \in Divided(y, f) <=> ~(k \in u <=> (k \in v <=> (k \in w <=> k \in z)))
  BY <1>6 DEF xor
<1> QED
  BY <1>3, <1>4, <1>5, <1>7

\* The halves of the product in 256 bits.
LowHalf(a, b)  == Low1(Low(a, b))
HighHalf(a, b) == High1(Low(a, b), High(a, b))

\* The bit k of the sum of both halves, the lower one multiplied.
Reduced256(x, y, k) ==
  k \in y <=> (k \in Low2(x) <=>
    (k + 1 \in Low2(x) <=> (k + 2 \in Low2(x) <=> k + 7 \in Low2(x))))

LEMMA BlockTimesIs ==
  ASSUME NEW a \in SUBSET Bit, NEW b \in SUBSET Bit
  PROVE  /\ LowHalf(a, b) \in SUBSET Bit /\ HighHalf(a, b) \in SUBSET Bit
         /\ BlockTimes(a, b) \in SUBSET Bit
         /\ \A k \in Bit : k \in BlockTimes(a, b) <=> Reduced256(LowHalf(a, b), HighHalf(a, b), k)
<1> DEFINE x == LowHalf(a, b)
           y == HighHalf(a, b)
<1> HIDE DEF x, y
<1>1. x \in SUBSET Bit /\ y \in SUBSET Bit
  <2> USE DEF x, y
  <2>1. Low(a, b) \in SUBSET Bit /\ High(a, b) \in SUBSET Bit
    BY LowIs
  <2>2. x = {k \in Bit : k - 1 \in Low(a, b)}
    BY <2>1, MovedUp DEF LowHalf
  <2>3. y = {k \in Bit : k - 1 \in High(a, b) \/ (k = 0 /\ 127 \in Low(a, b))}
    BY <2>1, MovedUpHigh DEF HighHalf
  <2> QED
    BY <2>2, <2>3
<1> DEFINE l == Low2(x)
           d == Divided(Low2(x), Folded(x))
<1>2. l \in SUBSET Bit /\ \A k \in Bit : k \in d <=> (k + 1 \in l <=> (k + 2 \in l <=> k + 7 \in l))
  BY <1>1, Low2Is, DividedIs
<1>3. d \in SUBSET Bit
  <2>1. \A n : srli_epi32(Low2(x), n) \in SUBSET Bit
    BY DEF srli_epi32
  <2>2. srli_si128(Folded(x), 4) \in SUBSET Bit
    BY DEF srli_si128
  <2> QED
    BY <2>1, <2>2 DEF Divided, xor
<1>4. BlockTimes(a, b) = xor(y, xor(l, d))
  <2> USE DEF Middle, Low, High, Low1, High1, Low2, x, y, LowHalf, HighHalf
  <2> QED
    BY DEF BlockTimes
<1> HIDE DEF l, d
<1>5. BlockTimes(a, b) \in SUBSET Bit
  BY <1>1, <1>2, <1>3, <1>4 DEF xor
<1>6. \A k \in Bit : k \in BlockTimes(a, b) <=> (k \in y <=> (k \in l <=> k \in d))
  BY <1>4 DEF xor
<1> QED
  BY <1>1, <1>2, <1>5, <1>6 DEF l, Reduced256, x, y

\* The product before it is reduced.
Product256(p, s) == {k \in 0 .. 254 : Odd(Pairs(p, s, k))}

\* A register has its exponents in the order reversed, and so has a product.
LEMMA Reversed ==
  ASSUME NEW a \in SUBSET Bit, NEW b \in SUBSET Bit, NEW j \in Int
  PROVE  j \in Product256(to_exponents(a), to_exponents(b)) <=> Odd(Pairs(a, b, 254 - j))
<1> DEFINE p == to_exponents(a)
           s == to_exponents(b)
           S == Pairs(a, b, 254 - j)
           T == Pairs(p, s, j)
<1>1. /\ p = {e \in 0 .. 127 : 127 - e \in a} /\ s = {e \in 0 .. 127 : 127 - e \in b}
      /\ a \subseteq 0 .. 127 /\ b \subseteq 0 .. 127
  BY DEF to_exponents, Bit
<1>2. IsFiniteSet(S) /\ S \in SUBSET Int
  <2>1. 127 \in Int /\ a \in SUBSET (0 .. 127) /\ 254 - j \in Int
    BY <1>1
  <2> QED
    BY <2>1, PairsFinite, SMTT(30)
<1>3. T = {127 - m : m \in S}
  <2>1. ASSUME NEW m \in T PROVE 127 - m \in S /\ m = 127 - (127 - m)
    <3>1. m \in 0 .. 127 /\ 127 - m \in a /\ j - m \in 0 .. 127 /\ 127 - (j - m) \in b
      BY <1>1 DEF Pairs
    <3>2. 254 - j - (127 - m) = 127 - (j - m) /\ m = 127 - (127 - m)
      BY <3>1
    <3> QED
      BY <3>1, <3>2 DEF Pairs
  <2>2. ASSUME NEW m \in S PROVE 127 - m \in T
    <3>1. m \in 0 .. 127 /\ m \in a /\ 254 - j - m \in 0 .. 127 /\ 254 - j - m \in b
      BY <1>1 DEF Pairs
    <3>2. /\ 127 - m \in 0 .. 127 /\ 127 - (127 - m) = m
          /\ j - (127 - m) \in 0 .. 127 /\ 127 - (j - (127 - m)) = 254 - j - m
      BY <3>1
    <3> QED
      BY <1>1, <3>1, <3>2 DEF Pairs
  <2> HIDE DEF S, T
  <2> QED
    BY <2>1, <2>2
<1>4. j \notin 0 .. 254 => T = {}
  <2>1. ASSUME NEW m \in T, j \notin 0 .. 254 PROVE FALSE
    <3>1. m \in 0 .. 127 /\ j - m \in 0 .. 127
      BY <1>1 DEF Pairs
    <3> QED
      BY <2>1, <3>1
  <2> QED
    BY <2>1
<1> HIDE DEF p, s, S, T
<1>5. Odd(T) <=> Odd(S)
  <2>1. 127 \in Int
    OBVIOUS
  <2>2. Odd({127 - m : m \in S}) <=> Odd(S)
    BY <1>2, <2>1, OddMoved, Zenon
  <2> QED
    BY <1>3, <2>2
<1> QED
  BY <1>4, <1>5, OddSmall DEF Product256, p, s, S, T

\* The two halves of the product, in the order of exponents.
LEMMA HalvesOfProduct ==
  ASSUME NEW a \in SUBSET Bit, NEW b \in SUBSET Bit
  PROVE  LET P == Product256(to_exponents(a), to_exponents(b))
         IN /\ P \in SUBSET (0 .. 254)
            /\ \A k \in Bit : k \in LowHalf(a, b) <=> 255 - k \in P
            /\ \A k \in Bit : k \in HighHalf(a, b) <=> 127 - k \in P
<1> DEFINE P == Product256(to_exponents(a), to_exponents(b))
           x == LowHalf(a, b)
           y == HighHalf(a, b)
<1>1. P \in SUBSET (0 .. 254)
  BY DEF Product256
<1> DEFINE l == Low(a, b)
           h == High(a, b)
<1>2. /\ l \in SUBSET Bit /\ h \in SUBSET Bit
      /\ \A k \in Bit : k \in l <=> Odd(Pairs(a, b, k))
      /\ \A k \in Bit : k \in h <=> Odd(Pairs(a, b, k + 128))
  BY LowIs
<1>3. \A j \in Int : j \in P <=> Odd(Pairs(a, b, 254 - j))
  BY Reversed
<1>4. \A k \in Bit : k \in l <=> 254 - k \in P
  <2>1. \A k \in Bit : 254 - k \in Int /\ 254 - (254 - k) = k
    BY DEF Bit
  <2> QED
    BY <1>2, <1>3, <2>1
<1>5. \A k \in Bit : k \in h <=> 126 - k \in P
  <2>1. \A k \in Bit : 126 - k \in Int /\ 254 - (126 - k) = k + 128
    BY DEF Bit
  <2> QED
    BY <1>2, <1>3, <2>1
<1>6. x = {k \in Bit : k - 1 \in l}
  BY <1>2, MovedUp DEF LowHalf
<1>7. y = {k \in Bit : k - 1 \in h \/ (k = 0 /\ 127 \in l)}
  BY <1>2, MovedUpHigh DEF HighHalf
<1> HIDE DEF l, h, x, y, P
<1>8. ASSUME NEW k \in Bit PROVE k \in x <=> 255 - k \in P
  <2>1. CASE k = 0
    <3>1. k - 1 \notin Bit /\ 255 - k \notin 0 .. 254
      BY <2>1 DEF Bit
    <3> QED
      BY <1>1, <1>2, <1>6, <3>1
  <2>2. CASE k # 0
    <3>1. k - 1 \in Bit /\ 254 - (k - 1) = 255 - k
      BY <2>2 DEF Bit
    <3> QED
      BY <1>4, <1>6, <3>1
  <2> QED
    BY <2>1, <2>2
<1>9. ASSUME NEW k \in Bit PROVE k \in y <=> 127 - k \in P
  <2>1. CASE k = 0
    <3>1. k - 1 \notin Bit /\ 127 \in Bit /\ 254 - 127 = 127 - k
      BY <2>1 DEF Bit
    <3> QED
      BY <1>2, <1>4, <1>7, <2>1, <3>1
  <2>2. CASE k # 0
    <3>1. k - 1 \in Bit /\ 126 - (k - 1) = 127 - k
      BY <2>2 DEF Bit
    <3> QED
      BY <1>5, <1>7, <2>2, <3>1
  <2> QED
    BY <2>1, <2>2
<1> QED
  BY <1>1, <1>8, <1>9 DEF x, y, P

LEMMA WrappedIs ==
  ASSUME NEW P \in SUBSET (0 .. 254)
  PROVE  \A e \in Int : e \in Wrapped(P) <=>
           ((e <= 127 /\ e \in P) <=>
              ((e >= 0 /\ e + 128 \in P) <=>
                 ((e >= 1 /\ e + 127 \in P) <=>
                    ((e >= 2 /\ e + 126 \in P) <=> (e >= 7 /\ e + 121 \in P)))))
<1> DEFINE Moved(n) == {k - 128 + n : k \in {m \in P : m >= 128}}
           u == P \cap 0 .. 127
           v == Moved(0)
           w == Moved(1)
           y == Moved(2)
           z == Moved(7)
<1>1. ASSUME NEW n \in 0 .. 7, NEW e \in Int
      PROVE  e \in Moved(n) <=> (e >= n /\ e + (128 - n) \in P)
  <2>1. ASSUME NEW k \in P, k >= 128, e = k - 128 + n
        PROVE  e >= n /\ e + (128 - n) = k
    <3>1. k \in Int
      OBVIOUS
    <3> QED
      BY <2>1, <3>1
  <2>2. ASSUME e >= n, e + (128 - n) \in P
        PROVE  e + (128 - n) >= 128 /\ e = e + (128 - n) - 128 + n
    BY <2>2
  <2> QED
    BY <2>1, <2>2
<1>2. ASSUME NEW e \in Int
      PROVE  /\ e \in u <=> (e <= 127 /\ e \in P)
             /\ e \in v <=> (e >= 0 /\ e + 128 \in P)
             /\ e \in w <=> (e >= 1 /\ e + 127 \in P)
             /\ e \in y <=> (e >= 2 /\ e + 126 \in P)
             /\ e \in z <=> (e >= 7 /\ e + 121 \in P)
  <2>1. e \in u <=> (e <= 127 /\ e \in P)
    OBVIOUS
  <2>2. /\ 0 \in 0 .. 7 /\ 128 - 0 = 128 /\ 1 \in 0 .. 7 /\ 128 - 1 = 127
        /\ 2 \in 0 .. 7 /\ 128 - 2 = 126 /\ 7 \in 0 .. 7 /\ 128 - 7 = 121
    OBVIOUS
  <2> HIDE DEF Moved, u
  <2>3. e \in v <=> (e >= 0 /\ e + 128 \in P)
    BY <1>1, <2>2
  <2>4. e \in w <=> (e >= 1 /\ e + 127 \in P)
    BY <1>1, <2>2
  <2>5. e \in y <=> (e >= 2 /\ e + 126 \in P)
    BY <1>1, <2>2
  <2>6. e \in z <=> (e >= 7 /\ e + 121 \in P)
    BY <1>1, <2>2
  <2> QED
    BY <2>1, <2>3, <2>4, <2>5, <2>6
<1>3. Wrapped(P) = xor(xor(u, v), xor(xor(w, y), z))
  BY DEF Wrapped
<1> HIDE DEF u, v, w, y, z
<1>4. \A e : e \in Wrapped(P) <=> (e \in u <=> (e \in v <=> (e \in w <=> (e \in y <=> e \in z))))
  BY <1>3 DEF xor
<1> QED
  BY <1>2, <1>4

LEMMA WrappedRange ==
  /\ \A P \in SUBSET (0 .. 254) : Wrapped(P) \in SUBSET (0 .. 133)
  /\ \A P \in SUBSET (0 .. 133) : Wrapped(P) \in SUBSET (0 .. 127)
<1>1. ASSUME NEW P \in SUBSET (0 .. 254) PROVE Wrapped(P) \in SUBSET (0 .. 133)
  <2>1. \A n \in {0, 1, 2, 7} : {k - 128 + n : k \in {m \in P : m >= 128}} \in SUBSET (0 .. 133)
    OBVIOUS
  <2>2. P \cap 0 .. 127 \in SUBSET (0 .. 133)
    OBVIOUS
  <2> QED
    BY <2>1, <2>2 DEF Wrapped, xor
<1>2. ASSUME NEW P \in SUBSET (0 .. 133) PROVE Wrapped(P) \in SUBSET (0 .. 127)
  <2>1. \A n \in {0, 1, 2, 7} : {k - 128 + n : k \in {m \in P : m >= 128}} \in SUBSET (0 .. 127)
    OBVIOUS
  <2>2. P \cap 0 .. 127 \in SUBSET (0 .. 127)
    OBVIOUS
  <2> QED
    BY <2>1, <2>2 DEF Wrapped, xor
<1> QED
  BY <1>1, <1>2

\* The coefficient of x^(128 + e) that the two reductions take away.
Taken(P, e) == e >= 0 /\ (e + 128 \in P <=> ~(e + 128 \in Wrapped(P)))

LEMMA WrappedTwice ==
  ASSUME NEW P \in SUBSET (0 .. 254), NEW e \in 0 .. 127
  PROVE  e \in Wrapped(Wrapped(P)) <=>
           (e \in P <=> (Taken(P, e) <=> (Taken(P, e - 1) <=> (Taken(P, e - 2) <=> Taken(P, e - 7)))))
<1> DEFINE W == Wrapped(P)
<1>1. W \in SUBSET (0 .. 254) /\ e \in Int /\ e <= 127 /\ e >= 0
  <2>1. W \in SUBSET (0 .. 133) /\ 0 .. 133 \subseteq 0 .. 254
    BY WrappedRange
  <2> QED
    BY <2>1
<1>2. /\ e - 1 >= 0 <=> e >= 1 /\ e - 1 + 128 = e + 127
      /\ e - 2 >= 0 <=> e >= 2 /\ e - 2 + 128 = e + 126
      /\ e - 7 >= 0 <=> e >= 7 /\ e - 7 + 128 = e + 121
  OBVIOUS
<1>3. e \in W <=>
           (e \in P <=>
              (e + 128 \in P <=>
                 ((e >= 1 /\ e + 127 \in P) <=>
                    ((e >= 2 /\ e + 126 \in P) <=> (e >= 7 /\ e + 121 \in P)))))
  BY <1>1, WrappedIs
<1> HIDE DEF W
<1>4. e \in Wrapped(W) <=>
           (e \in W <=>
              (e + 128 \in W <=>
                 ((e >= 1 /\ e + 127 \in W) <=>
                    ((e >= 2 /\ e + 126 \in W) <=> (e >= 7 /\ e + 121 \in W)))))
  BY <1>1, WrappedIs
<1>5. /\ Taken(P, e) <=> (e + 128 \in P <=> ~(e + 128 \in W))
      /\ Taken(P, e - 1) <=> (e >= 1 /\ (e + 127 \in P <=> ~(e + 127 \in W)))
      /\ Taken(P, e - 2) <=> (e >= 2 /\ (e + 126 \in P <=> ~(e + 126 \in W)))
      /\ Taken(P, e - 7) <=> (e >= 7 /\ (e + 121 \in P <=> ~(e + 121 \in W)))
  BY <1>1, <1>2 DEF Taken, W
<1> QED
  BY <1>3, <1>4, <1>5 DEF W

\* The lower half, with what is folded back into it.
LEMMA Low2Taken ==
  ASSUME NEW x \in SUBSET Bit, NEW P \in SUBSET (0 .. 254),
         \A k \in Bit : k \in x <=> 255 - k \in P
  PROVE  \A e \in Int : e <= 127 => (127 - e \in Low2(x) <=> Taken(P, e))
<1>1. ASSUME NEW n \in {127, 126, 121}, NEW e \in 0 .. 127
      PROVE  (127 - e) - n \in x <=> e + 128 + n \in P
  <2> DEFINE j == (127 - e) - n
  <2>1. j \in Int /\ 255 - j = e + 128 + n /\ j <= 127 - e
    OBVIOUS
  <2>2. CASE j \in Bit
    <3> HIDE DEF j
    <3> QED
      BY <2>1, <2>2 DEF j
  <2>3. CASE j \notin Bit
    <3>1. e + 128 + n \notin 0 .. 254
      BY <2>1, <2>3 DEF Bit
    <3> QED
      BY <2>3, <3>1
  <2> QED
    BY <2>2, <2>3
<1>2. ASSUME NEW e \in 0 .. 127
      PROVE  127 - e \in Low2(x) <=> (e + 128 \in P <=> ~(e + 128 \in Wrapped(P)))
  <2> DEFINE k == 127 - e
             f == e + 128
  <2>1. k \in Bit /\ 255 - k = e + 128
    BY DEF Bit
  <2>2. /\ k - 127 \in x <=> e + 255 \in P
        /\ k - 126 \in x <=> e + 254 \in P
        /\ k - 121 \in x <=> e + 249 \in P
    <3>1. e + 128 + 127 = e + 255 /\ e + 128 + 126 = e + 254 /\ e + 128 + 121 = e + 249
      OBVIOUS
    <3> QED
      BY <1>1, <3>1
  <2>3. /\ f \in Int /\ ~(f <= 127) /\ f >= 2 /\ f >= 7 /\ f >= 1
        /\ f + 127 = e + 255 /\ f + 126 = e + 254 /\ f + 121 = e + 249 /\ f + 128 \notin 0 .. 254
    OBVIOUS
  <2> HIDE DEF k, f
  <2>4. k \in Low2(x) <=> (f \in P <=> ~(e + 255 \in P <=> (e + 254 \in P <=> e + 249 \in P)))
    BY <2>1, <2>2, Low2Is DEF f
  <2>5. f \in Wrapped(P) <=>
           ((f <= 127 /\ f \in P) <=>
              ((f >= 0 /\ f + 128 \in P) <=>
                 ((f >= 1 /\ f + 127 \in P) <=>
                    ((f >= 2 /\ f + 126 \in P) <=> (f >= 7 /\ f + 121 \in P)))))
    BY <2>3, WrappedIs
  <2>6. f \in Wrapped(P) <=> (e + 255 \in P <=> (e + 254 \in P <=> e + 249 \in P))
    BY <2>3, <2>5
  <2> QED
    BY <2>4, <2>6 DEF k, f
<1>3. ASSUME NEW e \in Int, e <= 127, ~(e >= 0)
      PROVE  127 - e \notin Low2(x) /\ ~Taken(P, e)
  <2>1. 127 - e \notin Bit
    BY <1>3 DEF Bit
  <2> QED
    BY <1>3, <2>1, Low2Is DEF Taken
<1> QED
  <2>1. ASSUME NEW e \in Int, e <= 127 PROVE 127 - e \in Low2(x) <=> Taken(P, e)
    <3>1. CASE e >= 0
      <4>1. e \in 0 .. 127
        BY <2>1, <3>1
      <4> QED
        BY <1>2, <3>1, <4>1 DEF Taken
    <3> QED
      BY <1>3, <2>1, <3>1
  <2> QED
    BY <2>1

\* The register of operator*= is the product of SP 800-38D, for every two of
\* the 2^128 elements.
LEMMA BlockTimesIsRight ==
  ASSUME NEW a \in SUBSET Bit, NEW b \in SUBSET Bit
  PROVE  /\ BlockTimes(a, b) \in SUBSET Bit
         /\ to_exponents(BlockTimes(a, b)) = FieldProduct(to_exponents(a), to_exponents(b))
<1> DEFINE x == LowHalf(a, b)
           y == HighHalf(a, b)
           P == Product256(to_exponents(a), to_exponents(b))
           c == BlockTimes(a, b)
<1>1. /\ x \in SUBSET Bit /\ y \in SUBSET Bit /\ c \in SUBSET Bit
      /\ \A k \in Bit : k \in c <=> Reduced256(x, y, k)
  BY BlockTimesIs
<1>2. /\ P \in SUBSET (0 .. 254)
      /\ \A k \in Bit : k \in x <=> 255 - k \in P
      /\ \A k \in Bit : k \in y <=> 127 - k \in P
  BY HalvesOfProduct
<1>3. FieldProduct(to_exponents(a), to_exponents(b)) = Wrapped(Wrapped(P))
  BY DEF FieldProduct, Product256, Odd, Pairs
<1> HIDE DEF x, y, P, c
<1>4. \A e \in Int : e <= 127 => (127 - e \in Low2(x) <=> Taken(P, e))
  BY <1>1, <1>2, Low2Taken
<1>5. ASSUME NEW e \in 0 .. 127
      PROVE  127 - e \in c <=> e \in Wrapped(Wrapped(P))
  <2> DEFINE k == 127 - e
  <2>1. /\ k \in Bit /\ 127 - k = e /\ k + 1 = 127 - (e - 1) /\ k + 2 = 127 - (e - 2) /\ k + 7 = 127 - (e - 7)
        /\ e \in Int /\ e - 1 \in Int /\ e - 2 \in Int /\ e - 7 \in Int
        /\ e <= 127 /\ e - 1 <= 127 /\ e - 2 <= 127 /\ e - 7 <= 127
    BY DEF Bit
  <2>2. /\ k \in Low2(x) <=> Taken(P, e)
        /\ k + 1 \in Low2(x) <=> Taken(P, e - 1)
        /\ k + 2 \in Low2(x) <=> Taken(P, e - 2)
        /\ k + 7 \in Low2(x) <=> Taken(P, e - 7)
    BY <1>4, <2>1
  <2>3. k \in y <=> e \in P
    BY <1>2, <2>1
  <2> HIDE DEF k
  <2>4. e \in Wrapped(Wrapped(P)) <=>
           (e \in P <=> (Taken(P, e) <=> (Taken(P, e - 1) <=> (Taken(P, e - 2) <=> Taken(P, e - 7)))))
    BY <1>2, WrappedTwice
  <2>5. k \in c <=> (k \in y <=> (k \in Low2(x) <=>
              (k + 1 \in Low2(x) <=> (k + 2 \in Low2(x) <=> k + 7 \in Low2(x)))))
    BY <1>1, <2>1 DEF Reduced256
  <2> QED
    BY <2>2, <2>3, <2>4, <2>5 DEF k
<1>6. Wrapped(Wrapped(P)) \in SUBSET (0 .. 127)
  BY <1>2, WrappedRange
<1>7. to_exponents(c) = Wrapped(Wrapped(P))
  BY <1>5, <1>6 DEF to_exponents
<1> QED
  BY <1>1, <1>3, <1>7 DEF c

-----------------------------------------------------------------------------
(* Blocks of bytes.                                                         *)

LEMMA BytesAre ==
  ASSUME NEW S, NEW s \in Seq(S)
  PROVE  \A n \in 1 .. Len(s) : s[n] \in S
OBVIOUS

LEMMA FromBytes ==
  ASSUME NEW bytes \in Seq(Byte), Len(bytes) = 16
  PROVE  /\ from_gcm_bytes(bytes) \in SUBSET Bit
         /\ to_exponents(from_gcm_bytes(bytes)) = Exponents(bytes)
<1> DEFINE x == from_gcm_bytes(bytes)
<1>1. \A n \in 1 .. 16 : bytes[n] \in SUBSET (0 .. 7)
  <2>1. \A n \in 1 .. Len(bytes) : bytes[n] \in Byte
    BY BytesAre
  <2> QED
    BY <2>1 DEF Byte
<1>2. \A j : j \in x <=> \E n \in 1 .. 16 : \E k \in bytes[n] : j = 8 * (16 - n) + k
  BY DEF from_gcm_bytes
<1>3. \A e : e \in Exponents(bytes) <=> \E n \in 1 .. 16 : \E k \in bytes[n] : e = 8 * (n - 1) + 7 - k
  BY DEF Exponents
<1>4. \A n \in 1 .. 16, k \in 0 .. 7 :
        /\ 8 * (16 - n) + k \in 0 .. 127
        /\ 8 * (n - 1) + 7 - k \in 0 .. 127
        /\ 127 - (8 * (n - 1) + 7 - k) = 8 * (16 - n) + k
        /\ 127 - (8 * (16 - n) + k) = 8 * (n - 1) + 7 - k
  OBVIOUS
<1> HIDE DEF x
<1>5. x \in SUBSET Bit
  <2>1. ASSUME NEW j \in x PROVE j \in Bit
    <3>1. PICK n \in 1 .. 16 : \E k \in bytes[n] : j = 8 * (16 - n) + k
      BY <1>2
    <3>2. PICK k \in bytes[n] : j = 8 * (16 - n) + k
      BY <3>1
    <3>3. k \in 0 .. 7
      BY <1>1
    <3>4. 8 * (16 - n) + k \in 0 .. 127
      BY <1>4, <3>3
    <3> QED
      BY <3>2, <3>4 DEF Bit
  <2> QED
    BY <2>1
<1>6. ASSUME NEW e \in 0 .. 127, 127 - e \in x PROVE e \in Exponents(bytes)
  <2>1. PICK n \in 1 .. 16 : \E k \in bytes[n] : 127 - e = 8 * (16 - n) + k
    BY <1>2, <1>6
  <2>2. PICK k \in bytes[n] : 127 - e = 8 * (16 - n) + k
    BY <2>1
  <2>3. k \in 0 .. 7
    BY <1>1
  <2>4. e = 127 - (8 * (16 - n) + k)
    <3>1. \A u, v \in Int : 127 - u = v => u = 127 - v
      OBVIOUS
    <3>2. 8 * (16 - n) + k \in Int
      BY <2>3
    <3> QED
      BY <2>2, <3>1, <3>2
  <2>5. e = 8 * (n - 1) + 7 - k
    BY <1>4, <2>3, <2>4
  <2> QED
    BY <1>3, <2>5
<1>7. ASSUME NEW e \in Exponents(bytes) PROVE e \in 0 .. 127 /\ 127 - e \in x
  <2>1. PICK n \in 1 .. 16 : \E k \in bytes[n] : e = 8 * (n - 1) + 7 - k
    BY <1>3
  <2>2. PICK k \in bytes[n] : e = 8 * (n - 1) + 7 - k
    BY <2>1
  <2>3. k \in 0 .. 7
    BY <1>1
  <2> QED
    BY <1>2, <1>4, <2>2, <2>3
<1> QED
  BY <1>5, <1>6, <1>7 DEF to_exponents, x

LEMMA ToBytes ==
  ASSUME NEW x \in SUBSET Bit
  PROVE  /\ to_gcm_bytes(x) \in Seq(Byte) /\ Len(to_gcm_bytes(x)) = 16
         /\ Exponents(to_gcm_bytes(x)) = to_exponents(x)
<1> DEFINE s == to_gcm_bytes(x)
<1>1. s = [n \in 1 .. 16 |-> {k \in 0 .. 7 : 8 * (16 - n) + k \in x}]
  BY DEF to_gcm_bytes
<1>2. s \in Seq(Byte) /\ Len(s) = 16
  BY <1>1 DEF Byte
<1>3. \A e : e \in Exponents(s) <=> \E n \in 1 .. 16 : \E k \in s[n] : e = 8 * (n - 1) + 7 - k
  BY DEF Exponents
<1>4. \A n \in 1 .. 16 : \A k : k \in s[n] <=> k \in 0 .. 7 /\ 8 * (16 - n) + k \in x
  BY <1>1
<1>5. \A n \in 1 .. 16, k \in 0 .. 7 :
        /\ 8 * (n - 1) + 7 - k \in 0 .. 127
        /\ 127 - (8 * (n - 1) + 7 - k) = 8 * (16 - n) + k
  OBVIOUS
<1> HIDE DEF s
<1>6. ASSUME NEW e \in Exponents(s) PROVE e \in 0 .. 127 /\ 127 - e \in x
  <2>1. PICK n \in 1 .. 16 : \E k \in s[n] : e = 8 * (n - 1) + 7 - k
    BY <1>3
  <2>2. PICK k \in s[n] : e = 8 * (n - 1) + 7 - k
    BY <2>1
  <2> QED
    BY <1>4, <1>5, <2>2
<1>7. ASSUME NEW e \in 0 .. 127, 127 - e \in x PROVE e \in Exponents(s)
  <2>1. PICK n \in 1 .. 16, k \in 0 .. 7 : e = 8 * (n - 1) + 7 - k
    <3>1. (e \div 8) + 1 \in 1 .. 16 /\ 7 - (e % 8) \in 0 .. 7
      OBVIOUS
    <3>2. e = 8 * (((e \div 8) + 1) - 1) + 7 - (7 - (e % 8))
      OBVIOUS
    <3> QED
      BY <3>1, <3>2
  <2>2. k \in s[n]
    BY <1>4, <1>5, <1>7, <2>1
  <2> QED
    BY <1>3, <2>1, <2>2
<1> QED
  BY <1>2, <1>6, <1>7 DEF to_exponents, s

LEMMA FromExponents ==
  ASSUME NEW E \in SUBSET (0 .. 127)
  PROVE  from_exponents(E) \in SUBSET Bit /\ to_exponents(from_exponents(E)) = E
<1>1. \A e \in 0 .. 127 : 127 - e \in 0 .. 127 /\ 127 - (127 - e) = e
  OBVIOUS
<1>2. from_exponents(E) = {127 - e : e \in E}
  BY DEF from_exponents
<1>3. from_exponents(E) \in SUBSET Bit
  BY <1>1, <1>2 DEF Bit
<1>4. \A e \in 0 .. 127 : 127 - e \in from_exponents(E) <=> e \in E
  <2>1. ASSUME NEW e \in 0 .. 127, 127 - e \in from_exponents(E) PROVE e \in E
    <3>1. PICK d \in E : 127 - e = 127 - d
      BY <1>2, <2>1
    <3>2. d \in 0 .. 127
      OBVIOUS
    <3>3. \A u, v \in 0 .. 127 : 127 - u = 127 - v => u = v
      OBVIOUS
    <3> QED
      BY <3>1, <3>2, <3>3
  <2> QED
    BY <1>2, <2>1
<1> QED
  BY <1>3, <1>4 DEF to_exponents

-----------------------------------------------------------------------------
(* The actions on blocks.                                                   *)

OnBlocks == {"gcm_block2poly", "gcm_poly2block", "gcm_clmul", "operator/="}

\* The inductive invariant of BlocksAreRight: what is given is made of bytes,
\* and no loop runs for these actions but that of operator/=.
BlocksInv ==
  /\ request.action = "gcm_block2poly" => request.block \in Seq(Byte)
  /\ request.action = "gcm_poly2block" => request.exponents \in SUBSET Nat
  /\ request.action \in {"gcm_clmul", "operator/="} => request.a \in Seq(Byte) /\ request.b \in Seq(Byte)
  /\ at \notin {"called", "block", "returned", "failed"} => request.action \notin OnBlocks
  /\ at = "block" => request.action = "operator/="
  /\ BlocksAreRight

LEMMA BlocksInit == Init => BlocksInv
BY ArithmeticAssumption DEF Init, BlocksInv, BlocksAreRight, Returned

LEMMA Block2Poly ==
  ASSUME BlocksInv, gcm_block2poly
  PROVE  BlocksInv'
<1>1. request.action = "gcm_block2poly" /\ request' = request /\ request.block \in Seq(Byte)
  BY DEF gcm_block2poly, Called, Return, Fail, BlocksInv
<1>2. CASE Len(request.block) = 16
  <2>1. at' = "returned" /\ result' = to_exponents(from_gcm_bytes(request.block))
    BY <1>2 DEF gcm_block2poly, Return
  <2>2. result' = Exponents(request.block)
    BY <1>1, <1>2, <2>1, FromBytes
  <2> QED
    BY <1>1, <2>1, <2>2 DEF BlocksInv, BlocksAreRight, Returned
<1>3. CASE Len(request.block) # 16
  <2>1. at' = "failed"
    BY <1>3 DEF gcm_block2poly, Fail
  <2> QED
    BY <1>1, <1>3, <2>1 DEF BlocksInv, BlocksAreRight, Returned
<1> QED
  BY <1>2, <1>3

LEMMA Poly2Block ==
  ASSUME BlocksInv, gcm_poly2block
  PROVE  BlocksInv'
<1> DEFINE E == {k % 256 : k \in request.exponents}
<1>1. request.action = "gcm_poly2block" /\ request' = request /\ request.exponents \in SUBSET Nat
  BY DEF gcm_poly2block, Called, Return, Fail, BlocksInv
<1>2. CASE \A k \in E : k < 128
  <2>1. at' = "returned" /\ result' = to_gcm_bytes(from_exponents(E))
    BY <1>2 DEF gcm_poly2block, Return
  <2>2. E \in SUBSET (0 .. 127)
    <3>1. \A k \in Nat : k % 256 \in Nat
      OBVIOUS
    <3>2. \A k \in E : k \in Nat
      BY <1>1, <3>1
    <3> HIDE DEF E
    <3> QED
      BY <1>2, <3>2
  <2> HIDE DEF E
  <2>3. Exponents(result') = E
    BY <2>1, <2>2, FromExponents, ToBytes
  <2> QED
    BY <1>1, <2>1, <2>3 DEF BlocksInv, BlocksAreRight, Returned, E
<1>3. CASE ~\A k \in E : k < 128
  <2>1. at' = "failed"
    BY <1>3 DEF gcm_poly2block, Fail
  <2>2. \E k \in request.exponents : k % 256 >= 128
    <3>1. PICK k \in request.exponents : ~(k % 256 < 128)
      BY <1>3
    <3>2. k \in Nat
      BY <1>1
    <3>3. k % 256 >= 128
      BY <3>1, <3>2
    <3> QED
      BY <3>3
  <2> QED
    BY <1>1, <2>1, <2>2 DEF BlocksInv, BlocksAreRight, Returned
<1> QED
  BY <1>2, <1>3

LEMMA BlockProduct ==
  ASSUME BlocksInv, gcm_clmul
  PROVE  BlocksInv'
<1>1. /\ request.action = "gcm_clmul" /\ request' = request
      /\ request.a \in Seq(Byte) /\ request.b \in Seq(Byte)
  BY DEF gcm_clmul, Called, Return, Fail, BlocksInv
<1>2. CASE Len(request.a) = 16 /\ Len(request.b) = 16
  <2> DEFINE x == from_gcm_bytes(request.a)
             y == from_gcm_bytes(request.b)
  <2>1. at' = "returned" /\ result' = to_gcm_bytes(BlockTimes(x, y))
    BY <1>2 DEF gcm_clmul, Return
  <2>2. /\ x \in SUBSET Bit /\ y \in SUBSET Bit
        /\ to_exponents(x) = Exponents(request.a) /\ to_exponents(y) = Exponents(request.b)
    BY <1>1, <1>2, FromBytes
  <2> HIDE DEF x, y
  <2>3. Exponents(result') = FieldProduct(Exponents(request.a), Exponents(request.b))
    BY <2>1, <2>2, BlockTimesIsRight, ToBytes
  <2> QED
    BY <1>1, <2>1, <2>3 DEF BlocksInv, BlocksAreRight, Returned
<1>3. CASE ~(Len(request.a) = 16 /\ Len(request.b) = 16)
  <2>1. at' = "failed"
    BY <1>3 DEF gcm_clmul, Fail
  <2> QED
    BY <1>1, <1>3, <2>1 DEF BlocksInv, BlocksAreRight, Returned
<1> QED
  BY <1>2, <1>3

\* What the other actions return is no block.
LEMMA OtherBlocks ==
  ASSUME BlocksInv, request' = request,
         \/ /\ request.action \notin OnBlocks
            /\ at' # "block"
         \/ /\ request.action = "operator/="
            /\ at' \in {"block", "returned"}
  PROVE  BlocksInv'
BY DEF BlocksInv, BlocksAreRight, Returned, OnBlocks

LEMMA StepKeepsBlocks ==
  ASSUME BlocksInv, [Next]_vars
  PROVE  BlocksInv'
<1>1. CASE gcm_block2poly \/ gcm_poly2block \/ gcm_clmul
  BY <1>1, Block2Poly, Poly2Block, BlockProduct
<1>2. CASE BlockDivide \/ BlockPowRound \/ BlockDivided
  <2>1. request' = request /\ request.action = "operator/=" /\ at' \in {"block", "returned"}
    BY <1>2 DEF BlockDivide, BlockPowRound, BlockDivided, Called, Return, BlocksInv
  <2> QED
    BY <2>1, OtherBlocks
<1>3. CASE gcm_poly_add \/ gcm_poly_mul \/ gcm_poly_divmod \/ gcm_poly_gcd \/ StartPow
  <2>1. request' = request /\ request.action \notin OnBlocks /\ at' # "block"
    BY <1>3 DEF gcm_poly_add, gcm_poly_mul, gcm_poly_divmod, gcm_poly_gcd, GcdOf, StartPow, Called, Return,
                Fail, DivideFor, OnBlocks
  <2> QED
    BY <2>1, OtherBlocks
<1>4. CASE DivisionReturned \/ GcdRound \/ gcm_poly_pow \/ gcm_poly_powmod \/ BaseReduced \/ OutReduced \/ PowDone
           \/ Dividing \/ DivisionFailed
  <2>1. /\ request' = request /\ at \in {"divide", "gcd", "pow", "base", "out"}
        /\ at' # "block"
    BY <1>4 DEF DivisionReturned, GcdRound, GcdOf, gcm_poly_pow, gcm_poly_powmod, BaseReduced, OutReduced,
                PowDone, Dividing, DivisionFailed, InDivision, Return, Fail, DivideFor
  <2>2. request.action \notin OnBlocks
    BY <2>1 DEF BlocksInv
  <2> QED
    BY <2>1, <2>2, OtherBlocks
<1>5. CASE UNCHANGED vars
  BY <1>5 DEF vars, BlocksInv, BlocksAreRight, Returned
<1> QED
  BY <1>1, <1>2, <1>3, <1>4, <1>5 DEF Next

\* The conversions between blocks and exponents and the product of two blocks
\* are those of SP 800-38D, for all blocks of bytes: the product of
\* operator*= with its four carry-less products of halves and its shifts
\* within lanes, for all of the 2^256 pairs (gcm_block2poly, gcm_poly2block,
\* gcm_clmul).
THEOREM BlocksAreAlwaysRight == Spec => []BlocksAreRight
<1>1. BlocksInv /\ [Next]_vars => BlocksInv'
  BY StepKeepsBlocks
<1>2. BlocksInv => BlocksAreRight
  BY DEF BlocksInv
<1> QED
  BY <1>1, <1>2, BlocksInit, PTL DEF Spec

-----------------------------------------------------------------------------
(* The field of blocks is that of GF, with the constants of GCM.            *)

OfGCM == Width = 128 /\ Reduction = {0, 1, 2, 7}

LEMMA ElementsOfGCM ==
  ASSUME OfGCM
  PROVE  /\ Element = SUBSET (0 .. 127) /\ WideElement = SUBSET (0 .. 254)
         /\ Width .. 2 * Width - 2 = 128 .. 254 /\ Width - 1 = 127
<1>1. Width - 1 = 127 /\ 2 * Width - 2 = 254
  BY DEF OfGCM
<1> QED
  BY <1>1 DEF OfGCM, Element, WideElement

LEMMA WrappedAdds ==
  ASSUME NEW P \in SUBSET (0 .. 254), NEW S \in SUBSET (0 .. 254)
  PROVE  Wrapped(Plus(P, S)) = Plus(Wrapped(P), Wrapped(S))
<1> DEFINE U == Plus(P, S)
<1>1. U \in SUBSET (0 .. 254) /\ \A e : e \in U <=> ~(e \in P <=> e \in S)
  BY DEF Plus
<1> HIDE DEF U
<1>2. Wrapped(U) \in SUBSET (0 .. 133) /\ Wrapped(P) \in SUBSET (0 .. 133) /\ Wrapped(S) \in SUBSET (0 .. 133)
  BY <1>1, WrappedRange
<1>3. ASSUME NEW e \in Int
      PROVE  e \in Wrapped(U) <=> ~(e \in Wrapped(P) <=> e \in Wrapped(S))
  BY <1>1, WrappedIs
<1>4. \A e : e \in Wrapped(U) => e \in Int
  BY <1>2
<1>5. \A e : e \in Plus(Wrapped(P), Wrapped(S)) <=> ~(e \in Wrapped(P) <=> e \in Wrapped(S))
  BY DEF Plus
<1>6. \A e : e \in Plus(Wrapped(P), Wrapped(S)) => e \in Int
  BY <1>2 DEF Plus
<1> QED
  BY <1>3, <1>4, <1>5, <1>6 DEF U

\* One exponent is wrapped as it is folded.
LEMMA WrappedPower ==
  ASSUME OfGCM, NEW n \in 0 .. 254
  PROVE  Reduced({n}) = Reduced(Wrapped({n}))
<1>1. Wrapped({n}) = IF n < 128 THEN {n} ELSE {n - 128, n - 127, n - 126, n - 121}
  <2>1. {n} \in SUBSET (0 .. 254) /\ n \in Int
    OBVIOUS
  <2>2. \A e \in Int : e \in Wrapped({n}) <=>
           ((e <= 127 /\ e = n) <=>
              ((e >= 0 /\ e + 128 = n) <=>
                 ((e >= 1 /\ e + 127 = n) <=>
                    ((e >= 2 /\ e + 126 = n) <=> (e >= 7 /\ e + 121 = n)))))
    <3>1. \A e : e \in {n} <=> e = n
      OBVIOUS
    <3> QED
      BY <2>1, <3>1, WrappedIs
  <2>3. Wrapped({n}) \in SUBSET (0 .. 133)
    BY <2>1, WrappedRange
  <2>4. CASE n < 128
    <3>1. \A e \in Int : e \in Wrapped({n}) <=> e = n
      BY <2>2, <2>4
    <3> QED
      BY <2>1, <2>3, <2>4, <3>1
  <2>5. CASE ~(n < 128)
    <3>1. \A e \in Int : e \in Wrapped({n}) <=> e \in {n - 128, n - 127, n - 126, n - 121}
      BY <2>2, <2>5
    <3> QED
      BY <2>3, <2>5, <3>1
  <2> QED
    BY <2>4, <2>5
<1>2. CASE n < 128
  BY <1>1, <1>2
<1>3. CASE ~(n < 128)
  <2>1. n \in Width .. 2 * Width - 2 /\ {n} \in WideElement /\ {n} \subseteq 0 .. n
    BY <1>3, ElementsOfGCM
  <2>2. Reduced({n}) = Reduced(Folding({n}, n))
    BY <2>1, ReducedOfFolding
  <2>3. {n - Width + e : e \in Reduction} = {n - 128, n - 127, n - 126, n - 121}
    <3>1. n - 128 + 0 = n - 128 /\ n - 128 + 1 = n - 127 /\ n - 128 + 2 = n - 126 /\ n - 128 + 7 = n - 121
      OBVIOUS
    <3>2. {n - 128 + e : e \in {0, 1, 2, 7}} = {n - 128 + 0, n - 128 + 1, n - 128 + 2, n - 128 + 7}
      BY Zenon
    <3> QED
      BY <3>1, <3>2 DEF OfGCM
  <2>4. Folding({n}, n) = {n - Width + e : e \in Reduction}
    BY DEF Folding, Plus
  <2> QED
    BY <1>1, <1>3, <2>2, <2>3, <2>4
<1> QED
  BY <1>2, <1>3

LEMMA ReducedOfWrapped ==
  ASSUME OfGCM
  PROVE  \A p \in SUBSET (0 .. 254) : Reduced(p) = Reduced(Wrapped(p))
<1> DEFINE S == {p \in SUBSET (0 .. 254) : Reduced(p) = Reduced(Wrapped(p))}
           T == {n \in 0 .. 255 : SUBSET (0 .. n - 1) \subseteq S}
<1>1. \A p \in SUBSET (0 .. 254) : p \in WideElement /\ Wrapped(p) \in SUBSET (0 .. 133) /\ Wrapped(p) \in WideElement
  <2>1. 0 .. 133 \subseteq 0 .. 254
    OBVIOUS
  <2>2. WideElement = SUBSET (0 .. 254)
    BY ElementsOfGCM
  <2> HIDE DEF S, T
  <2> QED
    BY <2>1, <2>2, WrappedRange
<1>2. ASSUME NEW p \in S, NEW s \in S PROVE Plus(p, s) \in S
  <2>1. Plus(p, s) \in SUBSET (0 .. 254)
    BY DEF Plus
  <2>2. Reduced(Plus(p, s)) = Plus(Reduced(p), Reduced(s))
    BY <1>1, ReducedAdds
  <2>3. Reduced(Plus(Wrapped(p), Wrapped(s))) = Plus(Reduced(Wrapped(p)), Reduced(Wrapped(s)))
    BY <1>1, ReducedAdds
  <2>4. Wrapped(Plus(p, s)) = Plus(Wrapped(p), Wrapped(s))
    BY WrappedAdds
  <2> QED
    BY <2>1, <2>2, <2>3, <2>4
<1>3. 0 \in T
  <2>1. Wrapped({}) = {}
    BY DEF Wrapped, xor
  <2>2. 0 .. 0 - 1 = {} /\ 0 \in 0 .. 255
    OBVIOUS
  <2>3. {} \in S
    BY <2>1
  <2> HIDE DEF S
  <2>4. SUBSET (0 .. 0 - 1) \subseteq S
    BY <2>2, <2>3
  <2> QED
    BY <2>2, <2>4
<1>4. ASSUME NEW n \in 0 .. 254, n \in T PROVE n + 1 \in T
  <2>1. n + 1 \in 0 .. 255 /\ (n + 1) - 1 = n /\ 0 .. n \subseteq 0 .. 254 /\ (0 .. n) \ {n} = 0 .. n - 1
    OBVIOUS
  <2>2. ASSUME NEW p \in SUBSET (0 .. n) PROVE p \in S
    <3>1. p \ {n} \in S
      BY <1>4, <2>1
    <3>2. {n} \in S
      BY WrappedPower
    <3>3. n \in p => p = Plus(p \ {n}, {n})
      BY DEF Plus
    <3>4. n \notin p => p = p \ {n}
      OBVIOUS
    <3> HIDE DEF S
    <3> QED
      BY <1>2, <3>1, <3>2, <3>3, <3>4
  <2> HIDE DEF S
  <2> QED
    BY <2>1, <2>2
<1>5. 255 \in T
  <2>1. 255 \in Nat /\ 255 - 1 = 254 /\ 255 \in 0 .. 255
    OBVIOUS
  <2> HIDE DEF T
  <2> QED
    BY <1>3, <1>4, <2>1, Induction
<1>6. 255 - 1 = 254
  OBVIOUS
<1> HIDE DEF S
<1>7. SUBSET (0 .. 254) \subseteq S
  BY <1>5, <1>6
<1> QED
  BY <1>7 DEF S

\* The product of SP 800-38D is that of GF: both reduce the same product, one
\* an exponent at a time, the other all at once and twice.
LEMMA FieldProductIsTimes ==
  ASSUME OfGCM, NEW a \in Element, NEW b \in Element
  PROVE  FieldProduct(a, b) = Times(a, b)
<1> DEFINE p == ClMul(a, b)
<1>1. p \in SUBSET (0 .. 254)
  BY ClMulIsWide, ElementsOfGCM
<1>2. 2 * Width - 2 = 254
  BY DEF OfGCM
<1>3. FieldProduct(a, b) = Wrapped(Wrapped(p))
  BY <1>2 DEF FieldProduct, ClMul
<1> HIDE DEF p
<1>4. /\ Wrapped(p) \in SUBSET (0 .. 133) /\ Wrapped(p) \in SUBSET (0 .. 254)
      /\ Wrapped(Wrapped(p)) \in Element
  <2>1. 0 .. 133 \subseteq 0 .. 254
    OBVIOUS
  <2> QED
    BY <1>1, <2>1, WrappedRange, ElementsOfGCM
<1>5. Reduced(p) = Reduced(Wrapped(p)) /\ Reduced(Wrapped(p)) = Reduced(Wrapped(Wrapped(p)))
  BY <1>1, <1>4, ReducedOfWrapped
<1>6. Reduced(Wrapped(Wrapped(p))) = Wrapped(Wrapped(p))
  BY <1>4, ReducedOfElement
<1> QED
  BY <1>3, <1>5, <1>6, TimesIs DEF p

\* operator*= computes the product of GF in its register.
LEMMA BlockTimesIsTimes ==
  ASSUME OfGCM, NEW x \in SUBSET Bit, NEW y \in SUBSET Bit
  PROVE  /\ BlockTimes(x, y) \in SUBSET Bit
         /\ to_exponents(x) \in Element /\ to_exponents(y) \in Element
         /\ to_exponents(BlockTimes(x, y)) = Times(to_exponents(x), to_exponents(y))
<1>1. to_exponents(x) \in Element /\ to_exponents(y) \in Element
  BY ElementsOfGCM DEF to_exponents
<1> QED
  BY <1>1, BlockTimesIsRight, FieldProductIsTimes

-----------------------------------------------------------------------------
(* pow of the inverse: the bits 1 to 127 of its exponent are set.           *)

LEMMA TimesSwaps ==
  ASSUME NEW a \in Element, NEW b \in Element, NEW c \in Element, NEW d \in Element
  PROVE  Times(Times(a, b), Times(c, d)) = Times(Times(a, c), Times(b, d))
<1>1. \A u, v \in Element : Times(u, v) \in Element
  BY TimesIs
<1>2. Times(Times(a, b), Times(c, d)) = Times(a, Times(b, Times(c, d)))
  BY <1>1, TimesAssociates
<1>3. Times(b, Times(c, d)) = Times(c, Times(b, d))
  <2>1. Times(b, Times(c, d)) = Times(Times(b, c), d)
    BY TimesAssociates
  <2>2. Times(c, Times(b, d)) = Times(Times(c, b), d)
    BY TimesAssociates
  <2> QED
    BY <2>1, <2>2, TimesCommutes
<1>4. Times(Times(a, c), Times(b, d)) = Times(a, Times(c, Times(b, d)))
  BY <1>1, TimesAssociates
<1> QED
  BY <1>2, <1>3, <1>4

\* base, after j rounds.
LEMMA SquaredBase ==
  ASSUME NEW b \in Element
  PROVE  /\ Power(b, 2 ^ 0) = b
         /\ \A j \in 0 .. Width - 1 :
              /\ Power(b, 2 ^ j) \in Element
              /\ Power(b, 2 ^ (j + 1)) = Times(Power(b, 2 ^ j), Power(b, 2 ^ j))
<1>1. Power(b, 2 ^ 0) = b
  <2>1. Power(b, 0) = one /\ Power(b, 1) = Times(Power(b, 1 - 1), b)
    BY PowerLaws
  <2>2. Power(b, 1) = b
    BY <2>1, TimesZeroOne
  <2> QED
    BY <2>2, PowersOfTwo
<1>2. ASSUME NEW j \in 0 .. Width - 1
      PROVE  /\ Power(b, 2 ^ j) \in Element
             /\ Power(b, 2 ^ (j + 1)) = Times(Power(b, 2 ^ j), Power(b, 2 ^ j))
  <2> DEFINE x == 2 ^ j
             y == 2 ^ (j + 1)
  <2>1. j \in 0 .. Width
    BY FieldAssumption
  <2>2. x \in Nat /\ x >= 1
    BY <2>1, TwoToThe
  <2>3. y = 2 * x
    BY PowersOfTwo
  <2> HIDE DEF x, y
  <2>4. y \in Nat /\ y # 0 /\ y % 2 = 0 /\ y \div 2 = x
    BY <2>2, <2>3
  <2>5. Power(b, y) = Times(Power(b, x), Power(b, x)) /\ Power(b, x) \in Element
    BY <2>2, <2>4, PowerLaws, PowerIsElement
  <2> QED
    BY <2>5 DEF x, y
<1> QED
  BY <1>1, <1>2

\* The definition of the inverse takes the bits from the other end.
LEMMA InverseFromAbove ==
  ASSUME NEW b \in Element, NEW j \in 1 .. Width - 1
  PROVE  LET u == Power(b, 2 ^ j - 2)
         IN /\ u \in Element
            /\ Power(b, 2 ^ (j + 1) - 2) = Times(Times(u, b), Times(u, b))
<1> DEFINE x == 2 ^ j
           y == 2 ^ (j + 1)
<1>1. j \in 0 .. Width /\ j > 0 /\ j \in 0 .. Width - 1 /\ j - 1 \in 0 .. Width
  BY FieldAssumption
<1>2. x \in Nat /\ x >= 2 /\ x = 2 * 2 ^ (j - 1) /\ 2 ^ (j - 1) \in Nat
  BY <1>1, TwoToThe
<1>3. y = 2 * x
  BY <1>1, PowersOfTwo
<1>4. x % 2 = 0
  <2>1. \A v \in Nat : (2 * v) % 2 = 0
    OBVIOUS
  <2> HIDE DEF x
  <2> QED
    BY <1>2, <2>1
<1> HIDE DEF x, y
<1>5. /\ x - 2 \in Nat /\ x - 1 \in Nat /\ (x - 1) % 2 = 1 /\ (x - 1) - 1 = x - 2
      /\ y - 2 \in Nat /\ y - 2 # 0 /\ (y - 2) % 2 = 0 /\ (y - 2) \div 2 = x - 1
  BY <1>2, <1>3, <1>4
<1>6. Power(b, x - 2) \in Element
  BY <1>5, PowerIsElement
<1>7. Power(b, x - 1) = Times(Power(b, x - 2), b)
  BY <1>5, PowerLaws
<1>8. Power(b, y - 2) = Times(Power(b, x - 1), Power(b, x - 1))
  BY <1>5, PowerLaws
<1> QED
  BY <1>6, <1>7, <1>8 DEF x, y

\* out, after j rounds.
LEMMA MultipliedOut ==
  ASSUME NEW b \in Element
  PROVE  \A j \in 1 .. Width - 1 :
           Power(b, 2 ^ (j + 1) - 2) = Times(Power(b, 2 ^ j - 2), Power(b, 2 ^ j))
<1> DEFINE Out(j) == Power(b, 2 ^ j - 2)
           Base(j) == Power(b, 2 ^ j)
           T == {j \in 0 .. Width - 1 : j = 0 \/ Out(j + 1) = Times(Out(j), Base(j))}
<1>0. Width - 1 \in Nat
  BY FieldAssumption
<1>1. \A j \in 1 .. Width - 1 :
         /\ Out(j) \in Element /\ Base(j) \in Element /\ Base(j + 1) = Times(Base(j), Base(j))
         /\ Out(j + 1) = Times(Times(Out(j), b), Times(Out(j), b))
  <2>1. \A j \in 1 .. Width - 1 : j \in 0 .. Width - 1
    OBVIOUS
  <2> QED
    BY <2>1, InverseFromAbove, SquaredBase
<1>2. 0 \in T
  BY <1>0
<1>3. ASSUME 1 \in 0 .. Width - 1 PROVE 1 \in T
  <2>1. 2 ^ 1 = 2 /\ 0 + 1 = 1 /\ 1 \in 1 .. Width - 1 /\ 0 \in 0 .. Width - 1
    <3>1. 0 \in 0 .. Width - 1 /\ 0 + 1 = 1 /\ 1 \in 1 .. Width - 1
      BY <1>3, FieldAssumption
    <3>2. 2 ^ 1 = 2 * 2 ^ 0 /\ 2 ^ 0 = 1
      BY <3>1, PowersOfTwo
    <3>3. 2 ^ 1 = 2
      BY <3>2
    <3> QED
      BY <3>1, <3>3
  <2>2. Out(1) = one
    <3>1. 2 ^ 1 - 2 = 0
      BY <2>1
    <3>2. Power(b, 0) = one
      BY PowerLaws
    <3> QED
      BY <3>1, <3>2
  <2>3. Base(1) = Times(b, b)
    <3>1. Power(b, 2 ^ (0 + 1)) = Times(Power(b, 2 ^ 0), Power(b, 2 ^ 0)) /\ Power(b, 2 ^ 0) = b
      BY <2>1, SquaredBase
    <3> QED
      BY <2>1, <3>1
  <2> HIDE DEF Out, Base
  <2>4. Out(1 + 1) = Times(Times(one, b), Times(one, b))
    BY <1>1, <2>1, <2>2
  <2>5. Times(one, b) = b /\ Times(one, Base(1)) = Base(1)
    BY <1>1, <2>1, TimesZeroOne
  <2> QED
    BY <1>3, <2>2, <2>3, <2>4, <2>5
<1>4. ASSUME NEW j \in 0 .. Width - 1 - 1, j \in T PROVE j + 1 \in T
  <2>1. CASE j = 0
    <3>1. j + 1 = 1 /\ 1 \in 0 .. Width - 1
      BY <1>0, <2>1
    <3> HIDE DEF T
    <3> QED
      BY <1>3, <3>1
  <2>2. CASE j # 0
    <3>1. j \in 1 .. Width - 1 /\ j + 1 \in 1 .. Width - 1 /\ j + 1 \in 0 .. Width - 1 /\ j + 1 # 0
      BY <1>0, <2>2
    <3> HIDE DEF Out, Base
    <3>2. Out(j + 1) = Times(Out(j), Base(j))
      BY <1>4, <2>2
    <3> DEFINE u == Out(j)
               v == Base(j)
    <3>3. /\ u \in Element /\ v \in Element
          /\ Times(u, b) \in Element /\ Times(u, v) \in Element /\ Times(v, v) \in Element
          /\ Base(j + 1) = Times(v, v) /\ Out(j + 1) = Times(Times(u, b), Times(u, b))
          /\ Out((j + 1) + 1) = Times(Times(Out(j + 1), b), Times(Out(j + 1), b))
      BY <1>1, <3>1, TimesIs
    <3> HIDE DEF u, v
    <3>4. Times(Times(u, v), b) = Times(Times(u, b), v)
      <4>1. Times(Times(u, v), Times(b, one)) = Times(Times(u, b), Times(v, one))
        BY <3>3, ElementPlus, TimesSwaps
      <4> QED
        BY <3>3, <4>1, TimesZeroOne
    <3>5. Out((j + 1) + 1) = Times(Times(Times(u, b), v), Times(Times(u, b), v))
      BY <3>2, <3>3, <3>4 DEF u, v
    <3>6. Times(Times(Times(u, b), v), Times(Times(u, b), v))
            = Times(Times(Times(u, b), Times(u, b)), Times(v, v))
      BY <3>3, TimesSwaps
    <3>7. Out((j + 1) + 1) = Times(Out(j + 1), Base(j + 1))
      BY <3>3, <3>5, <3>6
    <3> QED
      BY <3>1, <3>7
  <2> QED
    BY <2>1, <2>2
<1> HIDE DEF T
<1>5. 0 .. Width - 1 \subseteq T
  BY <1>0, <1>2, <1>4, Induction
<1>6. ASSUME NEW j \in 1 .. Width - 1 PROVE Out(j + 1) = Times(Out(j), Base(j))
  <2>1. j \in 0 .. Width - 1 /\ j # 0
    OBVIOUS
  <2> HIDE DEF Out, Base
  <2> QED
    BY <1>5, <2>1 DEF T
<1> QED
  BY <1>6

\* What has no inverse is taken to zero.
LEMMA InverseOfZero ==
  ASSUME OfGCM
  PROVE  modular_inverse[zero] = zero
<1>1. Width = 128 /\ 127 \in 1 .. Width - 1 /\ 127 + 1 = Width /\ zero \in Element
  BY ElementPlus DEF OfGCM
<1> DEFINE u == Power(zero, 2 ^ 127 - 2)
<1>2. u \in Element /\ Power(zero, 2 ^ (127 + 1) - 2) = Times(Times(u, zero), Times(u, zero))
  BY <1>1, InverseFromAbove
<1>3. Power(zero, 2 ^ Width - 2) = Times(Times(u, zero), Times(u, zero))
  BY <1>1, <1>2
<1> HIDE DEF u
<1>4. Times(u, zero) = zero /\ Times(zero, zero) = zero
  BY <1>1, <1>2, TimesZeroOne
<1> QED
  BY <1>1, <1>3, <1>4 DEF modular_inverse

-----------------------------------------------------------------------------
(* Quotients.                                                               *)

\* What is left of the exponent of the inverse after j rounds.
LeftOf(j) == IF j = 0 THEN 1 .. 127 ELSE 0 .. 127 - j

LEMMA ExponentLeft ==
  /\ inverse_exponent = LeftOf(0)
  /\ \A j \in 0 .. 127 : LeftOf(j) \in SUBSET Bit /\ NextExponent(LeftOf(j)) = LeftOf(j + 1)
  /\ \A j \in 0 .. 128 : /\ 0 \in LeftOf(j) <=> j \in 1 .. 127
                         /\ LeftOf(j) = {} <=> j = 128
<1>1. inverse_exponent = LeftOf(0)
  BY DEF inverse_exponent, LeftOf, Bit
<1>2. ASSUME NEW j \in 0 .. 127
      PROVE  LeftOf(j) \in SUBSET Bit /\ NextExponent(LeftOf(j)) = LeftOf(j + 1)
  <2>1. LeftOf(j) \in SUBSET Bit
    BY DEF LeftOf, Bit
  <2>2. LeftOf(j) \ {0} = 1 .. (IF j = 0 THEN 127 ELSE 127 - j)
    BY DEF LeftOf
  <2>3. LeftOf(j + 1) = 0 .. 126 - j
    BY DEF LeftOf
  <2>4. {k - 1 : k \in LeftOf(j) \ {0}} = LeftOf(j + 1)
    <3>1. ASSUME NEW n \in 126 .. 127, NEW i \in Int
          PROVE  i \in 0 .. n - 1 <=> i + 1 \in 1 .. n
      OBVIOUS
    <3>2. CASE j = 0
      <4>1. {k - 1 : k \in 1 .. 127} = 0 .. 126
        <5>1. \A i \in 0 .. 126 : i + 1 \in 1 .. 127 /\ i = (i + 1) - 1
          OBVIOUS
        <5>2. \A k \in 1 .. 127 : k - 1 \in 0 .. 126
          OBVIOUS
        <5> QED
          BY <5>1, <5>2
      <4>2. 126 - 0 = 126
        OBVIOUS
      <4> QED
        BY <2>2, <2>3, <3>2, <4>1, <4>2, ZenonT(30)
    <3>3. CASE j # 0
      <4>1. {k - 1 : k \in 1 .. 127 - j} = 0 .. 126 - j
        <5>1. \A i \in 0 .. 126 - j : i + 1 \in 1 .. 127 - j /\ i = (i + 1) - 1
          OBVIOUS
        <5>2. \A k \in 1 .. 127 - j : k - 1 \in 0 .. 126 - j
          OBVIOUS
        <5> QED
          BY <5>1, <5>2
      <4> QED
        BY <2>2, <2>3, <3>3, <4>1
    <3> QED
      BY <3>2, <3>3
  <2> QED
    BY <2>1, <2>4, NextExponentIs
<1>3. ASSUME NEW j \in 0 .. 128
      PROVE  (0 \in LeftOf(j) <=> j \in 1 .. 127) /\ (LeftOf(j) = {} <=> j = 128)
  <2>1. j # 128 => 1 \in LeftOf(j) \/ 0 \in LeftOf(j)
    BY DEF LeftOf
  <2>2. j = 128 => LeftOf(j) = {}
    BY DEF LeftOf
  <2>3. 0 \in LeftOf(j) <=> j \in 1 .. 127
    BY DEF LeftOf
  <2> QED
    BY <2>1, <2>2, <2>3
<1> QED
  BY <1>1, <1>2, <1>3

\* After j rounds base is the power for 2^j, and out the one for the bits of
\* the exponent below j.
RoundsOfInverse(j) ==
  LET b == Exponents(request.b)
  IN /\ exponent = LeftOf(j)
     /\ to_exponents(base) = Power(b, 2 ^ j)
     /\ to_exponents(out) = IF j = 0 THEN one ELSE Power(b, 2 ^ j - 2)

QuotientsInv ==
  /\ request.action = "operator/=" =>
       /\ request.a \in Seq(Byte) /\ Len(request.a) = 16
       /\ request.b \in Seq(Byte) /\ Len(request.b) = 16
  /\ at = "block" =>
       /\ request.action = "operator/="
       /\ base \in SUBSET Bit /\ out \in SUBSET Bit
       /\ \E j \in 0 .. 128 : RoundsOfInverse(j)
  /\ QuotientsAreRight

LEMMA QuotientsInit == Init => QuotientsInv
<1> SUFFICES ASSUME Init PROVE QuotientsInv
  OBVIOUS
<1>1. at = "called"
  BY DEF Init
<1>2. request.action = "operator/=" =>
       /\ request.a \in Seq(Byte) /\ Len(request.a) = 16
       /\ request.b \in Seq(Byte) /\ Len(request.b) = 16
  BY ArithmeticAssumption DEF Init
<1> QED
  BY <1>1, <1>2 DEF QuotientsInv, QuotientsAreRight, Returned

LEMMA BlockDivideKeeps ==
  ASSUME OfGCM, QuotientsInv, BlockDivide
  PROVE  QuotientsInv'
<1> DEFINE b == Exponents(request.b)
<1>1. /\ request.action = "operator/=" /\ request' = request
      /\ request.b \in Seq(Byte) /\ Len(request.b) = 16
      /\ out' = one_block /\ base' = from_gcm_bytes(request.b) /\ exponent' = LeftOf(0)
      /\ at' = "block"
  BY ExponentLeft DEF BlockDivide, Called, QuotientsInv
<1>2. base' \in SUBSET Bit /\ to_exponents(base') = b /\ b \in Element
  <2>1. base' \in SUBSET Bit /\ to_exponents(base') = b
    BY <1>1, FromBytes
  <2> QED
    BY <2>1, BlockTimesIsTimes
<1>3. out' \in SUBSET Bit /\ to_exponents(out') = one
  <2>1. one_block \in SUBSET Bit
    BY DEF one_block, Bit
  <2>2. to_exponents(one_block) = one
    BY DEF to_exponents, one_block, one
  <2> QED
    BY <1>1, <2>1, <2>2
<1>4. Power(b, 2 ^ 0) = b
  BY <1>2, SquaredBase
<1>5. RoundsOfInverse(0)'
  BY <1>1, <1>2, <1>3, <1>4 DEF RoundsOfInverse
<1>6. 0 \in 0 .. 128
  OBVIOUS
<1> HIDE DEF b
<1> QED
  BY <1>1, <1>2, <1>3, <1>5, <1>6 DEF QuotientsInv, QuotientsAreRight, Returned

LEMMA BlockPowRoundKeeps ==
  ASSUME OfGCM, QuotientsInv, BlockPowRound
  PROVE  QuotientsInv'
<1> DEFINE b == Exponents(request.b)
<1>1. /\ at = "block" /\ at' = "block" /\ request' = request /\ exponent # {}
      /\ request.action = "operator/=" /\ request.b \in Seq(Byte) /\ Len(request.b) = 16
      /\ base \in SUBSET Bit /\ out \in SUBSET Bit
      /\ out' = IF 0 \in exponent THEN BlockTimes(out, base) ELSE out
      /\ base' = BlockTimes(base, base)
      /\ exponent' = NextExponent(exponent)
  BY DEF BlockPowRound, QuotientsInv
<1>2. PICK j \in 0 .. 128 : RoundsOfInverse(j)
  BY <1>1 DEF QuotientsInv
<1>3. b \in Element
  <2>1. from_gcm_bytes(request.b) \in SUBSET Bit /\ to_exponents(from_gcm_bytes(request.b)) = b
    BY <1>1, FromBytes
  <2> QED
    BY <2>1, BlockTimesIsTimes
<1>4. /\ exponent = LeftOf(j)
      /\ to_exponents(base) = Power(b, 2 ^ j)
      /\ to_exponents(out) = IF j = 0 THEN one ELSE Power(b, 2 ^ j - 2)
  BY <1>2 DEF RoundsOfInverse
<1> HIDE DEF b
<1>5. j # 128
  BY <1>1, <1>4, ExponentLeft
<1>6. /\ j \in 0 .. 127 /\ j + 1 \in 0 .. 128 /\ j + 1 # 0
      /\ j \in 0 .. Width - 1 /\ (j # 0 => j \in 1 .. Width - 1 /\ j \in 1 .. 127) /\ (j = 0 => j \notin 1 .. 127)
  BY <1>5, ElementsOfGCM
<1>7. exponent' = LeftOf(j + 1) /\ (0 \in exponent <=> j # 0)
  BY <1>1, <1>4, <1>6, ExponentLeft, ZenonT(30)
<1>8. base' \in SUBSET Bit /\ to_exponents(base') = Power(b, 2 ^ (j + 1))
  <2>1. to_exponents(base') = Times(to_exponents(base), to_exponents(base)) /\ base' \in SUBSET Bit
    BY <1>1, BlockTimesIsTimes
  <2>2. Power(b, 2 ^ (j + 1)) = Times(Power(b, 2 ^ j), Power(b, 2 ^ j))
    BY <1>3, <1>6, SquaredBase
  <2> QED
    BY <1>4, <2>1, <2>2
<1>9. out' \in SUBSET Bit /\ to_exponents(out') = Power(b, 2 ^ (j + 1) - 2)
  <2>1. CASE j = 0
    <3>1. out' = out /\ to_exponents(out) = one
      BY <1>1, <1>4, <1>7, <2>1
    <3>2. 2 ^ (j + 1) - 2 = 0
      <4>1. 2 ^ (0 + 1) = 2 * 2 ^ 0 /\ 2 ^ 0 = 1
        BY <1>6, <2>1, PowersOfTwo
      <4>2. 2 ^ (0 + 1) = 2
        BY <4>1
      <4>3. 2 ^ (j + 1) = 2
        BY <2>1, <4>2
      <4> QED
        BY <4>3
    <3>3. Power(b, 0) = one
      BY <1>3, PowerLaws
    <3> QED
      BY <1>1, <3>1, <3>2, <3>3
  <2>2. CASE j # 0
    <3>1. out' = BlockTimes(out, base)
      BY <1>1, <1>7, <2>2
    <3>2. to_exponents(out') = Times(to_exponents(out), to_exponents(base)) /\ out' \in SUBSET Bit
      BY <1>1, <3>1, BlockTimesIsTimes
    <3>3. Power(b, 2 ^ (j + 1) - 2) = Times(Power(b, 2 ^ j - 2), Power(b, 2 ^ j))
      BY <1>3, <1>6, <2>2, MultipliedOut
    <3> QED
      BY <1>4, <2>2, <3>2, <3>3
  <2> QED
    BY <2>1, <2>2
<1>10. RoundsOfInverse(j + 1)'
  BY <1>1, <1>6, <1>7, <1>8, <1>9 DEF RoundsOfInverse, b
<1>11. QuotientsAreRight'
  BY <1>1 DEF QuotientsAreRight, Returned
<1>12. \E i \in 0 .. 128 : RoundsOfInverse(i)'
  BY <1>6, <1>10
<1> QED
  BY <1>1, <1>8, <1>9, <1>11, <1>12 DEF QuotientsInv

LEMMA BlockDividedKeeps ==
  ASSUME OfGCM, QuotientsInv, BlockDivided
  PROVE  QuotientsInv'
<1> DEFINE a == Exponents(request.a)
           b == Exponents(request.b)
           x == from_gcm_bytes(request.a)
<1>1. /\ at = "block" /\ at' = "returned" /\ request' = request /\ exponent = {}
      /\ request.action = "operator/="
      /\ request.a \in Seq(Byte) /\ Len(request.a) = 16
      /\ request.b \in Seq(Byte) /\ Len(request.b) = 16
      /\ out \in SUBSET Bit
      /\ result' = to_gcm_bytes(BlockTimes(x, out))
  BY DEF BlockDivided, Return, QuotientsInv
<1>2. PICK j \in 0 .. 128 : RoundsOfInverse(j)
  BY <1>1 DEF QuotientsInv
<1>3. x \in SUBSET Bit /\ to_exponents(x) = a /\ a \in Element
  <2>1. x \in SUBSET Bit /\ to_exponents(x) = a
    BY <1>1, FromBytes
  <2> QED
    BY <2>1, BlockTimesIsTimes
<1>4. b \in Element
  <2>1. from_gcm_bytes(request.b) \in SUBSET Bit /\ to_exponents(from_gcm_bytes(request.b)) = b
    BY <1>1, FromBytes
  <2> QED
    BY <2>1, BlockTimesIsTimes
<1>5. to_exponents(out) = modular_inverse[b]
  <2>1. exponent = LeftOf(j) /\ to_exponents(out) = IF j = 0 THEN one ELSE Power(b, 2 ^ j - 2)
    BY <1>2 DEF RoundsOfInverse
  <2> HIDE DEF a, b, x
  <2>2. LeftOf(j) = {}
    BY <1>1, <2>1
  <2>3. j = 128
    BY <2>2, ExponentLeft
  <2>4. Width = 128 /\ 128 # 0
    BY DEF OfGCM
  <2>5. j = Width /\ j # 0
    BY <2>3, <2>4
  <2>6. to_exponents(out) = Power(b, 2 ^ Width - 2)
    BY <2>1, <2>5
  <2> QED
    BY <1>4, <2>6 DEF modular_inverse
<1> HIDE DEF a, b, x
<1>6. Exponents(result') = Over(a, b)
  BY <1>1, <1>3, <1>5, BlockTimesIsTimes, ToBytes DEF Over
<1>7. FieldProduct(Over(a, b), b) = Times(Over(a, b), b)
  BY <1>3, <1>4, Inverses, FieldProductIsTimes
<1>8. IF b = {} THEN Over(a, b) = {} ELSE Times(Over(a, b), b) = a
  <2>1. CASE b = zero
    BY <1>3, <2>1, InverseOfZero, TimesZeroOne DEF Over, zero
  <2>2. CASE b # zero
    BY <1>3, <1>4, <2>2, Inverses DEF zero
  <2> QED
    BY <2>1, <2>2 DEF zero
<1>9. QuotientsAreRight'
  BY <1>1, <1>6, <1>7, <1>8 DEF QuotientsAreRight, a, b
<1> QED
  BY <1>1, <1>9 DEF QuotientsInv

\* The other actions neither run this loop nor return a quotient of blocks.
LEMMA OtherQuotients ==
  ASSUME QuotientsInv, request' = request, at' # "block",
         request.action # "operator/=" \/ at' # "returned"
  PROVE  QuotientsInv'
BY DEF QuotientsInv, QuotientsAreRight, Returned

LEMMA StepKeepsQuotients ==
  ASSUME OfGCM, BlocksInv, QuotientsInv, [Next]_vars
  PROVE  QuotientsInv'
<1>1. CASE BlockDivide \/ BlockPowRound \/ BlockDivided
  BY <1>1, BlockDivideKeeps, BlockPowRoundKeeps, BlockDividedKeeps
<1>2. CASE gcm_block2poly \/ gcm_poly2block \/ gcm_clmul
  <2>1. request' = request /\ at' # "block" /\ request.action # "operator/="
    BY <1>2 DEF gcm_block2poly, gcm_poly2block, gcm_clmul, Called, Return, Fail
  <2> QED
    BY <2>1, OtherQuotients
<1>3. CASE gcm_poly_add \/ gcm_poly_mul \/ gcm_poly_divmod \/ gcm_poly_gcd \/ StartPow
  <2>1. request' = request /\ at' # "block" /\ request.action # "operator/="
    BY <1>3 DEF gcm_poly_add, gcm_poly_mul, gcm_poly_divmod, gcm_poly_gcd, GcdOf, StartPow, Called, Return,
                Fail, DivideFor
  <2> QED
    BY <2>1, OtherQuotients
<1>4. CASE DivisionReturned \/ GcdRound \/ gcm_poly_pow \/ gcm_poly_powmod \/ BaseReduced \/ OutReduced \/ PowDone
           \/ Dividing \/ DivisionFailed
  <2>1. /\ request' = request /\ at \in {"divide", "gcd", "pow", "base", "out"}
        /\ at' # "block"
    BY <1>4 DEF DivisionReturned, GcdRound, GcdOf, gcm_poly_pow, gcm_poly_powmod, BaseReduced, OutReduced,
                PowDone, Dividing, DivisionFailed, InDivision, Return, Fail, DivideFor
  <2>2. request.action # "operator/="
    BY <2>1 DEF BlocksInv, OnBlocks
  <2> QED
    BY <2>1, <2>2, OtherQuotients
<1>5. CASE UNCHANGED vars
  BY <1>5 DEF vars, loopVars, QuotientsInv, QuotientsAreRight, Returned, RoundsOfInverse
<1> QED
  BY <1>1, <1>2, <1>3, <1>4, <1>5 DEF Next

\* With the constants of GCM, operator/= divides in its registers as GF does:
\* the 128 rounds of pow, with an exponent shifted lane by lane, compute the
\* inverse of every block but zero, whose quotients are zero (operator/=,
\* modular_inverse, pow).
THEOREM QuotientsAreAlwaysRight == OfGCM => (Spec => []QuotientsAreRight)
<1> SUFFICES ASSUME OfGCM PROVE Spec => []QuotientsAreRight
  OBVIOUS
<1>1. Init => BlocksInv /\ QuotientsInv
  BY BlocksInit, QuotientsInit
<1>2. BlocksInv /\ QuotientsInv /\ [Next]_vars => (BlocksInv /\ QuotientsInv)'
  BY StepKeepsBlocks, StepKeepsQuotients
<1>3. BlocksInv /\ QuotientsInv => QuotientsAreRight
  BY DEF QuotientsInv
<1> QED
  BY <1>1, <1>2, <1>3, PTL DEF Spec

=============================================================================
