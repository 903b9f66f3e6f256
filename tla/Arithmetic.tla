----------------------------- MODULE Arithmetic -----------------------------
(***************************************************************************)
(* The actions of src/actions/gcm_arithmetic.cpp, one request at a time,   *)
(* up to what the program answers or to where it fails.  Those on blocks   *)
(* compute with registers of 128 bits (GcmBlock), those on polynomials     *)
(* over the field of GF, with the divisions they need taken round by round *)
(* (Division).  Exponents are sets of bits.                                *)
(***************************************************************************)
EXTENDS Division, GcmBlock

CONSTANTS
  Polynomials,  \* the polynomials of requests, leading zeros and all
  Blocks,       \* sequences of bytes
  Factors,      \* pairs of such, to be multiplied
  Fractions,    \* pairs of such, to be divided
  Lists,        \* sets of exponents, as gcm-poly2block is given
  Powers,       \* <<base, exponent>>
  ModPowers     \* <<base, exponent, modulo>>

ASSUME ArithmeticAssumption ==
  /\ Blocks \subseteq Seq(Byte)
  /\ Factors \cup Fractions \subseteq Seq(Byte) \X Seq(Byte)
  /\ \A f \in Fractions : Len(f[1]) = 16 /\ Len(f[2]) = 16
  /\ Lists \subseteq SUBSET Nat
  /\ Polynomials \subseteq Seq(Element)
  /\ \A p \in Powers \cup ModPowers : p[1] \in Seq(Element)
  /\ \A p \in ModPowers : p[3] \in Seq(Element)

VARIABLES
  request,        \* the input: its action and its arguments
  at,             \* what runs: "called", "gcd", "divide", "pow", "block",
                  \* "base" or "out" (the two reductions in pow),
                  \* "returned" or "failed"
  base, out, exponent,  \* of the loops of pow
  result

loopVars == <<base, out, exponent>>
vars     == <<request, at, loopVars, result, divisionVars>>

Called(action) == at = "called" /\ request.action = action

Return(x) ==
  /\ at' = "returned" /\ result' = x
  /\ UNCHANGED <<request, loopVars, divisionVars>>

\* An assertion or an exception ends the process.
Fail == at' = "failed" /\ UNCHANGED <<request, loopVars, result, divisionVars>>

DivideFor(who, p, by) == Divide(p, by) /\ at' = who

-----------------------------------------------------------------------------
(* Blocks.                                                                  *)

gcm_block2poly ==
  /\ Called("gcm_block2poly")
  /\ IF Len(request.block) = 16
     THEN Return(to_exponents(from_gcm_bytes(request.block)))
     ELSE Fail

\* The exponents become bytes before they are compared with 128.
gcm_poly2block ==
  /\ Called("gcm_poly2block")
  /\ LET exponents == {k % 256 : k \in request.exponents}
     IN IF \A k \in exponents : k < 128
        THEN Return(to_gcm_bytes(from_exponents(exponents)))
        ELSE Fail

gcm_clmul ==
  /\ Called("gcm_clmul")
  /\ IF Len(request.a) = 16 /\ Len(request.b) = 16
     THEN Return(to_gcm_bytes(BlockTimes(from_gcm_bytes(request.a), from_gcm_bytes(request.b))))
     ELSE Fail

\* operator/=, which ensure_monic and divmod call: pow of the divisor ...
BlockDivide ==
  /\ Called("operator/=")
  /\ out' = one_block /\ base' = from_gcm_bytes(request.b) /\ exponent' = inverse_exponent
  /\ at' = "block"
  /\ UNCHANGED <<request, result, divisionVars>>

BlockPowRound ==
  /\ at = "block" /\ exponent # {}
  /\ out' = IF 0 \in exponent THEN BlockTimes(out, base) ELSE out
  /\ exponent' = NextExponent(exponent)
  /\ base' = BlockTimes(base, base)
  /\ UNCHANGED <<request, at, result, divisionVars>>

\* ... is its inverse.
BlockDivided ==
  /\ at = "block" /\ exponent = {}
  /\ Return(to_gcm_bytes(BlockTimes(from_gcm_bytes(request.a), out)))

-----------------------------------------------------------------------------
(* Polynomials.                                                             *)

gcm_poly_add == Called("gcm_poly_add") /\ Return(Add(request.a, request.b))

gcm_poly_mul == Called("gcm_poly_mul") /\ Return(Mul(request.a, request.b))

gcm_poly_divmod ==
  /\ Called("gcm_poly_div") \/ Called("gcm_poly_mod")
  /\ DivideFor("divide", request.a, request.b)
  /\ UNCHANGED <<request, loopVars, result>>

DivisionReturned ==
  /\ at = "divide" /\ pc = "done"
  /\ Return(IF request.action = "gcm_poly_div" THEN q ELSE r)

\* gcd goes on until its second argument is empty.
GcdOf(p, g) ==
  IF g = <<>> THEN Return(ensure_monic(p))
  ELSE DivideFor("gcd", p, g) /\ UNCHANGED <<request, loopVars, result>>

gcm_poly_gcd == Called("gcm_poly_gcd") /\ GcdOf(request.a, request.b)

GcdRound == at = "gcd" /\ pc = "done" /\ GcdOf(divisor, r)

\* What is not a number of 64 bits is not unsigned.
Unsigned(n) == n \subseteq 0 .. 63

StartPow ==
  /\ Called("gcm_poly_pow") \/ Called("gcm_poly_powmod")
  /\ IF Unsigned(request.exponent)
     THEN /\ out' = <<one>> /\ base' = request.base /\ exponent' = request.exponent
          /\ at' = "pow"
          /\ UNCHANGED <<request, result, divisionVars>>
     ELSE Fail

\* Mutant of Multiplied: the bit of this round is taken from the next one.
MultipliedNext(x) == IF 1 \in exponent THEN Mul(out, x) ELSE out

\* The bit of a round decides if its power is a factor.
Multiplied(x) == IF 0 \in exponent THEN Mul(out, x) ELSE out

gcm_poly_pow ==
  /\ at = "pow" /\ request.action = "gcm_poly_pow" /\ exponent # {}
  /\ out' = Multiplied(base)
  /\ exponent' = {k - 1 : k \in exponent \ {0}}
  /\ base' = Mul(base, base)
  /\ UNCHANGED <<request, at, result, divisionVars>>

\* pow with a modulus: both are reduced at the end of the round, base first.
gcm_poly_powmod ==
  /\ at = "pow" /\ request.action = "gcm_poly_powmod" /\ exponent # {}
  /\ out' = Multiplied(base)
  /\ exponent' = NextExponent(exponent)
  /\ base' = Mul(base, base)
  /\ DivideFor("base", Mul(base, base), request.modulo)
  /\ UNCHANGED <<request, result>>

BaseReduced ==
  /\ at = "base" /\ pc = "done"
  /\ base' = r
  /\ DivideFor("out", out, request.modulo)
  /\ UNCHANGED <<request, out, exponent, result>>

OutReduced ==
  /\ at = "out" /\ pc = "done"
  /\ out' = r
  /\ at' = "pow"
  /\ UNCHANGED <<request, base, exponent, result, divisionVars>>

PowDone == at = "pow" /\ exponent = {} /\ Return(out)

-----------------------------------------------------------------------------
InDivision == at \in {"divide", "gcd", "base", "out"}

DivisionFailed == InDivision /\ pc \in {"aborted", "threw"} /\ Fail

Dividing ==
  /\ InDivision /\ DivisionStep
  /\ UNCHANGED <<request, at, loopVars, result>>

Init ==
  /\ \/ \E block \in Blocks : request = [action |-> "gcm_block2poly", block |-> block]
     \/ \E l \in Lists : request = [action |-> "gcm_poly2block", exponents |-> l]
     \/ \E f \in Factors : request = [action |-> "gcm_clmul", a |-> f[1], b |-> f[2]]
     \/ \E f \in Fractions : request = [action |-> "operator/=", a |-> f[1], b |-> f[2]]
     \/ \E act \in {"gcm_poly_add", "gcm_poly_mul", "gcm_poly_div", "gcm_poly_mod", "gcm_poly_gcd"},
           p \in Polynomials, s \in Polynomials : request = [action |-> act, a |-> p, b |-> s]
     \/ \E p \in Powers : request = [action |-> "gcm_poly_pow", base |-> p[1], exponent |-> p[2]]
     \/ \E p \in ModPowers :
          request = [action |-> "gcm_poly_powmod", base |-> p[1], exponent |-> p[2], modulo |-> p[3]]
  /\ at = "called"
  /\ base = <<>> /\ out = <<>> /\ exponent = {} /\ result = <<>>
  /\ dividend = <<>> /\ divisor = <<>> /\ q = <<>> /\ r = <<>> /\ pc = "idle"

Next ==
  \/ gcm_block2poly \/ gcm_poly2block \/ gcm_clmul
  \/ BlockDivide \/ BlockPowRound \/ BlockDivided
  \/ gcm_poly_add \/ gcm_poly_mul
  \/ gcm_poly_divmod \/ DivisionReturned
  \/ gcm_poly_gcd \/ GcdRound
  \/ StartPow \/ gcm_poly_pow \/ gcm_poly_powmod
  \/ BaseReduced \/ OutReduced \/ PowDone
  \/ Dividing \/ DivisionFailed

Spec == Init /\ [][Next]_vars

-----------------------------------------------------------------------------
(* Properties.                                                              *)

Returned(action) == at = "returned" /\ request.action = action

\* What is computed in registers is what SP 800-38D says of the bytes, the
\* product in spite of its shifts within lanes and its reversed order; and
\* nothing fails but a block that is not of 16 bytes and an exponent that is
\* no byte below 128.
BlocksAreRight ==
  /\ Returned("gcm_block2poly") => result = Exponents(request.block)
  /\ Returned("gcm_poly2block") =>
       Exponents(result) = {k % 256 : k \in request.exponents}
  /\ Returned("gcm_clmul") =>
       Exponents(result) = FieldProduct(Exponents(request.a), Exponents(request.b))
  /\ at = "failed" =>
       CASE request.action = "gcm_block2poly" -> Len(request.block) # 16
         [] request.action = "gcm_poly2block" -> \E k \in request.exponents : k % 256 >= 128
         [] request.action = "gcm_clmul"      -> Len(request.a) # 16 \/ Len(request.b) # 16
         [] OTHER -> request.action # "operator/="

\* The quotient, computed by way of the inverse, gives back the dividend, and
\* is zero by zero.
QuotientsAreRight ==
  Returned("operator/=") =>
    LET by == Exponents(request.b)
    IN IF by = {} THEN Exponents(result) = {}
       ELSE FieldProduct(Exponents(result), by) = Exponents(request.a)

\* The power of a value: a to the sum of 2^k for the bits k of n.
ValueToThe(a, n) ==
  LET square[k \in 0 .. 63] ==
        IF k = 0 THEN a ELSE LET s == square[k - 1] IN Times(s, s)
      upTo[k \in 0 .. 64] ==
        IF k = 0 THEN one
        ELSE IF k - 1 \in n THEN Times(upTo[k - 1], square[k - 1]) ELSE upTo[k - 1]
  IN upTo[64]

\* The power of a polynomial: p to the sum of 2^k for the bits k of n.
PolynomialToThe(p, n) ==
  LET square[k \in 0 .. 63] ==
        IF k = 0 THEN ensure_normalized(p) ELSE LET s == square[k - 1] IN Mul(s, s)
      upTo[k \in 0 .. 64] ==
        IF k = 0 THEN <<one>>
        ELSE IF k - 1 \in n THEN Mul(upTo[k - 1], square[k - 1]) ELSE upTo[k - 1]
  IN upTo[64]

\* Whatever zeros the arguments lead with, what is returned is normal.  The
\* coefficients of a sum are the sums of the coefficients, so that the values
\* are the sums of the values.  A product has the values that it must have, and
\* its degree is the sum of the degrees: it leads with the product of what the
\* factors lead with, and is empty when one of them is.  A power is the product
\* of the squares, each of the one before, that the bits of its exponent stand
\* for, and has the values that it must have.
ValuesAreRight ==
  /\ Returned("gcm_poly_add") =>
       /\ IsNormal(result)
       /\ \A k \in 1 .. Len(result) + Len(request.a) + Len(request.b) :
            Coefficient(result, k) = Plus(Coefficient(request.a, k), Coefficient(request.b, k))
       /\ \A x \in Element :
            ValueAt(result, x) = Plus(ValueAt(request.a, x), ValueAt(request.b, x))
  /\ Returned("gcm_poly_mul") =>
       LET p == ensure_normalized(request.a)
           s == ensure_normalized(request.b)
       IN /\ IsNormal(result)
          /\ IF p = <<>> \/ s = <<>> THEN result = <<>>
             ELSE /\ Len(result) = Len(p) + Len(s) - 1
                  /\ Lead(result) = Times(Lead(p), Lead(s))
          /\ \A x \in Element : ValueAt(result, x) = Times(ValueAt(p, x), ValueAt(s, x))
  /\ Returned("gcm_poly_pow") =>
       /\ IsNormal(result)
       /\ result = PolynomialToThe(request.base, request.exponent)
       /\ \A x \in Element :
            ValueAt(result, x) = ValueToThe(ValueAt(request.base, x), request.exponent)

\* The normal polynomials among those of requests, and each with its multiples.
Normal == {p \in Polynomials : IsNormal(p)}

Divides == {<<p, Mul(p, s)>> : p \in Normal, s \in Normal}

\* gcd of normal polynomials returns: a polynomial that is monic, or empty
\* when both were, and that divides both, as every divisor of both divides it.
GcdIsGreatest ==
  request.action = "gcm_poly_gcd" /\ {request.a, request.b} \subseteq Normal =>
    LET DividesBoth(p) == <<p, request.a>> \in Divides /\ <<p, request.b>> \in Divides
    IN /\ at # "failed"
       /\ at = "returned" =>
            /\ result = <<>> \/ Lead(result) = one
            /\ DividesBoth(result)
            /\ \A p \in Normal : DividesBoth(p) => <<p, result>> \in Divides

\* pow modulo a normal polynomial is the product of the powers that the bits of
\* the exponent stand for, modulo it.  Of an exponent of zero it is 1 even
\* modulo a constant, or modulo nothing: no round reduces it.
PowerIsRight ==
  Returned("gcm_poly_powmod") =>
    LET m == request.modulo
        Mod(p) == divmod(p, m).r
        square[k \in 0 .. 63] ==
          IF k = 0 THEN Mod(ensure_normalized(request.base))
          ELSE LET s == square[k - 1] IN Mod(Mul(s, s))
        upTo[k \in 0 .. 64] ==
          IF k = 0 THEN Mod(<<one>>)
          ELSE IF k - 1 \in request.exponent THEN Mod(Mul(upTo[k - 1], square[k - 1]))
          ELSE upTo[k - 1]
    IN IF request.exponent = {} THEN result = <<one>>
       ELSE m # <<>> /\ IsNormal(m) => result = upTo[64]

=============================================================================
