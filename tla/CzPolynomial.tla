---------------------------- MODULE CzPolynomial ----------------------------
(***************************************************************************)
(* GCM::CantorZassenhaus::Polynomial                                       *)
(* (src/gcm/cantor_zassenhaus/polynomial.cpp): polynomials over the field  *)
(* of GF as the sequence of m_coeffs, p[1] being the constant.  Nothing    *)
(* keeps the last coefficient from being zero: operators normalise what    *)
(* they return, and what is given from outside is as it is.                *)
(***************************************************************************)
EXTENDS GF, Sequences, FiniteSetsExt

Degree(p) == IF p = <<>> THEN 0 ELSE Len(p) - 1

\* coefficient(degree()).
Lead(p) == p[Degree(p) + 1]

ensure_normalized(p) == SubSeq(p, 1, Max({0} \cup {k \in 1 .. Len(p) : p[k] # zero}))

IsNormal(p) == p = <<>> \/ Lead(p) # zero

\* The coefficients that resize adds are zero.
Coefficient(p, k) == IF k \in 1 .. Len(p) THEN p[k] ELSE zero

\* operator+=, which is operator-= too.
Add(p, s) ==
  ensure_normalized([k \in 1 .. Max({Len(p), Len(s)}) |->
                       Plus(Coefficient(p, k), Coefficient(s, k))])

\* The sum of the products p[m] * s[k + 1 - m]: an exponent is in it when it
\* is in an odd number of them.
Convolution(p, s, k) ==
  LET Terms(e) == {m \in 1 .. Len(p) :
                     k + 1 - m \in 1 .. Len(s) /\ e \in Times(p[m], s[k + 1 - m])}
  IN {e \in 0 .. Width - 1 : Cardinality(Terms(e)) % 2 = 1}

Mul(p, s) ==
  ensure_normalized([k \in 1 .. Degree(p) + Degree(s) + 1 |-> Convolution(p, s, k)])

\* Mutant of ensure_monic: the last coefficient comes first, so that the others
\* are divided by what it has become.
ensure_monic_downwards(p) ==
  LET n == ensure_normalized(p)
  IN [k \in 1 .. Len(n) |-> IF k = Len(n) THEN one ELSE n[k]]

\* Every coefficient is divided by the last one, which comes last.
ensure_monic(p) ==
  LET n == ensure_normalized(p)
  IN IF n = <<>> THEN n ELSE Mul(<<modular_inverse[Lead(n)]>>, n)

\* operator<<=.
Shift(p, n) == [k \in 1 .. n |-> zero] \o p

\* For the properties: the value at a, by Horner's rule.
ValueAt(p, a) ==
  LET from[k \in 1 .. Len(p) + 1] ==
        IF k = Len(p) + 1 THEN zero ELSE Plus(p[k], Times(a, from[k + 1]))
  IN from[1]

-----------------------------------------------------------------------------
(* The loops.  loop[k] is what the variables are after k rounds, and stays  *)
(* as it is once the condition no longer holds.                             *)

\* Mutant of DivisionRound: the divisor is taken to be monic.
DivisionRoundMonic(s, divisor) ==
  LET degree == Degree(s.r) - Degree(divisor)
      c      == Lead(s.r)
  IN [q |-> [s.q EXCEPT ![degree + 1] = c],
      r |-> Add(s.r, Mul(Shift(<<c>>, degree), divisor))]

\* One round of divmod, by a divisor that is not empty.
DivisionRound(s, divisor) ==
  LET degree == Degree(s.r) - Degree(divisor)
      c      == Over(Lead(s.r), Lead(divisor))
  IN [q |-> [s.q EXCEPT ![degree + 1] = c],
      r |-> Add(s.r, Mul(Shift(<<c>>, degree), divisor))]

\* Mutant of Divisible: off by one.
DivisibleStrictly(r, divisor) == Degree(r) > Degree(divisor) /\ r # <<>>

Divisible(r, divisor) == Degree(r) >= Degree(divisor) /\ r # <<>>

\* divmod by a divisor whose leading coefficient is not zero.
divmod(p, divisor) ==
  LET first == [q |-> [k \in 1 .. Degree(p) - Degree(divisor) + 1 |-> zero], r |-> p]
      loop[k \in 0 .. Len(p)] ==
        IF k = 0 THEN first
        ELSE LET s == loop[k - 1]
             IN IF Divisible(s.r, divisor) THEN DivisionRound(s, divisor) ELSE s
      last == loop[Len(p)]
  IN IF Degree(p) < Degree(divisor) THEN [q |-> <<>>, r |-> p]
     ELSE [q |-> ensure_normalized(last.q), r |-> ensure_normalized(last.r)]

gcd(p, g) ==
  LET rounds == Len(p) + Len(g)
      loop[k \in 0 .. rounds] ==
        IF k = 0 THEN [a |-> p, b |-> g]
        ELSE LET s == loop[k - 1]
             IN IF s.b = <<>> THEN s ELSE [a |-> s.b, b |-> divmod(s.a, s.b).r]
  IN loop[rounds].a

\* pow modulo a polynomial; the exponent has Width bits.
PowMod(p, exponent, modulo) ==
  LET Mod(a) == divmod(a, modulo).r
      loop[k \in 0 .. Width] ==
        IF k = 0 THEN [out |-> <<one>>, base |-> p, e |-> exponent]
        ELSE LET s == loop[k - 1]
             IN IF s.e = 0 THEN s
                ELSE [out  |-> Mod(IF s.e % 2 = 1 THEN Mul(s.out, s.base) ELSE s.out),
                      base |-> Mod(Mul(s.base, s.base)),
                      e    |-> s.e \div 2]
  IN loop[Width].out

=============================================================================
