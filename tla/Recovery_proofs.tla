--------------------------- MODULE Recovery_proofs ---------------------------
(***************************************************************************)
(* The tag that recover_auth_tag forges, for every field, message and key, *)
(* and the zeros it is found among. That the tag is right needs only that  *)
(* the search stops at a zero that reproduces the third tag, and that the  *)
(* difference of two tags of a nonce does not depend on the mask.  That    *)
(* the search finds one needs that zeros loses no factor, that the factors *)
(* of a product have its zeros, and that the key is a zero of gen_poly.    *)
(* That it can end needs a draw that splits the factor it is at.           *)
(***************************************************************************)
EXTENDS Recovery, CzPolynomial_proofs

\* A sequence of whatever its elements are.
IsSequence(s) == s \in Seq({s[k] : k \in 1 .. Len(s)})

ZeroSet == {Zeros[k] : k \in 1 .. Len(Zeros)}

\* Of the messages only the first one's tag matters.
FirstIsAuthentic == action = "gcm-recover" => msg1.tag = Tag(msg1.text)

Candidates ==
  pc \in {"search", "returned"} =>
    /\ action = "gcm-recover"
    /\ h_candidates \in Seq(ZeroSet)

Chosen ==
  pc = "returned" =>
    /\ h_candidates # <<>>
    /\ Reproduces(Last(h_candidates))
    /\ result = gen_auth_tag(msg1, msg4, Last(h_candidates))

\* The inductive invariant: the candidates are zeros to the end, and the tag
\* returned was made with one that was tried.
IInv ==
  /\ IsSequence(final_factors)
  /\ FirstIsAuthentic
  /\ Candidates
  /\ Chosen

-----------------------------------------------------------------------------
LEMMA AppendIsSequence ==
  ASSUME NEW s, NEW x, IsSequence(s)
  PROVE  IsSequence(Append(s, x))
<1> DEFINE S == {s[k] : k \in 1 .. Len(s)} \cup {x}
           t == Append(s, x)
<1>1. s \in Seq(S) /\ x \in S
  BY DEF IsSequence
<1>2. /\ t \in Seq(S) /\ Len(t) = Len(s) + 1 /\ Len(s) \in Nat
      /\ \A k \in 1 .. Len(s) : t[k] = s[k]
      /\ t[Len(s) + 1] = x
  BY <1>1
<1> HIDE DEF S, t
<1>3. t = [k \in 1 .. Len(t) |-> t[k]] /\ Len(t) \in Nat
  BY <1>2
<1>4. \A R : \A n \in Nat : (\A k \in 1 .. n : t[k] \in R) => [k \in 1 .. n |-> t[k]] \in Seq(R)
  OBVIOUS
<1>5. t \in Seq({t[j] : j \in 1 .. Len(t)})
  BY <1>3, <1>4
<1> QED
  BY <1>5 DEF IsSequence, t

LEMMA ZerosAreSequence ==
  ASSUME IsSequence(final_factors)
  PROVE  Zeros \in Seq(ZeroSet)
<1>1. Len(final_factors) \in Nat
  BY DEF IsSequence
<1>2. Len(Zeros) = Len(final_factors)
  BY <1>1 DEF Zeros
<1>3. \A k \in 1 .. Len(final_factors) : Zeros[k] \in ZeroSet
  BY <1>2 DEF ZeroSet
<1> QED
  BY <1>1, <1>2, <1>3 DEF Zeros

LEMMA LastAndFront ==
  ASSUME NEW S, NEW s \in Seq(S), s # <<>>
  PROVE  Last(s) \in S /\ Front(s) \in Seq(S)
<1>1. Len(s) \in Nat \ {0}
  OBVIOUS
<1>2. Last(s) \in S
  BY <1>1 DEF Last
<1>3. Front(s) = [k \in 1 .. Len(s) - 1 |-> s[k]]
  BY <1>1 DEF Front
<1> QED
  BY <1>1, <1>2, <1>3

\* The mask and the hash of the first message cancel out.
LEMMA MaskCancels ==
  ASSUME NEW a, NEW b, NEW m
  PROVE  Plus(a, Plus(b, Plus(b, m))) = Plus(a, m)
<1>1. Plus(b, Plus(b, m)) = m
  BY DEF Plus
<1> QED
  BY <1>1

\* The tag made with the key is the sender's.
LEMMA KeyForges ==
  ASSUME msg1.tag = Tag(msg1.text)
  PROVE  gen_auth_tag(msg1, msg4, key) = Tag(msg4.text)
BY MaskCancels DEF gen_auth_tag, gen_auth_tag_mask, Tag

-----------------------------------------------------------------------------
LEMMA InitIsInv ==
  ASSUME Init
  PROVE  IInv
<1>1. pc = "start" /\ final_factors = <<>>
  BY DEF Init, FactorizeInit, RecoverInit, ZerosOf
<1>2. IsSequence(final_factors)
  BY <1>1 DEF IsSequence
<1>3. FirstIsAuthentic
  BY DEF Init, FactorizeInit, RecoverInit, FirstIsAuthentic, Message
<1> QED
  BY <1>1, <1>2, <1>3 DEF IInv, Candidates, Chosen

\* The steps of zeros neither search nor return.
LEMMA FactoringKeeps ==
  ASSUME IInv, Factoring
  PROVE  IInv'
<1> USE DEF inputs
<1>1. pc' \notin {"search", "returned"}
  BY DEF Factoring, ZerosStep, Start, NextRound, RoundDone, Linear, Exhausted, Attempt,
         Found, Attempting
<1>2. final_factors' = final_factors \/ \E x : final_factors' = Append(final_factors, x)
  BY DEF Factoring, ZerosStep, Start, NextRound, RoundDone, Linear, Exhausted, Attempt,
         Found
<1>3. IsSequence(final_factors')
  BY <1>2, AppendIsSequence DEF IInv
<1>4. FirstIsAuthentic'
  BY DEF IInv, Factoring, FirstIsAuthentic, Tag
<1> QED
  BY <1>1, <1>3, <1>4 DEF IInv, Candidates, Chosen, IsSequence

LEMMA BeginSearchKeeps ==
  ASSUME IInv, BeginSearch
  PROVE  IInv'
<1>1. /\ pc' = "search" /\ action = "gcm-recover" /\ h_candidates' = Zeros
      /\ UNCHANGED <<final_factors, inputs>>
  BY DEF BeginSearch
<1>2. ZeroSet' = ZeroSet /\ Zeros \in Seq(ZeroSet)
  BY <1>1, ZerosAreSequence DEF IInv, ZeroSet, Zeros
<1>3. Candidates'
  BY <1>1, <1>2 DEF Candidates, inputs
<1> QED
  BY <1>1, <1>3 DEF IInv, Chosen, FirstIsAuthentic, Tag, inputs, IsSequence

\* The search takes candidates off and looks at nothing else.
LEMMA SearchKeeps ==
  ASSUME IInv, DropCandidate \/ Forge \/ NoCandidate
  PROVE  IInv'
<1>1. pc = "search" /\ UNCHANGED <<final_factors, inputs, msg3, msg4>>
  BY DEF DropCandidate, Forge, NoCandidate, Searching, zerosVars
<1>2. ZeroSet' = ZeroSet /\ h_candidates \in Seq(ZeroSet) /\ action = "gcm-recover"
  BY <1>1 DEF IInv, Candidates, ZeroSet, Zeros
<1>3. IsSequence(final_factors)' /\ FirstIsAuthentic'
  BY <1>1 DEF IInv, FirstIsAuthentic, Tag, inputs, IsSequence
<1>4. CASE DropCandidate
  <2>1. pc' = "search" /\ h_candidates' \in Seq(ZeroSet)
    BY <1>1, <1>2, <1>4, LastAndFront DEF DropCandidate, Searching, zerosVars
  <2> QED
    BY <1>1, <1>2, <1>3, <2>1 DEF IInv, Candidates, Chosen, inputs
<1>5. CASE Forge
  <2>1. /\ pc' = "returned" /\ h_candidates' = h_candidates /\ h_candidates # <<>>
        /\ Reproduces(Last(h_candidates))
        /\ result' = gen_auth_tag(msg1, msg4, Last(h_candidates))
    BY <1>5 DEF Forge, Searching
  <2>2. Candidates'
    BY <1>1, <1>2, <2>1 DEF Candidates, inputs
  <2>3. Chosen'
    BY <1>1, <2>1 DEF Chosen, Reproduces, gen_auth_tag, gen_auth_tag_mask, inputs, Last
  <2> QED
    BY <1>3, <2>2, <2>3 DEF IInv
<1>6. CASE NoCandidate
  BY <1>3, <1>6 DEF NoCandidate, IInv, Candidates, Chosen
<1> QED
  BY <1>4, <1>5, <1>6

LEMMA StutteringKeeps ==
  ASSUME IInv, UNCHANGED vars
  PROVE  IInv'
BY DEF IInv, IsSequence, FirstIsAuthentic, Candidates, Chosen, ZeroSet, Zeros, Reproduces,
       gen_auth_tag, gen_auth_tag_mask, Tag, Last, vars, zerosVars, inputs

LEMMA StepKeepsInv ==
  ASSUME IInv, [Next]_vars
  PROVE  IInv'
BY FactoringKeeps, BeginSearchKeeps, SearchKeeps, StutteringKeeps DEF Next, Ended

\* The invariant holds in every reachable state, for every field, message, key
\* and mask.
THEOREM Invariance == Spec => []IInv
<1>1. Init => IInv
  BY InitIsInv
<1>2. IInv /\ [Next]_vars => IInv'
  BY StepKeepsInv
<1> QED
  BY <1>1, <1>2, PTL DEF Spec

\* The tag recover_auth_tag returns is what the sender would write under the
\* fourth message, or a zero other than the key reproduces the third tag.
THEOREM TagIsRight == Spec => []TagIsAuthentic
<1>1. IInv => TagIsAuthentic
  <2>1. SUFFICES ASSUME IInv, pc = "returned", Last(h_candidates) = key
                 PROVE  result = Tag(msg4.text)
    <3>1. IInv /\ pc = "returned" =>
            Last(h_candidates) \in ZeroSet /\ Reproduces(Last(h_candidates))
      BY LastAndFront DEF IInv, Candidates, Chosen
    <3> QED
      BY <3>1 DEF TagIsAuthentic, ZeroSet
  <2>2. msg1.tag = Tag(msg1.text)
    BY <2>1 DEF IInv, FirstIsAuthentic, Candidates
  <2> QED
    BY <2>1, <2>2, KeyForges DEF IInv, Chosen
<1> QED
  BY <1>1, Invariance, PTL

-----------------------------------------------------------------------------
(* Products of factors.                                                     *)

ProductsUpTo(s) ==
  LET upTo[k \in 0 .. Len(s)] == IF k = 0 THEN <<one>> ELSE Mul(upTo[k - 1], s[k])
  IN upTo

LEMMA ProductsAre ==
  ASSUME NEW s \in Seq(NormalPoly)
  PROVE  /\ ProductsUpTo(s)[0] = <<one>>
         /\ \A k \in 1 .. Len(s) : ProductsUpTo(s)[k] = Mul(ProductsUpTo(s)[k - 1], s[k])
         /\ \A k \in 0 .. Len(s) : ProductsUpTo(s)[k] \in NormalPoly
         /\ Product(s) = ProductsUpTo(s)[Len(s)] /\ Len(s) \in Nat
         /\ \A k \in 1 .. Len(s) : s[k] \in NormalPoly
<1> DEFINE n == Len(s)
           S == NormalPoly
           x == <<one>>
           next(k, p) == Mul(p, s[k])
           step == [k \in 1 .. n |-> [p \in S |-> next(k, p)]]
           Rule(h) == [k \in 0 .. n |-> IF k = 0 THEN x ELSE next(k, h[k - 1])]
           loop == CHOOSE h : h = Rule(h)
<1>0. ProductsUpTo(s) = loop /\ Product(s) = loop[n]
  BY DEF ProductsUpTo, Product
<1>1. x \in S /\ n \in Nat /\ \A k \in 1 .. n : s[k] \in S
  <2>1. <<one>> \in NormalPoly
    BY MulOne, NormalPolyIs
  <2> QED
    BY <2>1
<1>11. \A k \in 1 .. n, p \in S : next(k, p) \in S
  BY <1>1, NormalPolyIs
<1> HIDE DEF S, x, next, n
<1>2. step \in [1 .. n -> [S -> S]]
  BY <1>11
<1>3. PICK h \in [0 .. n -> S] : Runs(h, x, step, n)
  <2> HIDE DEF step
  <2> QED
    BY <1>1, <1>2, Recursion
<1>4. \A k \in 0 .. n : h[k] = IF k = 0 THEN x ELSE next(k, h[k - 1])
  <2>0. \A k \in 1 .. n : k - 1 \in 0 .. n
    BY <1>1
  <2>1. \A k \in 1 .. n : k - 1 \in 0 .. n /\ h[k - 1] \in S
    BY <2>0, Zenon
  <2>2. \A k \in 1 .. n, p \in S : step[k][p] = next(k, p)
    OBVIOUS
  <2> HIDE DEF step
  <2>3. h[0] = x /\ \A k \in 1 .. n : h[k] = step[k][h[k - 1]]
    BY <1>3 DEF Runs
  <2>4. \A k \in 0 .. n : k # 0 => k \in 1 .. n
    BY <1>1
  <2> QED
    BY <2>1, <2>2, <2>3, <2>4
<1>5. h = Rule(h)
  BY <1>4
<1>6. loop = Rule(loop)
  <2> HIDE DEF Rule
  <2> QED
    BY <1>5
<1> HIDE DEF loop, step
<1>7. \A k \in 1 .. n : k \in 0 .. n /\ k # 0
  BY <1>1
<1>8. loop[0] = x /\ \A k \in 1 .. n : loop[k] = next(k, loop[k - 1])
  <2>1. 0 \in 0 .. n
    BY <1>1
  <2> QED
    BY <1>6, <1>7, <2>1
<1>9. \A k \in 0 .. n : loop[k] \in S
  <2>1. loop[0] \in S /\ \A k \in 1 .. n : loop[k - 1] \in S => loop[k] \in S
    BY <1>1, <1>8, <1>11
  <2> QED
    BY <1>1, <2>1, StaysIn
<1> QED
  BY <1>0, <1>1, <1>8, <1>9 DEF S, x, next, n

LEMMA ProductOfNone == Product(<<>>) = <<one>>
<1>1. <<>> \in Seq(NormalPoly) /\ Len(<<>>) = 0
  OBVIOUS
<1> QED
  BY <1>1, ProductsAre

LEMMA ProductIsNormal ==
  ASSUME NEW s \in Seq(NormalPoly)
  PROVE  Product(s) \in NormalPoly
<1>1. \A n \in Nat : n \in 0 .. n
  OBVIOUS
<1> QED
  BY <1>1, ProductsAre

\* Products of sequences whose parts agree.
LEMMA ProductsAgree ==
  ASSUME NEW s \in Seq(NormalPoly), NEW t \in Seq(NormalPoly), NEW n \in Nat,
         n <= Len(s), n <= Len(t), \A k \in 1 .. n : s[k] = t[k]
  PROVE  ProductsUpTo(s)[n] = ProductsUpTo(t)[n]
<1> DEFINE u == ProductsUpTo(s)
           v == ProductsUpTo(t)
           T == {k \in 0 .. n : u[k] = v[k]}
<1>1. u[0] = v[0] /\ Len(s) \in Nat /\ Len(t) \in Nat
      /\ (\A k \in 1 .. Len(s) : u[k] = Mul(u[k - 1], s[k]))
      /\ (\A k \in 1 .. Len(t) : v[k] = Mul(v[k - 1], t[k]))
  BY ProductsAre
<1> HIDE DEF u, v
<1>2. 0 \in T
  BY <1>1
<1>3. ASSUME NEW k \in 0 .. n - 1, k \in T PROVE k + 1 \in T
  <2>1. k + 1 \in 1 .. n /\ k + 1 \in 0 .. n /\ (k + 1) - 1 = k
        /\ k + 1 \in 1 .. Len(s) /\ k + 1 \in 1 .. Len(t)
    BY <1>1
  <2>2. u[k + 1] = Mul(u[k], s[k + 1]) /\ v[k + 1] = Mul(v[k], t[k + 1])
    BY <1>1, <2>1
  <2> QED
    BY <1>3, <2>1, <2>2
<1>4. n \in T
  <2> HIDE DEF T
  <2>1. 0 .. n \subseteq T
    BY <1>2, <1>3, Induction
  <2> QED
    BY <2>1
<1> QED
  BY <1>4 DEF u, v

LEMMA ProductOfAppend ==
  ASSUME NEW s \in Seq(NormalPoly), NEW p \in NormalPoly
  PROVE  Append(s, p) \in Seq(NormalPoly) /\ Product(Append(s, p)) = Mul(Product(s), p)
<1> DEFINE t == Append(s, p)
           n == Len(s)
<1>1. /\ t \in Seq(NormalPoly) /\ n \in Nat /\ Len(t) = n + 1 /\ t[n + 1] = p
      /\ \A k \in 1 .. n : t[k] = s[k]
  OBVIOUS
<1> HIDE DEF t, n
<1>2. n + 1 \in 1 .. Len(t) /\ (n + 1) - 1 = n /\ n <= Len(t) /\ n <= n
  BY <1>1
<1>3. Product(t) = ProductsUpTo(t)[n + 1] /\ ProductsUpTo(t)[n + 1] = Mul(ProductsUpTo(t)[n], p)
  BY <1>1, <1>2, ProductsAre
<1>4. ProductsUpTo(t)[n] = ProductsUpTo(s)[n]
  BY <1>1, <1>2, ProductsAgree DEF n
<1>5. Product(s) = ProductsUpTo(s)[n]
  BY ProductsAre DEF n
<1> QED
  BY <1>1, <1>3, <1>4, <1>5 DEF t

LEMMA ProductOfTwoMore ==
  ASSUME NEW s \in Seq(NormalPoly), NEW p \in NormalPoly, NEW u \in NormalPoly
  PROVE  s \o <<p, u>> \in Seq(NormalPoly) /\ Product(s \o <<p, u>>) = Mul(Product(s), Mul(p, u))
<1>1. s \o <<p, u>> = Append(Append(s, p), u)
  OBVIOUS
<1>2. Append(s, p) \in Seq(NormalPoly) /\ Product(Append(s, p)) = Mul(Product(s), p)
  BY ProductOfAppend
<1>3. s \o <<p, u>> \in Seq(NormalPoly) /\ Product(s \o <<p, u>>) = Mul(Product(Append(s, p)), u)
  BY <1>1, <1>2, ProductOfAppend
<1>4. Product(s) \in Poly /\ p \in Poly /\ u \in Poly
  BY ProductIsNormal, NormalPolyIs
<1>5. Mul(Mul(Product(s), p), u) = Mul(Product(s), Mul(p, u))
  BY <1>4, MulAssociates
<1> QED
  BY <1>2, <1>3, <1>5

\* What is left when the first one is taken off.
LEMMA ProductOfRest ==
  ASSUME NEW s \in Seq(NormalPoly), NEW t \in Seq(NormalPoly), NEW p \in NormalPoly,
         Len(s) = Len(t) + 1, s[1] = p, \A k \in 1 .. Len(t) : s[k + 1] = t[k]
  PROVE  Product(s) = Mul(p, Product(t))
<1> DEFINE n == Len(t)
           u == ProductsUpTo(s)
           v == ProductsUpTo(t)
           T == {k \in 0 .. n : u[k + 1] = Mul(p, v[k])}
<1>1. /\ n \in Nat /\ Len(s) = n + 1 /\ u[0] = <<one>> /\ v[0] = <<one>>
      /\ \A k \in 1 .. Len(s) : u[k] = Mul(u[k - 1], s[k])
      /\ \A k \in 1 .. n : v[k] = Mul(v[k - 1], t[k]) /\ t[k] \in NormalPoly
      /\ \A k \in 0 .. n : v[k] \in NormalPoly
      /\ Product(s) = u[n + 1] /\ Product(t) = v[n]
  BY ProductsAre
<1> HIDE DEF u, v
<1>2. 0 \in T
  <2>1. 1 \in 1 .. Len(s) /\ 1 - 1 = 0 /\ 0 + 1 = 1 /\ 0 \in 0 .. n
    BY <1>1
  <2>2. u[1] = Mul(u[0], s[1])
    BY <1>1, <2>1
  <2>3. Mul(<<one>>, p) = p /\ Mul(p, <<one>>) = p
    BY MulOne
  <2> QED
    BY <1>1, <2>1, <2>2, <2>3, Zenon
<1>3. ASSUME NEW k \in 0 .. n - 1, k \in T PROVE k + 1 \in T
  <2> DEFINE x == t[k + 1]
  <2>1. k + 1 \in 1 .. n /\ k + 1 \in 0 .. n /\ (k + 1) - 1 = k /\ k \in 0 .. n
        /\ (k + 1) + 1 \in 1 .. Len(s) /\ ((k + 1) + 1) - 1 = k + 1
    BY <1>1
  <2>2. s[(k + 1) + 1] = x /\ x \in NormalPoly /\ v[k] \in NormalPoly
    BY <1>1, <2>1
  <2>3. u[(k + 1) + 1] = Mul(u[k + 1], x) /\ v[k + 1] = Mul(v[k], x) /\ u[k + 1] = Mul(p, v[k])
    BY <1>1, <1>3, <2>1, <2>2
  <2> HIDE DEF x
  <2>4. Mul(Mul(p, v[k]), x) = Mul(p, Mul(v[k], x))
    BY <2>2, MulAssociates, NormalPolyIs, ZenonT(30)
  <2> QED
    BY <2>1, <2>3, <2>4
<1>4. n \in T
  <2> HIDE DEF T, n
  <2>1. 0 .. n \subseteq T
    BY <1>1, <1>2, <1>3, Induction
  <2> QED
    BY <1>1, <2>1
<1> QED
  BY <1>1, <1>4

\* A point is a zero of a product when it is one of a factor.
LEMMA ZerosOfProduct ==
  ASSUME NEW s \in Seq(NormalPoly), NEW a \in Element
  PROVE  ValueAt(Product(s), a) = zero <=> \E k \in 1 .. Len(s) : ValueAt(s[k], a) = zero
<1> DEFINE n == Len(s)
           u == ProductsUpTo(s)
           T == {k \in 0 .. n : ValueAt(u[k], a) = zero <=> \E j \in 1 .. k : ValueAt(s[j], a) = zero}
<1>1. /\ n \in Nat /\ u[0] = <<one>>
      /\ \A k \in 1 .. n : u[k] = Mul(u[k - 1], s[k]) /\ s[k] \in NormalPoly
      /\ \A k \in 0 .. n : u[k] \in NormalPoly
      /\ Product(s) = u[n]
  BY ProductsAre
<1> HIDE DEF u
<1>2. 0 \in T
  <2>1. ValueAt(<<one>>, a) # zero
    <3>1. <<one>> \in NormalPoly /\ <<one>> \in Poly /\ Mul(<<one>>, <<one>>) = <<one>>
      BY MulOne, NormalPolyIs
    <3>2. Coefficient(<<one>>, 1) = one /\ Rest(<<one>>) = <<>>
      BY DEF Coefficient, Rest
    <3>3. ValueAt(<<one>>, a) = Plus(Coefficient(<<one>>, 1), Times(a, ValueAt(Rest(<<one>>), a)))
      BY <3>1, ValueOfRest
    <3>4. <<>> \in Poly
      BY NormalPolyIs
    <3>5. ValueAt(<<>>, a) = zero /\ Times(a, zero) = zero
      BY <3>4, ValueOfRest, TimesZeroOne
    <3>6. Plus(one, zero) = one /\ one # zero
      BY DEF Plus, one, zero
    <3> QED
      BY <3>2, <3>3, <3>5, <3>6
  <2> QED
    BY <1>1, <2>1
<1>3. ASSUME NEW k \in 0 .. n - 1, k \in T PROVE k + 1 \in T
  <2>1. k + 1 \in 1 .. n /\ k + 1 \in 0 .. n /\ (k + 1) - 1 = k /\ k \in 0 .. n
    BY <1>1
  <2>2. u[k + 1] = Mul(u[k], s[k + 1]) /\ s[k + 1] \in Poly /\ u[k] \in Poly
    BY <1>1, <2>1, NormalPolyIs
  <2>3. /\ ValueAt(u[k + 1], a) = Times(ValueAt(u[k], a), ValueAt(s[k + 1], a))
        /\ ValueAt(u[k], a) \in Element /\ ValueAt(s[k + 1], a) \in Element
    BY <2>2, ValueOfMul, ValueOfRest
  <2>4. ValueAt(u[k + 1], a) = zero <=> ValueAt(u[k], a) = zero \/ ValueAt(s[k + 1], a) = zero
    BY <2>3, TimesNotZero, TimesZeroOne
  <2>5. \A j : j \in 1 .. k + 1 <=> j \in 1 .. k \/ j = k + 1
    BY <2>1
  <2>6. ValueAt(u[k], a) = zero <=> \E j \in 1 .. k : ValueAt(s[j], a) = zero
    BY <1>3
  <2>7. ValueAt(u[k + 1], a) = zero <=> \E j \in 1 .. k + 1 : ValueAt(s[j], a) = zero
    BY <2>4, <2>5, <2>6, Zenon
  <2> QED
    BY <2>1, <2>7
<1>4. n \in T
  <2> HIDE DEF T, n
  <2>1. 0 .. n \subseteq T
    BY <1>1, <1>2, <1>3, Induction
  <2> QED
    BY <1>1, <2>1
<1> QED
  BY <1>1, <1>4

\* A monic linear polynomial has one zero: its constant.
LEMMA ZeroOfLinear ==
  ASSUME NEW p \in NormalPoly, Degree(p) = 1, Lead(p) = one, NEW a \in Element
  PROVE  Coefficient(p, 1) \in Element /\ (ValueAt(p, a) = zero <=> a = Coefficient(p, 1))
<1>1. p \in Poly /\ Len(p) = 2 /\ p # <<>> /\ Lead(p) = Coefficient(p, 2)
  <2>1. p \in Poly
    BY NormalPolyIs
  <2>2. p # <<>>
    BY <2>1, DegreeIs
  <2>3. Degree(p) + 1 = Len(p) /\ Lead(p) = Coefficient(p, Len(p))
    BY <2>1, <2>2, DegreeIs
  <2>4. Len(p) = 2
    BY <2>3
  <2> QED
    BY <2>1, <2>2, <2>3, <2>4
<1>2. Coefficient(p, 1) \in Element
  BY <1>1, CoefficientsAreElements
<1> DEFINE t == Rest(p)
           u == Rest(t)
<1>3. /\ t \in Poly /\ Len(t) <= 1 /\ Coefficient(t, 1) = one
      /\ ValueAt(p, a) = Plus(Coefficient(p, 1), Times(a, ValueAt(t, a)))
  <2>1. t \in Poly /\ Coefficient(t, 1) = Coefficient(p, 1 + 1)
    BY <1>1, RestIs
  <2>2. \A n \in Nat : Len(p) <= n + 1 => Len(t) <= n
    BY <1>1, RestIs
  <2>3. 1 \in Nat /\ Len(p) <= 1 + 1 /\ 1 + 1 = 2
    BY <1>1
  <2>4. Len(t) <= 1
    BY <2>2, <2>3
  <2>5. ValueAt(p, a) = Plus(Coefficient(p, 1), Times(a, ValueAt(t, a)))
    BY <1>1, ValueOfRest
  <2> QED
    BY <1>1, <2>1, <2>3, <2>4, <2>5
<1> HIDE DEF t
<1>4. /\ u \in Poly /\ Len(u) <= 0
      /\ ValueAt(t, a) = Plus(one, Times(a, ValueAt(u, a)))
  BY <1>3, RestIs, ValueOfRest
<1>5. u = <<>>
  <2> HIDE DEF u
  <2>1. Len(u) \in Nat
    BY <1>4, DegreeIs
  <2> QED
    BY <1>4, <2>1, DegreeIs
<1>6. ValueAt(u, a) = zero /\ Times(a, zero) = zero
  BY <1>4, <1>5, ValueOfRest, TimesZeroOne
<1>7. ValueAt(t, a) = one
  <2>1. Plus(one, zero) = one
    BY DEF Plus, zero
  <2> QED
    BY <1>4, <1>6, <2>1
<1>8. ValueAt(p, a) = Plus(Coefficient(p, 1), a)
  BY <1>3, <1>7, TimesZeroOne
<1>9. Plus(Coefficient(p, 1), a) = zero <=> a = Coefficient(p, 1)
  BY DEF Plus, zero
<1> QED
  BY <1>2, <1>8, <1>9

-----------------------------------------------------------------------------
(* The split of a factor.                                                   *)

Monic == {p \in NormalPoly : p # <<>> /\ Lead(p) = one}

LEMMA MonicPoly ==
  /\ Monic \subseteq NormalPoly /\ Monic \subseteq Poly
  /\ <<one>> \in Monic
  /\ \A p \in Monic : IsNormal(p) /\ p # <<>> /\ Lead(p) = one /\ ensure_monic(p) = p
  /\ \A p \in NormalPoly : p # <<>> => ensure_monic(p) \in Monic
<1>1. <<one>> \in Monic
  <2>1. <<one>> \in NormalPoly
    BY MulOne, NormalPolyIs
  <2>2. Lead(<<one>>) = one /\ <<one>> # <<>>
    BY DEF Lead, Degree
  <2> QED
    BY <2>1, <2>2 DEF Monic
<1> QED
  BY <1>1, NormalPolyIs, MonicOfMonic, MonicIs DEF Monic

LEMMA FactorOfMonic ==
  ASSUME NEW p \in Monic, NEW q \in Monic, DividedBy(p, q)
  PROVE  /\ divmod(p, q).q \in Monic /\ divmod(p, q).r = <<>>
         /\ Mul(q, divmod(p, q).q) = p
<1> DEFINE u == divmod(p, q).q
           v == divmod(p, q).r
<1>1. p \in NormalPoly /\ q \in NormalPoly /\ q # <<>> /\ p \in Poly /\ q \in Poly /\ <<>> \in NormalPoly
      /\ <<>> \in Poly /\ IsNormal(p) /\ p # <<>> /\ IsNormal(q) /\ Lead(p) = one /\ Lead(q) = one
  BY MonicPoly, NormalPolyIs
<1>2. u \in NormalPoly /\ p = Add(Mul(u, q), v)
  BY <1>1, DivmodOfNormal
<1>3. v = <<>>
  <2>1. Add(p, <<>>) = p
    BY <1>1, AddLaws
  <2>2. v = divmod(<<>>, q).r
    BY <1>1, <2>1, RemaindersEqual
  <2>3. Short(<<>>, q)
    BY DEF Short
  <2> HIDE DEF v
  <2>4. divmod(<<>>, q).r = <<>>
    BY <1>1, <2>3, RemainderOfShort
  <2> QED
    BY <2>2, <2>4
<1> HIDE DEF u, v
<1>4. u \in Poly /\ IsNormal(u) /\ Mul(u, q) \in Poly /\ IsNormal(Mul(u, q))
  BY <1>1, <1>2, NormalPolyIs, MulIs
<1>5. p = Mul(u, q) /\ Mul(q, u) = p
  BY <1>1, <1>2, <1>3, <1>4, AddLaws, MulCommutes
<1>6. u # <<>>
  BY <1>1, <1>5, MulEmpty
<1>7. Lead(u) = one
  <2>1. Lead(p) = Times(Lead(u), Lead(q)) /\ Lead(u) \in Element
    BY <1>1, <1>4, <1>5, <1>6, MulLength, DegreeIs
  <2>2. \A a \in Element : Times(a, one) = a
    BY TimesZeroOne
  <2>3. Times(Lead(u), Lead(q)) = Times(Lead(u), one)
    BY <1>1
  <2> QED
    BY <1>1, <2>1, <2>2, <2>3, Zenon
<1> QED
  BY <1>2, <1>3, <1>5, <1>6, <1>7 DEF Monic, u, v

\* What an attempt finds are two monic factors, and its assertions hold.
LEMMA SplitIs ==
  ASSUME NEW p \in Monic, NEW h \in Poly, f \in Monic
  PROVE  \/ cantor_zassenhaus(p, h) = <<>>
         \/ \E u, v \in Monic :
              /\ cantor_zassenhaus(p, h) = <<u, v>>
              /\ Mul(u, v) = p
              /\ AssertionsHold(p, <<u, v>>)
<1> DEFINE x == PowMod(h, Exponent, f)
           g == Add(x, <<one>>)
           d == gcd(p, g)
           q == ensure_monic(d)
           u == divmod(p, q).q
<1>1. p \in NormalPoly /\ p \in Poly /\ p # <<>> /\ ensure_monic(p) = p /\ <<one>> \in Poly /\ f \in NormalPoly /\ f # <<>>
  BY MonicPoly
<1>2. x \in NormalPoly
  <2>1. Exponent \in Int
    <3>1. 2 ^ Width \in Int
      BY FieldAssumption
    <3> QED
      BY <3>1 DEF Exponent
  <2> QED
    BY <1>1, <2>1, PowModTyped
<1> HIDE DEF x
<1>3. g \in NormalPoly
  BY <1>1, <1>2, NormalPolyIs
<1> HIDE DEF g
<1>4. d \in NormalPoly /\ DividedBy(p, d)
  <2>1. d \in NormalPoly
    BY <1>1, <1>3, GcdIs
  <2>2. DividedBy(d, d)
    BY <2>1, DividedByLaws
  <2> QED
    BY <1>1, <1>3, <2>1, <2>2, GcdIs
<1> HIDE DEF d
<1>5. d # <<>>
  BY <1>1, <1>4, DividedByLaws
<1>6. q \in Monic /\ DividedBy(p, q)
  BY <1>1, <1>4, <1>5, MonicPoly, MonicDivides
<1>7. cantor_zassenhaus(p, h) = IF q \in {<<one>>, p} THEN <<>> ELSE <<q, ensure_monic(u)>>
  BY <1>1 DEF cantor_zassenhaus, x, g, d
<1> HIDE DEF q
<1>8. u \in Monic /\ divmod(p, q).r = <<>> /\ Mul(q, u) = p
  BY <1>6, FactorOfMonic
<1> HIDE DEF u
<1>9. ensure_monic(u) = u
  BY <1>8, MonicPoly
<1>10. AssertionsHold(p, <<q, u>>)
  BY <1>1, <1>8 DEF AssertionsHold
<1> QED
  BY <1>6, <1>7, <1>8, <1>9, <1>10

-----------------------------------------------------------------------------
(* The polynomial of two messages.                                          *)

Text == Seq(Element) \X Seq(Element)

LEMMA PolysAre ==
  ASSUME NEW text \in Text
  PROVE  LengthOf(text) \in Element /\ as_ghash_polys(text) \in Poly
<1>1. LengthOf(text) \in Element
  <2> DEFINE half == Width \div 2
  <2>1. half \in Nat /\ Width = half + half
    BY FieldAssumption, RecoveryAssumption
  <2>2. \A n : Bits(n) \subseteq 0 .. half - 1
    BY DEF Bits
  <2>3. LengthOf(text) = Bits(Len(text[1])) \cup {half + e : e \in Bits(Len(text[2]))}
    BY DEF LengthOf
  <2> HIDE DEF half
  <2>4. \A e \in 0 .. half - 1 : e \in 0 .. Width - 1 /\ half + e \in 0 .. Width - 1
    BY <2>1
  <2> QED
    BY <2>2, <2>3, <2>4 DEF Element
<1> DEFINE a == text[1]
           c == text[2]
           l == LengthOf(text)
<1>2. a \in Seq(Element) /\ c \in Seq(Element)
  BY DEF Text
<1> HIDE DEF a, c, l
<1>3. a \o c \o <<l>> \in Seq(Element)
  BY <1>1, <1>2 DEF l
<1> QED
  BY <1>1, <1>3 DEF as_ghash_polys, Poly, a, c, l

\* The loop of ghash.
TagsUpTo(blocks, h) ==
  LET tag[k \in 0 .. Len(blocks)] ==
        IF k = 0 THEN zero ELSE Times(Plus(tag[k - 1], blocks[k]), h)
  IN tag

LEMMA TagsAre ==
  ASSUME NEW s \in Poly, NEW x \in Element
  PROVE  /\ TagsUpTo(s, x)[0] = zero /\ Len(s) \in Nat
         /\ \A k \in 1 .. Len(s) : TagsUpTo(s, x)[k] = Times(Plus(TagsUpTo(s, x)[k - 1], s[k]), x)
         /\ \A k \in 0 .. Len(s) : TagsUpTo(s, x)[k] \in Element
         /\ \A k \in 1 .. Len(s) : s[k] \in Element
<1> DEFINE n == Len(s)
           S == Element
           z == zero
           next(k, t) == Times(Plus(t, s[k]), x)
           step == [k \in 1 .. n |-> [t \in S |-> next(k, t)]]
           Rule(g) == [k \in 0 .. n |-> IF k = 0 THEN z ELSE next(k, g[k - 1])]
           loop == CHOOSE g : g = Rule(g)
<1>0. TagsUpTo(s, x) = loop
  BY DEF TagsUpTo
<1>1. z \in S /\ n \in Nat /\ \A k \in 1 .. n : s[k] \in S
  BY ElementPlus, CoefficientsAreElements
<1>11. \A k \in 1 .. n, t \in S : next(k, t) \in S
  <2>1. \A t, b \in Element : Plus(t, b) \in Element /\ Times(t, b) \in Element
    BY ElementPlus, TimesIs
  <2> QED
    BY <1>1, <2>1
<1> HIDE DEF S, z, next, n
<1>2. step \in [1 .. n -> [S -> S]]
  BY <1>11
<1>3. PICK g \in [0 .. n -> S] : Runs(g, z, step, n)
  <2> HIDE DEF step
  <2> QED
    BY <1>1, <1>2, Recursion
<1>4. \A k \in 0 .. n : g[k] = IF k = 0 THEN z ELSE next(k, g[k - 1])
  <2>0. \A k \in 1 .. n : k - 1 \in 0 .. n
    BY <1>1
  <2>1. \A k \in 1 .. n : k - 1 \in 0 .. n /\ g[k - 1] \in S
    BY <2>0, Zenon
  <2>2. \A k \in 1 .. n, t \in S : step[k][t] = next(k, t)
    OBVIOUS
  <2> HIDE DEF step
  <2>3. g[0] = z /\ \A k \in 1 .. n : g[k] = step[k][g[k - 1]]
    BY <1>3 DEF Runs
  <2>4. \A k \in 0 .. n : k # 0 => k \in 1 .. n
    BY <1>1
  <2> QED
    BY <2>1, <2>2, <2>3, <2>4
<1>5. g = Rule(g)
  BY <1>4
<1>6. loop = Rule(loop)
  <2> HIDE DEF Rule
  <2> QED
    BY <1>5
<1> HIDE DEF loop, step
<1>7. \A k \in 1 .. n : k \in 0 .. n /\ k # 0
  BY <1>1
<1>8. loop[0] = z /\ \A k \in 1 .. n : loop[k] = next(k, loop[k - 1])
  <2>1. 0 \in 0 .. n
    BY <1>1
  <2> QED
    BY <1>6, <1>7, <2>1
<1>9. \A k \in 0 .. n : loop[k] \in S
  <2>1. loop[0] \in S /\ \A k \in 1 .. n : loop[k - 1] \in S => loop[k] \in S
    BY <1>1, <1>8, <1>11
  <2> QED
    BY <1>1, <2>1, StaysIn
<1> QED
  BY <1>0, <1>1, <1>8, <1>9 DEF S, z, next, n

\* The first k blocks, the last one first.
Backwards(s, k) == [j \in 1 .. k |-> s[k + 1 - j]]

LEMMA BackwardsIs ==
  ASSUME NEW s \in Poly, NEW k \in 0 .. Len(s)
  PROVE  /\ Backwards(s, k) \in Poly
         /\ \A j \in Nat \ {0} : Coefficient(Backwards(s, k), j) = IF j <= k THEN s[k + 1 - j] ELSE zero
<1>1. Len(s) \in Nat /\ k \in Nat /\ \A j \in 1 .. Len(s) : s[j] \in Element
  BY CoefficientsAreElements
<1>2. \A j \in 1 .. k : k + 1 - j \in 1 .. Len(s)
  BY <1>1
<1>3. Backwards(s, k) \in [1 .. k -> Element]
  BY <1>1, <1>2 DEF Backwards
<1>4. \A j \in Nat \ {0} : j <= k => Backwards(s, k)[j] = s[k + 1 - j]
  BY <1>1 DEF Backwards
<1> QED
  BY <1>1, <1>3, <1>4, PolyOf

\* The hash is a polynomial without a constant in its key.
LEMMA HashIs ==
  ASSUME NEW s \in Poly, NEW x \in Element
  PROVE  /\ TagsUpTo(s, x)[Len(s)] \in Element
         /\ TagsUpTo(s, x)[Len(s)] = Times(x, ValueAt(Reverse(s), x))
<1> DEFINE n == Len(s)
           u == TagsUpTo(s, x)
           T == {k \in 0 .. n : u[k] = Times(x, ValueAt(Backwards(s, k), x))}
<1>1. /\ u[0] = zero /\ n \in Nat
      /\ \A k \in 1 .. n : u[k] = Times(Plus(u[k - 1], s[k]), x)
      /\ \A k \in 0 .. n : u[k] \in Element
      /\ \A k \in 1 .. n : s[k] \in Element
  BY TagsAre
<1> HIDE DEF u
<1>2. 0 \in T
  <2>1. Backwards(s, 0) = <<>>
    BY DEF Backwards
  <2>2. <<>> \in Poly
    BY NormalPolyIs
  <2>3. ValueAt(<<>>, x) = zero /\ Times(x, zero) = zero
    BY <2>2, ValueOfRest, TimesZeroOne
  <2> QED
    BY <1>1, <2>1, <2>3
<1>3. ASSUME NEW k \in 0 .. n - 1, k \in T PROVE k + 1 \in T
  <2> DEFINE v == Backwards(s, k)
             w == Backwards(s, k + 1)
             b == s[k + 1]
  <2>1. k \in Nat /\ k + 1 \in 1 .. n /\ k + 1 \in 0 .. n /\ (k + 1) - 1 = k /\ k \in 0 .. n
    BY <1>1
  <2>2. /\ v \in Poly /\ w \in Poly /\ b \in Element
        /\ \A j \in Nat \ {0} : Coefficient(v, j) = IF j <= k THEN s[k + 1 - j] ELSE zero
        /\ \A j \in Nat \ {0} : Coefficient(w, j) = IF j <= k + 1 THEN s[(k + 1) + 1 - j] ELSE zero
    BY <1>1, <2>1, BackwardsIs
  <2>3. Coefficient(w, 1) = b
    <3>1. (k + 1) + 1 - 1 = k + 1 /\ 1 <= k + 1
      BY <2>1
    <3> QED
      BY <2>2, <3>1
  <2> HIDE DEF v, w, b
  <2>4. Rest(w) \in Poly /\ \A j \in Nat \ {0} : Coefficient(Rest(w), j) = Coefficient(w, j + 1)
    BY <2>2, RestIs
  <2>5. Same(Rest(w), v)
    <3>1. ASSUME NEW j \in Nat \ {0} PROVE Coefficient(Rest(w), j) = Coefficient(v, j)
      <4>1. j + 1 \in Nat \ {0} /\ (j + 1 <= k + 1 <=> j <= k) /\ (k + 1) + 1 - (j + 1) = k + 1 - j
        BY <2>1
      <4>2. Coefficient(w, j + 1) = IF j + 1 <= k + 1 THEN s[(k + 1) + 1 - (j + 1)] ELSE zero
        BY <2>2, <4>1
      <4>3. Coefficient(Rest(w), j) = Coefficient(w, j + 1)
        BY <2>4
      <4> QED
        BY <2>2, <4>1, <4>2, <4>3
    <3> QED
      BY <3>1 DEF Same
  <2>6. ValueAt(w, x) = Plus(b, Times(x, ValueAt(v, x))) /\ ValueAt(w, x) \in Element
    BY <2>2, <2>3, <2>4, <2>5, ValueOfRest, ValueSame
  <2>7. u[k] = Times(x, ValueAt(v, x)) /\ u[k] \in Element
    BY <1>1, <1>3, <2>1 DEF v
  <2>8. u[k + 1] = Times(Plus(u[k], b), x)
    BY <1>1, <2>1 DEF b
  <2>9. Plus(u[k], b) = ValueAt(w, x)
    <3>1. Plus(u[k], b) = Plus(b, u[k])
      BY DEF Plus
    <3> QED
      BY <2>6, <2>7, <3>1
  <2>10. u[k + 1] = Times(x, ValueAt(w, x))
    BY <2>6, <2>8, <2>9, TimesCommutes
  <2> QED
    BY <2>1, <2>10 DEF w
<1>4. n \in T
  <2> HIDE DEF T, n
  <2>1. 0 .. n \subseteq T
    BY <1>1, <1>2, <1>3, Induction
  <2> QED
    BY <1>1, <2>1
<1>5. Backwards(s, n) = Reverse(s)
  <2>1. \A j \in 1 .. n : n + 1 - j = (n - j) + 1
    BY <1>1
  <2> QED
    BY <2>1 DEF Backwards, Reverse
<1>6. n \in 0 .. n
  BY <1>1
<1> QED
  BY <1>1, <1>4, <1>5, <1>6 DEF u

LEMMA HashOfText ==
  ASSUME NEW text \in Text, NEW x \in Element
  PROVE  /\ ghash(text, x) \in Element
         /\ ghash(text, x) = Times(x, ValueAt(Reverse(as_ghash_polys(text)), x))
<1>1. ghash(text, x) = TagsUpTo(as_ghash_polys(text), x)[Len(as_ghash_polys(text))]
  BY DEF ghash, TagsUpTo
<1>2. as_ghash_polys(text) \in Poly
  BY PolysAre
<1> QED
  BY <1>1, <1>2, HashIs

LEMMA ReverseIs ==
  ASSUME NEW s \in Poly
  PROVE  Reverse(s) \in Poly
<1>1. Len(s) \in Nat /\ \A k \in 1 .. Len(s) : s[k] \in Element
  BY CoefficientsAreElements
<1>2. \A k \in 1 .. Len(s) : (Len(s) - k) + 1 \in 1 .. Len(s)
  BY <1>1
<1>3. Reverse(s) \in [1 .. Len(s) -> Element]
  BY <1>1, <1>2 DEF Reverse
<1> QED
  BY <1>1, <1>3, PolyOf

\* The key is a zero of the polynomial that two authentic messages make.
LEMMA KeyIsZero ==
  ASSUME NEW t1 \in Text, NEW t2 \in Text, NEW m1, NEW m2, key \in Element, mask \in Element,
         m1 = Message(t1, Tag(t1)), m2 = Message(t2, Tag(t2))
  PROVE  /\ gen_poly(m1, m2) \in Poly
         /\ ValueAt(gen_poly(m1, m2), key) = zero
<1> DEFINE u == Reverse(as_ghash_polys(t1))
           v == Reverse(as_ghash_polys(t2))
           n == Max({Len(u), Len(v)})
           w == [k \in 1 .. n |-> Plus(Coefficient(u, k), Coefficient(v, k))]
           c == Plus(Tag(t1), Tag(t2))
           p == gen_poly(m1, m2)
<1>1. m1.text = t1 /\ m1.tag = Tag(t1) /\ m2.text = t2 /\ m2.tag = Tag(t2)
  BY DEF Message
<1>2. p = <<c>> \o w
  BY <1>1 DEF gen_poly
<1>3. u \in Poly /\ v \in Poly
  BY PolysAre, ReverseIs
<1>4. /\ ghash(t1, key) \in Element /\ ghash(t1, key) = Times(key, ValueAt(u, key))
      /\ ghash(t2, key) \in Element /\ ghash(t2, key) = Times(key, ValueAt(v, key))
  BY HashOfText
<1> HIDE DEF u, v
<1>5. Tag(t1) = Plus(ghash(t1, key), mask) /\ Tag(t2) = Plus(ghash(t2, key), mask)
  BY DEF Tag
<1>6. c \in Element
  BY <1>4, <1>5, ElementPlus
<1>7. Len(u) \in Nat /\ Len(v) \in Nat /\ n \in Nat /\ Len(u) <= n /\ Len(v) <= n
  <2>1. Len(u) \in Nat /\ Len(v) \in Nat
    BY <1>3, DegreeIs
  <2> QED
    BY <2>1, MaxOfTwo
<1> HIDE DEF n
<1>8. w \in Poly /\ \A k \in Nat \ {0} : Coefficient(w, k) = Plus(Coefficient(u, k), Coefficient(v, k))
  <2>1. \A k : Coefficient(u, k) \in Element /\ Coefficient(v, k) \in Element
    BY <1>3, CoefficientsAreElements
  <2>2. w \in [1 .. n -> Element]
    BY <2>1, ElementPlus
  <2>3. w \in Poly /\ \A k \in Nat \ {0} : Coefficient(w, k) = IF k <= n THEN w[k] ELSE zero
    BY <1>7, <2>2, PolyOf
  <2>4. ASSUME NEW k \in Nat \ {0} PROVE Coefficient(w, k) = Plus(Coefficient(u, k), Coefficient(v, k))
    <3>1. CASE k <= n
      <4>1. k \in 1 .. n
        BY <1>7, <3>1
      <4> QED
        BY <2>3, <3>1, <4>1
    <3>2. CASE ~(k <= n)
      <4>1. k > Len(u) /\ k > Len(v)
        BY <1>7, <3>2
      <4>2. Coefficient(u, k) = zero /\ Coefficient(v, k) = zero
        BY <1>3, <4>1, CoefficientsAreElements
      <4>3. Plus(zero, zero) = zero
        BY DEF Plus, zero
      <4> QED
        BY <2>3, <3>2, <4>2, <4>3
    <3> QED
      BY <3>1, <3>2
  <2> QED
    BY <2>3, <2>4
<1> HIDE DEF w, c, p
<1>9. p \in Poly /\ p # <<>> /\ p[1] = c /\ Tail(p) = w
  <2>1. w \in Seq(Element) /\ c \in Element
    BY <1>6, <1>8 DEF Poly
  <2> QED
    BY <1>2, <2>1 DEF Poly
<1>10. Coefficient(p, 1) = c /\ Rest(p) = w
  BY <1>9, TailIs DEF Rest
<1>11. ValueAt(p, key) = Plus(c, Times(key, ValueAt(w, key)))
  BY <1>9, <1>10, ValueOfRest
<1>12. ValueAt(w, key) = Plus(ValueAt(u, key), ValueAt(v, key))
       /\ ValueAt(u, key) \in Element /\ ValueAt(v, key) \in Element
  BY <1>3, <1>8, ValueAdds, ValueOfRest
<1>13. Times(key, ValueAt(w, key)) = Plus(ghash(t1, key), ghash(t2, key))
  BY <1>4, <1>12, TimesAdds
<1>14. \A a, b, x : Plus(Plus(Plus(a, x), Plus(b, x)), Plus(a, b)) = zero
  BY DEF Plus, zero
<1>15. ValueAt(p, key) = zero
  BY <1>5, <1>11, <1>13, <1>14 DEF c
<1> QED
  BY <1>9, <1>15 DEF p

-----------------------------------------------------------------------------
(* The loops of zeros.                                                      *)

\* What waits to be split: only of no polynomial there is a factor that is
\* none.
Wanted == IF f = <<>> THEN Monic \cup {<<>>} ELSE Monic

Linears(s) == \A k \in 1 .. Len(s) : Degree(s[k]) = 1

\* The inductive invariant of FactorsMultiply and ZerosAreRight.
FactorsInv ==
  /\ pc \in {"start", "outer", "inner", "done", "threw", "aborted", "search", "returned"}
  /\ pc = "start" => f \in Poly /\ factors = <<>> /\ final_factors = <<>>
  /\ pc \in {"outer", "inner", "done"} =>
       /\ f \in Wanted
       /\ factors \in Seq(Wanted) /\ new_factors \in Seq(Wanted)
       /\ final_factors \in Seq(Monic) /\ Linears(final_factors)
  /\ pc = "inner" => i \in 1 .. Len(factors) + 1
  /\ pc = "done" => f = Product(final_factors)
  /\ FactorsMultiply

LEMMA WantedIs ==
  /\ Wanted \subseteq NormalPoly /\ Seq(Wanted) \subseteq Seq(NormalPoly)
  /\ Monic \subseteq Wanted /\ Seq(Monic) \subseteq Seq(NormalPoly)
<1>1. Wanted \subseteq NormalPoly /\ Monic \subseteq NormalPoly /\ Monic \subseteq Wanted
  BY MonicPoly, NormalPolyIs DEF Wanted
<1>2. \A S, R : S \subseteq R => Seq(S) \subseteq Seq(R)
  OBVIOUS
<1> QED
  BY <1>1, <1>2

LEMMA FactorsStart ==
  ASSUME FactorsInv, Start
  PROVE  FactorsInv'
<1>1. /\ pc = "start" /\ f' = ensure_monic(f) /\ new_factors' = <<f'>> /\ pc' = "outer"
      /\ factors' = factors /\ final_factors' = final_factors
      /\ f \in Poly /\ factors = <<>> /\ final_factors = <<>>
  BY DEF Start, FactorsInv
<1> DEFINE p == ensure_normalized(f)
<1>2. p \in NormalPoly /\ ensure_monic(f) = ensure_monic(p)
  <2>1. p \in Poly /\ IsNormal(p)
    BY <1>1, NormalizedIs
  <2>2. ensure_normalized(p) = p
    BY <2>1, NormalizedSame
  <2> QED
    BY <2>1, <2>2 DEF NormalPoly, ensure_monic
<1> HIDE DEF p
<1>3. f' = <<>> \/ f' \in Monic
  BY <1>1, <1>2, MonicOfEmpty, MonicPoly
<1>4. f' \in Wanted'
  BY <1>3 DEF Wanted
<1>5. <<>> \in Seq(Wanted') /\ <<>> \in Seq(Monic) /\ Linears(<<>>) /\ <<f'>> \in Seq(Wanted')
  BY <1>4 DEF Linears
<1>6. FactorsMultiply'
  <2>1. f' \in NormalPoly
    BY <1>3, MonicPoly, NormalPolyIs
  <2> DEFINE x == f'
  <2> HIDE DEF x
  <2>2. x \in NormalPoly
    BY <2>1 DEF x
  <2>3. <<>> \in Seq(NormalPoly) /\ <<x>> = Append(<<>>, x)
    OBVIOUS
  <2>4. Product(<<x>>) = Mul(<<one>>, x)
    BY <2>2, <2>3, ProductOfAppend, ProductOfNone
  <2>5. Mul(<<one>>, x) = x /\ Mul(x, <<one>>) = x
    BY <2>2, MulOne
  <2>6. Mul(Product(<<x>>), Product(<<>>)) = x
    BY <2>4, <2>5, ProductOfNone
  <2>7. f' = Mul(Product(new_factors'), Product(final_factors'))
    BY <1>1, <2>6 DEF x
  <2> QED
    BY <1>1, <2>7 DEF FactorsMultiply
<1> QED
  BY <1>1, <1>4, <1>5, <1>6 DEF FactorsInv

LEMMA FactorsNextRound ==
  ASSUME FactorsInv, NextRound
  PROVE  FactorsInv'
<1>1. /\ pc = "outer" /\ factors' = new_factors /\ new_factors' = <<>> /\ i' = 1 /\ pc' = "inner"
      /\ f' = f /\ final_factors' = final_factors
      /\ f \in Wanted /\ new_factors \in Seq(Wanted) /\ final_factors \in Seq(Monic)
      /\ Linears(final_factors)
      /\ f = Mul(Product(new_factors), Product(final_factors))
  BY DEF NextRound, FactorsInv, FactorsMultiply
<1>2. Wanted' = Wanted
  BY <1>1 DEF Wanted
<1>3. <<>> \in Seq(Wanted) /\ Len(new_factors) \in Nat /\ 1 \in 1 .. Len(new_factors) + 1
      /\ SubSeq(new_factors, 1, Len(new_factors)) = new_factors
  BY <1>1
<1>4. Product(new_factors) \in NormalPoly
  BY <1>1, WantedIs, ProductIsNormal
<1>5. Mul(Product(new_factors), Product(<<>>)) = Product(new_factors)
  BY <1>4, ProductOfNone, MulOne
<1>6. f' = Mul(Mul(Product(SubSeq(factors', i', Len(factors'))), Product(new_factors')), Product(final_factors'))
  BY <1>1, <1>3, <1>5
<1>7. FactorsMultiply'
  BY <1>1, <1>6 DEF FactorsMultiply
<1> QED
  BY <1>1, <1>2, <1>3, <1>7 DEF FactorsInv

LEMMA FactorsRoundDone ==
  ASSUME FactorsInv, RoundDone
  PROVE  FactorsInv'
<1>1. /\ pc = "inner" /\ pc' = "outer" /\ i > Len(factors) /\ i \in 1 .. Len(factors) + 1
      /\ f' = f /\ factors' = factors /\ new_factors' = new_factors /\ final_factors' = final_factors
      /\ f \in Wanted /\ factors \in Seq(Wanted) /\ new_factors \in Seq(Wanted) /\ final_factors \in Seq(Monic)
      /\ Linears(final_factors)
      /\ f = Mul(Mul(Product(SubSeq(factors, i, Len(factors))), Product(new_factors)), Product(final_factors))
  BY DEF RoundDone, FactorsInv, FactorsMultiply
<1>2. Wanted' = Wanted
  BY <1>1 DEF Wanted
<1>3. SubSeq(factors, i, Len(factors)) = <<>>
  <2>1. Len(factors) \in Nat /\ i \in Nat
    BY <1>1
  <2> QED
    BY <1>1, <2>1
<1>4. Product(new_factors) \in NormalPoly
  BY <1>1, WantedIs, ProductIsNormal
<1>5. Mul(Product(<<>>), Product(new_factors)) = Product(new_factors)
  BY <1>4, ProductOfNone, MulOne
<1>6. FactorsMultiply'
  BY <1>1, <1>3, <1>5 DEF FactorsMultiply
<1> QED
  BY <1>1, <1>2, <1>6 DEF FactorsInv

\* The inner loop takes the first of the factors that wait.
LEMMA TakenFactor ==
  ASSUME FactorsInv, pc = "inner", i <= Len(factors)
  PROVE  /\ factors[i] \in Wanted /\ i + 1 \in 1 .. Len(factors) + 1
         /\ SubSeq(factors, i + 1, Len(factors)) \in Seq(NormalPoly)
         /\ Product(SubSeq(factors, i, Len(factors))) =
              Mul(factors[i], Product(SubSeq(factors, i + 1, Len(factors))))
<1> DEFINE n == Len(factors)
           s == SubSeq(factors, i, n)
           t == SubSeq(factors, i + 1, n)
<1>1. factors \in Seq(Wanted) /\ factors \in Seq(NormalPoly) /\ n \in Nat /\ i \in 1 .. n
  <2>1. factors \in Seq(Wanted) /\ i \in 1 .. n + 1
    BY DEF FactorsInv
  <2>2. n \in Nat
    BY <2>1
  <2> QED
    BY <2>1, <2>2, WantedIs
<1>2. /\ s \in Seq(NormalPoly) /\ Len(s) = n - i + 1 /\ \A k \in 1 .. n - i + 1 : s[k] = factors[i + k - 1]
      /\ t \in Seq(NormalPoly) /\ Len(t) = n - i /\ \A k \in 1 .. n - i : t[k] = factors[i + k]
  <2>1. i \in Int /\ i + 1 \in Int /\ n \in Int /\ i <= n /\ (i + 1 <= n \/ n - i = 0)
        /\ n - (i + 1) + 1 = n - i
    BY <1>1
  <2>2. (\A k \in i .. n : factors[k] \in NormalPoly) /\ (\A k \in i + 1 .. n : factors[k] \in NormalPoly)
    BY <1>1
  <2>3. s \in Seq(NormalPoly) /\ Len(s) = n - i + 1 /\ \A k \in 1 .. n - i + 1 : s[k] = factors[i + k - 1]
    <3> HIDE DEF n
    <3> QED
      BY <2>1, <2>2, SubSeqProperties, SMTT(30)
  <2>4. t \in Seq(NormalPoly) /\ Len(t) = IF i + 1 <= n THEN n - (i + 1) + 1 ELSE 0
    <3> HIDE DEF n
    <3> QED
      BY <2>1, <2>2, SubSeqProperties
  <2>5. \A k \in 1 .. n - (i + 1) + 1 : t[k] = factors[(i + 1) + k - 1]
    <3> HIDE DEF n
    <3> QED
      BY <2>1, <2>2, SubSeqProperties
  <2>6. \A k \in 1 .. n - i : (i + 1) + k - 1 = i + k
    BY <1>1
  <2> HIDE DEF s, t, n
  <2> QED
    BY <2>1, <2>3, <2>4, <2>5, <2>6
<1>3. factors[i] \in NormalPoly /\ factors[i] \in Wanted /\ i + 1 \in 1 .. n + 1
  BY <1>1
<1> HIDE DEF s, t
<1>4. Len(s) = Len(t) + 1 /\ s[1] = factors[i] /\ \A k \in 1 .. Len(t) : s[k + 1] = t[k]
  <2>1. 1 \in 1 .. n - i + 1 /\ i + 1 - 1 = i
    BY <1>1
  <2>2. \A k \in 1 .. n - i : k + 1 \in 1 .. n - i + 1 /\ i + (k + 1) - 1 = i + k
    BY <1>1
  <2>3. n - i + 1 = (n - i) + 1
    BY <1>1
  <2> HIDE DEF n
  <2> QED
    BY <1>2, <2>1, <2>2, <2>3
<1>5. Product(s) = Mul(factors[i], Product(t))
  BY <1>2, <1>3, <1>4, ProductOfRest
<1> QED
  BY <1>2, <1>3, <1>5 DEF s, t

LEMMA MulReordered ==
  ASSUME NEW x \in Poly, NEW a \in Poly, NEW b \in Poly
  PROVE  Mul(Mul(x, a), b) = Mul(x, Mul(a, b)) /\ Mul(Mul(x, a), b) = Mul(a, Mul(b, x))
<1>1. Mul(a, b) \in Poly
  BY MulIs
<1>2. Mul(Mul(x, a), b) = Mul(x, Mul(a, b))
  BY MulAssociates
<1>3. Mul(x, Mul(a, b)) = Mul(Mul(a, b), x)
  BY <1>1, MulCommutes
<1>4. Mul(Mul(a, b), x) = Mul(a, Mul(b, x))
  BY MulAssociates
<1> QED
  BY <1>2, <1>3, <1>4

LEMMA FactorsLinear ==
  ASSUME FactorsInv, Linear
  PROVE  FactorsInv'
<1>1. /\ pc = "inner" /\ pc' = "inner" /\ i <= Len(factors) /\ Degree(factors[i]) = 1
      /\ final_factors' = Append(final_factors, factors[i]) /\ i' = i + 1
      /\ f' = f /\ factors' = factors /\ new_factors' = new_factors
      /\ f \in Wanted /\ factors \in Seq(Wanted) /\ new_factors \in Seq(Wanted) /\ final_factors \in Seq(Monic)
      /\ Linears(final_factors)
      /\ f = Mul(Mul(Product(SubSeq(factors, i, Len(factors))), Product(new_factors)), Product(final_factors))
  BY DEF Linear, FactorsInv, FactorsMultiply
<1> DEFINE x == factors[i]
           R == Product(SubSeq(factors, i + 1, Len(factors)))
           N == Product(new_factors)
           F == Product(final_factors)
<1>2. x \in Wanted /\ i + 1 \in 1 .. Len(factors) + 1 /\ R \in NormalPoly
      /\ Product(SubSeq(factors, i, Len(factors))) = Mul(x, R)
  BY <1>1, TakenFactor, ProductIsNormal
<1>3. N \in NormalPoly /\ F \in NormalPoly
  BY <1>1, WantedIs, ProductIsNormal
<1>4. x \in Monic
  <2>1. Degree(<<>>) = 0
    BY DEF Degree
  <2> QED
    BY <1>1, <1>2, <2>1 DEF Wanted
<1>5. /\ final_factors' \in Seq(Monic) /\ Linears(final_factors')
  <2>1. /\ Len(Append(final_factors, x)) = Len(final_factors) + 1 /\ Len(final_factors) \in Nat
        /\ Append(final_factors, x) \in Seq(Monic) /\ Append(final_factors, x)[Len(final_factors) + 1] = x
        /\ \A k \in 1 .. Len(final_factors) : Append(final_factors, x)[k] = final_factors[k]
    <3> HIDE DEF x
    <3> QED
      BY <1>1, <1>4
  <2>2. \A k \in 1 .. Len(final_factors) + 1 : k \in 1 .. Len(final_factors) \/ k = Len(final_factors) + 1
    BY <2>1
  <2> QED
    BY <1>1, <2>1, <2>2 DEF Linears
<1>6. Product(final_factors') = Mul(F, x)
  BY <1>1, <1>4, WantedIs, MonicPoly, ProductOfAppend
<1> HIDE DEF x, R, N, F
<1>7. f = Mul(Mul(R, N), Mul(F, x))
  <2>1. x \in Poly /\ R \in Poly /\ N \in Poly /\ F \in Poly /\ Mul(R, N) \in Poly
    BY <1>2, <1>3, <1>4, MonicPoly, NormalPolyIs
  <2>2. f = Mul(Mul(Mul(x, R), N), F)
    BY <1>1, <1>2 DEF N, F
  <2>3. Mul(Mul(x, R), N) = Mul(x, Mul(R, N))
    BY <2>1, MulReordered
  <2>4. Mul(Mul(x, Mul(R, N)), F) = Mul(Mul(R, N), Mul(F, x))
    BY <2>1, MulReordered
  <2> QED
    BY <2>2, <2>3, <2>4
<1>8. FactorsMultiply'
  BY <1>1, <1>6, <1>7 DEF FactorsMultiply, R, N
<1>9. Wanted' = Wanted
  BY <1>1 DEF Wanted
<1> QED
  BY <1>1, <1>2, <1>5, <1>8, <1>9 DEF FactorsInv

\* An attempt changes nothing, or finds two factors: it never fails.
LEMMA FactorsAttempt ==
  ASSUME FactorsInv, Attempt
  PROVE  FactorsInv' /\ pc' # "aborted"
<1>1. /\ pc = "inner" /\ i <= Len(factors) /\ Degree(factors[i]) # 1 /\ Degree(f) > 0
      /\ f' = f /\ factors' = factors /\ final_factors' = final_factors
      /\ f \in Wanted /\ factors \in Seq(Wanted) /\ new_factors \in Seq(Wanted) /\ final_factors \in Seq(Monic)
      /\ Linears(final_factors)
      /\ f = Mul(Mul(Product(SubSeq(factors, i, Len(factors))), Product(new_factors)), Product(final_factors))
  BY DEF Attempt, Attempting, FactorsInv, FactorsMultiply
<1>2. PICK h \in random(Degree(f) - 1) :
         LET s == cantor_zassenhaus(factors[i], h)
         IN IF s = <<>> THEN UNCHANGED <<new_factors, i, pc>>
            ELSE IF AssertionsHold(factors[i], s)
                 THEN new_factors' = new_factors \o s /\ i' = i + 1 /\ UNCHANGED pc
                 ELSE pc' = "aborted" /\ UNCHANGED <<new_factors, i>>
  BY DEF Attempt
<1> DEFINE x == factors[i]
           R == Product(SubSeq(factors, i + 1, Len(factors)))
           N == Product(new_factors)
           F == Product(final_factors)
<1>3. x \in Wanted /\ i + 1 \in 1 .. Len(factors) + 1 /\ R \in NormalPoly
      /\ Product(SubSeq(factors, i, Len(factors))) = Mul(x, R)
  BY <1>1, TakenFactor, ProductIsNormal
<1>4. N \in NormalPoly /\ F \in NormalPoly
  BY <1>1, WantedIs, ProductIsNormal
<1>5. f \in Monic /\ Wanted = Monic
  <2>1. Degree(<<>>) = 0
    BY DEF Degree
  <2> QED
    BY <1>1, <2>1 DEF Wanted
<1>6. h \in Poly
  <2>1. Degree(f) \in Nat /\ Degree(f) # 0
    BY <1>1, <1>5, MonicPoly, DegreeIs
  <2>2. (Degree(f) - 1) + 1 \in Nat
    BY <2>1
  <2> QED
    BY <2>2, PolyOf DEF random
<1>7. Wanted' = Wanted
  BY <1>1 DEF Wanted
<1> HIDE DEF R, N, F
<1>8. CASE cantor_zassenhaus(x, h) = <<>>
  <2>1. new_factors' = new_factors /\ i' = i /\ pc' = pc
    BY <1>2, <1>8
  <2>2. FactorsMultiply'
    BY <1>1, <2>1 DEF FactorsMultiply
  <2>3. i \in 1 .. Len(factors) + 1
    BY <1>1 DEF FactorsInv
  <2> QED
    BY <1>1, <1>7, <2>1, <2>2, <2>3 DEF FactorsInv
<1>9. ASSUME NEW u \in Monic, NEW v \in Monic, cantor_zassenhaus(x, h) = <<u, v>>, Mul(u, v) = x,
             AssertionsHold(x, <<u, v>>)
      PROVE  FactorsInv' /\ pc' # "aborted"
  <2>1. <<u, v>> # <<>>
    OBVIOUS
  <2>2. new_factors' = new_factors \o <<u, v>> /\ i' = i + 1 /\ pc' = pc
    BY <1>2, <1>9, <2>1
  <2> HIDE DEF x
  <2>3. u \in NormalPoly /\ v \in NormalPoly /\ u \in Wanted /\ v \in Wanted
    BY <1>5, MonicPoly
  <2>4. new_factors' \in Seq(Wanted) /\ Product(new_factors') = Mul(N, x)
    <3>1. new_factors \o <<u, v>> \in Seq(Wanted)
      BY <1>1, <2>3
    <3>2. Product(new_factors \o <<u, v>>) = Mul(N, Mul(u, v))
      BY <1>1, <2>3, WantedIs, ProductOfTwoMore DEF N
    <3> QED
      BY <1>9, <2>2, <3>1, <3>2
  <2>5. f = Mul(Mul(R, Mul(N, x)), F)
    <3>1. x \in Poly /\ R \in Poly /\ N \in Poly
      BY <1>3, <1>4, <1>5, MonicPoly, NormalPolyIs
    <3>2. Mul(Mul(x, R), N) = Mul(R, Mul(N, x))
      BY <3>1, MulReordered
    <3> QED
      BY <1>1, <1>3, <3>2 DEF N, F
  <2>6. FactorsMultiply'
    BY <1>1, <2>2, <2>4, <2>5 DEF FactorsMultiply, R, F
  <2> QED
    BY <1>1, <1>3, <1>7, <2>2, <2>4, <2>6 DEF FactorsInv
<1>10. \/ cantor_zassenhaus(x, h) = <<>>
       \/ \E u, v \in Monic :
            /\ cantor_zassenhaus(x, h) = <<u, v>>
            /\ Mul(u, v) = x
            /\ AssertionsHold(x, <<u, v>>)
  <2> HIDE DEF x
  <2> QED
    BY <1>3, <1>5, <1>6, SplitIs
<1>11. pc' = pc => pc' # "aborted"
  BY <1>1
<1> QED
  BY <1>1, <1>2, <1>8, <1>9, <1>10, <1>11

LEMMA FactorsFound ==
  ASSUME FactorsInv, Found
  PROVE  FactorsInv' /\ pc' = "done"
<1>1. /\ pc = "outer" /\ new_factors = <<>>
      /\ f' = f /\ factors' = factors /\ final_factors' = final_factors /\ new_factors' = new_factors
      /\ f \in Wanted /\ factors \in Seq(Wanted) /\ new_factors \in Seq(Wanted) /\ final_factors \in Seq(Monic)
      /\ Linears(final_factors)
      /\ f = Mul(Product(new_factors), Product(final_factors))
  BY DEF Found, FactorsInv, FactorsMultiply
<1>2. pc' = "done"
  BY <1>1 DEF Found, Linears
<1>3. Mul(Product(<<>>), Product(final_factors)) = Product(final_factors)
  BY <1>1, WantedIs, ProductIsNormal, ProductOfNone, MulOne
<1>4. f' = Product(final_factors')
  BY <1>1, <1>3
<1>5. Wanted' = Wanted /\ FactorsMultiply'
  BY <1>1, <1>2 DEF Wanted, FactorsMultiply
<1> QED
  BY <1>1, <1>2, <1>4, <1>5 DEF FactorsInv

\* Of a product of linear polynomials the zeros are what zeros returns.
LEMMA ZerosFollow ==
  ASSUME FactorsInv
  PROVE  ZerosAreRight
<1> SUFFICES ASSUME pc = "done"
             PROVE  {Zeros[k] : k \in 1 .. Len(Zeros)} = {a \in Element : ValueAt(f, a) = zero}
  BY DEF ZerosAreRight
<1>1. /\ f = Product(final_factors) /\ final_factors \in Seq(Monic) /\ final_factors \in Seq(NormalPoly)
      /\ Linears(final_factors)
  BY WantedIs DEF FactorsInv
<1> DEFINE n == Len(final_factors)
           Z(k) == Coefficient(final_factors[k], 1)
<1>2. n \in Nat /\ \A k \in 1 .. n : final_factors[k] \in Monic /\ Degree(final_factors[k]) = 1
  BY <1>1 DEF Linears
<1>3. Len(Zeros) = n /\ \A k \in 1 .. n : Zeros[k] = Z(k)
  BY <1>2 DEF Zeros
<1>4. \A k \in 1 .. n : Z(k) \in Element
                        /\ \A a \in Element : ValueAt(final_factors[k], a) = zero <=> a = Z(k)
  <2>1. ASSUME NEW k \in 1 .. n
        PROVE  Z(k) \in Element /\ \A a \in Element : ValueAt(final_factors[k], a) = zero <=> a = Z(k)
    <3>1. final_factors[k] \in NormalPoly /\ Lead(final_factors[k]) = one /\ Degree(final_factors[k]) = 1
      BY <1>2, MonicPoly
    <3>2. zero \in Element
      BY ElementPlus
    <3> QED
      BY <3>1, <3>2, ZeroOfLinear
  <2> QED
    BY <2>1
<1>5. \A a \in Element : ValueAt(f, a) = zero <=> \E k \in 1 .. n : ValueAt(final_factors[k], a) = zero
  BY <1>1, ZerosOfProduct
<1> HIDE DEF Z, n
<1>6. \A a \in Element : ValueAt(f, a) = zero <=> \E k \in 1 .. n : a = Z(k)
  BY <1>4, <1>5
<1>7. {Zeros[k] : k \in 1 .. Len(Zeros)} = {Z(k) : k \in 1 .. n}
  BY <1>3
<1> QED
  BY <1>4, <1>6, <1>7

LEMMA FactorsInit ==
  ASSUME Init
  PROVE  FactorsInv
<1>1. \E p \in Poly : ZerosOf(p)
  <2>1. CASE FactorizeInit
    BY <2>1, RecoveryAssumption DEF FactorizeInit, Poly
  <2>2. CASE RecoverInit
    <3>1. PICK t1, t2 \in Texts : msg1 = Message(t1, Tag(t1)) /\ msg2 = Message(t2, Tag(t2))
      BY <2>2 DEF RecoverInit
    <3>2. key \in Element /\ mask \in Element /\ t1 \in Text /\ t2 \in Text
      BY <2>2, <3>1, RecoveryAssumption DEF RecoverInit, Text
    <3>3. gen_poly(msg1, msg2) \in Poly
      BY <3>1, <3>2, KeyIsZero
    <3> QED
      BY <2>2, <3>3 DEF RecoverInit
  <2> QED
    BY <2>1, <2>2 DEF Init
<1> QED
  BY <1>1 DEF ZerosOf, FactorsInv, FactorsMultiply

\* The search for the key and the end leave zeros' variables as they are.
LEMMA FactorsStepOther ==
  ASSUME FactorsInv,
         UNCHANGED <<f, factors, new_factors, final_factors, i>>,
         \/ pc' = pc
         \/ pc' \in {"threw", "aborted", "search", "returned"}
  PROVE  FactorsInv'
BY DEF FactorsInv, FactorsMultiply, Wanted, Linears

LEMMA FactorsStep ==
  ASSUME FactorsInv, [Next]_vars
  PROVE  FactorsInv'
<1>1. CASE Factoring
  <2>1. Exhausted => FactorsInv'
    BY FactorsStepOther DEF Exhausted
  <2> QED
    BY <1>1, <2>1, FactorsStart, FactorsNextRound, FactorsRoundDone, FactorsLinear,
       FactorsAttempt, FactorsFound DEF Factoring, ZerosStep
<1>2. CASE BeginSearch
  BY <1>2, FactorsStepOther DEF BeginSearch
<1>3. CASE DropCandidate
  BY <1>3, FactorsStepOther DEF DropCandidate, zerosVars
<1>4. CASE Forge
  BY <1>4, FactorsStepOther DEF Forge
<1>5. CASE NoCandidate
  BY <1>5, FactorsStepOther DEF NoCandidate
<1>6. CASE UNCHANGED vars
  BY <1>6, FactorsStepOther DEF vars, zerosVars
<1> QED
  BY <1>1, <1>2, <1>3, <1>4, <1>5, <1>6 DEF Next, Ended

\* The loops of zeros keep their lists in order, whatever is drawn: of every
\* polynomial, and of every two messages.
THEOREM FactorsInvariance == Spec => []FactorsInv
<1>1. Init => FactorsInv
  BY FactorsInit
<1>2. FactorsInv /\ [Next]_vars => FactorsInv'
  BY FactorsStep
<1> QED
  BY <1>1, <1>2, PTL DEF Spec

\* No split of zeros loses a factor or invents one, of any polynomial over any
\* field: the factors that wait and the final ones multiply to it.
THEOREM FactorsAlwaysMultiply == Spec => []FactorsMultiply
<1>1. FactorsInv => FactorsMultiply
  BY DEF FactorsInv
<1> QED
  BY <1>1, FactorsInvariance, PTL

\* When zeros returns, it returns all the zeros of the polynomial it was given,
\* and nothing else, whatever the draws were.
THEOREM ZerosAreAlwaysRight == Spec => []ZerosAreRight
<1>1. FactorsInv => ZerosAreRight
  BY ZerosFollow
<1> QED
  BY <1>1, FactorsInvariance, PTL

-----------------------------------------------------------------------------
(* The key stays among the candidates.                                      *)

Given == action = "gcm-recover"

\* The inductive invariant of AbortsOnForgeryOnly, beside the other two: the
\* key is a zero of what is factorised, and later a candidate until one that
\* reproduces the third tag is tried.
KeyInv ==
  /\ Given => key \in Element
  /\ Given /\ pc \in {"start", "outer", "inner", "done"} => ValueAt(f, key) = zero
  /\ pc = "search" =>
       /\ msg3 # NoMessage
       /\ Authentic(msg3) => \E k \in 1 .. Len(h_candidates) : h_candidates[k] = key
  /\ AbortsOnForgeryOnly

LEMMA KeyInit ==
  ASSUME Init
  PROVE  KeyInv
<1>1. pc = "start"
  BY DEF Init, FactorizeInit, RecoverInit, ZerosOf
<1>2. ASSUME Given PROVE key \in Element /\ ValueAt(f, key) = zero
  <2>1. RecoverInit
    BY <1>2 DEF Init, FactorizeInit, Given
  <2>2. PICK t1, t2 \in Texts : msg1 = Message(t1, Tag(t1)) /\ msg2 = Message(t2, Tag(t2))
    BY <2>1 DEF RecoverInit
  <2>3. key \in Element /\ mask \in Element /\ t1 \in Text /\ t2 \in Text
    BY <2>1, <2>2, RecoveryAssumption DEF RecoverInit, Text
  <2>4. ValueAt(gen_poly(msg1, msg2), key) = zero
    BY <2>2, <2>3, KeyIsZero
  <2> QED
    BY <2>1, <2>3, <2>4 DEF RecoverInit, ZerosOf
<1> QED
  BY <1>1, <1>2 DEF KeyInv, AbortsOnForgeryOnly

\* To make a polynomial monic keeps its zeros.
LEMMA MonicKeepsZeros ==
  ASSUME NEW p \in Poly, NEW a \in Element, ValueAt(p, a) = zero
  PROVE  ValueAt(ensure_monic(p), a) = zero
<1> DEFINE n == ensure_normalized(p)
<1>1. n \in NormalPoly /\ n \in Poly /\ ValueAt(n, a) = zero /\ ensure_monic(p) = ensure_monic(n)
  <2>1. n \in Poly /\ IsNormal(n) /\ Same(n, p)
    BY NormalizedIs
  <2>2. ensure_normalized(n) = n
    BY <2>1, NormalizedSame
  <2>3. ValueAt(n, a) = zero
    BY <2>1, ValueSame
  <2> QED
    BY <2>1, <2>2, <2>3 DEF NormalPoly, ensure_monic
<1> HIDE DEF n
<1>2. CASE n = <<>>
  BY <1>1, <1>2, MonicOfEmpty
<1>3. CASE n # <<>>
  <2>1. PICK c \in Element \ {zero} : Mul(<<c>>, n) = ensure_monic(n)
    BY <1>1, <1>3, MonicIs
  <2>2. <<c>> \in Poly
    BY <2>1, ConstantIs
  <2>3. ValueAt(<<c>>, a) \in Element
    BY <2>2, ValueOfRest
  <2>4. ValueAt(ensure_monic(n), a) = Times(ValueAt(<<c>>, a), zero)
    BY <1>1, <2>1, <2>2, ValueOfMul
  <2> QED
    BY <1>1, <2>3, <2>4, TimesZeroOne
<1> QED
  BY <1>2, <1>3

\* The steps of zeros change the polynomial only when they make it monic, and
\* none of its assertions fails.
LEMMA KeyFactoring ==
  ASSUME IInv, FactorsInv, KeyInv, Factoring
  PROVE  KeyInv'
<1>1. pc \in {"start", "outer", "inner"} /\ pc' \in {"outer", "inner", "done", "threw", "aborted"}
  BY DEF Factoring, ZerosStep, Start, NextRound, RoundDone, Linear, Exhausted, Attempt,
         Attempting, Found
<1>2. pc' # "aborted"
  BY FactorsAttempt, FactorsFound
     DEF Factoring, ZerosStep, Start, NextRound, RoundDone, Linear, Exhausted
<1>3. f' = f \/ (pc = "start" /\ f' = ensure_monic(f))
  BY DEF Factoring, ZerosStep, Start, NextRound, RoundDone, Linear, Exhausted, Attempt, Found
<1>4. Given' = Given /\ key' = key
  BY DEF Factoring, inputs, Given
<1>5. ASSUME Given PROVE key \in Element /\ ValueAt(f', key) = zero
  <2>1. key \in Element /\ ValueAt(f, key) = zero
    BY <1>1, <1>5 DEF KeyInv
  <2>2. CASE pc = "start" /\ f' = ensure_monic(f)
    BY <2>1, <2>2, MonicKeepsZeros DEF FactorsInv
  <2> QED
    BY <1>3, <2>1, <2>2
<1>6. ValueAt(f, key)' = ValueAt(f', key)
  BY <1>4 DEF ValueAt
<1> QED
  BY <1>1, <1>2, <1>4, <1>5, <1>6 DEF KeyInv, AbortsOnForgeryOnly

LEMMA KeyBeginSearch ==
  ASSUME FactorsInv, KeyInv, BeginSearch
  PROVE  KeyInv'
<1>1. /\ pc = "done" /\ Given /\ pc' = "search" /\ h_candidates' = Zeros
      /\ UNCHANGED <<f, inputs>>
  BY DEF BeginSearch, Given
<1>2. key \in Element /\ ValueAt(f, key) = zero
  BY <1>1 DEF KeyInv
<1>3. \E k \in 1 .. Len(Zeros) : Zeros[k] = key
  BY <1>1, <1>2, ZerosFollow DEF ZerosAreRight
<1>4. msg3' # NoMessage
  <2>1. PICK t \in Third, tag \in Element : msg3' = Message(t, tag)
    BY DEF BeginSearch
  <2>2. PICK a, b \in Seq(Element) : t = <<a, b>>
    BY RecoveryAssumption
  <2>3. Len(<<a, b>>) = 2 /\ Len(<<>>) = 0
    OBVIOUS
  <2>4. t # <<>>
    BY <2>2, <2>3
  <2> QED
    BY <2>1, <2>4 DEF Message, NoMessage
<1> QED
  BY <1>1, <1>2, <1>3, <1>4 DEF KeyInv, AbortsOnForgeryOnly, inputs, Given

\* An authentic third message has its tag reproduced by the key.
LEMMA KeyReproduces ==
  ASSUME msg1.tag = Tag(msg1.text), Authentic(msg3)
  PROVE  Reproduces(key)
BY MaskCancels DEF Reproduces, gen_auth_tag, gen_auth_tag_mask, Tag, Authentic

\* What is dropped is not the key, then.
LEMMA KeyDropCandidate ==
  ASSUME IInv, KeyInv, DropCandidate
  PROVE  KeyInv'
<1>1. /\ pc = "search" /\ pc' = "search" /\ h_candidates # <<>> /\ ~Reproduces(Last(h_candidates))
      /\ h_candidates' = Front(h_candidates) /\ UNCHANGED <<f, inputs, msg3>>
  BY DEF DropCandidate, Searching, zerosVars
<1>2. Given /\ h_candidates \in Seq(ZeroSet) /\ msg1.tag = Tag(msg1.text)
  BY <1>1 DEF IInv, Candidates, FirstIsAuthentic, Given
<1>3. Len(h_candidates) \in Nat \ {0}
  BY <1>1, <1>2
<1>4. ASSUME Authentic(msg3)
      PROVE  \E k \in 1 .. Len(Front(h_candidates)) : Front(h_candidates)[k] = key
  <2>1. PICK k \in 1 .. Len(h_candidates) : h_candidates[k] = key
    BY <1>1, <1>4 DEF KeyInv
  <2>2. k # Len(h_candidates)
    BY <1>1, <1>2, <1>4, <2>1, KeyReproduces DEF Last
  <2>3. Front(h_candidates) = [j \in 1 .. Len(h_candidates) - 1 |-> h_candidates[j]]
    BY <1>2, <1>3 DEF Front
  <2>4. k \in 1 .. Len(h_candidates) - 1 /\ Len(Front(h_candidates)) = Len(h_candidates) - 1
    BY <1>3, <2>2, <2>3
  <2> QED
    BY <2>1, <2>3, <2>4
<1>5. Authentic(msg3)' <=> Authentic(msg3)
  BY <1>1 DEF Authentic, Tag, inputs
<1> QED
  BY <1>1, <1>2, <1>4, <1>5 DEF KeyInv, AbortsOnForgeryOnly, inputs, Given

LEMMA KeyNoCandidate ==
  ASSUME KeyInv, NoCandidate
  PROVE  KeyInv'
<1>1. /\ pc = "search" /\ pc' = "aborted" /\ h_candidates = <<>>
      /\ UNCHANGED <<f, inputs, msg3>>
  BY DEF NoCandidate
<1>2. msg3 # NoMessage /\ ~Authentic(msg3)
  <2>1. 1 .. Len(h_candidates) = {}
    BY <1>1
  <2> QED
    BY <1>1, <2>1 DEF KeyInv
<1>3. Authentic(msg3)' <=> Authentic(msg3)
  BY <1>1 DEF Authentic, Tag, inputs
<1>4. Given' = Given /\ key' = key
  BY <1>1 DEF inputs, Given
<1>5. NoMessage' = NoMessage
  BY DEF NoMessage, Message
<1> QED
  BY <1>1, <1>2, <1>3, <1>4, <1>5 DEF KeyInv, AbortsOnForgeryOnly

LEMMA KeyForge ==
  ASSUME KeyInv, Forge
  PROVE  KeyInv'
<1>1. pc' = "returned" /\ UNCHANGED inputs
  BY DEF Forge
<1> QED
  BY <1>1 DEF KeyInv, AbortsOnForgeryOnly, inputs, Given

LEMMA KeyStutter ==
  ASSUME KeyInv, UNCHANGED vars
  PROVE  KeyInv'
BY DEF KeyInv, AbortsOnForgeryOnly, Given, Authentic, Tag, ValueAt, vars, zerosVars, inputs

\* The key is a candidate until one is found that reproduces the third tag, if
\* the third message is one of the nonce.
THEOREM KeyIsCandidate == Spec => []KeyInv
<1>1. Init => KeyInv
  BY KeyInit
<1>2. IInv /\ FactorsInv /\ KeyInv /\ [Next]_vars => KeyInv'
  BY KeyFactoring, KeyBeginSearch, KeyDropCandidate, KeyForge, KeyNoCandidate, KeyStutter
     DEF Next, Ended
<1> QED
  BY <1>1, <1>2, Invariance, FactorsInvariance, PTL DEF Spec

\* recover_auth_tag ends in a failed assertion only when the third message was
\* made with another nonce or key: over every field, for every message, key,
\* mask and draws.
THEOREM AbortsAlwaysOnForgeryOnly == Spec => []AbortsOnForgeryOnly
<1>1. KeyInv => AbortsOnForgeryOnly
  BY DEF KeyInv
<1> QED
  BY <1>1, KeyIsCandidate, PTL

-----------------------------------------------------------------------------
(* Some draw splits a factor.  A polynomial that divides a product of       *)
(* linear ones has two of them as divisors, t and s.  It is split by a draw *)
(* h that is 1 modulo t and whose power is h modulo t * s, other than 1.    *)

LinearOf(x) == <<x, one>>

LEMMA LinearIs ==
  ASSUME NEW x \in Element
  PROVE  /\ LinearOf(x) \in Monic /\ LinearOf(x) \in NormalPoly /\ LinearOf(x) \in Poly
         /\ LinearOf(x) # <<>> /\ Len(LinearOf(x)) = 2 /\ Lead(LinearOf(x)) = one
         /\ ValueAt(LinearOf(x), x) = zero
         /\ \A k \in Nat \ {0} : Coefficient(LinearOf(x), k) = IF k = 1 THEN x ELSE IF k = 2 THEN one ELSE zero
<1> DEFINE t == LinearOf(x)
<1>1. t \in Poly /\ Len(t) = 2 /\ t # <<>> /\ t[1] = x /\ t[2] = one
  BY ElementPlus DEF Poly, LinearOf
<1>2. Degree(t) = 1 /\ Lead(t) = one
  BY <1>1 DEF Degree, Lead
<1>3. one # zero
  BY DEF one, zero
<1>4. t \in NormalPoly /\ t \in Monic
  BY <1>1, <1>2, <1>3 DEF NormalPoly, IsNormal, Monic
<1>5. \A k \in Nat \ {0} : Coefficient(t, k) = IF k = 1 THEN x ELSE IF k = 2 THEN one ELSE zero
  BY <1>1 DEF Coefficient
<1>6. Coefficient(t, 1) = x
  BY <1>5
<1>7. ValueAt(t, x) = zero
  BY <1>2, <1>4, <1>6, ZeroOfLinear
<1> QED
  BY <1>1, <1>2, <1>4, <1>5, <1>7

\* A zero is a linear divisor.
LEMMA LinearDivides ==
  ASSUME NEW p \in NormalPoly, NEW x \in Element
  PROVE  DividedBy(p, LinearOf(x)) <=> ValueAt(p, x) = zero
<1> DEFINE t == LinearOf(x)
<1>1. t \in NormalPoly /\ t \in Poly /\ t # <<>> /\ Len(t) = 2 /\ ValueAt(t, x) = zero /\ p \in Poly
  BY LinearIs, NormalPolyIs
<1> HIDE DEF t
<1>2. ASSUME DividedBy(p, t) PROVE ValueAt(p, x) = zero
  <2>1. PICK u \in NormalPoly : p = Mul(u, t)
    BY <1>2 DEF DividedBy
  <2>2. u \in Poly
    BY NormalPolyIs
  <2>3. ValueAt(p, x) = Times(ValueAt(u, x), zero) /\ ValueAt(u, x) \in Element
    BY <1>1, <2>1, <2>2, ValueOfMul, ValueOfRest
  <2> QED
    BY <2>3, TimesZeroOne
<1>3. ASSUME ValueAt(p, x) = zero PROVE DividedBy(p, t)
  <2> DEFINE q == divmod(p, t).q
             r == divmod(p, t).r
  <2>1. q \in NormalPoly /\ r \in NormalPoly /\ p = Add(Mul(q, t), r) /\ Short(r, t)
    BY <1>1, DivmodOfNormal
  <2> HIDE DEF q, r
  <2>2. q \in Poly /\ r \in Poly /\ Mul(q, t) \in NormalPoly /\ Mul(q, t) \in Poly
    BY <1>1, <2>1, NormalPolyIs
  <2>3. ValueAt(r, x) = zero
    <3>1. ValueAt(p, x) = Plus(ValueAt(Mul(q, t), x), ValueAt(r, x))
      <4> DEFINE u == Mul(q, t)
      <4>1. u \in Poly /\ p = Add(u, r)
        BY <2>1, <2>2
      <4> HIDE DEF u
      <4>2. \A k \in Nat \ {0} : Coefficient(p, k) = Plus(Coefficient(u, k), Coefficient(r, k))
        BY <2>2, <4>1, AddIs
      <4>3. ValueAt(p, x) = Plus(ValueAt(u, x), ValueAt(r, x))
        BY <1>1, <2>2, <4>1, <4>2, ValueAdds
      <4> QED
        BY <4>3 DEF u
    <3>2. ValueAt(Mul(q, t), x) = Times(ValueAt(q, x), zero) /\ ValueAt(q, x) \in Element
      BY <1>1, <2>2, ValueOfMul, ValueOfRest
    <3>3. ValueAt(Mul(q, t), x) = zero
      BY <3>2, TimesZeroOne
    <3>4. Plus(zero, ValueAt(r, x)) = ValueAt(r, x)
      BY DEF Plus, zero
    <3> QED
      BY <1>3, <3>1, <3>3, <3>4
  <2>4. Len(r) \in Nat /\ Len(r) < 2
    BY <1>1, <2>1, <2>2, ShortIs, DegreeIs
  <2>5. Coefficient(r, 1) = zero
    <3>1. Rest(r) \in Poly /\ Len(Rest(r)) <= 0
      <4>1. Len(r) <= 0 + 1 /\ 0 \in Nat
        BY <2>4
      <4> QED
        BY <2>2, <4>1, RestIs
    <3>2. Rest(r) = <<>>
      <4>1. Len(Rest(r)) \in Nat
        BY <3>1, DegreeIs
      <4>2. Len(Rest(r)) = 0
        BY <3>1, <4>1
      <4> QED
        BY <3>1, <4>2, DegreeIs
    <3>3. ValueAt(r, x) = Plus(Coefficient(r, 1), Times(x, ValueAt(Rest(r), x)))
      BY <2>2, ValueOfRest
    <3>4. ValueAt(Rest(r), x) = zero /\ Times(x, zero) = zero
      BY <3>1, <3>2, ValueOfRest, TimesZeroOne
    <3>5. Plus(Coefficient(r, 1), zero) = Coefficient(r, 1)
      BY DEF Plus, zero
    <3> QED
      BY <2>3, <3>3, <3>4, <3>5
  <2>6. r = <<>>
    <3> SUFFICES ASSUME r # <<>> PROVE FALSE
      OBVIOUS
    <3>1. Len(r) # 0 /\ Lead(r) = Coefficient(r, Len(r)) /\ Lead(r) # zero
      BY <2>1, <2>2, DegreeIs, NormalPolyIs
    <3>2. \A n \in Nat : n < 2 /\ n # 0 => n = 1
      OBVIOUS
    <3>3. Len(r) = 1
      BY <2>4, <3>1, <3>2
    <3> QED
      BY <2>5, <3>1, <3>3
  <2>7. p = Mul(q, t)
    BY <2>1, <2>2, <2>6, AddLaws, NormalPolyIs
  <2> QED
    BY <2>1, <2>7 DEF DividedBy
<1> QED
  BY <1>2, <1>3 DEF t

LEMMA MulCancels ==
  ASSUME NEW p \in NormalPoly, NEW s \in NormalPoly, NEW t \in NormalPoly, t # <<>>, Mul(p, t) = Mul(s, t)
  PROVE  p = s
<1> DEFINE u == Add(p, s)
<1>1. p \in Poly /\ s \in Poly /\ t \in Poly /\ IsNormal(p) /\ IsNormal(s) /\ IsNormal(t)
      /\ u \in Poly /\ IsNormal(u) /\ Mul(p, t) \in Poly
  BY NormalPolyIs, AddIs, MulIs
<1>2. Mul(u, t) = <<>>
  <2>1. Mul(u, t) = Add(Mul(p, t), Mul(s, t))
    BY <1>1, MulAdds
  <2>2. Add(Mul(p, t), Mul(p, t)) = <<>>
    BY <1>1, AddLaws
  <2> QED
    BY <2>1, <2>2
<1> HIDE DEF u
<1>3. u = <<>>
  <2> SUFFICES ASSUME u # <<>> PROVE FALSE
    OBVIOUS
  <2>1. Len(Mul(u, t)) = Len(u) + Len(t) - 1
    BY <1>1, MulLength
  <2>2. Len(u) \in Nat \ {0} /\ Len(t) \in Nat \ {0} /\ Len(<<>>) = 0
    BY <1>1, DegreeIs
  <2> QED
    BY <1>2, <2>1, <2>2
<1> QED
  BY <1>1, <1>3, AddLaws DEF u

\* A product of linear polynomials.
Split(s) == s \in Seq(NormalPoly) /\ \A k \in 1 .. Len(s) : \E x \in Element : s[k] = LinearOf(x)

LEMMA LinearFactor ==
  ASSUME NEW p \in Monic, Len(p) >= 2, NEW s, Split(s), DividedBy(Product(s), p)
  PROVE  \E x \in Element : DividedBy(p, LinearOf(x))
<1> SUFFICES ASSUME \A x \in Element : ~DividedBy(p, LinearOf(x)) PROVE FALSE
  OBVIOUS
<1> DEFINE n == Len(s)
           P(k) == ProductsUpTo(s)[k]
           T == {k \in 0 .. n : ~DividedBy(P(k), p)}
<1>1. /\ n \in Nat /\ P(0) = <<one>>
      /\ \A k \in 1 .. n : P(k) = Mul(P(k - 1), s[k]) /\ s[k] \in NormalPoly
      /\ \A k \in 0 .. n : P(k) \in NormalPoly
      /\ Product(s) = P(n)
  BY ProductsAre DEF Split
<1>2. p \in NormalPoly /\ p \in Poly /\ p # <<>>
  BY MonicPoly
<1> HIDE DEF P
<1>3. 0 \in T
  <2> SUFFICES ASSUME DividedBy(P(0), p) PROVE FALSE
    BY <1>1
  <2>1. PICK u \in NormalPoly : <<one>> = Mul(u, p)
    BY <1>1 DEF DividedBy
  <2>2. <<one>> \in NormalPoly /\ <<one>> # <<>> /\ Len(<<one>>) = 1
    BY MulOne
  <2>3. Len(p) <= 1
    BY <1>2, <2>1, <2>2, DividedLength
  <2>4. Len(p) \in Nat
    BY <1>2, DegreeIs
  <2> QED
    BY <2>3, <2>4
<1>4. ASSUME NEW k \in 0 .. n - 1, k \in T PROVE k + 1 \in T
  <2> SUFFICES ASSUME DividedBy(P(k + 1), p) PROVE FALSE
    BY <1>1
  <2>1. k + 1 \in 1 .. n /\ (k + 1) - 1 = k /\ k \in 0 .. n
    BY <1>1
  <2>2. PICK x \in Element : s[k + 1] = LinearOf(x)
    BY <2>1 DEF Split
  <2> DEFINE t == LinearOf(x)
  <2>3. t \in NormalPoly /\ t \in Poly /\ t # <<>> /\ ValueAt(t, x) = zero
    BY LinearIs
  <2>4. P(k + 1) = Mul(P(k), t) /\ P(k) \in NormalPoly /\ P(k) \in Poly
    BY <1>1, <2>1, <2>2, NormalPolyIs
  <2>5. PICK u \in NormalPoly : P(k + 1) = Mul(u, p)
    BY DEF DividedBy
  <2>6. u \in Poly
    BY NormalPolyIs
  <2> HIDE DEF t
  <2>7. ValueAt(u, x) = zero
    <3>1. /\ ValueAt(P(k), x) \in Element /\ ValueAt(u, x) \in Element /\ ValueAt(p, x) \in Element
          /\ ValueAt(Mul(P(k), t), x) = Times(ValueAt(P(k), x), zero)
          /\ ValueAt(Mul(u, p), x) = Times(ValueAt(u, x), ValueAt(p, x))
      BY <1>2, <2>3, <2>4, <2>6, ValueOfMul, ValueOfRest
    <3>2. Times(ValueAt(u, x), ValueAt(p, x)) = zero
      BY <2>4, <2>5, <3>1, TimesZeroOne
    <3>3. ValueAt(p, x) # zero
      BY <1>2, LinearDivides
    <3> QED
      BY <3>1, <3>2, <3>3, TimesNotZero
  <2>8. PICK v \in NormalPoly : u = Mul(v, t)
    BY <2>7, LinearDivides DEF DividedBy, t
  <2>9. v \in Poly /\ Mul(v, p) \in NormalPoly
    BY <1>2, <2>8, NormalPolyIs
  <2>10. Mul(Mul(v, p), t) = Mul(P(k), t)
    <3>1. Mul(Mul(v, t), p) = Mul(v, Mul(t, p)) /\ Mul(t, p) = Mul(p, t) /\ Mul(v, Mul(p, t)) = Mul(Mul(v, p), t)
      BY <1>2, <2>3, <2>9, MulAssociates, MulCommutes
    <3> QED
      BY <2>4, <2>5, <2>8, <3>1
  <2>11. Mul(v, p) = P(k)
    BY <2>3, <2>4, <2>9, <2>10, MulCancels
  <2>12. DividedBy(P(k), p)
    BY <2>8, <2>11 DEF DividedBy
  <2> QED
    BY <1>4, <2>12
<1>5. n \in T
  <2> HIDE DEF T, n
  <2>1. 0 .. n \subseteq T
    BY <1>1, <1>3, <1>4, Induction
  <2> QED
    BY <1>1, <2>1
<1> QED
  BY <1>1, <1>5

LEMMA TwoLinearFactors ==
  ASSUME NEW p \in Monic, Len(p) >= 3, NEW s, Split(s), DividedBy(Product(s), p)
  PROVE  \E x, y \in Element : DividedBy(p, Mul(LinearOf(x), LinearOf(y)))
<1>1. p \in NormalPoly /\ p \in Poly /\ p # <<>> /\ Lead(p) = one /\ Len(p) \in Nat
  BY MonicPoly, DegreeIs
<1>2. PICK x \in Element : DividedBy(p, LinearOf(x))
  <2>1. Len(p) >= 2
    BY <1>1
  <2> QED
    BY <2>1, LinearFactor
<1> DEFINE t == LinearOf(x)
<1>3. t \in NormalPoly /\ t \in Poly /\ IsNormal(t) /\ t # <<>> /\ Len(t) = 2 /\ Lead(t) = one
  BY LinearIs, NormalPolyIs
<1>4. PICK u \in NormalPoly : p = Mul(u, t)
  BY <1>2 DEF DividedBy
<1> HIDE DEF t
<1>5. u \in Poly /\ IsNormal(u) /\ u # <<>> /\ Len(p) = Len(u) + Len(t) - 1 /\ Len(u) \in Nat
  <2>1. u \in Poly /\ IsNormal(u)
    BY NormalPolyIs
  <2>2. u # <<>> /\ Len(p) = Len(u) + Len(t) - 1
    BY <1>1, <1>3, <1>4, DividedLength
  <2>3. Len(u) \in Nat
    BY <2>1, DegreeIs
  <2> QED
    BY <2>1, <2>2, <2>3
<1>6. Len(u) >= 2
  BY <1>3, <1>5
<1>7. u \in Monic
  <2>1. Lead(p) = Times(Lead(u), Lead(t))
    BY <1>3, <1>4, <1>5, MulLength
  <2>2. Lead(u) \in Element
    BY <1>5, DegreeIs
  <2>3. Times(Lead(u), one) = Lead(u)
    BY <2>2, TimesZeroOne
  <2>4. Lead(u) = one
    BY <1>1, <1>3, <2>1, <2>3
  <2> QED
    BY <1>5, <2>4 DEF Monic
<1>8. DividedBy(Product(s), u)
  <2>1. p = Mul(t, u)
    BY <1>3, <1>4, <1>5, MulCommutes
  <2>2. DividedBy(p, u)
    BY <1>3, <2>1 DEF DividedBy
  <2> QED
    BY <1>1, <2>2, DividedTransitive
<1>9. PICK y \in Element : DividedBy(u, LinearOf(y))
  BY <1>6, <1>7, <1>8, LinearFactor
<1> DEFINE r == LinearOf(y)
<1>10. r \in Poly
  BY LinearIs
<1>11. PICK v \in NormalPoly : u = Mul(v, r)
  BY <1>9 DEF DividedBy
<1> HIDE DEF r
<1>12. v \in Poly
  BY NormalPolyIs
<1>13. p = Mul(v, Mul(t, r))
  <2>1. Mul(Mul(v, r), t) = Mul(v, Mul(r, t)) /\ Mul(r, t) = Mul(t, r)
    BY <1>3, <1>10, <1>12, MulAssociates, MulCommutes
  <2> QED
    BY <1>4, <1>11, <2>1
<1>14. DividedBy(p, Mul(t, r))
  BY <1>13 DEF DividedBy
<1> QED
  BY <1>14 DEF t, r

\* What a draw has to be to split a polynomial that both divide.
Lucky(h, b, t, d) ==
  /\ Idempotent(h, b, d)
  /\ Len(h) <= 2
  /\ DividedBy(Add(h, <<one>>), t)
  /\ ~DividedBy(Add(h, <<one>>), d)

LEMMA LuckyDraw ==
  ASSUME NEW x \in Element, NEW y \in Element
  PROVE  \E h, b : Lucky(h, b, LinearOf(x), Mul(LinearOf(x), LinearOf(y)))
<1> DEFINE t == LinearOf(x)
           s == LinearOf(y)
           d == Mul(t, s)
           c == IF x = y THEN one ELSE modular_inverse[Plus(x, y)]
           C == <<c>>
           I == <<one>>
           w == Mul(C, t)
           h == Add(w, I)
<1>1. /\ t \in NormalPoly /\ t \in Poly /\ IsNormal(t) /\ t # <<>> /\ Len(t) = 2
      /\ \A k \in Nat \ {0} : Coefficient(t, k) = IF k = 1 THEN x ELSE IF k = 2 THEN one ELSE zero
  BY LinearIs, NormalPolyIs
<1>2. /\ s \in NormalPoly /\ s \in Poly /\ IsNormal(s) /\ s # <<>> /\ Len(s) = 2
      /\ \A k \in Nat \ {0} : Coefficient(s, k) = IF k = 1 THEN y ELSE IF k = 2 THEN one ELSE zero
  BY LinearIs, NormalPolyIs
<1>3. I \in NormalPoly /\ I \in Poly /\ IsNormal(I) /\ \A k \in Nat \ {0} : Coefficient(I, k) = IF k = 1 THEN one ELSE zero
  <2>1. I \in NormalPoly /\ I \in Poly /\ IsNormal(I)
    BY MulOne, NormalPolyIs
  <2>2. Len(I) = 1 /\ I[1] = one
    OBVIOUS
  <2>3. \A k \in Nat \ {0} : k \in 1 .. 1 <=> k = 1
    OBVIOUS
  <2> HIDE DEF I
  <2> QED
    BY <2>1, <2>2, <2>3 DEF Coefficient
<1>4. c \in Element /\ c # zero /\ (x # y => Times(c, Plus(x, y)) = one)
  <2>1. one \in Element /\ one # zero /\ zero \in Element
    BY ElementPlus DEF one, zero
  <2>2. CASE x = y
    BY <2>1, <2>2
  <2>3. CASE x # y
    <3> DEFINE e == Plus(x, y)
    <3>1. e \in Element /\ e # zero
      BY <2>3, ElementPlus DEF Plus, zero
    <3> HIDE DEF e
    <3>2. modular_inverse[e] \in Element /\ Times(e, modular_inverse[e]) = one
      BY <3>1, Inverses, FieldInverses
    <3>3. Times(modular_inverse[e], e) = one
      BY <3>1, <3>2, TimesCommutes
    <3>4. modular_inverse[e] # zero
      BY <2>1, <3>1, <3>2, TimesZeroOne
    <3> QED
      BY <2>3, <3>2, <3>3, <3>4 DEF e
  <2> QED
    BY <2>2, <2>3
<1> HIDE DEF c
<1>5. /\ C \in NormalPoly /\ C \in Poly /\ IsNormal(C) /\ C # <<>> /\ Len(C) = 1
      /\ \A p \in Poly : \A k \in Nat \ {0} : Coefficient(Mul(C, p), k) = Times(c, Coefficient(p, k))
  BY <1>4, ConstantIs, NormalPolyIs
<1> HIDE DEF t, s, C, I
<1>6. w \in NormalPoly /\ w \in Poly /\ IsNormal(w) /\ Len(w) = 2 /\ w # <<>>
  <2>1. w \in NormalPoly /\ w \in Poly /\ IsNormal(w)
    BY <1>1, <1>5, NormalPolyIs, MulIs
  <2>2. Len(w) = Len(C) + Len(t) - 1
    BY <1>1, <1>5, MulLength
  <2>3. Len(w) = 2
    BY <1>1, <1>5, <2>2
  <2>4. w # <<>>
    BY <2>3
  <2> QED
    BY <2>1, <2>3, <2>4
<1>7. d \in NormalPoly /\ d \in Poly /\ Len(d) = 3 /\ d # <<>>
  <2>1. d \in NormalPoly /\ d \in Poly
    BY <1>1, <1>2, NormalPolyIs, MulIs
  <2>2. Len(d) = Len(t) + Len(s) - 1
    BY <1>1, <1>2, MulLength
  <2>3. Len(d) = 3
    BY <1>1, <1>2, <2>2
  <2>4. d = <<>> => Len(d) = 0
    BY <2>1, DegreeIs
  <2>5. d # <<>>
    BY <2>3, <2>4
  <2> QED
    BY <2>1, <2>3, <2>5
<1>8. \A k \in Nat \ {0} : Coefficient(w, k) = Times(c, Coefficient(t, k))
  BY <1>1, <1>5
<1>9. DividedBy(w, t)
  BY <1>5 DEF DividedBy
<1>10. h \in NormalPoly /\ h \in Poly /\ IsNormal(h) /\ \A k \in Nat \ {0} : Coefficient(h, k) = Plus(Coefficient(w, k), Coefficient(I, k))
  BY <1>3, <1>6, NormalPolyIs, AddIs
<1> HIDE DEF w, d
<1>11. ~DividedBy(w, d)
  <2> SUFFICES ASSUME NEW u \in NormalPoly, w = Mul(u, d) PROVE FALSE
    BY DEF DividedBy
  <2>1. Len(d) <= Len(w)
    BY <1>6, <1>7, DividedLength
  <2> QED
    BY <1>6, <1>7, <2>1
<1>12. Add(h, I) = w /\ h = Add(w, I)
  <2>1. Add(Add(w, I), I) = Add(w, Add(I, I)) /\ Add(I, I) = <<>> /\ Add(w, <<>>) = w
    BY <1>3, <1>6, AddLaws
  <2> QED
    BY <2>1
<1>13. Len(h) <= 2
  <2>1. ASSUME NEW k \in Nat \ {0}, k > 2 PROVE Coefficient(h, k) = zero
    <3>1. Coefficient(w, k) = zero
      BY <1>6, <2>1, CoefficientsAreElements
    <3>2. Coefficient(I, k) = zero
      BY <1>3, <2>1
    <3>3. Plus(zero, zero) = zero
      BY DEF Plus, zero
    <3> QED
      BY <1>10, <3>1, <3>2, <3>3
  <2> HIDE DEF h
  <2> QED
    BY <1>10, <2>1, LengthAtMost
<1> HIDE DEF h
<1>14. Add(Mul(h, h), h) = Mul(w, h)
  <2>1. Mul(h, h) = Add(Mul(w, h), Mul(I, h)) /\ Mul(I, h) = h
    <3>1. Mul(Add(w, I), h) = Add(Mul(w, h), Mul(I, h))
      BY <1>3, <1>6, <1>10, MulAdds
    <3>2. Mul(I, h) = h
      BY <1>10, MulOne DEF I
    <3> QED
      BY <1>12, <3>1, <3>2
  <2>2. Mul(w, h) \in Poly /\ IsNormal(Mul(w, h))
    BY <1>6, <1>10, MulIs
  <2>3. Add(Add(Mul(w, h), h), h) = Add(Mul(w, h), Add(h, h)) /\ Add(h, h) = <<>> /\ Add(Mul(w, h), <<>>) = Mul(w, h)
    BY <1>10, <2>2, AddLaws
  <2> QED
    BY <2>1, <2>3
<1>15. CASE x = y
  <2>1. s = t /\ w = t /\ d = Mul(t, t)
    <3>1. Mul(I, t) = t
      BY <1>1, MulOne DEF I
    <3> QED
      BY <1>15, <3>1 DEF s, t, w, C, c, d, I
  <2>2. Add(Mul(h, h), I) = d
    <3>1. Mul(w, h) = Add(Mul(w, w), Mul(w, I)) /\ Mul(w, I) = w
      <4>1. Mul(w, Add(w, I)) = Add(Mul(w, w), Mul(w, I))
        BY <1>3, <1>6, MulAdds
      <4>2. Mul(w, I) = w
        BY <1>6, MulOne DEF I
      <4> QED
        BY <1>12, <4>1, <4>2
    <3>2. Mul(h, h) \in Poly /\ IsNormal(Mul(h, h)) /\ Mul(w, w) \in Poly /\ IsNormal(Mul(w, w))
      BY <1>6, <1>10, MulIs
    <3> DEFINE u == Mul(h, h)
               v == Mul(w, w)
    <3>3. Add(u, h) = Add(v, w)
      BY <1>14, <3>1
    <3>4. d = v
      BY <2>1
    <3> HIDE DEF u, v
    <3>5. Add(Add(u, h), w) = Add(Add(v, w), w)
      BY <3>3
    <3>6. Add(Add(u, h), w) = Add(u, Add(h, w))
      BY <1>6, <1>10, <3>2, AddLaws DEF u
    <3>7. Add(Add(v, w), w) = v
      <4>1. Add(Add(v, w), w) = Add(v, Add(w, w)) /\ Add(w, w) = <<>> /\ Add(v, <<>>) = v
        BY <1>6, <3>2, AddLaws DEF v
      <4> QED
        BY <4>1
    <3>8. Add(h, w) = I
      <4>1. Add(w, I) = Add(I, w) /\ Add(Add(I, w), w) = Add(I, Add(w, w)) /\ Add(w, w) = <<>> /\ Add(I, <<>>) = I
        BY <1>3, <1>6, AddLaws
      <4> QED
        BY <1>12, <4>1
    <3> QED
      BY <3>4, <3>5, <3>6, <3>7, <3>8 DEF u
  <2>3. Congruent(Mul(h, h), I, d)
    BY <1>7, <2>2, DividedByLaws DEF Congruent
  <2>4. Mul(I, I) = I /\ Mul(h, I) = h
    BY <1>3, <1>10, MulOne DEF I
  <2>5. Congruent(Mul(I, I), I, d) /\ Congruent(Mul(h, I), h, d)
    BY <1>3, <1>7, <1>10, <2>4, CongruentLaws
  <2>6. Idempotent(h, I, d)
    BY <1>3, <1>10, <2>3, <2>5 DEF Idempotent
  <2>7. Lucky(h, I, t, d)
    BY <1>9, <1>11, <1>12, <1>13, <2>6 DEF Lucky, I
  <2> QED
    BY <2>7 DEF t, s, d
<1>16. CASE x # y
  <2>1. h = Mul(C, s)
    <3> DEFINE u == Mul(C, s)
    <3>1. u \in Poly /\ IsNormal(u) /\ \A k \in Nat \ {0} : Coefficient(u, k) = Times(c, Coefficient(s, k))
      BY <1>2, <1>5, MulIs
    <3> HIDE DEF u
    <3>2. ASSUME NEW k \in Nat \ {0} PROVE Coefficient(h, k) = Coefficient(u, k)
      <4>1. Coefficient(h, k) = Plus(Times(c, Coefficient(t, k)), Coefficient(I, k))
            /\ Coefficient(u, k) = Times(c, Coefficient(s, k))
        BY <1>8, <1>10, <3>1
      <4>2. CASE k = 1
        <5>1. Coefficient(t, k) = x /\ Coefficient(s, k) = y /\ Coefficient(I, k) = one
          BY <1>1, <1>2, <1>3, <4>2
        <5>2. Plus(Times(c, x), Times(c, y)) = one
          BY <1>4, <1>16, TimesAdds
        <5>3. \A a, b : Plus(a, Plus(a, b)) = b
          BY DEF Plus
        <5>4. Plus(Times(c, x), one) = Times(c, y)
          BY <5>2, <5>3
        <5> QED
          BY <4>1, <5>1, <5>4
      <4>3. CASE k # 1
        <5>1. Coefficient(t, k) = Coefficient(s, k) /\ Coefficient(I, k) = zero
          BY <1>1, <1>2, <1>3, <4>3
        <5>2. \A a : Plus(a, zero) = a
          BY DEF Plus, zero
        <5> QED
          BY <4>1, <5>1, <5>2
      <4> QED
        BY <4>2, <4>3
    <3>3. h = u
      BY <1>10, <3>1, <3>2, NormalEqual DEF Same
    <3> QED
      BY <3>3 DEF u
  <2>2. Mul(w, h) = Mul(Mul(C, C), d)
    <3>1. /\ Mul(Mul(C, t), Mul(C, s)) = Mul(C, Mul(t, Mul(C, s)))
          /\ Mul(t, Mul(C, s)) = Mul(Mul(t, C), s) /\ Mul(t, C) = Mul(C, t)
          /\ Mul(Mul(C, t), s) = Mul(C, Mul(t, s))
          /\ Mul(C, Mul(C, Mul(t, s))) = Mul(Mul(C, C), Mul(t, s))
      <4>1. Mul(C, s) \in Poly /\ Mul(t, s) \in Poly
        BY <1>1, <1>2, <1>5, MulIs
      <4>2. Mul(Mul(C, t), Mul(C, s)) = Mul(C, Mul(t, Mul(C, s)))
        BY <1>1, <1>5, <4>1, MulAssociates
      <4>3. Mul(t, Mul(C, s)) = Mul(Mul(t, C), s) /\ Mul(t, C) = Mul(C, t)
        BY <1>1, <1>2, <1>5, MulAssociates, MulCommutes
      <4>4. Mul(Mul(C, t), s) = Mul(C, Mul(t, s))
        BY <1>1, <1>2, <1>5, MulAssociates
      <4>5. Mul(C, Mul(C, Mul(t, s))) = Mul(Mul(C, C), Mul(t, s))
        BY <1>5, <4>1, MulAssociates
      <4> QED
        BY <4>2, <4>3, <4>4, <4>5
    <3> QED
      BY <2>1, <3>1 DEF w, d
  <2>3. Congruent(Mul(h, h), h, d)
    <3>1. Mul(C, C) \in NormalPoly
      BY <1>5, NormalPolyIs
    <3>2. DividedBy(Mul(w, h), d)
      BY <2>2, <3>1 DEF DividedBy
    <3> QED
      BY <1>14, <3>2 DEF Congruent
  <2>4. Idempotent(h, h, d)
    BY <1>10, <2>3 DEF Idempotent
  <2>5. Lucky(h, h, t, d)
    BY <1>9, <1>11, <1>12, <1>13, <2>4 DEF Lucky, I
  <2> QED
    BY <2>5 DEF t, s, d
<1> QED
  BY <1>15, <1>16

\* A power of four is one more than a multiple of three.
LEMMA ExponentIsOdd == Exponent \in Nat /\ Exponent % 2 = 1
<1> DEFINE n == Width \div 2
           T == {k \in 0 .. n : \E q \in Nat : 2 ^ (2 * k) = 3 * q + 1}
<1>1. n \in Nat /\ 2 * n = Width /\ Width - 1 \in Nat /\ (Width - 1) + 1 = Width
  BY RecoveryAssumption, FieldAssumption
<1>2. 0 \in T
  <2>1. 2 * 0 = 0 /\ 1 = 3 * 0 + 1 /\ 0 \in Nat /\ 0 \in 0 .. n
    BY <1>1
  <2>2. 2 ^ (2 * 0) = 3 * 0 + 1
    BY <2>1, PowersOfTwo
  <2> HIDE DEF n
  <2> QED
    BY <2>1, <2>2
<1>3. ASSUME NEW k \in 0 .. n - 1, k \in T PROVE k + 1 \in T
  <2> DEFINE a == 2 ^ (2 * k)
             c == 2 ^ (2 * k + 1)
             e == 2 ^ ((2 * k + 1) + 1)
  <2>1. k \in Nat /\ k + 1 \in 0 .. n /\ 2 * k \in Nat /\ 2 * k + 1 \in Nat /\ (2 * k + 1) + 1 = 2 * (k + 1)
    BY <1>1
  <2>2. PICK q \in Nat : a = 3 * q + 1
    BY <1>3
  <2>3. c = 2 * a /\ e = 2 * c
    BY <2>1, PowersOfTwo
  <2>4. e = 2 ^ (2 * (k + 1))
    BY <2>1
  <2> HIDE DEF a, c, e, n
  <2>5. e = 3 * (4 * q + 1) + 1 /\ 4 * q + 1 \in Nat
    BY <2>2, <2>3
  <2>6. 2 ^ (2 * (k + 1)) = 3 * (4 * q + 1) + 1
    BY <2>4, <2>5
  <2> QED
    BY <2>1, <2>5, <2>6
<1>4. n \in T
  <2> HIDE DEF T, n
  <2>1. 0 .. n \subseteq T
    BY <1>1, <1>2, <1>3, Induction
  <2> QED
    BY <1>1, <2>1
<1>5. PICK q \in Nat : 2 ^ (2 * n) = 3 * q + 1
  BY <1>4
<1> DEFINE v == 2 ^ (Width - 1)
           w == 2 ^ Width
<1>6. v \in Nat /\ w = 2 * v
  BY <1>1, PowersOfTwo
<1>7. w = 3 * q + 1
  BY <1>1, <1>5
<1>8. Exponent = (w - 1) \div 3
  BY DEF Exponent
<1> HIDE DEF v, w, n
<1>9. (w - 1) \div 3 = q
  BY <1>7
<1>10. q % 2 = 1
  BY <1>6, <1>7
<1> QED
  BY <1>8, <1>9, <1>10

\* An attempt at a factor of degree 2 or more of a product of linear
\* polynomials.
LEMMA SomeDraw ==
  ASSUME f \in Monic, NEW p \in Monic, Len(p) >= 3, DividedBy(f, p), NEW s, Split(s), f = Product(s)
  PROVE  \E h \in random(Degree(f) - 1) : cantor_zassenhaus(p, h) # <<>>
<1>1. /\ f \in NormalPoly /\ f \in Poly /\ f # <<>>
      /\ p \in NormalPoly /\ p \in Poly /\ p # <<>> /\ ensure_monic(p) = p
  BY MonicPoly
<1>2. PICK x \in Element, y \in Element : DividedBy(p, Mul(LinearOf(x), LinearOf(y)))
  BY TwoLinearFactors
<1> DEFINE t == LinearOf(x)
           r == LinearOf(y)
           d == Mul(t, r)
           I == <<one>>
<1>3. t \in NormalPoly /\ t \in Poly /\ t # <<>> /\ Len(t) = 2 /\ r \in NormalPoly /\ r \in Poly
      /\ I \in NormalPoly /\ I \in Poly /\ IsNormal(I) /\ I # <<>> /\ Len(I) = 1
  BY LinearIs, MulOne, NormalPolyIs
<1>4. PICK h, b : Lucky(h, b, t, d)
  BY LuckyDraw
<1> HIDE DEF t, r, I
<1>5. d \in NormalPoly /\ d \in Poly /\ DividedBy(p, d) /\ DividedBy(f, d) /\ DividedBy(d, t)
  <2>1. d \in NormalPoly /\ d \in Poly
    BY <1>3, NormalPolyIs, MulIs
  <2>2. DividedBy(p, d)
    BY <1>2 DEF t, r
  <2>3. d = Mul(r, t)
    BY <1>3, MulCommutes
  <2>4. DividedBy(d, t)
    BY <1>3, <2>3 DEF DividedBy
  <2> HIDE DEF d
  <2>5. DividedBy(f, d)
    BY <1>1, <2>1, <2>2, DividedTransitive
  <2> QED
    BY <2>1, <2>2, <2>4, <2>5
<1> HIDE DEF d
<1>6. /\ h \in NormalPoly /\ h \in Poly /\ IsNormal(h) /\ Idempotent(h, b, d) /\ Len(h) <= 2 /\ Len(h) \in Nat
      /\ DividedBy(Add(h, I), t) /\ ~DividedBy(Add(h, I), d)
  <2>1. h \in NormalPoly /\ Idempotent(h, b, d) /\ Len(h) <= 2
        /\ DividedBy(Add(h, I), t) /\ ~DividedBy(Add(h, I), d)
    BY <1>4 DEF Lucky, Idempotent, I
  <2>2. h \in Poly /\ IsNormal(h)
    BY <2>1, NormalPolyIs
  <2> QED
    BY <2>1, <2>2, DegreeIs
<1> DEFINE n == Degree(f)
           draw == [k \in 1 .. n |-> Coefficient(h, k)]
<1>7. n \in Nat /\ n >= 2 /\ (n - 1) + 1 = n
  <2>1. PICK u \in NormalPoly : f = Mul(u, p)
    BY DEF DividedBy
  <2>2. Len(p) <= Len(f)
    BY <1>1, <2>1, DividedLength
  <2>3. Len(f) \in Nat /\ Len(p) \in Nat /\ n \in Nat /\ n + 1 = Len(f)
    BY <1>1, DegreeIs
  <2> HIDE DEF n
  <2> QED
    BY <2>2, <2>3
<1> HIDE DEF n
<1>8. draw \in [1 .. n -> Element] /\ draw \in Poly /\ Same(draw, h)
  <2>1. draw \in [1 .. n -> Element]
    BY <1>6, CoefficientsAreElements
  <2>2. draw \in Poly /\ \A k \in Nat \ {0} : Coefficient(draw, k) = IF k <= n THEN draw[k] ELSE zero
    <3> HIDE DEF draw
    <3> QED
      BY <1>7, <2>1, PolyOf
  <2>3. ASSUME NEW k \in Nat \ {0} PROVE Coefficient(draw, k) = Coefficient(h, k)
    <3>1. CASE k <= n
      <4>1. k \in 1 .. n
        BY <1>7, <3>1
      <4>2. draw[k] = Coefficient(h, k)
        BY <4>1
      <4> HIDE DEF draw
      <4> QED
        BY <2>2, <3>1, <4>2
    <3>2. CASE ~(k <= n)
      <4>1. k > Len(h)
        BY <1>6, <1>7, <3>2
      <4>2. Coefficient(h, k) = zero
        BY <1>6, <4>1, CoefficientsAreElements
      <4> HIDE DEF draw
      <4> QED
        BY <2>2, <3>2, <4>2
    <3> QED
      BY <3>1, <3>2
  <2> QED
    BY <2>1, <2>2, <2>3 DEF Same
<1> HIDE DEF draw
<1> DEFINE z == PowMod(draw, Exponent, f)
           g == Add(z, I)
           q == ensure_monic(gcd(p, g))
<1>9. z \in NormalPoly /\ z \in Poly /\ IsNormal(z) /\ Congruent(z, h, d)
  <2>1. Exponent \in Nat /\ Exponent \in Int /\ Exponent % 2 = 1
    BY ExponentIsOdd
  <2>2. z \in NormalPoly
    BY <1>1, <1>8, <2>1, PowModTyped
  <2>3. Congruent(z, h, d)
    BY <1>1, <1>5, <1>6, <1>8, <2>1, OddPower
  <2> HIDE DEF z
  <2> QED
    BY <2>2, <2>3, NormalPolyIs
<1> HIDE DEF z
<1>10. g \in NormalPoly /\ g \in Poly /\ g = Add(Add(z, h), Add(h, I)) /\ Add(h, I) = Add(Add(z, h), g)
       /\ Add(z, h) \in Poly /\ Add(h, I) \in Poly /\ Add(z, h) \in NormalPoly
  <2>1. g \in NormalPoly /\ g \in Poly /\ IsNormal(g) /\ Add(z, h) \in Poly /\ Add(h, I) \in Poly /\ Add(z, h) \in NormalPoly
        /\ IsNormal(Add(h, I))
    BY <1>3, <1>6, <1>9, NormalPolyIs, AddIs
  <2>2. Add(Add(z, h), Add(h, I)) = g
    <3>1. Add(Add(z, h), Add(h, I)) = Add(z, Add(h, Add(h, I)))
      BY <1>6, <1>9, <2>1, AddLaws
    <3>2. Add(h, Add(h, I)) = Add(Add(h, h), I) /\ Add(h, h) = <<>> /\ Add(<<>>, I) = I
      BY <1>3, <1>6, AddLaws
    <3> QED
      BY <3>1, <3>2
  <2> DEFINE A == Add(z, h)
             B == Add(h, I)
  <2>3. Add(A, Add(A, B)) = Add(Add(A, A), B) /\ Add(A, A) = <<>> /\ Add(<<>>, B) = B
    BY <2>1, AddLaws
  <2> QED
    BY <2>1, <2>2, <2>3
<1>11. DividedBy(Add(z, h), d) /\ DividedBy(Add(z, h), t)
  BY <1>3, <1>5, <1>9, DividedTransitive DEF Congruent
<1>12. DividedBy(g, t) /\ ~DividedBy(g, d)
  <2>1. DividedBy(g, t)
    BY <1>3, <1>6, <1>10, <1>11, DividedAdds
  <2> HIDE DEF g
  <2>2. DividedBy(g, d) => DividedBy(Add(h, I), d)
    BY <1>5, <1>10, <1>11, DividedAdds
  <2> QED
    BY <1>6, <2>1, <2>2
<1> HIDE DEF g
<1>13. DividedBy(p, t)
  BY <1>3, <1>5, DividedTransitive
<1>14. /\ gcd(p, g) \in NormalPoly
       /\ \A e \in NormalPoly : DividedBy(p, e) /\ DividedBy(g, e) <=> DividedBy(gcd(p, g), e)
  BY <1>1, <1>10, GcdIs
<1>15. q # I
  <2> SUFFICES ASSUME q = I PROVE FALSE
    OBVIOUS
  <2>1. DividedBy(gcd(p, g), t)
    BY <1>3, <1>12, <1>13, <1>14
  <2>2. DividedBy(q, t)
    BY <1>3, <1>14, <2>1, MonicDivides
  <2>3. PICK u \in NormalPoly : I = Mul(u, t)
    BY <2>2 DEF DividedBy
  <2>4. Len(t) <= Len(I)
    BY <1>3, <2>3, DividedLength
  <2> QED
    BY <1>3, <2>4
<1>16. q # p
  <2> SUFFICES ASSUME q = p PROVE FALSE
    OBVIOUS
  <2>1. DividedBy(q, p)
    BY <1>1, DividedByLaws
  <2>2. DividedBy(gcd(p, g), p)
    BY <1>1, <1>14, <2>1, MonicDivides
  <2>3. DividedBy(g, p)
    BY <1>1, <1>14, <2>2
  <2>4. DividedBy(g, d)
    BY <1>1, <1>5, <2>3, DividedTransitive
  <2> QED
    BY <1>12, <2>4
<1>17. cantor_zassenhaus(p, draw) = <<q, ensure_monic(divmod(p, q).q)>>
  <2>1. q \notin {I, p}
    BY <1>15, <1>16
  <2>2. cantor_zassenhaus(p, draw) = IF q \in {I, p} THEN <<>> ELSE <<q, ensure_monic(divmod(p, q).q)>>
    BY <1>1 DEF cantor_zassenhaus, z, g, I
  <2> HIDE DEF q
  <2> QED
    BY <2>1, <2>2
<1>18. <<q, ensure_monic(divmod(p, q).q)>> # <<>>
  OBVIOUS
<1>19. draw \in random(Degree(f) - 1)
  BY <1>7, <1>8 DEF random, n
<1> HIDE DEF q
<1> QED
  BY <1>17, <1>18, <1>19

\* No factor that waits is 1, which no draw splits, unless the polynomial is.
NoUnits(s) == \A k \in 1 .. Len(s) : s[k] # <<one>>

\* The inductive invariant of SomeDrawSplits, beside FactorsInv.
UnitsInv == pc \in {"outer", "inner"} /\ Degree(f) > 0 => NoUnits(factors) /\ NoUnits(new_factors)

LEMMA UnitsStart ==
  ASSUME FactorsInv, Start
  PROVE  UnitsInv'
<1> SUFFICES ASSUME Degree(f') > 0 PROVE NoUnits(factors') /\ NoUnits(new_factors')
  BY DEF UnitsInv
<1>1. factors' = <<>> /\ new_factors' = <<f'>>
  BY DEF Start, FactorsInv
<1>2. Degree(<<one>>) = 0
  BY DEF Degree
<1>3. f' # <<one>>
  BY <1>2
<1> QED
  BY <1>1, <1>3 DEF NoUnits

LEMMA UnitsAttempt ==
  ASSUME FactorsInv, UnitsInv, Attempt
  PROVE  UnitsInv'
<1>1. /\ pc = "inner" /\ i <= Len(factors) /\ Degree(f) > 0
      /\ f' = f /\ factors' = factors
      /\ f \in Wanted /\ factors \in Seq(Wanted) /\ new_factors \in Seq(Wanted)
  BY DEF Attempt, Attempting, FactorsInv
<1>2. PICK h \in random(Degree(f) - 1) :
         LET s == cantor_zassenhaus(factors[i], h)
         IN IF s = <<>> THEN UNCHANGED <<new_factors, i, pc>>
            ELSE IF AssertionsHold(factors[i], s)
                 THEN new_factors' = new_factors \o s /\ i' = i + 1 /\ UNCHANGED pc
                 ELSE pc' = "aborted" /\ UNCHANGED <<new_factors, i>>
  BY DEF Attempt
<1> DEFINE x == factors[i]
<1>3. f \in Monic /\ x \in Monic
  <2>1. Degree(<<>>) = 0
    BY DEF Degree
  <2>2. f # <<>>
    BY <1>1, <2>1
  <2>3. Wanted = Monic
    BY <2>2 DEF Wanted
  <2> QED
    BY <1>1, <2>3, TakenFactor
<1>4. h \in Poly
  <2>1. Degree(f) \in Nat /\ Degree(f) # 0
    BY <1>1, <1>3, MonicPoly, DegreeIs
  <2>2. (Degree(f) - 1) + 1 \in Nat
    BY <2>1
  <2> QED
    BY <2>2, PolyOf DEF random
<1>5. NoUnits(factors) /\ NoUnits(new_factors)
  BY <1>1 DEF UnitsInv
<1>6. CASE cantor_zassenhaus(x, h) = <<>>
  BY <1>1, <1>2, <1>5, <1>6 DEF UnitsInv
<1>7. ASSUME NEW u \in Monic, NEW v \in Monic, cantor_zassenhaus(x, h) = <<u, v>>, Mul(u, v) = x,
             AssertionsHold(x, <<u, v>>)
      PROVE  UnitsInv'
  <2>1. <<u, v>> # <<>>
    OBVIOUS
  <2>2. new_factors' = new_factors \o <<u, v>>
    BY <1>2, <1>7, <2>1
  <2> HIDE DEF x
  <2>3. u # <<one>> /\ u # x
    <3>1. ensure_monic(x) = x
      BY <1>3, MonicPoly
    <3> DEFINE g == Add(PowMod(h, Exponent, f), <<one>>)
               q == ensure_monic(gcd(x, g))
    <3>2. cantor_zassenhaus(x, h) = IF q \in {<<one>>, x} THEN <<>> ELSE <<q, ensure_monic(divmod(x, q).q)>>
      BY <3>1 DEF cantor_zassenhaus
    <3> HIDE DEF q
    <3>3. q \notin {<<one>>, x}
      BY <1>7, <2>1, <3>2
    <3>4. <<u, v>> = <<q, ensure_monic(divmod(x, q).q)>>
      BY <1>7, <3>2, <3>3
    <3>5. u = q
      BY <3>4
    <3> QED
      BY <3>3, <3>5
  <2>4. v # <<one>>
    BY <1>7, <2>3, MulOne, MonicPoly
  <2>5. NoUnits(new_factors \o <<u, v>>)
    <3>1. /\ Len(new_factors \o <<u, v>>) = Len(new_factors) + 2 /\ Len(new_factors) \in Nat
          /\ \A k \in 1 .. Len(new_factors) + 2 :
               (new_factors \o <<u, v>>)[k] =
                 IF k <= Len(new_factors) THEN new_factors[k] ELSE IF k = Len(new_factors) + 1 THEN u ELSE v
      BY <1>1
    <3>2. \A k \in 1 .. Len(new_factors) + 2 : k <= Len(new_factors) => k \in 1 .. Len(new_factors)
      BY <3>1
    <3> QED
      BY <1>5, <2>3, <2>4, <3>1, <3>2 DEF NoUnits
  <2> QED
    BY <1>1, <1>5, <2>2, <2>5 DEF UnitsInv
<1>8. \/ cantor_zassenhaus(x, h) = <<>>
      \/ \E u, v \in Monic :
           /\ cantor_zassenhaus(x, h) = <<u, v>>
           /\ Mul(u, v) = x
           /\ AssertionsHold(x, <<u, v>>)
  <2> HIDE DEF x
  <2> QED
    BY <1>3, <1>4, SplitIs
<1> QED
  BY <1>6, <1>7, <1>8

LEMMA UnitsStep ==
  ASSUME FactorsInv, UnitsInv, [Next]_vars
  PROVE  UnitsInv'
<1>1. CASE NextRound \/ RoundDone \/ Linear \/ Exhausted \/ Found
  <2>1. NoUnits(<<>>)
    BY DEF NoUnits
  <2> QED
    BY <1>1, <2>1 DEF NextRound, RoundDone, Linear, Exhausted, Found, Attempting, UnitsInv
<1>2. CASE BeginSearch \/ Forge \/ NoCandidate
  BY <1>2 DEF BeginSearch, Forge, NoCandidate, UnitsInv
<1>3. CASE UNCHANGED zerosVars
  BY <1>3 DEF zerosVars, UnitsInv
<1> QED
  BY <1>1, <1>2, <1>3, UnitsStart, UnitsAttempt DEF Next, Factoring, ZerosStep, DropCandidate, Ended, vars

\* A monic factor is 1, linear, or of degree 2 and more.
LEMMA MonicDegree ==
  ASSUME NEW p \in Monic, p # <<one>>, Degree(p) # 1
  PROVE  Len(p) >= 3
<1>1. p \in Poly /\ p # <<>> /\ Lead(p) = one
  BY MonicPoly
<1>2. Len(p) \in Nat \ {0} /\ Degree(p) + 1 = Len(p) /\ Degree(p) \in Nat /\ Lead(p) = p[Len(p)]
  BY <1>1, DegreeIs
<1>3. Len(p) # 2
  <2>1. \A m \in Nat : m + 1 = 2 => m = 1
    OBVIOUS
  <2> QED
    BY <1>2, <2>1
<1>4. Len(p) # 1
  <2> SUFFICES ASSUME Len(p) = 1 PROVE FALSE
    OBVIOUS
  <2>1. p = <<p[1]>>
    BY <1>1, <2>1 DEF Poly
  <2> QED
    BY <1>1, <1>2, <2>1
<1> QED
  BY <1>2, <1>3, <1>4

\* The inner loop of zeros can go on: of every product of linear polynomials,
\* over every field of an even width and with zeros as multiple as may be, some
\* draw splits the factor it is at.
THEOREM SomeDrawAlwaysSplits == Spec => []SomeDrawSplits
<1>1. Init => UnitsInv
  BY DEF Init, FactorizeInit, RecoverInit, ZerosOf, UnitsInv
<1>2. FactorsInv /\ UnitsInv /\ [Next]_vars => UnitsInv'
  BY UnitsStep
<1>3. FactorsInv /\ UnitsInv => SomeDrawSplits
  <2> SUFFICES ASSUME FactorsInv, UnitsInv, Attempting, SplitsUp(f)
               PROVE  \E h \in random(Degree(f) - 1) : cantor_zassenhaus(factors[i], h) # <<>>
    BY DEF SomeDrawSplits
  <2>1. /\ pc = "inner" /\ i <= Len(factors) /\ Degree(factors[i]) # 1 /\ Degree(f) > 0
        /\ f \in Wanted /\ factors \in Seq(Wanted) /\ new_factors \in Seq(Wanted) /\ final_factors \in Seq(Monic)
        /\ i \in 1 .. Len(factors) + 1
        /\ f = Mul(Mul(Product(SubSeq(factors, i, Len(factors))), Product(new_factors)), Product(final_factors))
    BY DEF Attempting, SplitsUp, FactorsInv, FactorsMultiply
  <2> DEFINE p == factors[i]
             R == Product(SubSeq(factors, i + 1, Len(factors)))
             N == Product(new_factors)
             F == Product(final_factors)
  <2>2. f \in Monic /\ p \in Monic /\ f \in NormalPoly
    <3>1. Degree(<<>>) = 0
      BY DEF Degree
    <3>2. f # <<>>
      BY <2>1, <3>1
    <3>3. Wanted = Monic
      BY <3>2 DEF Wanted
    <3> QED
      BY <2>1, <3>3, TakenFactor, MonicPoly
  <2>3. p # <<one>>
    <3>1. i \in 1 .. Len(factors)
      BY <2>1
    <3> QED
      BY <2>1, <3>1 DEF UnitsInv, NoUnits
  <2>4. R \in NormalPoly /\ N \in NormalPoly /\ F \in NormalPoly
        /\ Product(SubSeq(factors, i, Len(factors))) = Mul(p, R)
    BY <2>1, TakenFactor, ProductIsNormal, WantedIs
  <2>5. f = Mul(Mul(Mul(p, R), N), F)
    BY <2>1, <2>4
  <2>6. Degree(p) # 1
    BY <2>1
  <2> HIDE DEF p, R, N, F
  <2>7. Len(p) >= 3
    BY <2>2, <2>3, <2>6, MonicDegree
  <2>8. DividedBy(f, p)
    <3>1. p \in NormalPoly /\ p \in Poly /\ R \in Poly /\ N \in Poly /\ F \in Poly
          /\ Mul(p, R) \in Poly /\ Mul(Mul(p, R), N) \in Poly
      BY <2>2, <2>4, MonicPoly, NormalPolyIs, MulIs
    <3>2. DividedBy(p, p)
      BY <3>1, DividedByLaws
    <3>3. DividedBy(Mul(p, R), p)
      BY <3>1, <3>2, DividedMul
    <3>4. DividedBy(Mul(Mul(p, R), N), p)
      BY <3>1, <3>3, DividedMul
    <3> QED
      BY <2>5, <3>1, <3>4, DividedMul
  <2>9. PICK z \in [1 .. Degree(f) -> Element] :
          Product([k \in 1 .. Degree(f) |-> <<z[k], one>>]) = ensure_monic(f)
    BY DEF SplitsUp
  <2> DEFINE s == [k \in 1 .. Degree(f) |-> <<z[k], one>>]
  <2>10. Degree(f) \in Nat
    BY <2>2, NormalPolyIs, DegreeIs
  <2>11. Split(s)
    <3>1. \A k \in 1 .. Degree(f) : s[k] = LinearOf(z[k]) /\ z[k] \in Element /\ s[k] \in NormalPoly
      BY LinearIs DEF LinearOf
    <3>2. Len(s) = Degree(f) /\ s \in Seq(NormalPoly)
      BY <2>10, <3>1
    <3> HIDE DEF s
    <3> QED
      BY <3>1, <3>2 DEF Split
  <2>12. f = Product(s)
    BY <2>2, <2>9, MonicPoly
  <2> HIDE DEF s
  <2> QED
    BY <2>2, <2>7, <2>8, <2>11, <2>12, SomeDraw DEF p
<1> QED
  BY <1>1, <1>2, <1>3, FactorsInvariance, PTL DEF Spec

=============================================================================
