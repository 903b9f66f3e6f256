-------------------------- MODULE CzPolynomial_proofs --------------------------
(***************************************************************************)
(* The laws of the field of GF and of the polynomials over it, for every   *)
(* width.  Sums are sets of the exponents that are in an odd number of     *)
(* their terms, so that everything rests on the parity of cardinalities;   *)
(* what holds for single exponents holds for elements because all          *)
(* operations are additive.  Induction is over sets of natural numbers,    *)
(* which have a least member.                                              *)
(***************************************************************************)
EXTENDS CzPolynomial, FiniteSetTheorems, WellFoundedInduction, SequenceTheorems, TLAPS

-----------------------------------------------------------------------------
(* Induction and recursion.                                                 *)

\* A set of numbers has a least member.
LEMMA Least ==
  ASSUME NEW S \in SUBSET Nat, S # {}
  PROVE  \E n \in S : \A m \in S : n <= m
<1> DEFINE Less == {ss \in Nat \X Nat : ss[1] < ss[2]}
<1>1. IsWellFoundedOn(Less, Nat)
  BY NatLessThanWellFounded, Zenon DEF OpToRel
<1> HIDE DEF Less
<1>2. PICK n \in S : \A m \in S : ~(<<m, n>> \in Less)
  BY <1>1, WFMin
<1>3. ASSUME NEW m \in S PROVE n <= m
  <2>1. ~(<<m, n>> \in Less)
    BY <1>2
  <2>2. ~(m < n)
    BY <2>1 DEF Less
  <2> QED
    BY <2>2
<1> QED
  BY <1>3

LEMMA Induction ==
  ASSUME NEW n \in Nat, NEW S, 0 \in S, \A k \in 0 .. n - 1 : k \in S => k + 1 \in S
  PROVE  0 .. n \subseteq S
<1> SUFFICES ASSUME ~(0 .. n \subseteq S) PROVE FALSE
  OBVIOUS
<1>1. PICK k \in (0 .. n) \ S : \A m \in (0 .. n) \ S : k <= m
  <2>1. (0 .. n) \ S \in SUBSET Nat /\ (0 .. n) \ S # {}
    OBVIOUS
  <2> QED
    BY <2>1, Least
<1>2. k # 0 /\ k - 1 \in 0 .. n - 1 /\ k - 1 \in 0 .. n /\ ~(k <= k - 1) /\ (k - 1) + 1 = k
  BY <1>1
<1>3. k - 1 \in S
  BY <1>1, <1>2
<1> QED
  BY <1>1, <1>2, <1>3

LEMMA Descent ==
  ASSUME NEW a \in Int, NEW b \in Int, a <= b,
         NEW S, b \in S, \A k \in a .. b - 1 : k + 1 \in S => k \in S
  PROVE  a .. b \subseteq S
<1> DEFINE T == {j \in 0 .. b - a : b - j \in S}
<1>1. b - a \in Nat /\ 0 \in T
  OBVIOUS
<1>2. ASSUME NEW j \in 0 .. b - a - 1, j \in T PROVE j + 1 \in T
  <2>1. b - (j + 1) \in a .. b - 1 /\ b - (j + 1) + 1 = b - j /\ j + 1 \in 0 .. b - a
    OBVIOUS
  <2>2. b - j \in S
    BY <1>2
  <2>3. b - (j + 1) \in S
    BY <2>1, <2>2
  <2> QED
    BY <2>1, <2>3
<1>3. 0 .. b - a \subseteq T
  <2> HIDE DEF T
  <2> QED
    BY <1>1, <1>2, Induction
<1>4. ASSUME NEW k \in a .. b PROVE k \in S
  <2>1. b - k \in 0 .. b - a /\ b - (b - k) = k
    OBVIOUS
  <2>2. b - k \in T
    BY <1>3, <2>1
  <2> QED
    BY <2>1, <2>2
<1> QED
  BY <1>4

Runs(f, x, step, n) == f[0] = x /\ \A k \in 1 .. n : f[k] = step[k][f[k - 1]]

\* A recursive function with values in S exists.
LEMMA Recursion ==
  ASSUME NEW n \in Nat, NEW S, NEW x \in S, NEW step \in [1 .. n -> [S -> S]]
  PROVE  \E f \in [0 .. n -> S] : Runs(f, x, step, n)
<1> USE DEF Runs
<1> DEFINE Upto(m, f) == f[0] = x /\ \A k \in 1 .. m : f[k] = step[k][f[k - 1]]
           T == {m \in 0 .. n : \E f \in [0 .. m -> S] : Upto(m, f)}
<1>1. 0 \in T
  <2> DEFINE f == [k \in 0 .. 0 |-> x]
  <2>1. f \in [0 .. 0 -> S] /\ f[0] = x /\ \A k \in 1 .. 0 : FALSE
    OBVIOUS
  <2>2. Upto(0, f)
    BY <2>1
  <2> HIDE DEF f, Upto
  <2> QED
    BY <2>1, <2>2
<1>2. ASSUME NEW m \in 0 .. n - 1, m \in T PROVE m + 1 \in T
  <2>1. PICK f \in [0 .. m -> S] : Upto(m, f)
    BY <1>2
  <2> DEFINE g == [k \in 0 .. m + 1 |-> IF k = m + 1 THEN step[m + 1][f[m]] ELSE f[k]]
  <2>2. m + 1 \in 1 .. n /\ m \in 0 .. m /\ m + 1 \in 0 .. n
    OBVIOUS
  <2>3. step[m + 1][f[m]] \in S
    BY <2>2
  <2>4. g \in [0 .. m + 1 -> S]
    BY <2>3
  <2>5. g[0] = x
    BY <2>1
  <2>6. ASSUME NEW k \in 1 .. m + 1 PROVE g[k] = step[k][g[k - 1]]
    <3>1. k - 1 \in 0 .. m /\ k - 1 \in 0 .. m + 1 /\ k - 1 # m + 1 /\ k \in 0 .. m + 1
      OBVIOUS
    <3>2. g[k - 1] = f[k - 1]
      BY <3>1
    <3>3. CASE k = m + 1
      <4>1. k - 1 = m
        BY <3>3
      <4> QED
        BY <3>1, <3>2, <3>3, <4>1
    <3>4. CASE k # m + 1
      <4>1. k \in 1 .. m
        BY <3>4
      <4>2. f[k] = step[k][f[k - 1]]
        BY <2>1, <4>1
      <4> QED
        BY <3>1, <3>2, <3>4, <4>2
    <3> QED
      BY <3>3, <3>4
  <2>7. Upto(m + 1, g)
    <3> HIDE DEF g
    <3> QED
      BY <2>5, <2>6
  <2> HIDE DEF g, Upto
  <2> QED
    BY <2>2, <2>4, <2>7
<1>3. n \in T
  <2> HIDE DEF T
  <2>1. 0 .. n \subseteq T
    BY <1>1, <1>2, Induction
  <2> QED
    BY <2>1
<1> QED
  BY <1>3

-----------------------------------------------------------------------------
(* Sums modulo two.                                                         *)

LEMMA PlusLaws ==
  ASSUME NEW a, NEW b, NEW c
  PROVE  /\ Plus(a, b) = Plus(b, a)
         /\ Plus(Plus(a, b), c) = Plus(a, Plus(b, c))
         /\ Plus(a, a) = {} /\ Plus(a, {}) = a /\ Plus({}, a) = a
         /\ Plus(Plus(a, b), b) = a
         /\ Plus(a, b) = {} => a = b
BY DEF Plus

\* The terms of a sum of four may be paired in another way.
LEMMA PlusSwaps ==
  ASSUME NEW a, NEW b, NEW c, NEW d
  PROVE  Plus(Plus(a, b), Plus(c, d)) = Plus(Plus(a, c), Plus(b, d))
BY DEF Plus

LEMMA ElementPlus ==
  /\ zero \in Element /\ one \in Element
  /\ \A a, b \in Element : Plus(a, b) \in Element
BY FieldAssumption DEF Element, Plus, zero, one

Odd(S) == Cardinality(S) % 2 = 1

LEMMA ParityOfSum ==
  ASSUME NEW m \in Nat, NEW n \in Nat
  PROVE  (m + n) % 2 = 1 <=> (m % 2 = 1 <=> n % 2 # 1)
OBVIOUS

LEMMA OddPlus ==
  ASSUME NEW S, NEW T, IsFiniteSet(S), IsFiniteSet(T)
  PROVE  IsFiniteSet(Plus(S, T)) /\ (Odd(Plus(S, T)) <=> (Odd(S) <=> ~Odd(T)))
<1>1. /\ IsFiniteSet(S \ T) /\ IsFiniteSet(T \ S) /\ IsFiniteSet(S \cap T)
      /\ Cardinality(S \ T) = Cardinality(S) - Cardinality(S \cap T)
      /\ Cardinality(T \ S) = Cardinality(T) - Cardinality(T \cap S)
  BY FS_Difference, FS_Intersection
<1>2. T \cap S = S \cap T /\ (S \ T) \cap (T \ S) = {}
  OBVIOUS
<1>3. /\ IsFiniteSet((S \ T) \cup (T \ S))
      /\ Cardinality((S \ T) \cup (T \ S)) =
           Cardinality(S \ T) + Cardinality(T \ S) - Cardinality((S \ T) \cap (T \ S))
  BY <1>1, FS_Union
<1>4. Cardinality({}) = 0
  BY FS_EmptySet
<1>5. PICK x \in Nat, y \in Nat, m \in Nat, k \in Nat, l \in Nat :
        /\ x = Cardinality(S \ T) /\ y = Cardinality(T \ S) /\ m = Cardinality(S \cap T)
        /\ k = Cardinality(S) /\ l = Cardinality(T)
  BY <1>1, FS_CardinalityType
<1>6. k = x + m /\ l = y + m /\ Cardinality((S \ T) \cup (T \ S)) = x + y
  <2>1. Cardinality(T \cap S) = m /\ Cardinality((S \ T) \cap (T \ S)) = 0
    BY <1>2, <1>4, <1>5, Zenon
  <2>2. x = k - m /\ y = l - m /\ Cardinality((S \ T) \cup (T \ S)) = x + y - 0
    BY <1>1, <1>3, <1>5, <2>1, Zenon
  <2>3. \A j, u, w \in Nat : j = u - w => u = j + w
    OBVIOUS
  <2>4. \A j \in Nat : j - 0 = j
    OBVIOUS
  <2>5. x + y \in Nat
    OBVIOUS
  <2> QED
    BY <2>2, <2>3, <2>4, <2>5, SMTT(30)
<1>7. (x + y) % 2 = 1 <=> (k % 2 = 1 <=> l % 2 # 1)
  BY <1>6, ParityOfSum
<1> QED
  BY <1>3, <1>5, <1>6, <1>7 DEF Odd, Plus

LEMMA OddSmall ==
  /\ ~Odd({}) /\ \A x : Odd({x})
<1>1. Cardinality({}) = 0 /\ \A x : Cardinality({x}) = 1
  BY FS_EmptySet, FS_Singleton, Zenon
<1>2. 0 % 2 # 1 /\ 1 % 2 = 1
  OBVIOUS
<1> QED
  BY <1>1, <1>2, Zenon DEF Odd

\* The exponents that are in an odd number of the terms.
Sum(I, F) == {e \in 0 .. Width - 1 : Odd({m \in I : e \in F[m]})}

LEMMA SumIsElement == \A I, F : Sum(I, F) \in Element
BY DEF Sum, Element

\* Terms that are zero do not count.
LEMMA SumOver ==
  ASSUME NEW I, NEW J, I \subseteq J, NEW F, NEW G,
         \A m \in I : F[m] = G[m], \A m \in J \ I : G[m] = zero
  PROVE  Sum(I, F) = Sum(J, G)
<1>1. ASSUME NEW e PROVE {m \in I : e \in F[m]} = {m \in J : e \in G[m]}
  BY DEF zero
<1> QED
  BY <1>1 DEF Sum

LEMMA SumOfZeros ==
  ASSUME NEW I, NEW F, \A m \in I : F[m] = zero
  PROVE  Sum(I, F) = zero
<1>1. ASSUME NEW e PROVE {m \in I : e \in F[m]} = {}
  BY DEF zero
<1> QED
  BY <1>1, OddSmall DEF Sum, zero

LEMMA SumOfOne ==
  ASSUME NEW I, NEW F, NEW i \in I, F[i] \in Element, \A m \in I \ {i} : F[m] = zero
  PROVE  Sum(I, F) = F[i]
<1>1. ASSUME NEW e
      PROVE  {m \in I : e \in F[m]} = IF e \in F[i] THEN {i} ELSE {}
  BY DEF zero
<1>2. ASSUME NEW e \in 0 .. Width - 1
      PROVE  Odd({m \in I : e \in F[m]}) <=> e \in F[i]
  BY <1>1, OddSmall
<1> QED
  BY <1>2 DEF Sum, Element

LEMMA SumPlus ==
  ASSUME NEW I, IsFiniteSet(I), NEW F, NEW G, NEW H, \A m \in I : H[m] = Plus(F[m], G[m])
  PROVE  Sum(I, H) = Plus(Sum(I, F), Sum(I, G))
<1>1. ASSUME NEW e \in 0 .. Width - 1
      PROVE  Odd({m \in I : e \in H[m]}) <=>
               (Odd({m \in I : e \in F[m]}) <=> ~Odd({m \in I : e \in G[m]}))
  <2> DEFINE S == {m \in I : e \in F[m]}
             T == {m \in I : e \in G[m]}
  <2>1. IsFiniteSet(S) /\ IsFiniteSet(T)
    BY FS_Subset
  <2>2. {m \in I : e \in H[m]} = Plus(S, T)
    BY DEF Plus
  <2> HIDE DEF S, T
  <2>3. Odd(Plus(S, T)) <=> (Odd(S) <=> ~Odd(T))
    BY <2>1, OddPlus
  <2> QED
    BY <2>2, <2>3 DEF S, T
<1> QED
  BY <1>1 DEF Sum, Plus

\* The terms may come in another order.
LEMMA SumReordered ==
  ASSUME NEW I, NEW J, NEW F, NEW G, IsFiniteSet(I), NEW b \in Bijection(I, J),
         \A m \in I : F[m] = G[b[m]]
  PROVE  Sum(I, F) = Sum(J, G)
<1>1. ASSUME NEW e PROVE Odd({m \in I : e \in F[m]}) <=> Odd({m \in J : e \in G[m]})
  <2> DEFINE S == {m \in I : e \in F[m]}
             T == {m \in J : e \in G[m]}
             c == [m \in S |-> b[m]]
  <2>1. IsFiniteSet(S)
    BY FS_Subset
  <2>2. /\ b \in [I -> J] /\ \A j \in J : \E i \in I : b[i] = j
        /\ \A i, j \in I : b[i] = b[j] => i = j
    BY DEF Bijection, Injection, Surjection, IsInjective
  <2>3. c \in [S -> T] /\ \A i, j \in S : c[i] = c[j] => i = j
    BY <2>2
  <2>4. ASSUME NEW j \in T PROVE \E i \in S : c[i] = j
    BY <2>2
  <2> HIDE DEF S, T, c
  <2>5. c \in Bijection(S, T)
    BY <2>3, <2>4 DEF Bijection, Injection, Surjection, IsInjective
  <2>6. Cardinality(T) = Cardinality(S)
    BY <2>1, <2>5, FS_Bijection DEF ExistsBijection
  <2> QED
    BY <2>6 DEF Odd, S, T
<1> QED
  BY <1>1 DEF Sum

-----------------------------------------------------------------------------
(* The carry-less product and its reduction.                                *)

\* What two elements multiply to before it is reduced.
WideElement == SUBSET (0 .. 2 * Width - 2)

\* The product with a power of x.
Raised(u, n) == {k + n : k \in u}

LEMMA ElementsAreFinite ==
  ASSUME NEW a \in Element
  PROVE  IsFiniteSet(a) /\ a \in WideElement /\ a \subseteq Int
<1>1. IsFiniteSet(0 .. Width - 1)
  BY FieldAssumption, FS_Interval
<1>2. a \in SUBSET (0 .. Width - 1)
  BY DEF Element
<1>3. IsFiniteSet(a)
  BY <1>1, <1>2, FS_Subset
<1>4. 0 .. Width - 1 \subseteq 0 .. 2 * Width - 2
  BY FieldAssumption
<1> QED
  BY <1>2, <1>3, <1>4 DEF WideElement

LEMMA ClMulIsWide == \A a, b : ClMul(a, b) \in WideElement
BY DEF ClMul, WideElement

LEMMA ClMulCommutes ==
  ASSUME NEW a \in Element, NEW b \in Element
  PROVE  ClMul(a, b) = ClMul(b, a)
<1>1. ASSUME NEW k \in 0 .. 2 * Width - 2
      PROVE  Cardinality({m \in a : k - m \in b}) = Cardinality({m \in b : k - m \in a})
  <2> DEFINE S == {m \in a : k - m \in b}
             T == {m \in b : k - m \in a}
             f == [m \in S |-> k - m]
  <2>1. IsFiniteSet(a) /\ a \subseteq Int /\ b \subseteq Int
    BY ElementsAreFinite
  <2>2. IsFiniteSet(S)
    BY <2>1, FS_Subset
  <2>3. \A m \in Int : k - (k - m) = m
    OBVIOUS
  <2>4. f \in [S -> T] /\ \A i, j \in S : f[i] = f[j] => i = j
    <3>1. \A m \in S : k - m \in T
      BY <2>1, <2>3
    <3>2. ASSUME NEW i \in S, NEW j \in S, k - i = k - j PROVE i = j
      BY <2>1, <3>2
    <3> QED
      BY <3>1, <3>2
  <2>5. ASSUME NEW j \in T PROVE \E i \in S : f[i] = j
    <3>1. k - j \in S /\ f[k - j] = j
      BY <2>1, <2>3
    <3> QED
      BY <3>1
  <2> HIDE DEF S, T, f
  <2>6. f \in Bijection(S, T)
    BY <2>4, <2>5 DEF Bijection, Injection, Surjection, IsInjective
  <2>7. Cardinality(T) = Cardinality(S)
    BY <2>2, <2>6, FS_Bijection DEF ExistsBijection
  <2> QED
    BY <2>7 DEF S, T
<1> QED
  BY <1>1 DEF ClMul

LEMMA ClMulAdds ==
  ASSUME NEW a \in Element, NEW b \in Element, NEW c \in Element
  PROVE  ClMul(Plus(a, b), c) = Plus(ClMul(a, c), ClMul(b, c))
<1>1. ASSUME NEW k \in 0 .. 2 * Width - 2
      PROVE  Odd({m \in Plus(a, b) : k - m \in c}) <=>
               (Odd({m \in a : k - m \in c}) <=> ~Odd({m \in b : k - m \in c}))
  <2> DEFINE S == {m \in a : k - m \in c}
             T == {m \in b : k - m \in c}
  <2>1. IsFiniteSet(S) /\ IsFiniteSet(T)
    <3>1. IsFiniteSet(a) /\ IsFiniteSet(b)
      BY ElementsAreFinite
    <3> QED
      BY <3>1, FS_Subset
  <2>2. {m \in Plus(a, b) : k - m \in c} = Plus(S, T)
    BY DEF Plus
  <2> HIDE DEF S, T
  <2>3. Odd(Plus(S, T)) <=> (Odd(S) <=> ~Odd(T))
    BY <2>1, OddPlus
  <2> QED
    BY <2>2, <2>3 DEF S, T
<1>2. \A u, v : ClMul(u, v) = {k \in 0 .. 2 * Width - 2 : Odd({m \in u : k - m \in v})}
  BY DEF ClMul, Odd
<1> QED
  BY <1>1, <1>2 DEF Plus

LEMMA ClMulOfPower ==
  ASSUME NEW m \in 0 .. Width - 1, NEW b \in Element
  PROVE  ClMul({m}, b) = Raised(b, m)
<1>1. ASSUME NEW k \in 0 .. 2 * Width - 2
      PROVE  Cardinality({j \in {m} : k - j \in b}) % 2 = 1 <=> k - m \in b
  <2>1. {j \in {m} : k - j \in b} = IF k - m \in b THEN {m} ELSE {}
    OBVIOUS
  <2> QED
    BY <2>1, OddSmall DEF Odd
<1>2. ASSUME NEW k \in 0 .. 2 * Width - 2 PROVE k - m \in b <=> k \in Raised(b, m)
  <2>1. b \subseteq Int /\ m \in Int
    BY ElementsAreFinite
  <2>2. \A j \in b : k = j + m => k - m = j
    BY <2>1
  <2>3. (k - m) + m = k
    BY <2>1
  <2> QED
    BY <2>2, <2>3 DEF Raised
<1>3. ASSUME NEW j \in b PROVE j + m \in 0 .. 2 * Width - 2
  BY FieldAssumption DEF Element
<1>4. Raised(b, m) \subseteq 0 .. 2 * Width - 2
  BY <1>3 DEF Raised
<1> QED
  BY <1>1, <1>2, <1>4 DEF ClMul

\* One step of the reduction, and all of them from the highest exponent on.
Folding(u, k) == IF k \in u THEN Plus(u \ {k}, {k - Width + e : e \in Reduction}) ELSE u

Foldings(p) ==
  LET Folded(u, k) == IF k \in u THEN Plus(u \ {k}, {k - Width + e : e \in Reduction}) ELSE u
      down[k \in Width .. 2 * Width - 1] ==
        IF k = 2 * Width - 1 THEN p ELSE Folded(down[k + 1], k)
  IN down

LEMMA FoldingIsWide ==
  ASSUME NEW u \in WideElement, NEW k \in Width .. 2 * Width - 2
  PROVE  /\ Folding(u, k) \in WideElement
         /\ u \subseteq 0 .. k => Folding(u, k) \subseteq 0 .. k - 1
<1>1. ASSUME NEW e \in Reduction PROVE k - Width + e \in 0 .. k - 1
  BY FieldAssumption
<1>2. 0 .. k - 1 \subseteq 0 .. 2 * Width - 2 /\ 0 .. k \ {k} \subseteq 0 .. k - 1
  BY FieldAssumption
<1> QED
  BY <1>1, <1>2 DEF Folding, WideElement, Plus

LEMMA FoldingsAre ==
  ASSUME NEW p \in WideElement
  PROVE  /\ Foldings(p) \in [Width .. 2 * Width - 1 -> WideElement]
         /\ Foldings(p)[2 * Width - 1] = p
         /\ \A k \in Width .. 2 * Width - 2 : Foldings(p)[k] = Folding(Foldings(p)[k + 1], k)
         /\ Reduced(p) = Foldings(p)[Width]
<1> DEFINE D == Width .. 2 * Width - 1
           step == [j \in 1 .. Width - 1 |-> [u \in WideElement |-> Folding(u, 2 * Width - 1 - j)]]
<1>1. Width - 1 \in Nat
  BY FieldAssumption
<1>2. step \in [1 .. Width - 1 -> [WideElement -> WideElement]]
  <2>1. ASSUME NEW j \in 1 .. Width - 1, NEW u \in WideElement
        PROVE  Folding(u, 2 * Width - 1 - j) \in WideElement
    <3>1. 2 * Width - 1 - j \in Width .. 2 * Width - 2
      BY FieldAssumption
    <3> QED
      BY <3>1, FoldingIsWide
  <2> QED
    BY <2>1
<1>3. PICK f \in [0 .. Width - 1 -> WideElement] :
        f[0] = p /\ \A j \in 1 .. Width - 1 : f[j] = step[j][f[j - 1]]
  <2> DEFINE n == Width - 1
  <2> HIDE DEF step, n
  <2>1. n \in Nat /\ step \in [1 .. n -> [WideElement -> WideElement]]
    BY <1>1, <1>2 DEF n
  <2>2. \E f \in [0 .. n -> WideElement] : Runs(f, p, step, n)
    BY <2>1, Recursion
  <2> QED
    BY <2>2 DEF n, Runs
<1> DEFINE g == [k \in D |-> f[2 * Width - 1 - k]]
           Rule(h) == [k \in D |-> IF k = 2 * Width - 1 THEN p ELSE Folding(h[k + 1], k)]
<1>4. g \in [D -> WideElement]
  <2>1. ASSUME NEW k \in D PROVE 2 * Width - 1 - k \in 0 .. Width - 1
    BY FieldAssumption
  <2> QED
    BY <2>1
<1>5. ASSUME NEW k \in D PROVE g[k] = IF k = 2 * Width - 1 THEN p ELSE Folding(g[k + 1], k)
  <2>1. CASE k = 2 * Width - 1
    <3>1. 2 * Width - 1 - k = 0
      BY FieldAssumption, <2>1
    <3> QED
      BY <1>3, <2>1, <3>1
  <2>2. CASE k # 2 * Width - 1
    <3>1. PICK j \in 1 .. Width - 1 : j = 2 * Width - 1 - k /\ 2 * Width - 1 - j = k
      BY FieldAssumption, <2>2
    <3>2. k + 1 \in D /\ 2 * Width - 1 - (k + 1) = j - 1 /\ j - 1 \in 0 .. Width - 1
      BY FieldAssumption, <2>2, <3>1
    <3>3. g[k] = f[j] /\ g[k + 1] = f[j - 1]
      BY <3>1, <3>2
    <3>4. f[j] = Folding(f[j - 1], k)
      BY <1>3, <3>1, <3>2
    <3> QED
      BY <2>2, <3>3, <3>4
  <2> QED
    BY <2>1, <2>2
<1>6. g = Rule(g)
  <2> DEFINE h == Rule(g)
  <2>1. \A k \in D : h[k] = g[k]
    <3> HIDE DEF g
    <3> QED
      BY <1>5
  <2>2. h = [k \in D |-> h[k]] /\ g = [k \in D |-> g[k]]
    OBVIOUS
  <2> QED
    BY <2>1, <2>2
<1>7. Foldings(p) = CHOOSE h : h = Rule(h)
  BY DEF Foldings, Folding
<1>8. Foldings(p) = Rule(Foldings(p))
  <2> HIDE DEF Rule, g
  <2> QED
    BY <1>6, <1>7
<1> HIDE DEF g, step
<1>9. \A k \in D : Foldings(p)[k] = IF k = 2 * Width - 1 THEN p ELSE Folding(Foldings(p)[k + 1], k)
  <2> DEFINE h == Foldings(p)
  <2>1. h = Rule(h)
    BY <1>8
  <2> HIDE DEF h
  <2>2. \A k \in D : h[k] = IF k = 2 * Width - 1 THEN p ELSE Folding(h[k + 1], k)
    BY <2>1
  <2> QED
    BY <2>2 DEF h
<1>10. Foldings(p) = [k \in D |-> Foldings(p)[k]]
  BY <1>8
<1>11. /\ 2 * Width - 1 \in D /\ Width \in Int /\ 2 * Width - 1 \in Int /\ Width <= 2 * Width - 1
       /\ \A k \in Width .. 2 * Width - 2 :
            k \in D /\ k # 2 * Width - 1 /\ k \in Width .. 2 * Width - 1 - 1
  BY FieldAssumption
<1>12. \A k \in Width .. 2 * Width - 2 : Foldings(p)[k] = Folding(Foldings(p)[k + 1], k)
  BY <1>9, <1>11
<1>13. Foldings(p)[2 * Width - 1] = p
  BY <1>9, <1>11
<1>14. ASSUME NEW k \in D PROVE Foldings(p)[k] \in WideElement
  <2> DEFINE T == {j \in D : Foldings(p)[j] \in WideElement}
  <2>1. 2 * Width - 1 \in T
    BY <1>11, <1>13
  <2>2. ASSUME NEW j \in Width .. 2 * Width - 1 - 1, j + 1 \in T PROVE j \in T
    <3>1. j \in Width .. 2 * Width - 2
      BY FieldAssumption
    <3>2. Folding(Foldings(p)[j + 1], j) \in WideElement
      BY <2>2, <3>1, FoldingIsWide
    <3> QED
      BY <1>11, <1>12, <3>1, <3>2
  <2> HIDE DEF T
  <2>3. Width .. 2 * Width - 1 \subseteq T
    BY <1>11, <2>1, <2>2, Descent, SMTT(30)
  <2> QED
    BY <2>3 DEF T
<1>15. Reduced(p) = Foldings(p)[Width]
  BY DEF Reduced, Foldings
<1> QED
  BY <1>10, <1>12, <1>13, <1>14, <1>15

\* What holds before the reduction and is kept by its steps holds after them.
LEMMA FoldingsKeep ==
  ASSUME NEW n \in Width .. 2 * Width - 1, NEW S,
         n \in S, \A k \in Width .. n - 1 : k + 1 \in S => k \in S
  PROVE  Width .. n \subseteq S
<1>1. Width \in Int /\ n \in Int /\ Width <= n
  BY FieldAssumption
<1> QED
  BY <1>1, Descent

LEMMA FoldingsShrink ==
  ASSUME NEW p \in WideElement
  PROVE  \A k \in Width .. 2 * Width - 1 : Foldings(p)[k] \subseteq 0 .. k - 1
<1> DEFINE n == 2 * Width - 1
           T == {k \in Width .. n : Foldings(p)[k] \subseteq 0 .. k - 1}
<1>1. n \in Width .. 2 * Width - 1 /\ 2 * Width - 1 - 1 = 2 * Width - 2
  BY FieldAssumption
<1>2. n \in T
  BY <1>1, FoldingsAre DEF WideElement
<1>3. ASSUME NEW k \in Width .. n - 1, k + 1 \in T PROVE k \in T
  <2>1. k \in Width .. 2 * Width - 2 /\ k + 1 \in Width .. 2 * Width - 1 /\ (k + 1) - 1 = k
    BY FieldAssumption
  <2>2. Foldings(p)[k + 1] \subseteq 0 .. k /\ Foldings(p)[k + 1] \in WideElement
    BY <1>3, <2>1, FoldingsAre
  <2>3. Folding(Foldings(p)[k + 1], k) \subseteq 0 .. k - 1
    BY <2>1, <2>2, FoldingIsWide
  <2>4. Foldings(p)[k] = Folding(Foldings(p)[k + 1], k)
    BY <2>1, FoldingsAre
  <2>5. k \in Width .. n
    BY FieldAssumption
  <2> QED
    BY <2>3, <2>4, <2>5
<1> HIDE DEF T, n
<1>4. Width .. n \subseteq T
  BY <1>1, <1>2, <1>3, FoldingsKeep
<1> QED
  BY <1>4 DEF T, n

LEMMA ReducedIsElement == \A p \in WideElement : Reduced(p) \in Element
<1>1. Width \in Width .. 2 * Width - 1
  BY FieldAssumption
<1> QED
  BY <1>1, FoldingsAre, FoldingsShrink DEF Element

LEMMA FoldingAdds ==
  ASSUME NEW u, NEW v, NEW k
  PROVE  Folding(Plus(u, v), k) = Plus(Folding(u, k), Folding(v, k))
<1> DEFINE E == {k - Width + e : e \in Reduction}
<1>1. \A w : Folding(w, k) = IF k \in w THEN Plus(w \ {k}, E) ELSE w
  BY DEF Folding
<1> HIDE DEF E
<1>2. k \in Plus(u, v) <=> (k \in u <=> k \notin v)
  BY DEF Plus
<1>3. CASE k \in u /\ k \in v
  <2>1. Plus(u, v) = Plus(Plus(u \ {k}, E), Plus(v \ {k}, E))
    BY <1>3 DEF Plus
  <2> QED
    BY <1>1, <1>2, <1>3, <2>1
<1>4. CASE k \in u /\ k \notin v
  <2>1. Plus(Plus(u, v) \ {k}, E) = Plus(Plus(u \ {k}, E), v)
    BY <1>4 DEF Plus
  <2> QED
    BY <1>1, <1>2, <1>4, <2>1
<1>5. CASE k \notin u /\ k \in v
  <2>1. Plus(Plus(u, v) \ {k}, E) = Plus(u, Plus(v \ {k}, E))
    BY <1>5 DEF Plus
  <2> QED
    BY <1>1, <1>2, <1>5, <2>1
<1>6. CASE k \notin u /\ k \notin v
  BY <1>1, <1>2, <1>6
<1> QED
  BY <1>3, <1>4, <1>5, <1>6

LEMMA WidePlus == \A u, v \in WideElement : Plus(u, v) \in WideElement
BY DEF WideElement, Plus

LEMMA ReducedAdds ==
  ASSUME NEW p \in WideElement, NEW s \in WideElement
  PROVE  Reduced(Plus(p, s)) = Plus(Reduced(p), Reduced(s))
<1> DEFINE n == 2 * Width - 1
           P == Plus(p, s)
           T == {k \in Width .. n : Foldings(P)[k] = Plus(Foldings(p)[k], Foldings(s)[k])}
<1>0. P \in WideElement
  BY WidePlus
<1> HIDE DEF P
<1>1. n \in Width .. 2 * Width - 1 /\ Width \in Width .. n
  BY FieldAssumption
<1>2. n \in T
  BY <1>0, <1>1, FoldingsAre DEF P
<1>3. ASSUME NEW k \in Width .. n - 1, k + 1 \in T PROVE k \in T
  <2>1. k \in Width .. 2 * Width - 2 /\ k \in Width .. n
    BY FieldAssumption
  <2>2. \A w \in WideElement : Foldings(w)[k] = Folding(Foldings(w)[k + 1], k)
    BY <2>1, FoldingsAre
  <2>3. Foldings(P)[k + 1] = Plus(Foldings(p)[k + 1], Foldings(s)[k + 1])
    BY <1>3
  <2>4. Foldings(P)[k] = Plus(Foldings(p)[k], Foldings(s)[k])
    BY <1>0, <2>2, <2>3, FoldingAdds
  <2> QED
    BY <2>1, <2>4
<1> HIDE DEF T, n
<1>4. Width \in T
  BY <1>1, <1>2, <1>3, FoldingsKeep
<1> QED
  BY <1>0, <1>4, FoldingsAre DEF T, P

\* What is short enough is not changed down to its length.
LEMMA FoldingsOfShort ==
  ASSUME NEW n \in Width .. 2 * Width - 1, NEW p \in WideElement, p \subseteq 0 .. n - 1
  PROVE  Foldings(p)[n] = p
<1> DEFINE l == 2 * Width - 1
           T == {k \in n .. l : Foldings(p)[k] = p}
<1>1. n \in Int /\ l \in Int /\ n <= l /\ l \in n .. l /\ n \in n .. l
  BY FieldAssumption
<1>2. l \in T
  BY <1>1, FoldingsAre
<1>3. ASSUME NEW k \in n .. l - 1, k + 1 \in T PROVE k \in T
  <2>1. k \in Width .. 2 * Width - 2 /\ k \in n .. l /\ k \notin p
    BY FieldAssumption
  <2>2. Foldings(p)[k] = Folding(p, k)
    BY <1>3, <2>1, FoldingsAre
  <2> QED
    BY <2>1, <2>2 DEF Folding
<1> HIDE DEF T, l
<1>4. n .. l \subseteq T
  BY <1>1, <1>2, <1>3, Descent
<1> QED
  BY <1>1, <1>4 DEF T

LEMMA ReducedOfElement == \A p \in Element : Reduced(p) = p
<1>1. Width \in Width .. 2 * Width - 1
  BY FieldAssumption
<1> QED
  BY <1>1, FoldingsOfShort, FoldingsAre, ElementsAreFinite DEF Element

\* The highest exponent may be folded before the rest is reduced.
LEMMA ReducedOfFolding ==
  ASSUME NEW n \in Width .. 2 * Width - 2, NEW p \in WideElement, p \subseteq 0 .. n
  PROVE  Reduced(p) = Reduced(Folding(p, n))
<1> DEFINE s == Folding(p, n)
           T == {k \in Width .. n : Foldings(p)[k] = Foldings(s)[k]}
<1>1. s \in WideElement /\ s \subseteq 0 .. n - 1
  BY FoldingIsWide
<1> HIDE DEF s
<1>2. n + 1 \in Width .. 2 * Width - 1 /\ n \in Width .. 2 * Width - 1 /\ (n + 1) - 1 = n
      /\ Width \in Width .. n /\ n \in Width .. n
  BY FieldAssumption
<1>3. n \in T
  <2>1. Foldings(p)[n + 1] = p
    BY <1>2, FoldingsOfShort
  <2>2. Foldings(p)[n] = s
    BY <2>1, FoldingsAre DEF s
  <2>3. Foldings(s)[n] = s
    BY <1>1, <1>2, FoldingsOfShort
  <2> QED
    BY <1>2, <2>2, <2>3
<1>4. ASSUME NEW k \in Width .. n - 1, k + 1 \in T PROVE k \in T
  <2>1. k \in Width .. 2 * Width - 2 /\ k \in Width .. n
    BY FieldAssumption
  <2>2. \A w \in WideElement : Foldings(w)[k] = Folding(Foldings(w)[k + 1], k)
    BY <2>1, FoldingsAre
  <2>3. Foldings(p)[k + 1] = Foldings(s)[k + 1]
    BY <1>4
  <2> QED
    BY <1>1, <2>1, <2>2, <2>3
<1> HIDE DEF T
<1>5. Width \in T
  BY <1>2, <1>3, <1>4, FoldingsKeep
<1>6. Reduced(p) = Foldings(p)[Width] /\ Reduced(s) = Foldings(s)[Width]
  BY <1>1, FoldingsAre
<1> QED
  BY <1>5, <1>6 DEF T, s

-----------------------------------------------------------------------------
(* The field.                                                               *)

\* What holds for zero and the powers of x, and for sums, holds for all.
LEMMA ElementInduction ==
  ASSUME NEW S, zero \in S, \A m \in 0 .. Width - 1 : {m} \in S,
         \A a, b \in Element : a \in S /\ b \in S => Plus(a, b) \in S
  PROVE  Element \subseteq S
<1> DEFINE T == {n \in 0 .. Width : SUBSET (0 .. n - 1) \subseteq S}
<1>1. 0 \in T
  <2>1. 0 .. 0 - 1 = {} /\ 0 \in 0 .. Width
    BY FieldAssumption
  <2> QED
    BY <2>1 DEF zero
<1>2. ASSUME NEW n \in 0 .. Width - 1, n \in T PROVE n + 1 \in T
  <2>1. n + 1 \in 0 .. Width /\ (n + 1) - 1 = n /\ 0 .. n \subseteq 0 .. Width - 1
        /\ n \in 0 .. Width - 1 /\ (0 .. n) \ {n} = 0 .. n - 1
    BY FieldAssumption
  <2>2. ASSUME NEW a \in SUBSET (0 .. n) PROVE a \in S
    <3>1. a \ {n} \in SUBSET (0 .. n - 1)
      BY <2>1
    <3>2. a \ {n} \in S /\ {n} \in S
      BY <1>2, <2>1, <3>1
    <3>3. a \ {n} \in Element /\ {n} \in Element
      BY <2>1 DEF Element
    <3>4. n \in a => a = Plus(a \ {n}, {n})
      BY DEF Plus
    <3>5. n \notin a => a = a \ {n}
      OBVIOUS
    <3> QED
      BY <3>2, <3>3, <3>4, <3>5
  <2> QED
    BY <2>1, <2>2
<1>3. 0 .. Width \subseteq T
  <2>1. Width \in Nat
    BY FieldAssumption
  <2> HIDE DEF T
  <2> QED
    BY <1>1, <1>2, <2>1, Induction
<1>4. Width \in T
  <2>1. Width \in 0 .. Width
    BY FieldAssumption
  <2> HIDE DEF T
  <2> QED
    BY <1>3, <2>1
<1> QED
  BY <1>4 DEF Element

LEMMA TimesIs ==
  ASSUME NEW a \in Element, NEW b \in Element
  PROVE  Times(a, b) = Reduced(ClMul(a, b)) /\ Times(a, b) \in Element
BY ReducedIsElement, ClMulIsWide DEF Times, Products

LEMMA TimesCommutes == \A a, b \in Element : Times(a, b) = Times(b, a)
BY TimesIs, ClMulCommutes

LEMMA TimesAdds ==
  ASSUME NEW a \in Element, NEW b \in Element, NEW c \in Element
  PROVE  /\ Times(Plus(a, b), c) = Plus(Times(a, c), Times(b, c))
         /\ Times(c, Plus(a, b)) = Plus(Times(c, a), Times(c, b))
<1>1. Plus(a, b) \in Element
  BY ElementPlus
<1>2. Times(Plus(a, b), c) = Plus(Times(a, c), Times(b, c))
  BY <1>1, TimesIs, ClMulAdds, ClMulIsWide, ReducedAdds
<1> QED
  BY <1>1, <1>2, TimesCommutes

LEMMA PowersAreElements == \A m \in 0 .. Width - 1 : {m} \in Element
BY DEF Element

LEMMA TimesPower ==
  ASSUME NEW m \in 0 .. Width - 1, NEW b \in Element
  PROVE  Times({m}, b) = Reduced(Raised(b, m))
BY PowersAreElements, TimesIs, ClMulOfPower

LEMMA TimesZeroOne ==
  ASSUME NEW b \in Element
  PROVE  /\ Times(zero, b) = zero /\ Times(b, zero) = zero
         /\ Times(one, b) = b /\ Times(b, one) = b
<1>1. Times(zero, b) = zero
  <2>1. zero \in Element /\ Plus(zero, zero) = zero
    BY ElementPlus DEF Plus, zero
  <2>2. Times(zero, b) = Plus(Times(zero, b), Times(zero, b))
    BY <2>1, TimesAdds
  <2> QED
    BY <2>2 DEF Plus, zero
<1>2. Times(one, b) = b
  <2>1. 0 \in 0 .. Width - 1
    BY FieldAssumption
  <2>2. \A k \in b : k + 0 = k
    BY ElementsAreFinite
  <2>3. Raised(b, 0) = b
    BY <2>2 DEF Raised
  <2> QED
    BY <2>1, <2>3, TimesPower, ReducedOfElement DEF one
<1> QED
  BY <1>1, <1>2, ElementPlus, TimesCommutes

LEMMA RaisedTwice ==
  ASSUME NEW u \in SUBSET Int, NEW m \in Int, NEW n \in Int
  PROVE  Raised(Raised(u, m), n) = Raised(u, m + n)
<1>1. \A k \in u : (k + m) + n = k + (m + n)
  OBVIOUS
<1> QED
  BY <1>1 DEF Raised

\* Raising what is folded and folding what is raised is the same.
LEMMA FoldingRaised ==
  ASSUME NEW u \in WideElement, NEW k \in Width .. 2 * Width - 3
  PROVE  Raised(Folding(u, k), 1) = Folding(Raised(u, 1), k + 1)
<1> DEFINE E == {k - Width + e : e \in Reduction}
           D == {(k + 1) - Width + e : e \in Reduction}
<1>1. \A e \in Reduction : (k - Width + e) + 1 = (k + 1) - Width + e
  BY FieldAssumption
<1>2. Raised(E, 1) = D
  BY <1>1 DEF Raised
<1>3. E \subseteq Int /\ u \subseteq Int
  BY FieldAssumption DEF WideElement
<1>4. Folding(u, k) = IF k \in u THEN Plus(u \ {k}, E) ELSE u
  BY DEF Folding
<1>5. Folding(Raised(u, 1), k + 1) =
        IF k + 1 \in Raised(u, 1) THEN Plus(Raised(u, 1) \ {k + 1}, D) ELSE Raised(u, 1)
  BY DEF Folding
<1> HIDE DEF E, D
<1>6. \A i, j \in Int : i + 1 = j + 1 <=> i = j
  OBVIOUS
<1>7. \A w \in SUBSET Int, i \in Int : i + 1 \in Raised(w, 1) <=> i \in w
  BY <1>6 DEF Raised
<1>8. Raised(Plus(u \ {k}, E), 1) = Plus(Raised(u, 1) \ {k + 1}, Raised(E, 1))
  <2>1. ASSUME NEW i \in Int
        PROVE  i + 1 \in Raised(Plus(u \ {k}, E), 1) <=>
                 i + 1 \in Plus(Raised(u, 1) \ {k + 1}, Raised(E, 1))
    <3>1. Plus(u \ {k}, E) \in SUBSET Int
      BY <1>3 DEF Plus
    <3>2. i + 1 \in Raised(Plus(u \ {k}, E), 1) <=> i \in Plus(u \ {k}, E)
      BY <1>7, <3>1
    <3>3. i + 1 \in Raised(E, 1) <=> i \in E
      BY <1>3, <1>7
    <3>4. i + 1 \in Raised(u, 1) \ {k + 1} <=> i \in u \ {k}
      BY <1>3, <1>6, <1>7
    <3> QED
      BY <3>2, <3>3, <3>4 DEF Plus
  <2>2. ASSUME NEW w \in SUBSET Int, NEW j \in Raised(w, 1) PROVE j - 1 \in Int /\ j = (j - 1) + 1
    BY DEF Raised
  <2>3. Plus(u \ {k}, E) \in SUBSET Int
    BY <1>3 DEF Plus
  <2>4. \A j \in Raised(Plus(u \ {k}, E), 1) : j - 1 \in Int /\ j = (j - 1) + 1
    BY <2>2, <2>3
  <2>5. \A j \in Plus(Raised(u, 1) \ {k + 1}, Raised(E, 1)) : j - 1 \in Int /\ j = (j - 1) + 1
    BY <1>3, <2>2 DEF Plus
  <2>6. ASSUME NEW j
        PROVE  j \in Raised(Plus(u \ {k}, E), 1) <=> j \in Plus(Raised(u, 1) \ {k + 1}, Raised(E, 1))
    BY <2>1, <2>4, <2>5
  <2> QED
    BY <2>6
<1>9. k + 1 \in Raised(u, 1) <=> k \in u
  BY <1>3, <1>7
<1> QED
  BY <1>2, <1>4, <1>5, <1>8, <1>9

\* The product with x may be taken before the reduction.
LEMMA ReducedRaised ==
  ASSUME NEW u \in WideElement, u \subseteq 0 .. 2 * Width - 3
  PROVE  Reduced(Raised(u, 1)) = Reduced(Raised(Reduced(u), 1))
<1>1. CASE Width = 1
  <2>1. u = {}
    BY <1>1
  <2>2. {} \in Element /\ Raised({}, 1) = {}
    BY DEF Element, Raised
  <2> QED
    BY <2>1, <2>2, ReducedOfElement
<1>2. CASE Width # 1
  <2> DEFINE n == 2 * Width - 2
             T == {k \in Width .. n : Reduced(Raised(Foldings(u)[k], 1)) = Reduced(Raised(u, 1))}
  <2>1. n \in Width .. 2 * Width - 1 /\ n - 1 = 2 * Width - 3 /\ Width \in Width .. n /\ n \in Width .. n
    BY <1>2, FieldAssumption
  <2>2. n \in T
    BY <2>1, FoldingsOfShort
  <2>3. ASSUME NEW k \in Width .. n - 1, k + 1 \in T PROVE k \in T
    <3> DEFINE v == Foldings(u)[k + 1]
    <3>1. /\ k \in Width .. 2 * Width - 3 /\ k \in Width .. 2 * Width - 2
          /\ k + 1 \in Width .. 2 * Width - 2 /\ k + 1 \in Width .. 2 * Width - 1
          /\ (k + 1) - 1 = k /\ k \in Width .. n
      BY <1>2, FieldAssumption
    <3>2. v \in WideElement /\ v \subseteq 0 .. k /\ Foldings(u)[k] = Folding(v, k)
      BY <3>1, FoldingsAre, FoldingsShrink
    <3>3. Reduced(Raised(v, 1)) = Reduced(Raised(u, 1))
      BY <2>3
    <3> HIDE DEF v
    <3>4. Raised(v, 1) \in WideElement /\ Raised(v, 1) \subseteq 0 .. k + 1
      <4>1. ASSUME NEW i \in v PROVE i + 1 \in 0 .. k + 1 /\ i + 1 \in 0 .. 2 * Width - 2
        BY <3>1, <3>2, FieldAssumption
      <4> QED
        BY <4>1 DEF Raised, WideElement
    <3>5. Reduced(Raised(v, 1)) = Reduced(Folding(Raised(v, 1), k + 1))
      BY <3>1, <3>4, ReducedOfFolding
    <3>6. Folding(Raised(v, 1), k + 1) = Raised(Folding(v, k), 1)
      BY <3>1, <3>2, FoldingRaised
    <3> QED
      BY <3>1, <3>2, <3>3, <3>5, <3>6
  <2> HIDE DEF T, n
  <2>4. Width \in T
    BY <2>1, <2>2, <2>3, FoldingsKeep
  <2> QED
    BY <2>4, FoldingsAre DEF T
<1> QED
  BY <1>1, <1>2

LEMMA TimesRaises ==
  ASSUME NEW m \in 0 .. Width - 2, NEW b \in Element
  PROVE  Times({m + 1}, b) = Times({1}, Times({m}, b))
<1>1. m \in 0 .. Width - 1 /\ m + 1 \in 0 .. Width - 1 /\ 1 \in 0 .. Width - 1 /\ m \in Int /\ 1 \in Int
  BY FieldAssumption
<1>2. Raised(b, m) \in WideElement /\ Raised(b, m) \subseteq 0 .. 2 * Width - 3
  <2>1. ASSUME NEW k \in b PROVE k + m \in 0 .. 2 * Width - 2 /\ k + m \in 0 .. 2 * Width - 3
    BY FieldAssumption DEF Element
  <2> QED
    BY <2>1 DEF Raised, WideElement
<1>3. Raised(Raised(b, m), 1) = Raised(b, m + 1)
  BY <1>1, RaisedTwice, ElementsAreFinite
<1>4. Reduced(Raised(b, m + 1)) = Reduced(Raised(Reduced(Raised(b, m)), 1))
  BY <1>2, <1>3, ReducedRaised
<1>5. Reduced(Raised(b, m)) \in Element
  BY <1>2, ReducedIsElement
<1>6. Times({m + 1}, b) = Reduced(Raised(b, m + 1)) /\ Times({m}, b) = Reduced(Raised(b, m))
  BY <1>1, TimesPower
<1>7. Times({1}, Reduced(Raised(b, m))) = Reduced(Raised(Reduced(Raised(b, m)), 1))
  BY <1>1, <1>5, TimesPower
<1> QED
  BY <1>4, <1>6, <1>7

\* x^Width and more.
LEMMA HighPowers ==
  ASSUME NEW n \in 0 .. Width - 2
  PROVE  /\ Reduced({Width + n}) = Reduced(Raised(Reduction, n))
         /\ Reduction \in Element /\ Raised(Reduction, n) \in WideElement
         /\ Raised(Reduction, n) \subseteq 0 .. 2 * Width - 3
<1>1. Width + n \in Width .. 2 * Width - 2 /\ {Width + n} \in WideElement /\ {Width + n} \subseteq 0 .. Width + n
  BY FieldAssumption DEF WideElement
<1>2. Reduced({Width + n}) = Reduced(Folding({Width + n}, Width + n))
  BY <1>1, ReducedOfFolding
<1>3. Folding({Width + n}, Width + n) = {(Width + n) - Width + e : e \in Reduction}
  BY DEF Folding, Plus
<1>4. \A e \in Reduction : (Width + n) - Width + e = e + n
  BY FieldAssumption
<1>5. Folding({Width + n}, Width + n) = Raised(Reduction, n)
  BY <1>3, <1>4 DEF Raised
<1>6. ASSUME NEW e \in Reduction PROVE e + n \in 0 .. 2 * Width - 3 /\ e + n \in 0 .. 2 * Width - 2
  BY FieldAssumption
<1> QED
  BY <1>2, <1>5, <1>6, FieldAssumption DEF Raised, WideElement, Element

LEMMA TimesOfPowers ==
  ASSUME NEW m \in 0 .. Width - 1, NEW n \in 0 .. Width - 1
  PROVE  Times({m}, {n}) = Reduced({m + n})
<1>1. n + m = m + n
  BY FieldAssumption
<1>2. Raised({n}, m) = {m + n}
  BY <1>1 DEF Raised
<1> QED
  BY <1>2, PowersAreElements, TimesPower

LEMMA TimesOfX ==
  ASSUME 1 \in 0 .. Width - 1, NEW m \in 0 .. Width - 1, NEW n \in 0 .. Width - 1
  PROVE  Times({1}, Times({m}, {n})) = Times(Times({1}, {m}), {n})
<1>0. Width \in Nat /\ 2 * Width - 2 = Width + (Width - 2) /\ Width - 1 \in 0 .. Width - 1
      /\ Width - 2 \in 0 .. Width - 2 /\ 0 \in 0 .. Width - 2
  BY FieldAssumption
<1>1. CASE m # Width - 1
  <2>1. m \in 0 .. Width - 2 /\ m + 1 \in 0 .. Width - 1 /\ 1 + m = m + 1
    BY <1>0, <1>1
  <2>2. Times({1}, {m}) = {m + 1}
    BY <2>1, TimesOfPowers, PowersAreElements, ReducedOfElement, ZenonT(30)
  <2> QED
    BY <2>1, <2>2, TimesRaises, PowersAreElements
<1>2. ASSUME m = Width - 1 PROVE Times({1}, {m}) = Reduced(Raised(Reduction, 0)) /\ Times({1}, {m}) = Reduction
  <2>1. 1 + m = Width + 0
    BY <1>0, <1>2
  <2>2. Times({1}, {m}) = Reduced(Raised(Reduction, 0))
    BY <1>0, <2>1, TimesOfPowers, HighPowers, ZenonT(30)
  <2>3. \A e \in Reduction : e + 0 = e
    BY FieldAssumption
  <2>4. Raised(Reduction, 0) = Reduction
    BY <2>3 DEF Raised
  <2> QED
    BY <1>0, <2>2, <2>4, HighPowers, ReducedOfElement
<1>3. CASE m = Width - 1 /\ n # Width - 1
  <2>1. n \in 0 .. Width - 2 /\ n + 1 \in 0 .. Width - 1 /\ m + (n + 1) = Width + n
    BY <1>0, <1>3
  <2>2. Times({m}, {n}) = Times({n}, {m})
    BY TimesCommutes, PowersAreElements
  <2>3. Times({1}, Times({n}, {m})) = Times({n + 1}, {m})
    BY <2>1, TimesRaises, PowersAreElements
  <2>4. Times({n + 1}, {m}) = Times({m}, {n + 1})
    BY <2>1, TimesCommutes, PowersAreElements
  <2>5. Times({m}, {n + 1}) = Reduced({Width + n})
    BY <2>1, TimesOfPowers
  <2>6. Times(Reduction, {n}) = Times({n}, Reduction) /\ Times({n}, Reduction) = Reduced(Raised(Reduction, n))
    BY <2>1, HighPowers, TimesCommutes, PowersAreElements, TimesPower
  <2> QED
    BY <1>2, <1>3, <2>1, <2>2, <2>3, <2>4, <2>5, <2>6, HighPowers
<1>4. CASE m = Width - 1 /\ n = Width - 1
  <2> DEFINE k == Width - 2
             u == Raised(Reduction, k)
  <2>1. m + n = Width + k /\ k \in 0 .. Width - 2 /\ k + 1 = n /\ k \in Int /\ 1 \in Int
    BY <1>0, <1>4
  <2> HIDE DEF k
  <2>2. Times({m}, {n}) = Reduced(u) /\ Reduced(u) \in Element
    BY <2>1, TimesOfPowers, HighPowers, ReducedIsElement
  <2>3. Times({1}, Reduced(u)) = Reduced(Raised(Reduced(u), 1))
    BY <2>2, TimesPower
  <2>4. Reduced(Raised(Reduced(u), 1)) = Reduced(Raised(u, 1))
    BY <2>1, HighPowers, ReducedRaised
  <2>5. Raised(u, 1) = Raised(Reduction, n)
    <3>1. Reduction \in SUBSET Int
      BY FieldAssumption
    <3>2. Raised(Raised(Reduction, k), 1) = Raised(Reduction, k + 1)
      BY <2>1, <3>1, RaisedTwice
    <3> QED
      BY <2>1, <3>2
  <2>6. Times(Reduction, {n}) = Times({n}, Reduction) /\ Times({n}, Reduction) = Reduced(Raised(Reduction, n))
    BY <2>1, HighPowers, TimesCommutes, PowersAreElements, TimesPower
  <2> QED
    BY <1>2, <1>4, <2>2, <2>3, <2>4, <2>5, <2>6
<1> QED
  BY <1>1, <1>3, <1>4

LEMMA TimesByX ==
  ASSUME 1 \in 0 .. Width - 1, NEW a \in Element, NEW b \in Element
  PROVE  Times({1}, Times(a, b)) = Times(Times({1}, a), b)
<1> DEFINE x == {1}
           Holds(u, v) == Times(x, Times(u, v)) = Times(Times(x, u), v)
<1>0. x \in Element
  BY PowersAreElements
<1>1. ASSUME NEW m \in 0 .. Width - 1, NEW n \in 0 .. Width - 1 PROVE Holds({m}, {n})
  <2>1. Times({1}, Times({m}, {n})) = Times(Times({1}, {m}), {n})
    BY TimesOfX
  <2> QED
    BY <2>1
<1> HIDE DEF x
<1>2. \A u \in Element : Holds(u, zero) /\ Holds(zero, u)
  BY <1>0, TimesZeroOne, TimesIs, ElementPlus
<1>3. ASSUME NEW u \in Element, NEW v \in Element, NEW w \in Element, Holds(u, w), Holds(v, w)
      PROVE  Holds(Plus(u, v), w)
  <2>1. Times(Plus(u, v), w) = Plus(Times(u, w), Times(v, w))
    BY TimesAdds
  <2>2. Times(x, Plus(u, v)) = Plus(Times(x, u), Times(x, v))
    BY <1>0, TimesAdds
  <2>3. Times(x, Plus(Times(u, w), Times(v, w))) = Plus(Times(x, Times(u, w)), Times(x, Times(v, w)))
    BY <1>0, TimesAdds, TimesIs
  <2>4. Times(Plus(Times(x, u), Times(x, v)), w) = Plus(Times(Times(x, u), w), Times(Times(x, v), w))
    BY <1>0, TimesAdds, TimesIs
  <2> QED
    BY <1>3, <2>1, <2>2, <2>3, <2>4
<1>4. ASSUME NEW u \in Element, NEW v \in Element, NEW w \in Element, Holds(u, v), Holds(u, w)
      PROVE  Holds(u, Plus(v, w))
  <2>1. Times(u, Plus(v, w)) = Plus(Times(u, v), Times(u, w))
    BY TimesAdds
  <2>2. Times(x, Plus(Times(u, v), Times(u, w))) = Plus(Times(x, Times(u, v)), Times(x, Times(u, w)))
    BY <1>0, TimesAdds, TimesIs
  <2>3. Times(Times(x, u), Plus(v, w)) = Plus(Times(Times(x, u), v), Times(Times(x, u), w))
    BY <1>0, TimesAdds, TimesIs
  <2> QED
    BY <1>4, <2>1, <2>2, <2>3
<1> HIDE DEF Holds
<1>5. ASSUME NEW m \in 0 .. Width - 1 PROVE \A v \in Element : Holds({m}, v)
  <2> DEFINE S == {v \in Element : Holds({m}, v)}
  <2>1. {m} \in Element
    BY PowersAreElements
  <2>2. zero \in S /\ \A n \in 0 .. Width - 1 : {n} \in S
    BY <1>1, <1>2, <2>1, PowersAreElements, ElementPlus
  <2>3. ASSUME NEW v \in Element, NEW w \in Element, v \in S, w \in S PROVE Plus(v, w) \in S
    BY <1>4, <2>1, <2>3, ElementPlus
  <2> HIDE DEF S
  <2>4. Element \subseteq S
    BY <2>2, <2>3, ElementInduction
  <2> QED
    BY <2>4 DEF S
<1>6. ASSUME NEW v \in Element PROVE \A u \in Element : Holds(u, v)
  <2> DEFINE S == {u \in Element : Holds(u, v)}
  <2>1. zero \in S /\ \A n \in 0 .. Width - 1 : {n} \in S
    BY <1>2, <1>5, PowersAreElements, ElementPlus
  <2>2. ASSUME NEW u \in Element, NEW w \in Element, u \in S, w \in S PROVE Plus(u, w) \in S
    BY <1>3, <2>2, ElementPlus
  <2> HIDE DEF S
  <2>3. Element \subseteq S
    BY <2>1, <2>2, ElementInduction
  <2> QED
    BY <2>3 DEF S
<1>7. Holds(a, b)
  BY <1>6
<1> QED
  BY <1>7 DEF Holds, x

LEMMA TimesAssociates ==
  ASSUME NEW a \in Element, NEW b \in Element, NEW c \in Element
  PROVE  Times(a, Times(b, c)) = Times(Times(a, b), c)
<1> DEFINE Holds(u) == Times(u, Times(b, c)) = Times(Times(u, b), c)
           M == {m \in 0 .. Width - 1 : Holds({m})}
           S == {u \in Element : Holds(u)}
<1>1. Times(b, c) \in Element
  BY TimesIs
<1>2. 0 .. Width - 1 \subseteq M
  <2>1. 0 \in M
    <3>1. 0 \in 0 .. Width - 1
      BY FieldAssumption
    <3>2. Holds(one)
      BY <1>1, TimesZeroOne
    <3> QED
      BY <3>1, <3>2 DEF one
  <2>2. ASSUME NEW m \in 0 .. Width - 1 - 1, m \in M PROVE m + 1 \in M
    <3>1. m \in 0 .. Width - 2 /\ m \in 0 .. Width - 1 /\ m + 1 \in 0 .. Width - 1 /\ 1 \in 0 .. Width - 1
      BY FieldAssumption
    <3>2. {m} \in Element /\ Times({m}, b) \in Element
      BY <3>1, PowersAreElements, TimesIs
    <3>3. Times({m + 1}, Times(b, c)) = Times({1}, Times({m}, Times(b, c)))
      BY <1>1, <3>1, TimesRaises
    <3>4. Times({m}, Times(b, c)) = Times(Times({m}, b), c)
      BY <2>2
    <3>5. Times({1}, Times(Times({m}, b), c)) = Times(Times({1}, Times({m}, b)), c)
      BY <3>1, <3>2, TimesByX
    <3>6. Times({m + 1}, b) = Times({1}, Times({m}, b))
      BY <3>1, TimesRaises
    <3> QED
      BY <3>1, <3>3, <3>4, <3>5, <3>6
  <2>3. Width - 1 \in Nat
    BY FieldAssumption
  <2> HIDE DEF M
  <2> QED
    BY <2>1, <2>2, <2>3, Induction
<1>3. zero \in S
  BY <1>1, TimesZeroOne, ElementPlus
<1>4. \A m \in 0 .. Width - 1 : {m} \in S
  BY <1>2, PowersAreElements
<1>5. ASSUME NEW u \in Element, NEW v \in Element, u \in S, v \in S PROVE Plus(u, v) \in S
  <2>1. Times(Plus(u, v), Times(b, c)) = Plus(Times(u, Times(b, c)), Times(v, Times(b, c)))
    BY <1>1, TimesAdds
  <2>2. Times(Plus(u, v), b) = Plus(Times(u, b), Times(v, b))
    BY TimesAdds
  <2>3. Times(Plus(Times(u, b), Times(v, b)), c) = Plus(Times(Times(u, b), c), Times(Times(v, b), c))
    BY TimesAdds, TimesIs
  <2> QED
    BY <1>5, <2>1, <2>2, <2>3, ElementPlus
<1> HIDE DEF S
<1>6. Element \subseteq S
  BY <1>3, <1>4, <1>5, ElementInduction
<1> QED
  BY <1>6 DEF S

\* One step of pow, which takes the powers below it from f, and all of them.
PowStep(f, a, k) ==
  IF k = 0 THEN one
  ELSE IF k % 2 = 1 THEN Times(f[k - 1], a)
       ELSE Times(f[k \div 2], f[k \div 2])

Pows(a, n) ==
  LET pow[k \in 0 .. n] ==
        IF k = 0 THEN one
        ELSE IF k % 2 = 1 THEN Times(pow[k - 1], a)
             ELSE Times(pow[k \div 2], pow[k \div 2])
  IN pow

\* A step looks at what is below it only.
LEMMA PowStepBelow ==
  ASSUME NEW a \in Element, NEW k \in Nat, NEW f
  PROVE  /\ \A g : (\A j \in 0 .. k - 1 : f[j] = g[j]) => PowStep(f, a, k) = PowStep(g, a, k)
         /\ (\A j \in 0 .. k - 1 : f[j] \in Element) => PowStep(f, a, k) \in Element
<1>1. k # 0 => k - 1 \in 0 .. k - 1 /\ k \div 2 \in 0 .. k - 1
  OBVIOUS
<1>2. ASSUME NEW g, \A j \in 0 .. k - 1 : f[j] = g[j]
      PROVE  PowStep(f, a, k) = PowStep(g, a, k)
  BY <1>1, <1>2 DEF PowStep
<1>3. ASSUME \A j \in 0 .. k - 1 : f[j] \in Element
      PROVE  PowStep(f, a, k) \in Element
  <2>1. k # 0 => f[k - 1] \in Element /\ f[k \div 2] \in Element
    BY <1>1, <1>3
  <2> QED
    BY <2>1, TimesIs, ElementPlus DEF PowStep
<1> QED
  BY <1>2, <1>3

LEMMA PowsAre ==
  ASSUME NEW a \in Element, NEW n \in Nat
  PROVE  /\ \A k \in 0 .. n : Pows(a, n)[k] = PowStep(Pows(a, n), a, k)
         /\ \A k \in 0 .. n : Pows(a, n)[k] \in Element
         /\ Power(a, n) = Pows(a, n)[n]
<1> DEFINE Step(f, k) == PowStep(f, a, k)
           Follows(f, m) == \A k \in 0 .. m : f[k] = Step(f, k)
           T == {m \in 0 .. n : \E f \in [0 .. m -> Element] : Follows(f, m)}
<1>2. ASSUME NEW k \in Nat, NEW f, NEW g, \A j \in 0 .. k - 1 : f[j] = g[j]
      PROVE  Step(f, k) = Step(g, k)
  BY <1>2, PowStepBelow
<1>3. ASSUME NEW k \in Nat, NEW f, \A j \in 0 .. k - 1 : f[j] \in Element
      PROVE  Step(f, k) \in Element
  BY <1>3, PowStepBelow
<1> HIDE DEF Step
<1>4. 0 \in T
  <2> DEFINE f == [k \in 0 .. 0 |-> Step(one, 0)]
  <2>1. \A j \in 0 .. 0 - 1 : FALSE
    OBVIOUS
  <2>2. Step(one, 0) \in Element /\ Step(f, 0) = Step(one, 0)
    BY <1>2, <1>3, <2>1
  <2>3. f \in [0 .. 0 -> Element] /\ \A k \in 0 .. 0 : f[k] = Step(one, 0) /\ k = 0
    BY <2>2
  <2> HIDE DEF f
  <2> QED
    BY <2>2, <2>3
<1>5. ASSUME NEW m \in 0 .. n - 1, m \in T PROVE m + 1 \in T
  <2>1. PICK f \in [0 .. m -> Element] : Follows(f, m)
    BY <1>5
  <2> DEFINE g == [k \in 0 .. m + 1 |-> IF k = m + 1 THEN Step(f, m + 1) ELSE f[k]]
  <2>2. m + 1 \in 0 .. n /\ m + 1 \in Nat /\ (m + 1) - 1 = m
        /\ (\A k \in 0 .. m : k \in 0 .. m + 1 /\ k # m + 1 /\ k \in Nat /\ \A j \in 0 .. k - 1 : j \in 0 .. m)
        /\ (\A k \in 0 .. m + 1 : k # m + 1 => k \in 0 .. m)
    OBVIOUS
  <2>3. Step(f, m + 1) \in Element
    BY <1>3, <2>2
  <2>4. g \in [0 .. m + 1 -> Element]
    BY <2>2, <2>3
  <2>5. \A k \in 0 .. m : g[k] = f[k]
    BY <2>2
  <2>6. g[m + 1] = Step(f, m + 1)
    BY <2>2
  <2> HIDE DEF g
  <2>7. Step(g, m + 1) = Step(f, m + 1)
    BY <1>2, <2>2, <2>5
  <2>8. ASSUME NEW k \in 0 .. m PROVE g[k] = Step(g, k)
    <3>1. k \in Nat /\ \A j \in 0 .. k - 1 : g[j] = f[j]
      BY <2>2, <2>5
    <3>2. Step(g, k) = Step(f, k)
      BY <1>2, <3>1
    <3> QED
      BY <2>1, <2>5, <3>2
  <2>9. \A k \in 0 .. m + 1 : g[k] = Step(g, k)
    BY <2>2, <2>6, <2>7, <2>8
  <2> QED
    BY <2>2, <2>4, <2>9
<1>6. n \in T
  <2> HIDE DEF T
  <2>1. 0 .. n \subseteq T
    BY <1>4, <1>5, Induction
  <2> QED
    BY <2>1
<1> DEFINE Rule(h) == [k \in 0 .. n |-> Step(h, k)]
           pow == CHOOSE h : h = Rule(h)
<1>7. \E h : h = Rule(h)
  <2>1. PICK f \in [0 .. n -> Element] : Follows(f, n)
    BY <1>6
  <2>2. f = Rule(f)
    BY <2>1
  <2> HIDE DEF Rule
  <2> QED
    BY <2>2
<1>8. pow = Rule(pow)
  <2> HIDE DEF Rule
  <2> QED
    BY <1>7
<1>9. Power(a, n) = pow[n] /\ Pows(a, n) = pow
  BY DEF Power, Pows, Step, PowStep
<1> HIDE DEF pow
<1>10. \A k \in 0 .. n : pow[k] = Step(pow, k)
  BY <1>8
<1> DEFINE U == {m \in 0 .. n : \A k \in 0 .. m : pow[k] \in Element}
<1>11. 0 \in U
  <2>1. \A j \in 0 .. 0 - 1 : FALSE
    OBVIOUS
  <2>2. Step(pow, 0) \in Element
    BY <1>3, <2>1
  <2> QED
    BY <1>10, <2>2
<1>12. ASSUME NEW m \in 0 .. n - 1, m \in U PROVE m + 1 \in U
  <2>1. m + 1 \in 0 .. n /\ m + 1 \in Nat /\ (m + 1) - 1 = m
        /\ \A k \in 0 .. m + 1 : k # m + 1 => k \in 0 .. m
    OBVIOUS
  <2>2. Step(pow, m + 1) \in Element
    BY <1>3, <1>12, <2>1
  <2> QED
    BY <1>10, <1>12, <2>1, <2>2
<1>13. n \in U
  <2> HIDE DEF U
  <2>1. 0 .. n \subseteq U
    BY <1>11, <1>12, Induction
  <2> QED
    BY <2>1
<1> QED
  BY <1>9, <1>10, <1>13 DEF Step

\* pow computes an element.
LEMMA PowerIsElement ==
  ASSUME NEW a \in Element, NEW n \in Nat
  PROVE  Power(a, n) \in Element
<1>1. n \in 0 .. n
  OBVIOUS
<1> QED
  BY <1>1, PowsAre

\* A power below another one is the same by itself.
LEMMA PowsAgree ==
  ASSUME NEW a \in Element, NEW n \in Nat, NEW m \in 0 .. n
  PROVE  Pows(a, n)[m] = Power(a, m)
<1> DEFINE f == Pows(a, n)
           g == Pows(a, m)
           T == {i \in 0 .. m : \A k \in 0 .. i : f[k] = g[k]}
<1>1. m \in Nat /\ \A k \in 0 .. m : k \in 0 .. n /\ k \in Nat
  OBVIOUS
<1>2. \A k \in 0 .. m : f[k] = PowStep(f, a, k) /\ g[k] = PowStep(g, a, k)
  BY <1>1, PowsAre
<1> HIDE DEF f, g
<1>3. 0 \in T
  <2>1. \A j \in 0 .. 0 - 1 : FALSE
    OBVIOUS
  <2>2. PowStep(f, a, 0) = PowStep(g, a, 0)
    BY <2>1, PowStepBelow
  <2> QED
    BY <1>2, <2>2
<1>4. ASSUME NEW i \in 0 .. m - 1, i \in T PROVE i + 1 \in T
  <2>1. i + 1 \in 0 .. m /\ i + 1 \in Nat /\ (i + 1) - 1 = i
        /\ \A k \in 0 .. i + 1 : k # i + 1 => k \in 0 .. i
    OBVIOUS
  <2>2. PowStep(f, a, i + 1) = PowStep(g, a, i + 1)
    BY <1>4, <2>1, PowStepBelow
  <2> QED
    BY <1>2, <1>4, <2>1, <2>2
<1>5. m \in T
  <2> HIDE DEF T
  <2>1. 0 .. m \subseteq T
    BY <1>1, <1>3, <1>4, Induction
  <2> QED
    BY <2>1
<1>6. f[m] = g[m]
  BY <1>5
<1> QED
  BY <1>1, <1>6, PowsAre DEF f, g

\* pow by its exponent: it is one less if it is odd, and half of it if not.
LEMMA PowerLaws ==
  ASSUME NEW a \in Element, NEW n \in Nat
  PROVE  /\ n = 0 => Power(a, n) = one
         /\ n % 2 = 1 => Power(a, n) = Times(Power(a, n - 1), a)
         /\ n # 0 /\ n % 2 = 0 => Power(a, n) = Times(Power(a, n \div 2), Power(a, n \div 2))
<1>1. n \in 0 .. n /\ (n # 0 => n - 1 \in 0 .. n /\ n \div 2 \in 0 .. n) /\ (n % 2 = 1 => n # 0)
  OBVIOUS
<1>2. Power(a, n) = PowStep(Pows(a, n), a, n)
  BY <1>1, PowsAre
<1>3. \A m \in 0 .. n : Pows(a, n)[m] = Power(a, m)
  BY PowsAgree
<1> QED
  BY <1>1, <1>2, <1>3 DEF PowStep

\* The provers know of powers of two that they count subsets.
LEMMA PowersOfTwo ==
  /\ 2 ^ 0 = 1
  /\ \A k \in Nat : 2 ^ k \in Nat /\ 2 ^ (k + 1) = 2 * 2 ^ k
<1>1. ASSUME NEW k \in Nat
      PROVE  /\ IsFiniteSet(SUBSET (0 .. k - 1)) /\ Cardinality(SUBSET (0 .. k - 1)) = 2 ^ k
             /\ 2 ^ k \in Nat
  <2>1. IsFiniteSet(0 .. k - 1) /\ Cardinality(0 .. k - 1) = k
    <3>1. /\ IsFiniteSet(0 .. k - 1)
          /\ Cardinality(0 .. k - 1) = IF 0 > k - 1 THEN 0 ELSE (k - 1) - 0 + 1
      BY FS_Interval
    <3> QED
      BY <3>1
  <2>2. IsFiniteSet(SUBSET (0 .. k - 1)) /\ Cardinality(SUBSET (0 .. k - 1)) = 2 ^ Cardinality(0 .. k - 1)
    BY <2>1, FS_SUBSET
  <2>3. Cardinality(SUBSET (0 .. k - 1)) \in Nat
    BY <2>2, FS_CardinalityType
  <2> QED
    BY <2>1, <2>2, <2>3
<1>2. 2 ^ 0 = 1
  <2>1. SUBSET (0 .. 0 - 1) = {{}}
    OBVIOUS
  <2>2. Cardinality({{}}) = 1
    BY FS_Singleton
  <2>3. Cardinality(SUBSET (0 .. 0 - 1)) = 2 ^ 0
    BY <1>1
  <2> QED
    BY <2>1, <2>2, <2>3
<1>3. ASSUME NEW k \in Nat PROVE 2 ^ (k + 1) = 2 * 2 ^ k
  <2> DEFINE A == SUBSET (0 .. k - 1)
             C == SUBSET (0 .. k)
             B == {a \in C : k \in a}
             f == [a \in A |-> a \cup {k}]
  <2>1. k \notin 0 .. k - 1 /\ 0 .. k = (0 .. k - 1) \cup {k} /\ k + 1 \in Nat /\ (k + 1) - 1 = k
    OBVIOUS
  <2>2. C = A \cup B /\ A \cap B = {}
    BY <2>1
  <2>3. f \in [A -> B] /\ \A a, b \in A : f[a] = f[b] => a = b
    <3>1. \A a \in A : a \cup {k} \in B /\ (a \cup {k}) \ {k} = a
      BY <2>1
    <3> QED
      BY <3>1
  <2>4. ASSUME NEW b \in B PROVE \E a \in A : f[a] = b
    <3>1. b \ {k} \in A /\ (b \ {k}) \cup {k} = b
      BY <2>1
    <3> QED
      BY <3>1
  <2>5. /\ IsFiniteSet(A) /\ Cardinality(A) = 2 ^ k /\ 2 ^ k \in Nat
        /\ Cardinality(C) = 2 ^ (k + 1)
    BY <1>1, <2>1
  <2> HIDE DEF A, B, C, f
  <2>6. f \in Bijection(A, B)
    BY <2>3, <2>4 DEF Bijection, Injection, Surjection, IsInjective
  <2>7. IsFiniteSet(B) /\ Cardinality(B) = Cardinality(A)
    BY <2>5, <2>6, FS_Bijection DEF ExistsBijection
  <2>8. Cardinality(C) = Cardinality(A) + Cardinality(B) - Cardinality({})
    BY <2>2, <2>5, <2>7, FS_Union
  <2>9. Cardinality({}) = 0
    BY FS_EmptySet
  <2> QED
    BY <2>5, <2>7, <2>8, <2>9
<1> QED
  BY <1>1, <1>2, <1>3

\* The powers of two are positive, and even but for the first.
LEMMA TwoToThe ==
  \A k \in 0 .. Width : 2 ^ k \in Nat /\ 2 ^ k >= 1 /\ (k > 0 => 2 ^ k >= 2 /\ 2 ^ k = 2 * 2 ^ (k - 1))
<1> DEFINE T == {k \in 0 .. Width : 2 ^ k \in Nat /\ 2 ^ k >= 1}
<1>1. Width \in Nat
  BY FieldAssumption
<1>2. 0 \in T
  BY <1>1, PowersOfTwo
<1>3. ASSUME NEW k \in 0 .. Width - 1, k \in T PROVE k + 1 \in T
  <2> DEFINE x == 2 ^ k
             y == 2 ^ (k + 1)
  <2>1. y = 2 * x
    BY PowersOfTwo
  <2>2. x \in Nat /\ x >= 1 /\ k + 1 \in 0 .. Width
    BY <1>1, <1>3
  <2> HIDE DEF x, y
  <2>3. y \in Nat /\ y >= 1
    BY <2>1, <2>2
  <2> QED
    BY <2>2, <2>3 DEF y
<1>4. 0 .. Width \subseteq T
  <2> HIDE DEF T
  <2> QED
    BY <1>1, <1>2, <1>3, Induction
<1>5. ASSUME NEW k \in 0 .. Width, k > 0 PROVE 2 ^ k >= 2 /\ 2 ^ k = 2 * 2 ^ (k - 1)
  <2> DEFINE x == 2 ^ (k - 1)
             y == 2 ^ k
  <2>1. k - 1 \in 0 .. Width - 1 /\ k - 1 \in 0 .. Width /\ (k - 1) + 1 = k
    BY <1>1, <1>5
  <2>2. y = 2 * x
    BY <2>1, PowersOfTwo
  <2>3. x \in Nat /\ x >= 1
    BY <1>4, <2>1
  <2> HIDE DEF x, y
  <2>4. y >= 2
    BY <2>2, <2>3
  <2> QED
    BY <2>2, <2>4 DEF x, y
<1> QED
  BY <1>4, <1>5

LEMMA Inverses ==
  /\ \A a \in Element : modular_inverse[a] \in Element
  /\ \A a, b \in Element : Over(a, b) \in Element
  /\ \A a, b \in Element : b # zero => Times(Over(a, b), b) = a
<1>1. 2 ^ Width - 2 \in Nat
  <2>1. Width \in 0 .. Width /\ Width > 0
    BY FieldAssumption
  <2>2. 2 ^ Width \in Nat /\ 2 ^ Width >= 2
    BY <2>1, TwoToThe
  <2> QED
    BY <2>2
<1>2. ASSUME NEW a \in Element PROVE modular_inverse[a] \in Element
  BY <1>1, PowerIsElement DEF modular_inverse
<1>3. ASSUME NEW a \in Element, NEW b \in Element PROVE Over(a, b) \in Element
  BY <1>2, TimesIs DEF Over
<1>4. ASSUME NEW a \in Element, NEW b \in Element, b # zero PROVE Times(Over(a, b), b) = a
  <2>1. Times(modular_inverse[b], b) = one
    BY <1>2, <1>4, FieldInverses, TimesCommutes
  <2>2. Times(a, Times(modular_inverse[b], b)) = Times(Times(a, modular_inverse[b]), b)
    BY <1>2, TimesAssociates
  <2> QED
    BY <2>1, <2>2, TimesZeroOne DEF Over
<1> QED
  BY <1>2, <1>3, <1>4

\* There are no divisors of zero.
LEMMA TimesNotZero ==
  ASSUME NEW a \in Element, NEW b \in Element, Times(a, b) = zero
  PROVE  a = zero \/ b = zero
<1> SUFFICES ASSUME b # zero PROVE a = zero
  OBVIOUS
<1> DEFINE c == modular_inverse[b]
<1>1. c \in Element /\ Times(b, c) = one
  BY Inverses, FieldInverses
<1> HIDE DEF c
<1>2. Times(a, Times(b, c)) = Times(Times(a, b), c)
  BY <1>1, TimesAssociates
<1> QED
  BY <1>1, <1>2, TimesZeroOne

-----------------------------------------------------------------------------
(* Polynomials, by their coefficients.                                      *)

Poly == Seq(Element)

\* The same coefficients, up to leading zeros.
Same(p, s) == \A k \in Nat \ {0} : Coefficient(p, k) = Coefficient(s, k)

LEMMA MaxIs ==
  ASSUME NEW n \in Nat, NEW S \in SUBSET (0 .. n), S # {}
  PROVE  Max(S) \in S /\ \A m \in S : m <= Max(S)
<1> DEFINE T == {n - m : m \in S}
<1>1. T \in SUBSET Nat /\ T # {}
  OBVIOUS
<1> HIDE DEF T
<1>2. PICK l \in T : \A m \in T : l <= m
  BY <1>1, Least
<1>3. PICK x \in S : l = n - x
  BY <1>2 DEF T
<1>4. ASSUME NEW m \in S PROVE x >= m
  <2>1. n - x <= n - m
    BY <1>2, <1>3 DEF T
  <2> QED
    BY <2>1
<1>5. Max(S) = CHOOSE y \in S : \A m \in S : y >= m
  BY DEF Max
<1>6. Max(S) \in S /\ \A m \in S : Max(S) >= m
  BY <1>4, <1>5
<1> QED
  BY <1>6

LEMMA MaxOfTwo ==
  ASSUME NEW m \in Nat, NEW n \in Nat
  PROVE  Max({m, n}) \in Nat /\ m <= Max({m, n}) /\ n <= Max({m, n}) /\ Max({m, n}) \in {m, n}
<1>1. {m, n} \in SUBSET (0 .. m + n) /\ {m, n} # {} /\ m + n \in Nat
  OBVIOUS
<1>2. Max({m, n}) \in {m, n} /\ \A l \in {m, n} : l <= Max({m, n})
  BY <1>1, MaxIs
<1> QED
  BY <1>2

LEMMA CoefficientsAreElements ==
  ASSUME NEW p \in Poly
  PROVE  /\ \A k : Coefficient(p, k) \in Element
         /\ Len(p) \in Nat /\ DOMAIN p = 1 .. Len(p)
         /\ \A k \in 1 .. Len(p) : Coefficient(p, k) = p[k] /\ p[k] \in Element
         /\ \A k \in Nat : k > Len(p) => Coefficient(p, k) = zero
BY ElementPlus DEF Poly, Coefficient

LEMMA PolyOf ==
  ASSUME NEW n \in Nat, NEW p \in [1 .. n -> Element]
  PROVE  /\ p \in Poly /\ Len(p) = n
         /\ \A k \in Nat \ {0} : Coefficient(p, k) = IF k <= n THEN p[k] ELSE zero
<1>1. p \in Seq(Element) /\ Len(p) = n
  OBVIOUS
<1>2. ASSUME NEW k \in Nat \ {0} PROVE Coefficient(p, k) = IF k <= n THEN p[k] ELSE zero
  BY <1>1 DEF Coefficient
<1> QED
  BY <1>1, <1>2 DEF Poly

LEMMA DegreeIs ==
  ASSUME NEW p \in Poly
  PROVE  /\ Len(p) \in Nat /\ Degree(p) \in Nat /\ Len(p) <= Degree(p) + 1
         /\ (p = <<>> <=> Len(p) = 0)
         /\ (p = <<>> => Degree(p) = 0)
         /\ (p # <<>> => Degree(p) + 1 = Len(p) /\ Lead(p) = p[Len(p)] /\ Lead(p) = Coefficient(p, Len(p))
                         /\ Lead(p) \in Element)
<1>1. Len(p) \in Nat /\ (p = <<>> <=> Len(p) = 0)
  BY DEF Poly
<1>2. p = <<>> => Degree(p) = 0
  BY DEF Degree
<1>3. p # <<>> => Degree(p) = Len(p) - 1
  BY DEF Degree
<1>4. p # <<>> => Len(p) \in 1 .. Len(p) /\ Degree(p) + 1 = Len(p)
  BY <1>1, <1>3
<1>5. p # <<>> => Lead(p) = p[Len(p)] /\ Lead(p) = Coefficient(p, Len(p)) /\ Lead(p) \in Element
  BY <1>4, CoefficientsAreElements DEF Lead, Coefficient
<1> QED
  BY <1>1, <1>2, <1>3, <1>4, <1>5

LEMMA NormalLength ==
  ASSUME NEW p \in Poly
  PROVE  IsNormal(p) <=> p = <<>> \/ (Len(p) >= 1 /\ p[Len(p)] # zero)
<1>1. Len(p) \in Nat /\ (p # <<>> <=> Len(p) >= 1)
  BY DEF Poly
<1>2. p # <<>> => Degree(p) + 1 = Len(p)
  BY <1>1 DEF Degree
<1> QED
  BY <1>1, <1>2 DEF IsNormal, Lead

LEMMA NormalizedIs ==
  ASSUME NEW p \in Poly
  PROVE  /\ ensure_normalized(p) \in Poly /\ IsNormal(ensure_normalized(p))
         /\ Same(ensure_normalized(p), p) /\ Len(ensure_normalized(p)) <= Len(p)
<1> DEFINE S == {0} \cup {k \in 1 .. Len(p) : p[k] # zero}
           n == Max(S)
           s == SubSeq(p, 1, n)
<1>1. Len(p) \in Nat /\ p \in Seq(Element)
  BY DEF Poly
<1>2. S \in SUBSET (0 .. Len(p)) /\ S # {}
  BY <1>1
<1>3. n \in S /\ \A m \in S : m <= n
  <2> HIDE DEF S
  <2> QED
    BY <1>1, <1>2, MaxIs
<1>4. ensure_normalized(p) = s
  BY DEF ensure_normalized
<1>5. n \in 0 .. Len(p) /\ (n # 0 => n \in 1 .. Len(p) /\ p[n] # zero)
      /\ \A k \in 1 .. Len(p) : k > n => p[k] = zero
  <2>1. n \in 0 .. Len(p)
    BY <1>2, <1>3
  <2>2. n # 0 => n \in 1 .. Len(p) /\ p[n] # zero
    BY <1>3
  <2>3. ASSUME NEW k \in 1 .. Len(p), k > n, p[k] # zero PROVE FALSE
    <3>1. k \in S
      BY <2>3
    <3>2. k <= n
      BY <1>3, <3>1
    <3> HIDE DEF n, S
    <3> QED
      BY <1>1, <2>1, <2>3, <3>2
  <2> QED
    BY <2>1, <2>2, <2>3
<1> HIDE DEF n
<1>6. s \in Seq(Element) /\ Len(s) = n /\ \A k \in 1 .. n : s[k] = p[k]
  <2>1. \A k \in 1 .. n : p[k] \in Element
    BY <1>1, <1>5
  <2>2. s = [k \in 1 .. n |-> p[k]]
    BY <1>1, <1>5
  <2> QED
    BY <1>5, <2>1, <2>2
<1> HIDE DEF s
<1>7. IsNormal(s)
  <2>1. n = 0 => s = <<>>
    BY <1>6
  <2>2. n # 0 => Len(s) >= 1 /\ s[Len(s)] # zero
    BY <1>5, <1>6
  <2> QED
    BY <1>6, <2>1, <2>2, NormalLength DEF Poly
<1>8. ASSUME NEW k \in Nat \ {0} PROVE Coefficient(s, k) = Coefficient(p, k)
  BY <1>1, <1>5, <1>6 DEF Coefficient
<1> QED
  BY <1>1, <1>4, <1>5, <1>6, <1>7, <1>8 DEF Same, Poly

\* The length of a normal polynomial is that of its coefficients.
LEMMA LengthAtMost ==
  ASSUME NEW p \in Poly, IsNormal(p), NEW n \in Nat,
         \A k \in Nat \ {0} : k > n => Coefficient(p, k) = zero
  PROVE  Len(p) <= n
<1>1. Len(p) \in Nat
  BY DEF Poly
<1>2. CASE Len(p) > n
  <2>1. p # <<>> /\ Len(p) \in Nat \ {0} /\ Len(p) \in 1 .. Len(p)
    BY <1>1, <1>2
  <2>2. p[Len(p)] # zero
    BY <2>1, NormalLength
  <2>3. Coefficient(p, Len(p)) = p[Len(p)]
    BY <2>1 DEF Coefficient
  <2> QED
    BY <1>2, <2>1, <2>2, <2>3
<1> QED
  BY <1>1, <1>2

LEMMA NormalEqual ==
  ASSUME NEW p \in Poly, NEW s \in Poly, IsNormal(p), IsNormal(s), Same(p, s)
  PROVE  p = s
<1>1. Len(p) \in Nat /\ Len(s) \in Nat
  BY DEF Poly
<1>2. Len(p) <= Len(s) /\ Len(s) <= Len(p)
  <2>1. \A k \in Nat \ {0} : k > Len(s) => Coefficient(p, k) = zero
    BY <1>1 DEF Same, Coefficient
  <2>2. \A k \in Nat \ {0} : k > Len(p) => Coefficient(s, k) = zero
    BY <1>1 DEF Same, Coefficient
  <2> QED
    BY <1>1, <2>1, <2>2, LengthAtMost
<1>3. ASSUME NEW k \in 1 .. Len(p) PROVE p[k] = s[k]
  <2>1. k \in Nat \ {0} /\ k \in 1 .. Len(s)
    BY <1>1, <1>2
  <2> QED
    BY <2>1 DEF Same, Coefficient
<1> QED
  BY <1>1, <1>2, <1>3 DEF Poly

LEMMA NormalizedSame ==
  ASSUME NEW p \in Poly
  PROVE  /\ IsNormal(p) => ensure_normalized(p) = p
         /\ \A s \in Poly : Same(p, s) => ensure_normalized(p) = ensure_normalized(s)
<1>1. \A s \in Poly : ensure_normalized(s) \in Poly /\ IsNormal(ensure_normalized(s)) /\ Same(ensure_normalized(s), s)
  BY NormalizedIs
<1>2. ASSUME IsNormal(p) PROVE ensure_normalized(p) = p
  BY <1>1, <1>2, NormalEqual
<1>3. ASSUME NEW s \in Poly, Same(p, s) PROVE ensure_normalized(p) = ensure_normalized(s)
  <2>1. Same(ensure_normalized(p), ensure_normalized(s))
    BY <1>1, <1>3 DEF Same
  <2> QED
    BY <1>1, <2>1, NormalEqual
<1> QED
  BY <1>2, <1>3

LEMMA AddIs ==
  ASSUME NEW p \in Poly, NEW s \in Poly
  PROVE  /\ Add(p, s) \in Poly /\ IsNormal(Add(p, s))
         /\ \A k \in Nat \ {0} : Coefficient(Add(p, s), k) = Plus(Coefficient(p, k), Coefficient(s, k))
<1> DEFINE n == Max({Len(p), Len(s)})
           F(k) == Plus(Coefficient(p, k), Coefficient(s, k))
           t == [k \in 1 .. n |-> F(k)]
<1>1. Len(p) \in Nat /\ Len(s) \in Nat
  BY DEF Poly
<1>2. n \in Nat /\ Len(p) <= n /\ Len(s) <= n
  BY <1>1, MaxOfTwo
<1>3. \A k \in Nat \ {0} : k > n => F(k) = zero
  <2>1. ASSUME NEW k \in Nat \ {0}, k > n PROVE F(k) = zero
    <3>1. k > Len(p) /\ k > Len(s)
      BY <1>1, <1>2, <2>1
    <3>2. Coefficient(p, k) = zero /\ Coefficient(s, k) = zero
      BY <3>1, CoefficientsAreElements
    <3> QED
      BY <3>2 DEF Plus, zero
  <2> QED
    BY <2>1
<1>4. \A k \in 1 .. n : F(k) \in Element
  BY CoefficientsAreElements, ElementPlus
<1>5. Add(p, s) = ensure_normalized(t)
  BY DEF Add
<1> HIDE DEF n, F
<1>6. t \in Poly /\ \A k \in Nat \ {0} : Coefficient(t, k) = IF k <= n THEN F(k) ELSE zero
  <2>1. t \in [1 .. n -> Element] /\ \A k \in Nat \ {0} : k <= n => t[k] = F(k)
    BY <1>2, <1>4
  <2> HIDE DEF t
  <2> QED
    BY <1>2, <2>1, PolyOf
<1>7. ASSUME NEW k \in Nat \ {0} PROVE Coefficient(Add(p, s), k) = F(k)
  <2>1. Coefficient(Add(p, s), k) = Coefficient(t, k)
    BY <1>5, <1>6, NormalizedIs DEF Same
  <2>2. k <= n \/ k > n
    BY <1>2
  <2> QED
    BY <1>3, <1>6, <2>1, <2>2
<1> QED
  BY <1>5, <1>6, <1>7, NormalizedIs DEF F

\* The coefficients of a product.
Terms(p, s, k) == [m \in 1 .. k |-> Times(Coefficient(p, m), Coefficient(s, k + 1 - m))]

Conv(p, s, k) == Sum(1 .. k, Terms(p, s, k))

LEMMA ConvIsElement == \A p, s, k : Conv(p, s, k) \in Element
BY SumIsElement DEF Conv

LEMMA ConvolutionIs ==
  ASSUME NEW p \in Poly, NEW s \in Poly, NEW k \in Nat \ {0}
  PROVE  Convolution(p, s, k) = Conv(p, s, k)
<1>0. Len(p) \in Nat /\ Len(s) \in Nat
  BY DEF Poly
<1>1. ASSUME NEW e \in 0 .. Width - 1
      PROVE  {m \in 1 .. Len(p) : k + 1 - m \in 1 .. Len(s) /\ e \in Times(p[m], s[k + 1 - m])} =
             {m \in 1 .. k : e \in Terms(p, s, k)[m]}
  <2>1. ASSUME NEW m \in 1 .. Len(p), k + 1 - m \in 1 .. Len(s)
        PROVE  /\ m \in 1 .. k /\ k + 1 - m \in Nat \ {0}
               /\ Terms(p, s, k)[m] = Times(p[m], s[k + 1 - m])
    <3>1. m \in 1 .. k /\ k + 1 - m \in Nat \ {0} /\ m \in Nat \ {0}
      BY <1>0, <2>1
    <3>2. Coefficient(p, m) = p[m] /\ Coefficient(s, k + 1 - m) = s[k + 1 - m]
      BY <2>1 DEF Coefficient
    <3> QED
      BY <3>1, <3>2 DEF Terms
  <2>2. ASSUME NEW m \in 1 .. k, e \in Terms(p, s, k)[m]
        PROVE  m \in 1 .. Len(p) /\ k + 1 - m \in 1 .. Len(s)
    <3>1. Terms(p, s, k)[m] = Times(Coefficient(p, m), Coefficient(s, k + 1 - m))
      BY DEF Terms
    <3>2. Coefficient(p, m) \in Element /\ Coefficient(s, k + 1 - m) \in Element
      BY CoefficientsAreElements
    <3>3. Terms(p, s, k)[m] # zero
      BY <2>2 DEF zero
    <3>4. Coefficient(p, m) # zero /\ Coefficient(s, k + 1 - m) # zero
      BY <3>1, <3>2, <3>3, TimesZeroOne
    <3> QED
      BY <3>4 DEF Coefficient
  <2> QED
    BY <2>1, <2>2
<1>2. Convolution(p, s, k) =
        {e \in 0 .. Width - 1 :
           Odd({m \in 1 .. Len(p) : k + 1 - m \in 1 .. Len(s) /\ e \in Times(p[m], s[k + 1 - m])})}
  BY DEF Convolution, Odd
<1>3. Conv(p, s, k) = {e \in 0 .. Width - 1 : Odd({m \in 1 .. k : e \in Terms(p, s, k)[m]})}
  BY DEF Conv, Sum
<1> QED
  BY <1>1, <1>2, <1>3

\* Beyond the degrees there is nothing.
LEMMA ConvBeyond ==
  ASSUME NEW p \in Poly, NEW s \in Poly, NEW k \in Nat \ {0}, k > Degree(p) + Degree(s) + 1
  PROVE  Conv(p, s, k) = zero
<1>0. Len(p) \in Nat /\ Len(s) \in Nat /\ Degree(p) \in Nat /\ Degree(s) \in Nat
      /\ Len(p) <= Degree(p) + 1 /\ Len(s) <= Degree(s) + 1
  BY DegreeIs
<1>1. ASSUME NEW m \in 1 .. k PROVE Terms(p, s, k)[m] = zero
  <2>1. Terms(p, s, k)[m] = Times(Coefficient(p, m), Coefficient(s, k + 1 - m))
    BY DEF Terms
  <2>2. Coefficient(p, m) \in Element /\ Coefficient(s, k + 1 - m) \in Element
    BY CoefficientsAreElements
  <2>3. ~(m \in 1 .. Len(p) /\ k + 1 - m \in 1 .. Len(s))
    <3>1. \A a, b, x, y \in Nat : \A j, i \in Int :
            ~(a <= x + 1 /\ b <= y + 1 /\ j > x + y + 1 /\ i <= a /\ j + 1 - i <= b)
      OBVIOUS
    <3>2. m \in Int /\ k \in Int
      OBVIOUS
    <3>3. ~(m <= Len(p) /\ k + 1 - m <= Len(s))
      BY <1>0, <3>1, <3>2, Zenon
    <3> QED
      BY <1>0, <3>3
  <2>4. Coefficient(p, m) = zero \/ Coefficient(s, k + 1 - m) = zero
    BY <2>3 DEF Coefficient
  <2> QED
    BY <2>1, <2>2, <2>4, TimesZeroOne
<1> QED
  BY <1>1, SumOfZeros DEF Conv

LEMMA MulIs ==
  ASSUME NEW p \in Poly, NEW s \in Poly
  PROVE  /\ Mul(p, s) \in Poly /\ IsNormal(Mul(p, s))
         /\ \A k \in Nat \ {0} : Coefficient(Mul(p, s), k) = Conv(p, s, k)
<1> DEFINE n == Degree(p) + Degree(s) + 1
           t == [k \in 1 .. n |-> Convolution(p, s, k)]
<1>1. n \in Nat
  BY DegreeIs
<1>2. Mul(p, s) = ensure_normalized(t)
  BY DEF Mul
<1>3. \A k \in Nat \ {0} : k > n => Conv(p, s, k) = zero
  BY ConvBeyond
<1>4. \A k \in Nat \ {0} : Convolution(p, s, k) = Conv(p, s, k)
  BY ConvolutionIs
<1> HIDE DEF n
<1>5. t \in Poly /\ \A k \in Nat \ {0} : Coefficient(t, k) = IF k <= n THEN Conv(p, s, k) ELSE zero
  <2>1. t \in [1 .. n -> Element] /\ \A k \in Nat \ {0} : k <= n => t[k] = Conv(p, s, k)
    BY <1>1, <1>4, ConvIsElement
  <2> HIDE DEF t
  <2> QED
    BY <1>1, <2>1, PolyOf
<1>6. ASSUME NEW k \in Nat \ {0} PROVE Coefficient(Mul(p, s), k) = Conv(p, s, k)
  <2>1. Coefficient(Mul(p, s), k) = Coefficient(t, k)
    BY <1>2, <1>5, NormalizedIs DEF Same
  <2>2. k <= n \/ k > n
    BY <1>1
  <2> QED
    BY <1>3, <1>5, <2>1, <2>2
<1> QED
  BY <1>2, <1>5, <1>6, NormalizedIs

\* A product depends on the coefficients only, and is additive.
LEMMA ConvSame ==
  ASSUME NEW p, NEW s, NEW t, Same(p, s), NEW k \in Nat \ {0}
  PROVE  Conv(p, t, k) = Conv(s, t, k)
<1>1. \A m \in 1 .. k : Coefficient(p, m) = Coefficient(s, m)
  BY DEF Same
<1>2. Terms(p, t, k) = Terms(s, t, k)
  BY <1>1 DEF Terms
<1> QED
  BY <1>2 DEF Conv

LEMMA ConvAdds ==
  ASSUME NEW p \in Poly, NEW u \in Poly, NEW v \in Poly, NEW s \in Poly, NEW k \in Nat \ {0},
         \A m \in Nat \ {0} : Coefficient(p, m) = Plus(Coefficient(u, m), Coefficient(v, m))
  PROVE  Conv(p, s, k) = Plus(Conv(u, s, k), Conv(v, s, k))
<1>1. ASSUME NEW m \in 1 .. k
      PROVE  Terms(p, s, k)[m] = Plus(Terms(u, s, k)[m], Terms(v, s, k)[m])
  <2>1. \A w \in Poly : Coefficient(w, m) \in Element
    BY CoefficientsAreElements
  <2>2. Coefficient(s, k + 1 - m) \in Element
    BY CoefficientsAreElements
  <2>3. Coefficient(p, m) = Plus(Coefficient(u, m), Coefficient(v, m))
    OBVIOUS
  <2>4. Times(Plus(Coefficient(u, m), Coefficient(v, m)), Coefficient(s, k + 1 - m)) =
          Plus(Times(Coefficient(u, m), Coefficient(s, k + 1 - m)),
               Times(Coefficient(v, m), Coefficient(s, k + 1 - m)))
    BY <2>1, <2>2, TimesAdds
  <2> QED
    BY <2>3, <2>4 DEF Terms
<1>2. IsFiniteSet(1 .. k)
  BY FS_Interval
<1> QED
  BY <1>1, <1>2, SumPlus DEF Conv

\* The coefficients of the product with a monomial.
LEMMA ConvOfMonomial ==
  ASSUME NEW p \in Poly, NEW s \in Poly, NEW n \in Nat \ {0}, NEW k \in Nat \ {0},
         \A m \in Nat \ {0} : m # n => Coefficient(p, m) = zero
  PROVE  Conv(p, s, k) = IF k >= n THEN Times(Coefficient(p, n), Coefficient(s, k + 1 - n)) ELSE zero
<1>1. ASSUME NEW m \in 1 .. k, m # n PROVE Terms(p, s, k)[m] = zero
  BY <1>1, CoefficientsAreElements, TimesZeroOne DEF Terms
<1>2. CASE k >= n
  <2>1. n \in 1 .. k
    BY <1>2
  <2>2. Terms(p, s, k)[n] = Times(Coefficient(p, n), Coefficient(s, k + 1 - n))
    BY <2>1 DEF Terms
  <2>3. Terms(p, s, k)[n] \in Element
    BY <2>2, CoefficientsAreElements, TimesIs
  <2>4. \A m \in (1 .. k) \ {n} : Terms(p, s, k)[m] = zero
    BY <1>1
  <2>5. Sum(1 .. k, Terms(p, s, k)) = Terms(p, s, k)[n]
    BY <2>1, <2>3, <2>4, SumOfOne
  <2> QED
    BY <1>2, <2>2, <2>5 DEF Conv
<1>3. CASE ~(k >= n)
  <2>1. \A m \in 1 .. k : Terms(p, s, k)[m] = zero
    BY <1>1, <1>3
  <2> QED
    BY <1>3, <2>1, SumOfZeros DEF Conv
<1> QED
  BY <1>2, <1>3

LEMMA MonomialIs ==
  ASSUME NEW n \in Nat, NEW c \in Element
  PROVE  /\ Shift(<<c>>, n) \in Poly
         /\ \A k \in Nat \ {0} : Coefficient(Shift(<<c>>, n), k) = IF k = n + 1 THEN c ELSE zero
<1> DEFINE u == [k \in 1 .. n |-> zero]
           v == <<c>>
<1>1. u \in Seq(Element) /\ Len(u) = n /\ \A k \in 1 .. n : u[k] = zero
  BY ElementPlus
<1>2. v \in Seq(Element) /\ Len(v) = 1 /\ v[1] = c
  OBVIOUS
<1>3. Shift(<<c>>, n) = u \o v
  BY DEF Shift
<1> HIDE DEF u, v
<1>4. u \o v \in Seq(Element) /\ Len(u \o v) = n + 1
      /\ \A k \in 1 .. n + 1 : (u \o v)[k] = IF k <= n THEN u[k] ELSE v[k - n]
  <2>1. u \o v \in Seq(Element) /\ Len(u \o v) = Len(u) + Len(v)
    BY <1>1, <1>2, ConcatProperties
  <2>2. ASSUME NEW k \in 1 .. n + 1 PROVE (u \o v)[k] = IF k <= n THEN u[k] ELSE v[k - n]
    <3>1. \A i \in 1 .. Len(u) + Len(v) : (u \o v)[i] = IF i <= Len(u) THEN u[i] ELSE v[i - Len(u)]
      BY <1>1, <1>2, ConcatProperties
    <3>2. k \in 1 .. Len(u) + Len(v)
      BY <1>1, <1>2
    <3> QED
      BY <1>1, <3>1, <3>2
  <2> QED
    BY <1>1, <1>2, <2>1, <2>2
<1>5. ASSUME NEW k \in Nat \ {0} PROVE Coefficient(u \o v, k) = IF k = n + 1 THEN c ELSE zero
  <2>1. CASE k <= n
    BY <1>1, <1>4, <2>1 DEF Coefficient
  <2>2. CASE k = n + 1
    <3>1. k \in 1 .. n + 1 /\ ~(k <= n) /\ k - n = 1
      BY <2>2
    <3> QED
      BY <1>2, <1>4, <2>2, <3>1 DEF Coefficient
  <2>3. CASE k > n + 1
    BY <1>4, <2>3 DEF Coefficient
  <2> QED
    BY <2>1, <2>2, <2>3
<1> QED
  BY <1>3, <1>4, <1>5 DEF Poly

\* The monomial of a round of the division.
RoundAt(r, s)   == Degree(r) - Degree(s)
RoundBy(r, s)   == Over(Lead(r), Lead(s))
RoundTerm(r, s) == Shift(<<RoundBy(r, s)>>, RoundAt(r, s))

\* What a round of the division does to the coefficients.
IsRound(q, r, divisor) ==
  LET d == RoundAt(r, divisor)
      c == RoundBy(r, divisor)
      M == RoundTerm(r, divisor)
      t == DivisionRound([q |-> q, r |-> r], divisor)
  IN /\ d \in Nat /\ d + 1 \in 1 .. Len(q) /\ c \in Element
     /\ d + Len(divisor) = Len(r) /\ d + 1 = Len(r) - Len(divisor) + 1
     /\ t.q = [q EXCEPT ![d + 1] = c] /\ t.q \in Poly /\ Len(t.q) = Len(q)
     /\ t.r \in Poly /\ IsNormal(t.r)
     /\ M \in Poly
     /\ \A k \in Nat \ {0} : Coefficient(M, k) = IF k = d + 1 THEN c ELSE zero
     /\ \A k \in Nat \ {0} : Coefficient(t.r, k) = Plus(Coefficient(r, k), Conv(M, divisor, k))

LEMMA DivisionRoundIs ==
  ASSUME NEW q \in Poly, NEW r \in Poly, NEW divisor \in Poly, divisor # <<>>,
         Divisible(r, divisor), Degree(r) - Degree(divisor) + 1 <= Len(q)
  PROVE  IsRound(q, r, divisor)
<1> DEFINE d == RoundAt(r, divisor)
           c == RoundBy(r, divisor)
           t == DivisionRound([q |-> q, r |-> r], divisor)
           M == RoundTerm(r, divisor)
<1>1. r # <<>> /\ Degree(r) >= Degree(divisor)
  BY DEF Divisible
<1>2. d \in Nat /\ d + 1 \in 1 .. Len(q) /\ d + Len(divisor) = Len(r) /\ d + 1 = Len(r) - Len(divisor) + 1
  <2>1. /\ Degree(r) \in Nat /\ Degree(divisor) \in Nat /\ Len(r) = Degree(r) + 1
        /\ Len(divisor) = Degree(divisor) + 1 /\ Len(q) \in Nat
    BY <1>1, DegreeIs
  <2>2. PICK x \in Nat, y \in Nat : x = Degree(r) /\ y = Degree(divisor)
    BY <2>1
  <2>3. d = x - y /\ x >= y /\ x - y + 1 <= Len(q) /\ Len(r) = x + 1 /\ Len(divisor) = y + 1 /\ Len(q) \in Nat
    BY <1>1, <2>1, <2>2 DEF RoundAt
  <2> QED
    BY <2>3
<1>3. c \in Element
  BY <1>1, DegreeIs, Inverses DEF RoundBy
<1>4. t.q = [q EXCEPT ![d + 1] = c] /\ t.r = Add(r, Mul(M, divisor)) /\ M = Shift(<<c>>, d)
  BY DEF DivisionRound, RoundAt, RoundBy, RoundTerm
<1> HIDE DEF d, c, t
<1>5. M \in Poly /\ \A k \in Nat \ {0} : Coefficient(M, k) = IF k = d + 1 THEN c ELSE zero
  BY <1>2, <1>3, <1>4, MonomialIs
<1> HIDE DEF M
<1>6. t.q \in Poly /\ Len(t.q) = Len(q)
  BY <1>2, <1>3, <1>4 DEF Poly
<1>7. t.r \in Poly /\ IsNormal(t.r)
  BY <1>4, <1>5, MulIs, AddIs
<1>8. ASSUME NEW k \in Nat \ {0} PROVE Coefficient(t.r, k) = Plus(Coefficient(r, k), Conv(M, divisor, k))
  <2>1. Mul(M, divisor) \in Poly /\ Coefficient(Mul(M, divisor), k) = Conv(M, divisor, k)
    BY <1>5, MulIs
  <2> QED
    BY <1>4, <2>1, AddIs
<1> QED
  BY <1>2, <1>3, <1>4, <1>5, <1>6, <1>7, <1>8 DEF IsRound, d, c, t, M

\* The remainder loses its leading coefficient if the divisor has one; if that
\* is zero, the remainder keeps its own.
LEMMA RoundShortens ==
  ASSUME NEW q \in Poly, NEW r \in Poly, NEW divisor \in Poly, divisor # <<>>,
         Divisible(r, divisor), Degree(r) - Degree(divisor) + 1 <= Len(q)
  PROVE  LET t == DivisionRound([q |-> q, r |-> r], divisor)
         IN /\ Len(t.r) <= Len(r)
            /\ Lead(divisor) # zero => Len(t.r) < Len(r)
            /\ Lead(divisor) = zero /\ IsNormal(r) => Len(t.r) = Len(r)
<1> DEFINE d == RoundAt(r, divisor)
           c == RoundBy(r, divisor)
           t == DivisionRound([q |-> q, r |-> r], divisor)
           M == RoundTerm(r, divisor)
<1>1. /\ d \in Nat /\ c \in Element
      /\ d + Len(divisor) = Len(r)
      /\ t.r \in Poly /\ IsNormal(t.r) /\ M \in Poly
      /\ \A k \in Nat \ {0} : Coefficient(M, k) = IF k = d + 1 THEN c ELSE zero
      /\ \A k \in Nat \ {0} : Coefficient(t.r, k) = Plus(Coefficient(r, k), Conv(M, divisor, k))
  <2>1. IsRound(q, r, divisor)
    BY DivisionRoundIs
  <2> QED
    BY <2>1 DEF IsRound
<1>2. r # <<>> /\ Lead(r) = Coefficient(r, Len(r)) /\ Lead(r) \in Element /\ Len(r) \in Nat \ {0}
      /\ Lead(divisor) = Coefficient(divisor, Len(divisor)) /\ Lead(divisor) \in Element
      /\ Len(divisor) \in Nat \ {0} /\ Lead(r) = r[Len(r)]
  BY DegreeIs DEF Divisible
<1>3. Lead(divisor) # zero => Times(c, Lead(divisor)) = Lead(r)
  BY <1>2, Inverses DEF RoundBy
<1> HIDE DEF d, c, t, M
<1>4. ASSUME NEW k \in Nat \ {0}, k >= Len(r)
      PROVE  Conv(M, divisor, k) = IF k = Len(r) THEN Times(c, Lead(divisor)) ELSE zero
  <2>1. d + 1 \in Nat \ {0} /\ k >= d + 1 /\ k + 1 - (d + 1) \in Nat
        /\ (k = Len(r) => k + 1 - (d + 1) = Len(divisor))
        /\ (k # Len(r) => k + 1 - (d + 1) > Len(divisor))
    BY <1>1, <1>2, <1>4
  <2>2. Conv(M, divisor, k) = Times(Coefficient(M, d + 1), Coefficient(divisor, k + 1 - (d + 1)))
    BY <1>1, <2>1, ConvOfMonomial
  <2>3. Coefficient(M, d + 1) = c
    BY <1>1, <2>1
  <2>4. CASE k = Len(r)
    BY <1>2, <2>1, <2>2, <2>3, <2>4
  <2>5. CASE k # Len(r)
    <3>1. Coefficient(divisor, k + 1 - (d + 1)) = zero
      BY <2>1, <2>5, CoefficientsAreElements
    <3> QED
      BY <1>1, <2>2, <2>3, <2>5, <3>1, TimesZeroOne
  <2> QED
    BY <2>4, <2>5
<1>5. \A k \in Nat \ {0} : k > Len(r) => Coefficient(t.r, k) = zero
  <2>1. ASSUME NEW k \in Nat \ {0}, k > Len(r) PROVE Coefficient(t.r, k) = zero
    <3>1. k >= Len(r) /\ k # Len(r)
      BY <1>2, <2>1
    <3>2. Coefficient(r, k) = zero
      BY <2>1, CoefficientsAreElements
    <3>3. Conv(M, divisor, k) = zero
      BY <1>4, <3>1
    <3> QED
      BY <1>1, <3>2, <3>3, PlusLaws DEF zero
  <2> QED
    BY <2>1
<1>6. Coefficient(t.r, Len(r)) = Plus(Lead(r), Times(c, Lead(divisor)))
  <2>1. Len(r) >= Len(r)
    BY <1>2
  <2>2. Conv(M, divisor, Len(r)) = Times(c, Lead(divisor))
    BY <1>2, <1>4, <2>1
  <2> QED
    BY <1>1, <1>2, <2>2
<1>7. ASSUME Lead(divisor) # zero PROVE Len(t.r) < Len(r)
  <2>1. Coefficient(t.r, Len(r)) = zero
    BY <1>3, <1>6, <1>7, PlusLaws DEF zero
  <2>2. Len(r) - 1 \in Nat /\ \A k \in Nat \ {0} : k > Len(r) - 1 => k = Len(r) \/ k > Len(r)
    BY <1>2
  <2>3. \A k \in Nat \ {0} : k > Len(r) - 1 => Coefficient(t.r, k) = zero
    BY <1>5, <2>1, <2>2
  <2>4. Len(t.r) <= Len(r) - 1
    BY <1>1, <2>2, <2>3, LengthAtMost
  <2>5. Len(t.r) \in Nat
    BY <1>1, DegreeIs
  <2> QED
    BY <1>2, <2>4, <2>5
<1>8. ASSUME Lead(divisor) = zero, IsNormal(r) PROVE Len(t.r) = Len(r)
  <2>1. Coefficient(t.r, Len(r)) = Lead(r)
    <3>1. Times(c, Lead(divisor)) = zero
      BY <1>1, <1>2, <1>8, TimesZeroOne
    <3> QED
      BY <1>6, <3>1, PlusLaws DEF zero
  <2>2. Lead(r) # zero
    BY <1>2, <1>8, NormalLength
  <2>3. Len(t.r) \in Nat /\ ~(Len(r) > Len(t.r))
    BY <1>1, <1>2, <2>1, <2>2, CoefficientsAreElements
  <2>4. Len(t.r) <= Len(r)
    BY <1>1, <1>2, <1>5, LengthAtMost
  <2> QED
    BY <1>2, <2>3, <2>4
<1>9. Len(t.r) <= Len(r)
  BY <1>1, <1>2, <1>5, LengthAtMost
<1> QED
  BY <1>7, <1>8, <1>9 DEF t

\* The product of quotient and divisor, and the remainder, still add up.
LEMMA RoundKeeps ==
  ASSUME NEW q \in Poly, NEW r \in Poly, NEW divisor \in Poly, divisor # <<>>,
         Divisible(r, divisor), Degree(r) - Degree(divisor) + 1 <= Len(q),
         q[Degree(r) - Degree(divisor) + 1] = zero, NEW k \in Nat \ {0}
  PROVE  LET t == DivisionRound([q |-> q, r |-> r], divisor)
         IN Plus(Conv(t.q, divisor, k), Coefficient(t.r, k)) = Plus(Conv(q, divisor, k), Coefficient(r, k))
<1> DEFINE d == RoundAt(r, divisor)
           c == RoundBy(r, divisor)
           t == DivisionRound([q |-> q, r |-> r], divisor)
           M == RoundTerm(r, divisor)
<1>1. /\ d \in Nat /\ d + 1 \in 1 .. Len(q) /\ c \in Element
      /\ t.q = [q EXCEPT ![d + 1] = c] /\ t.q \in Poly /\ Len(t.q) = Len(q)
      /\ M \in Poly
      /\ \A m \in Nat \ {0} : Coefficient(M, m) = IF m = d + 1 THEN c ELSE zero
      /\ Coefficient(t.r, k) = Plus(Coefficient(r, k), Conv(M, divisor, k))
  <2>1. IsRound(q, r, divisor)
    BY DivisionRoundIs
  <2> QED
    BY <2>1 DEF IsRound
<1>2. q[d + 1] = zero
  BY DEF RoundAt
<1> HIDE DEF d, c, t, M
<1>3. ASSUME NEW m \in Nat \ {0} PROVE Coefficient(t.q, m) = Plus(Coefficient(q, m), Coefficient(M, m))
  <2>1. CASE m = d + 1
    <3>1. Coefficient(t.q, m) = c /\ Coefficient(q, m) = zero
      BY <1>1, <1>2, <2>1 DEF Coefficient, Poly
    <3> QED
      BY <1>1, <2>1, <3>1, PlusLaws DEF zero
  <2>2. CASE m # d + 1
    <3>1. Coefficient(t.q, m) = Coefficient(q, m)
      BY <1>1, <2>2 DEF Coefficient, Poly
    <3> QED
      BY <1>1, <2>2, <3>1, PlusLaws DEF zero
  <2> QED
    BY <2>1, <2>2
<1>4. Conv(t.q, divisor, k) = Plus(Conv(q, divisor, k), Conv(M, divisor, k))
  <2> HIDE <1>2
  <2>1. \A m \in Nat \ {0} : Coefficient(t.q, m) = Plus(Coefficient(q, m), Coefficient(M, m))
    BY <1>3
  <2>2. t.q \in Poly /\ M \in Poly
    BY <1>1
  <2> QED
    BY <2>1, <2>2, ConvAdds
<1>5. \A x, y, z : Plus(Plus(x, y), Plus(z, y)) = Plus(x, z)
  BY DEF Plus
<1> QED
  BY <1>1, <1>4, <1>5 DEF t

-----------------------------------------------------------------------------
(* Polynomials, by their constant and the rest.                             *)

LEMMA TailIs ==
  ASSUME NEW p \in Poly, p # <<>>
  PROVE  /\ Tail(p) \in Poly /\ Len(Tail(p)) = Len(p) - 1 /\ Len(p) \in Nat \ {0}
         /\ p[1] \in Element /\ p[1] = Coefficient(p, 1)
         /\ \A k \in Nat \ {0} : Coefficient(Tail(p), k) = Coefficient(p, k + 1)
<1>1. Tail(p) \in Poly /\ Len(Tail(p)) = Len(p) - 1 /\ Len(p) \in Nat \ {0} /\ p[1] \in Element
      /\ \A k \in 1 .. Len(p) - 1 : Tail(p)[k] = p[k + 1]
  BY DEF Poly
<1>2. ASSUME NEW k \in Nat \ {0} PROVE Coefficient(Tail(p), k) = Coefficient(p, k + 1)
  <2>1. k \in 1 .. Len(p) - 1 <=> k + 1 \in 1 .. Len(p)
    BY <1>1
  <2> QED
    BY <1>1, <2>1 DEF Coefficient
<1>3. p[1] = Coefficient(p, 1)
  <2>1. 1 \in 1 .. Len(p)
    BY <1>1
  <2> QED
    BY <2>1 DEF Coefficient
<1> QED
  BY <1>1, <1>2, <1>3

LEMMA PolyInduction ==
  ASSUME NEW S, <<>> \in S, \A p \in Poly \ {<<>>} : Tail(p) \in S => p \in S
  PROVE  Poly \subseteq S
<1> SUFFICES ASSUME NEW s \in Poly PROVE s \in S
  OBVIOUS
<1> DEFINE n == Len(s)
           T == {k \in 0 .. n : \A p \in Poly : Len(p) = k => p \in S}
<1>0. n \in Nat
  BY DegreeIs
<1>1. 0 \in T
  BY <1>0, DegreeIs
<1>2. ASSUME NEW k \in 0 .. n - 1, k \in T PROVE k + 1 \in T
  <2>1. k + 1 \in 0 .. n /\ k + 1 # 0 /\ k \in Nat
    BY <1>0
  <2>2. ASSUME NEW p \in Poly, Len(p) = k + 1 PROVE p \in S
    <3>1. p # <<>>
      BY <2>1, <2>2, DegreeIs
    <3>2. Tail(p) \in Poly /\ Len(Tail(p)) = k
      BY <2>1, <2>2, <3>1, TailIs
    <3>3. Tail(p) \in S
      BY <1>2, <3>2
    <3> QED
      BY <3>1, <3>3
  <2> QED
    BY <2>1, <2>2
<1>3. n \in T
  <2> HIDE DEF T, n
  <2>1. 0 .. n \subseteq T
    BY <1>0, <1>1, <1>2, Induction
  <2> QED
    BY <1>0, <2>1
<1> QED
  BY <1>3

\* The rest, with a zero for the constant.
LEMMA ShiftedIs ==
  ASSUME NEW p \in Poly
  PROVE  /\ Shift(p, 1) \in Poly
         /\ \A k \in Nat \ {0} :
              Coefficient(Shift(p, 1), k) = IF k = 1 THEN zero ELSE Coefficient(p, k - 1)
<1> DEFINE u == [k \in 1 .. 1 |-> zero]
<1>1. u \in Seq(Element) /\ Len(u) = 1 /\ u[1] = zero /\ p \in Seq(Element) /\ Len(p) \in Nat
  BY ElementPlus DEF Poly
<1>2. Shift(p, 1) = u \o p
  BY DEF Shift
<1> HIDE DEF u
<1>3. u \o p \in Seq(Element) /\ Len(u \o p) = Len(u) + Len(p)
      /\ \A k \in 1 .. Len(u) + Len(p) : (u \o p)[k] = IF k <= Len(u) THEN u[k] ELSE p[k - Len(u)]
  BY <1>1, ConcatProperties
<1>4. ASSUME NEW k \in Nat \ {0}
      PROVE  Coefficient(u \o p, k) = IF k = 1 THEN zero ELSE Coefficient(p, k - 1)
  <2>1. CASE k = 1
    <3>1. 1 \in 1 .. Len(u) + Len(p) /\ 1 <= Len(u)
      BY <1>1
    <3> QED
      BY <1>1, <1>3, <2>1, <3>1 DEF Coefficient
  <2>2. CASE k # 1 /\ k - 1 \in 1 .. Len(p)
    <3>1. k \in 1 .. Len(u) + Len(p) /\ ~(k <= Len(u)) /\ k - Len(u) = k - 1
      BY <1>1, <2>2
    <3> QED
      BY <1>1, <1>3, <2>2, <3>1 DEF Coefficient
  <2>3. CASE k # 1 /\ k - 1 \notin 1 .. Len(p)
    <3>1. k \notin 1 .. Len(u) + Len(p)
      BY <1>1, <2>3
    <3> QED
      BY <1>1, <1>3, <2>3, <3>1 DEF Coefficient
  <2> QED
    BY <2>1, <2>2, <2>3
<1> QED
  BY <1>2, <1>3, <1>4 DEF Poly

Scaled(c, p) == [k \in 1 .. Len(p) |-> Times(c, p[k])]

LEMMA ScaledIs ==
  ASSUME NEW p \in Poly, NEW c \in Element
  PROVE  /\ Scaled(c, p) \in Poly
         /\ \A k \in Nat \ {0} : Coefficient(Scaled(c, p), k) = Times(c, Coefficient(p, k))
<1>1. Len(p) \in Nat /\ \A k \in 1 .. Len(p) : p[k] \in Element
  BY CoefficientsAreElements
<1>2. Scaled(c, p) \in [1 .. Len(p) -> Element] /\ \A k \in 1 .. Len(p) : Scaled(c, p)[k] = Times(c, p[k])
  BY <1>1, TimesIs DEF Scaled
<1>3. Scaled(c, p) \in Poly
      /\ \A k \in Nat \ {0} : Coefficient(Scaled(c, p), k) = IF k <= Len(p) THEN Scaled(c, p)[k] ELSE zero
  BY <1>1, <1>2, PolyOf
<1>4. ASSUME NEW k \in Nat \ {0} PROVE Coefficient(Scaled(c, p), k) = Times(c, Coefficient(p, k))
  BY <1>1, <1>2, <1>3, TimesZeroOne DEF Coefficient
<1> QED
  BY <1>3, <1>4

\* The product with p is that with its constant and, shifted, that with the rest.
LEMMA ConvOfTail ==
  ASSUME NEW p \in Poly, p # <<>>, NEW s \in Poly, NEW k \in Nat \ {0}
  PROVE  Conv(p, s, k) =
           Plus(Times(p[1], Coefficient(s, k)), IF k = 1 THEN zero ELSE Conv(Tail(p), s, k - 1))
<1> DEFINE u == Shift(<<p[1]>>, 0)
           t == Tail(p)
           v == Shift(t, 1)
<1>1. t \in Poly /\ p[1] \in Element /\ p[1] = Coefficient(p, 1)
      /\ \A m \in Nat \ {0} : Coefficient(t, m) = Coefficient(p, m + 1)
  BY TailIs
<1>2. u \in Poly /\ \A m \in Nat \ {0} : Coefficient(u, m) = IF m = 0 + 1 THEN p[1] ELSE zero
  BY <1>1, MonomialIs
<1>3. v \in Poly /\ \A m \in Nat \ {0} : Coefficient(v, m) = IF m = 1 THEN zero ELSE Coefficient(t, m - 1)
  BY <1>1, ShiftedIs
<1> HIDE DEF u, t, v
<1>4. ASSUME NEW m \in Nat \ {0} PROVE Coefficient(p, m) = Plus(Coefficient(u, m), Coefficient(v, m))
  <2>1. CASE m = 1
    <3>1. Coefficient(u, m) = p[1] /\ Coefficient(v, m) = zero /\ Coefficient(p, m) = p[1]
      BY <1>1, <1>2, <1>3, <2>1
    <3> QED
      BY <3>1, PlusLaws DEF zero
  <2>2. CASE m # 1
    <3>1. m - 1 \in Nat \ {0} /\ (m - 1) + 1 = m /\ m # 0 + 1
      BY <2>2
    <3>2. Coefficient(v, m) = Coefficient(p, m)
      BY <1>1, <1>3, <2>2, <3>1
    <3> QED
      BY <1>2, <3>1, <3>2, PlusLaws DEF zero
  <2> QED
    BY <2>1, <2>2
<1>5. Conv(p, s, k) = Plus(Conv(u, s, k), Conv(v, s, k))
  BY <1>2, <1>3, <1>4, ConvAdds
<1>6. Conv(u, s, k) = Times(p[1], Coefficient(s, k))
  <2>1. \A m \in Nat \ {0} : m # 1 => Coefficient(u, m) = zero
    BY <1>2
  <2>2. 1 \in Nat \ {0} /\ k >= 1 /\ k + 1 - 1 = k /\ Coefficient(u, 1) = p[1]
    BY <1>2
  <2>3. Conv(u, s, k) = IF k >= 1 THEN Times(Coefficient(u, 1), Coefficient(s, k + 1 - 1)) ELSE zero
    BY <1>2, <2>1, <2>2, ConvOfMonomial
  <2> QED
    BY <2>2, <2>3
<1>7. CASE k = 1
  <2>1. Conv(v, s, k) = zero
    <3>1. ASSUME NEW m \in 1 .. k PROVE Terms(v, s, k)[m] = zero
      <4>1. m = 1 /\ Coefficient(v, 1) = zero
        BY <1>3, <1>7
      <4> QED
        BY <4>1, CoefficientsAreElements, TimesZeroOne DEF Terms
    <3> QED
      BY <3>1, SumOfZeros DEF Conv
  <2> QED
    BY <1>5, <1>6, <1>7, <2>1
<1>8. CASE k # 1
  <2> DEFINE l == k - 1
             b == [m \in 1 .. l |-> m + 1]
             F == Terms(t, s, l)
             G == Terms(v, s, k)
  <2>1. l \in Nat \ {0}
    BY <1>8
  <2>2. b \in [1 .. l -> 2 .. k] /\ (\A m, j \in 1 .. l : b[m] = b[j] => m = j)
        /\ \A j \in 2 .. k : j - 1 \in 1 .. l /\ b[j - 1] = j
    OBVIOUS
  <2>3. b \in Bijection(1 .. l, 2 .. k)
    <3> HIDE DEF b, l
    <3> QED
      BY <2>2 DEF Bijection, Injection, Surjection, IsInjective
  <2>4. ASSUME NEW m \in 1 .. l PROVE F[m] = G[b[m]]
    <3>1. b[m] = m + 1 /\ m + 1 \in 1 .. k /\ m + 1 # 1 /\ (m + 1) - 1 = m /\ m \in Nat \ {0} /\ m + 1 \in Nat \ {0}
          /\ k + 1 - (m + 1) = l + 1 - m
      BY <2>1
    <3>2. Coefficient(v, m + 1) = Coefficient(t, m)
      BY <1>3, <3>1
    <3>3. F[m] = Times(Coefficient(t, m), Coefficient(s, l + 1 - m))
      BY DEF Terms
    <3>4. G[m + 1] = Times(Coefficient(v, m + 1), Coefficient(s, k + 1 - (m + 1)))
      BY <3>1 DEF Terms
    <3> QED
      BY <3>1, <3>2, <3>3, <3>4
  <2>5. G[1] = zero
    <3>1. 1 \in 1 .. k /\ Coefficient(v, 1) = zero
      BY <1>3
    <3> QED
      BY <3>1, CoefficientsAreElements, TimesZeroOne DEF Terms
  <2>6. 2 .. k \subseteq 1 .. k /\ (1 .. k) \ (2 .. k) = {1}
    BY <1>8
  <2> HIDE DEF b, F, G
  <2>7. Sum(1 .. l, F) = Sum(2 .. k, G)
    <3> DEFINE I == 1 .. l
               J == 2 .. k
    <3>1. IsFiniteSet(I)
      BY <2>1, FS_Interval
    <3>2. b \in Bijection(I, J) /\ \A m \in I : F[m] = G[b[m]]
      BY <2>3, <2>4
    <3> HIDE DEF I, J
    <3>3. Sum(I, F) = Sum(J, G)
      BY <3>1, <3>2, SumReordered
    <3> QED
      BY <3>3 DEF I, J
  <2>8. Sum(2 .. k, G) = Sum(1 .. k, G)
    BY <2>5, <2>6, SumOver
  <2>9. Conv(v, s, k) = Conv(t, s, k - 1)
    BY <2>7, <2>8 DEF Conv, F, G
  <2> QED
    BY <1>5, <1>6, <1>8, <2>9 DEF t
<1> QED
  BY <1>7, <1>8

-----------------------------------------------------------------------------
(* Values.                                                                  *)

\* The function that ValueAt defines.
ValuesFrom(p, a) ==
  LET from[k \in 1 .. Len(p) + 1] ==
        IF k = Len(p) + 1 THEN zero ELSE Plus(p[k], Times(a, from[k + 1]))
  IN from

LEMMA ValuesFromAre ==
  ASSUME NEW p \in Poly, NEW a \in Element
  PROVE  /\ \A k \in 1 .. Len(p) + 1 : ValuesFrom(p, a)[k] \in Element
         /\ ValuesFrom(p, a)[Len(p) + 1] = zero
         /\ \A k \in 1 .. Len(p) : ValuesFrom(p, a)[k] = Plus(p[k], Times(a, ValuesFrom(p, a)[k + 1]))
         /\ ValueAt(p, a) = ValuesFrom(p, a)[1] /\ ValueAt(p, a) \in Element
<1> DEFINE n == Len(p)
           D == 1 .. n + 1
           step == [j \in 1 .. n |-> [u \in Element |-> Plus(p[n + 1 - j], Times(a, u))]]
<1>1. n \in Nat /\ \A k \in 1 .. n : p[k] \in Element
  BY CoefficientsAreElements
<1>2. step \in [1 .. n -> [Element -> Element]]
  <2>1. ASSUME NEW j \in 1 .. n, NEW u \in Element PROVE Plus(p[n + 1 - j], Times(a, u)) \in Element
    <3>1. n + 1 - j \in 1 .. n
      BY <1>1
    <3> QED
      BY <1>1, <3>1, TimesIs, ElementPlus
  <2> HIDE DEF n
  <2> QED
    BY <2>1
<1>3. PICK f \in [0 .. n -> Element] : Runs(f, zero, step, n)
  <2> HIDE DEF n, step
  <2> QED
    BY <1>1, <1>2, ElementPlus, Recursion
<1>4. f[0] = zero /\ \A j \in 1 .. n : f[j] = step[j][f[j - 1]]
  BY <1>3 DEF Runs
<1> DEFINE g == [k \in D |-> f[n + 1 - k]]
           Rule(h) == [k \in D |-> IF k = n + 1 THEN zero ELSE Plus(p[k], Times(a, h[k + 1]))]
           from == CHOOSE h : h = Rule(h)
<1>5. ValuesFrom(p, a) = from
  BY DEF ValuesFrom
<1>6. ValueAt(p, a) = from[1]
  BY DEF ValueAt
<1> HIDE DEF n
<1>7. ASSUME NEW k \in D PROVE g[k] = IF k = n + 1 THEN zero ELSE Plus(p[k], Times(a, g[k + 1]))
  <2>1. CASE k = n + 1
    <3>1. n + 1 - k = 0
      BY <1>1, <2>1
    <3> QED
      BY <1>4, <2>1, <3>1
  <2>2. CASE k # n + 1
    <3>1. PICK j \in 1 .. n : j = n + 1 - k /\ n + 1 - j = k
      BY <1>1, <2>2
    <3>2. k + 1 \in D /\ n + 1 - (k + 1) = j - 1 /\ j - 1 \in 0 .. n
      BY <1>1, <2>2, <3>1
    <3>3. g[k] = f[j] /\ g[k + 1] = f[j - 1]
      BY <3>1, <3>2
    <3>4. f[j] = Plus(p[k], Times(a, f[j - 1]))
      BY <1>3, <1>4, <3>1, <3>2
    <3> QED
      BY <2>2, <3>3, <3>4
  <2> QED
    BY <2>1, <2>2
<1>8. g = Rule(g)
  <2> DEFINE h == Rule(g)
  <2>1. \A k \in D : h[k] = g[k]
    <3> HIDE DEF g
    <3> QED
      BY <1>7
  <2>2. h = [k \in D |-> h[k]] /\ g = [k \in D |-> g[k]]
    OBVIOUS
  <2> QED
    BY <2>1, <2>2
<1>9. from = Rule(from)
  <2> HIDE DEF Rule, g
  <2> QED
    BY <1>8
<1> HIDE DEF from, g, step
<1>10. \A k \in D : from[k] = IF k = n + 1 THEN zero ELSE Plus(p[k], Times(a, from[k + 1]))
  BY <1>9
<1>11. n + 1 \in D /\ 1 \in D /\ 1 \in Int /\ n + 1 \in Int /\ 1 <= n + 1
       /\ \A k \in 1 .. n : k \in D /\ k # n + 1 /\ k + 1 \in D
  BY <1>1
<1>12. from[n + 1] = zero /\ \A k \in 1 .. n : from[k] = Plus(p[k], Times(a, from[k + 1]))
  BY <1>10, <1>11
<1> DEFINE T == {k \in D : from[k] \in Element}
<1>13. n + 1 \in T
  BY <1>11, <1>12, ElementPlus
<1>14. ASSUME NEW k \in 1 .. n + 1 - 1, k + 1 \in T PROVE k \in T
  <2>1. k \in 1 .. n
    BY <1>1
  <2>2. from[k] = Plus(p[k], Times(a, from[k + 1])) /\ p[k] \in Element /\ k \in D
    BY <1>1, <1>11, <1>12, <2>1
  <2> QED
    BY <1>14, <2>2, TimesIs, ElementPlus
<1> DEFINE m == n + 1
<1> HIDE DEF T
<1>15. 1 .. n + 1 \subseteq T
  <2>1. 1 \in Int /\ m \in Int /\ 1 <= m /\ m \in T
    BY <1>11, <1>13
  <2>2. \A k \in 1 .. m - 1 : k + 1 \in T => k \in T
    <3>1. m - 1 = n + 1 - 1
      BY <1>1
    <3> HIDE DEF m
    <3> QED
      BY <1>14, <3>1
  <2> HIDE DEF m
  <2>3. 1 .. m \subseteq T
    BY <2>1, <2>2, Descent
  <2> QED
    BY <2>3 DEF m
<1>16. \A k \in D : from[k] \in Element
  BY <1>15 DEF T
<1> QED
  BY <1>5, <1>6, <1>11, <1>12, <1>16 DEF n

\* The polynomial without its constant.
Rest(p) == IF p = <<>> THEN <<>> ELSE Tail(p)

LEMMA RestIs ==
  ASSUME NEW p \in Poly
  PROVE  /\ Rest(p) \in Poly /\ \A k \in Nat \ {0} : Coefficient(Rest(p), k) = Coefficient(p, k + 1)
         /\ \A n \in Nat : Len(p) <= n + 1 => Len(Rest(p)) <= n
<1>1. CASE p = <<>>
  <2>1. Len(<<>>) = 0 /\ <<>> \in Poly /\ \A k \in Nat \ {0} : Coefficient(<<>>, k) = zero
    BY DEF Poly, Coefficient
  <2> QED
    BY <1>1, <2>1 DEF Rest
<1>2. CASE p # <<>>
  <2>1. Rest(p) = Tail(p)
    BY <1>2 DEF Rest
  <2>2. \A n \in Nat : Len(p) <= n + 1 => Len(p) - 1 <= n
    BY <1>2, TailIs
  <2> QED
    BY <1>2, <2>1, <2>2, TailIs
<1> QED
  BY <1>1, <1>2

LEMMA ValueOfRest ==
  ASSUME NEW p \in Poly, NEW a \in Element
  PROVE  /\ ValueAt(p, a) = Plus(Coefficient(p, 1), Times(a, ValueAt(Rest(p), a)))
         /\ ValueAt(p, a) \in Element
         /\ p = <<>> => ValueAt(p, a) = zero
<1>1. CASE p = <<>>
  <2>1. Len(<<>>) = 0 /\ 0 + 1 = 1
    OBVIOUS
  <2>2. ValueAt(<<>>, a) = zero
    BY <1>1, <2>1, ValuesFromAre
  <2>3. Coefficient(<<>>, 1) = zero
    BY DEF Coefficient
  <2>4. Plus(zero, Times(a, zero)) = zero
    BY TimesZeroOne, PlusLaws DEF zero
  <2> QED
    BY <1>1, <2>2, <2>3, <2>4, ElementPlus DEF Rest
<1>2. CASE p # <<>>
  <2> DEFINE t == Tail(p)
             n == Len(p)
             F == ValuesFrom(p, a)
             G == ValuesFrom(t, a)
             T == {k \in 1 .. n : F[k + 1] = G[k]}
  <2>1. t \in Poly /\ Len(t) = n - 1 /\ n \in Nat \ {0} /\ p[1] = Coefficient(p, 1)
        /\ \A k \in Nat \ {0} : Coefficient(t, k) = Coefficient(p, k + 1)
    BY <1>2, TailIs
  <2>2. F[n + 1] = zero /\ \A k \in 1 .. n : F[k] = Plus(p[k], Times(a, F[k + 1]))
    BY ValuesFromAre
  <2>3. /\ G[Len(t) + 1] = zero
        /\ \A k \in 1 .. Len(t) : G[k] = Plus(t[k], Times(a, G[k + 1]))
    BY <2>1, ValuesFromAre
  <2>4. ValueAt(p, a) = F[1] /\ ValueAt(p, a) \in Element
    BY ValuesFromAre
  <2>5. ValueAt(t, a) = G[1]
    BY <2>1, ValuesFromAre
  <2>6. \A k \in 1 .. n - 1 : t[k] = p[k + 1]
    <3>1. ASSUME NEW k \in 1 .. n - 1 PROVE t[k] = p[k + 1]
      <4>1. k \in 1 .. Len(t) /\ k + 1 \in 1 .. Len(p) /\ k \in Nat \ {0}
        BY <2>1
      <4> QED
        BY <2>1, <4>1 DEF Coefficient
    <3> QED
      BY <3>1
  <2> HIDE DEF t, F, G, n
  <2>7. n \in T
    <3>1. n \in 1 .. n /\ Len(t) + 1 = n
      BY <2>1
    <3> QED
      BY <2>2, <2>3, <3>1
  <2>8. ASSUME NEW k \in 1 .. n - 1, k + 1 \in T PROVE k \in T
    <3>1. k \in 1 .. Len(t) /\ k + 1 \in 1 .. n /\ k \in 1 .. n
      BY <2>1
    <3>2. F[k + 1] = Plus(p[k + 1], Times(a, F[(k + 1) + 1]))
      BY <2>2, <3>1
    <3>3. G[k] = Plus(t[k], Times(a, G[k + 1]))
      BY <2>3, <3>1
    <3>4. F[(k + 1) + 1] = G[k + 1]
      BY <2>8
    <3> QED
      BY <2>6, <3>1, <3>2, <3>3, <3>4
  <2> HIDE DEF T
  <2>9. 1 .. n \subseteq T
    <3>1. 1 \in Int /\ n \in Int /\ 1 <= n
      BY <2>1
    <3> QED
      BY <2>7, <2>8, <3>1, Descent
  <2>10. 1 \in T /\ 1 \in 1 .. n
    BY <2>1, <2>9
  <2>11. F[1 + 1] = G[1]
    BY <2>10 DEF T
  <2>12. F[1] = Plus(p[1], Times(a, F[1 + 1]))
    BY <2>2, <2>10
  <2>13. Rest(p) = t
    BY <1>2 DEF Rest, t
  <2> QED
    BY <1>2, <2>1, <2>4, <2>5, <2>11, <2>12, <2>13
<1> QED
  BY <1>1, <1>2

\* The value of a sum, and that of a multiple.
LEMMA ValueAdds ==
  ASSUME NEW p \in Poly, NEW u \in Poly, NEW v \in Poly, NEW a \in Element,
         \A k \in Nat \ {0} : Coefficient(p, k) = Plus(Coefficient(u, k), Coefficient(v, k))
  PROVE  ValueAt(p, a) = Plus(ValueAt(u, a), ValueAt(v, a))
<1> DEFINE Adds(x, y, z) == \A k \in Nat \ {0} : Coefficient(x, k) = Plus(Coefficient(y, k), Coefficient(z, k))
           n == Len(p) + Len(u) + Len(v)
           T == {l \in 0 .. n :
                   \A x, y, z \in Poly :
                     Len(x) <= l /\ Len(y) <= l /\ Len(z) <= l /\ Adds(x, y, z) =>
                       ValueAt(x, a) = Plus(ValueAt(y, a), ValueAt(z, a))}
<1>0. Len(p) \in Nat /\ Len(u) \in Nat /\ Len(v) \in Nat
  BY DegreeIs
<1>1. 0 \in T
  <2>1. 0 \in 0 .. n
    BY <1>0
  <2>2. \A x \in Poly : Len(x) <= 0 => ValueAt(x, a) = zero
    BY ValueOfRest, DegreeIs
  <2> QED
    BY <2>1, <2>2, PlusLaws DEF zero
<1>2. ASSUME NEW l \in 0 .. n - 1, l \in T PROVE l + 1 \in T
  <2>1. l + 1 \in 0 .. n /\ l \in Nat
    BY <1>0
  <2>2. ASSUME NEW x \in Poly, NEW y \in Poly, NEW z \in Poly,
               Len(x) <= l + 1, Len(y) <= l + 1, Len(z) <= l + 1, Adds(x, y, z)
        PROVE  ValueAt(x, a) = Plus(ValueAt(y, a), ValueAt(z, a))
    <3>1. /\ Rest(x) \in Poly /\ Rest(y) \in Poly /\ Rest(z) \in Poly
          /\ Len(Rest(x)) <= l /\ Len(Rest(y)) <= l /\ Len(Rest(z)) <= l
      BY <2>1, <2>2, RestIs
    <3>2. Adds(Rest(x), Rest(y), Rest(z))
      <4>1. \A k \in Nat \ {0} : k + 1 \in Nat \ {0}
        OBVIOUS
      <4> QED
        BY <2>2, <4>1, RestIs
    <3>3. ValueAt(Rest(x), a) = Plus(ValueAt(Rest(y), a), ValueAt(Rest(z), a))
      BY <1>2, <3>1, <3>2
    <3> HIDE DEF Adds
    <3>4. Coefficient(x, 1) = Plus(Coefficient(y, 1), Coefficient(z, 1))
      BY <2>2 DEF Adds
    <3>5. ValueAt(Rest(y), a) \in Element /\ ValueAt(Rest(z), a) \in Element
      BY <3>1, ValueOfRest
    <3>6. Times(a, Plus(ValueAt(Rest(y), a), ValueAt(Rest(z), a))) =
            Plus(Times(a, ValueAt(Rest(y), a)), Times(a, ValueAt(Rest(z), a)))
      BY <3>5, TimesAdds
    <3>7. \A w \in Poly : ValueAt(w, a) = Plus(Coefficient(w, 1), Times(a, ValueAt(Rest(w), a)))
      BY ValueOfRest
    <3> QED
      BY <3>3, <3>4, <3>6, <3>7, PlusSwaps
  <2> QED
    BY <2>1, <2>2
<1>3. n \in T
  <2>1. n \in Nat
    BY <1>0
  <2> HIDE DEF T, n
  <2>2. 0 .. n \subseteq T
    BY <1>1, <1>2, <2>1, Induction
  <2> QED
    BY <2>1, <2>2
<1>4. Len(p) <= n /\ Len(u) <= n /\ Len(v) <= n /\ Adds(p, u, v)
  BY <1>0
<1> HIDE DEF Adds, n
<1> QED
  BY <1>3, <1>4

LEMMA ValueSame ==
  ASSUME NEW p \in Poly, NEW s \in Poly, Same(p, s), NEW a \in Element
  PROVE  ValueAt(p, a) = ValueAt(s, a)
<1>1. <<>> \in Poly /\ \A k \in Nat \ {0} : Coefficient(<<>>, k) = zero
  BY DEF Poly, Coefficient
<1>2. \A x : Plus(x, zero) = x
  BY PlusLaws DEF zero
<1>3. \A k \in Nat \ {0} : Coefficient(p, k) = Plus(Coefficient(s, k), Coefficient(<<>>, k))
  BY <1>1, <1>2 DEF Same
<1>4. ValueAt(p, a) = Plus(ValueAt(s, a), ValueAt(<<>>, a))
  BY <1>1, <1>3, ValueAdds
<1>5. ValueAt(<<>>, a) = zero
  BY <1>1, ValueOfRest
<1> QED
  BY <1>2, <1>4, <1>5

LEMMA ValueShifted ==
  ASSUME NEW p \in Poly, NEW a \in Element
  PROVE  ValueAt(Shift(p, 1), a) = Times(a, ValueAt(p, a))
<1> DEFINE s == Shift(p, 1)
<1>1. s \in Poly /\ Coefficient(s, 1) = zero /\ \A k \in Nat \ {0} : Coefficient(s, k + 1) = Coefficient(p, k)
  <2>1. ASSUME NEW k \in Nat \ {0} PROVE Coefficient(s, k + 1) = Coefficient(p, k)
    <3>1. k + 1 \in Nat \ {0} /\ k + 1 # 1 /\ k + 1 - 1 = k
      OBVIOUS
    <3> HIDE DEF s
    <3>2. \A m \in Nat \ {0} : Coefficient(s, m) = IF m = 1 THEN zero ELSE Coefficient(p, m - 1)
      BY ShiftedIs DEF s
    <3>3. (k + 1) - 1 = k
      OBVIOUS
    <3> QED
      BY <3>1, <3>2, <3>3
  <2> QED
    BY <2>1, ShiftedIs
<1> HIDE DEF s
<1>2. Rest(s) \in Poly /\ Same(Rest(s), p)
  BY <1>1, RestIs DEF Same
<1>3. ValueAt(s, a) = Plus(zero, Times(a, ValueAt(Rest(s), a)))
  BY <1>1, ValueOfRest
<1>4. ValueAt(Rest(s), a) = ValueAt(p, a)
  BY <1>2, ValueSame
<1>5. \A x : Plus(zero, x) = x
  BY PlusLaws DEF zero
<1> QED
  BY <1>3, <1>4, <1>5 DEF s

LEMMA ValueScaled ==
  ASSUME NEW a \in Element, NEW c \in Element
  PROVE  \A p \in Poly : ValueAt(Scaled(c, p), a) = Times(c, ValueAt(p, a))
<1> DEFINE S == {p \in Poly : ValueAt(Scaled(c, p), a) = Times(c, ValueAt(p, a))}
<1>1. <<>> \in S
  <2>1. <<>> \in Poly /\ \A k \in Nat \ {0} : Coefficient(<<>>, k) = zero
    BY DEF Poly, Coefficient
  <2>2. Scaled(c, <<>>) \in Poly /\ Same(Scaled(c, <<>>), <<>>)
    BY <2>1, ScaledIs, TimesZeroOne DEF Same
  <2>3. ValueAt(<<>>, a) = zero
    BY <2>1, ValueOfRest
  <2>4. ValueAt(Scaled(c, <<>>), a) = ValueAt(<<>>, a)
    BY <2>1, <2>2, ValueSame
  <2> QED
    BY <2>1, <2>3, <2>4, TimesZeroOne
<1>2. ASSUME NEW p \in Poly \ {<<>>}, Tail(p) \in S PROVE p \in S
  <2> DEFINE u == Scaled(c, p)
             t == Tail(p)
  <2>1. t \in Poly /\ Rest(p) = t /\ \A k \in Nat \ {0} : Coefficient(t, k) = Coefficient(p, k + 1)
    BY TailIs DEF Rest
  <2>2. u \in Poly /\ \A k \in Nat \ {0} : Coefficient(u, k) = Times(c, Coefficient(p, k))
    BY ScaledIs
  <2>3. /\ Scaled(c, t) \in Poly
        /\ \A k \in Nat \ {0} : Coefficient(Scaled(c, t), k) = Times(c, Coefficient(t, k))
    BY <2>1, ScaledIs
  <2> HIDE DEF u, t
  <2>4. Rest(u) \in Poly /\ Same(Rest(u), Scaled(c, t))
    <3>1. \A k \in Nat \ {0} : k + 1 \in Nat \ {0}
      OBVIOUS
    <3> QED
      BY <2>1, <2>2, <2>3, <3>1, RestIs DEF Same
  <2>5. ValueAt(Rest(u), a) = ValueAt(Scaled(c, t), a)
    BY <2>3, <2>4, ValueSame
  <2>6. ValueAt(Scaled(c, t), a) = Times(c, ValueAt(t, a))
    BY <1>2 DEF t
  <2> DEFINE w == ValueAt(t, a)
             h == Coefficient(p, 1)
  <2>7. w \in Element /\ h \in Element /\ Times(a, w) \in Element
    BY <2>1, ValueOfRest, CoefficientsAreElements, TimesIs
  <2>8. ValueAt(p, a) = Plus(h, Times(a, w))
    BY <2>1, ValueOfRest
  <2>9. ValueAt(u, a) = Plus(Times(c, h), Times(a, Times(c, w)))
    BY <2>2, <2>5, <2>6, ValueOfRest
  <2> HIDE DEF w, h
  <2>10. Times(a, Times(c, w)) = Times(c, Times(a, w))
    <3>1. Times(a, Times(c, w)) = Times(Times(a, c), w) /\ Times(c, Times(a, w)) = Times(Times(c, a), w)
      BY <2>7, TimesAssociates
    <3> QED
      BY <3>1, TimesCommutes
  <2>11. Times(c, Plus(h, Times(a, w))) = Plus(Times(c, h), Times(c, Times(a, w)))
    BY <2>7, TimesAdds
  <2> QED
    BY <2>8, <2>9, <2>10, <2>11 DEF u
<1> HIDE DEF S
<1>3. Poly \subseteq S
  BY <1>1, <1>2, PolyInduction
<1> QED
  BY <1>3 DEF S

\* Product by the empty polynomial, and by one with a first coefficient.
LEMMA MulEmpty ==
  ASSUME NEW s \in Poly
  PROVE  Mul(<<>>, s) = <<>>
<1>1. <<>> \in Poly /\ \A k \in Nat \ {0} : Coefficient(<<>>, k) = zero
  BY DEF Poly, Coefficient
<1>2. \A k \in Nat \ {0} : Conv(<<>>, s, k) = zero
  <2>1. ASSUME NEW k \in Nat \ {0} PROVE Conv(<<>>, s, k) = zero
    <3>1. \A m \in 1 .. k : Terms(<<>>, s, k)[m] = zero
      <4>1. ASSUME NEW m \in 1 .. k PROVE Terms(<<>>, s, k)[m] = zero
        <5>1. Coefficient(<<>>, m) = zero /\ Coefficient(s, k + 1 - m) \in Element
          BY <1>1, CoefficientsAreElements
        <5> QED
          BY <5>1, TimesZeroOne DEF Terms
      <4> QED
        BY <4>1
    <3> QED
      BY <3>1, SumOfZeros DEF Conv
  <2> QED
    BY <2>1
<1>3. IsNormal(<<>>)
  BY DEF IsNormal
<1> QED
  BY <1>1, <1>2, <1>3, MulIs, NormalEqual DEF Same

LEMMA MulOfTail ==
  ASSUME NEW p \in Poly \ {<<>>}, NEW s \in Poly
  PROVE  LET u == Scaled(p[1], s)
             v == Shift(Mul(Tail(p), s), 1)
         IN /\ Tail(p) \in Poly /\ p[1] \in Element /\ u \in Poly /\ v \in Poly
            /\ \A k \in Nat \ {0} :
                 Coefficient(Mul(p, s), k) = Plus(Coefficient(u, k), Coefficient(v, k))
<1> DEFINE u == Scaled(p[1], s)
           v == Shift(Mul(Tail(p), s), 1)
<1>1. Tail(p) \in Poly /\ p[1] \in Element
  BY TailIs
<1>2. u \in Poly /\ \A k \in Nat \ {0} : Coefficient(u, k) = Times(p[1], Coefficient(s, k))
  BY <1>1, ScaledIs
<1>3. Mul(Tail(p), s) \in Poly /\ \A k \in Nat \ {0} : Coefficient(Mul(Tail(p), s), k) = Conv(Tail(p), s, k)
  BY <1>1, MulIs
<1>4. v \in Poly /\ \A k \in Nat \ {0} :
        Coefficient(v, k) = IF k = 1 THEN zero ELSE Coefficient(Mul(Tail(p), s), k - 1)
  BY <1>3, ShiftedIs
<1> HIDE DEF u, v
<1>5. ASSUME NEW k \in Nat \ {0} PROVE Coefficient(Mul(p, s), k) = Plus(Coefficient(u, k), Coefficient(v, k))
  <2>1. Coefficient(Mul(p, s), k) = Conv(p, s, k)
    BY MulIs
  <2>2. Conv(p, s, k) = Plus(Times(p[1], Coefficient(s, k)), IF k = 1 THEN zero ELSE Conv(Tail(p), s, k - 1))
    BY ConvOfTail
  <2>3. k # 1 => k - 1 \in Nat \ {0}
    OBVIOUS
  <2> QED
    BY <1>2, <1>3, <1>4, <2>1, <2>2, <2>3
<1> QED
  BY <1>1, <1>2, <1>4, <1>5 DEF u, v

\* The value of a product is the product of the values.
LEMMA ValueOfMul ==
  ASSUME NEW a \in Element, NEW s \in Poly
  PROVE  \A p \in Poly : ValueAt(Mul(p, s), a) = Times(ValueAt(p, a), ValueAt(s, a))
<1> DEFINE S == {p \in Poly : ValueAt(Mul(p, s), a) = Times(ValueAt(p, a), ValueAt(s, a))}
           b == ValueAt(s, a)
<1>0. b \in Element
  BY ValueOfRest
<1>1. <<>> \in S
  <2>1. <<>> \in Poly
    BY DEF Poly
  <2>2. ValueAt(<<>>, a) = zero /\ Mul(<<>>, s) = <<>>
    BY <2>1, ValueOfRest, MulEmpty
  <2> QED
    BY <1>0, <2>1, <2>2, TimesZeroOne
<1>2. ASSUME NEW p \in Poly \ {<<>>}, Tail(p) \in S PROVE p \in S
  <2> DEFINE u == Scaled(p[1], s)
             v == Shift(Mul(Tail(p), s), 1)
             w == ValueAt(Tail(p), a)
  <2>1. /\ Tail(p) \in Poly /\ p[1] \in Element /\ u \in Poly /\ v \in Poly
        /\ \A k \in Nat \ {0} : Coefficient(Mul(p, s), k) = Plus(Coefficient(u, k), Coefficient(v, k))
    BY MulOfTail
  <2>2. Mul(p, s) \in Poly /\ Mul(Tail(p), s) \in Poly
    BY <2>1, MulIs
  <2>3. ValueAt(u, a) = Times(p[1], b)
    BY <2>1, ValueScaled
  <2>4. ValueAt(v, a) = Times(a, Times(w, b))
    BY <1>2, <2>2, ValueShifted
  <2> HIDE DEF u, v
  <2>5. ValueAt(Mul(p, s), a) = Plus(ValueAt(u, a), ValueAt(v, a))
    BY <2>1, <2>2, ValueAdds
  <2>6. w \in Element /\ Times(a, w) \in Element
    BY <2>1, ValueOfRest, TimesIs
  <2>7. ValueAt(p, a) = Plus(p[1], Times(a, w))
    BY <2>1, ValueOfRest, TailIs DEF Rest
  <2> HIDE DEF w, b
  <2>8. Times(Plus(p[1], Times(a, w)), b) = Plus(Times(p[1], b), Times(Times(a, w), b))
    BY <1>0, <2>1, <2>6, TimesAdds
  <2>9. Times(a, Times(w, b)) = Times(Times(a, w), b)
    BY <1>0, <2>6, TimesAssociates
  <2> QED
    BY <2>3, <2>4, <2>5, <2>7, <2>8, <2>9 DEF b
<1> HIDE DEF S
<1>3. Poly \subseteq S
  BY <1>1, <1>2, PolyInduction
<1> QED
  BY <1>3 DEF S

LEMMA MulSame ==
  ASSUME NEW p \in Poly, NEW s \in Poly, NEW t \in Poly, Same(p, s)
  PROVE  Mul(p, t) = Mul(s, t)
<1>1. \A k \in Nat \ {0} : Conv(p, t, k) = Conv(s, t, k)
  BY ConvSame
<1> QED
  BY <1>1, MulIs, NormalEqual DEF Same

LEMMA MulCommutes ==
  ASSUME NEW p \in Poly, NEW s \in Poly
  PROVE  Mul(p, s) = Mul(s, p)
<1>1. ASSUME NEW k \in Nat \ {0} PROVE Conv(p, s, k) = Conv(s, p, k)
  <2> DEFINE I == 1 .. k
             b == [m \in I |-> k + 1 - m]
             F == Terms(p, s, k)
             G == Terms(s, p, k)
  <2>1. b \in Bijection(I, I)
    <3>1. \A m \in I : k + 1 - m \in I /\ k + 1 - (k + 1 - m) = m
      OBVIOUS
    <3>2. b \in [I -> I] /\ \A m, n \in I : b[m] = b[n] => m = n
      BY <3>1
    <3>3. \A n \in I : \E m \in I : b[m] = n
      <4>1. ASSUME NEW n \in I PROVE b[k + 1 - n] = n /\ k + 1 - n \in I
        BY <3>1
      <4> QED
        BY <4>1
    <3> HIDE DEF b
    <3> QED
      BY <3>2, <3>3 DEF Bijection, Injection, Surjection, IsInjective
  <2>2. IsFiniteSet(I)
    BY FS_Interval
  <2>3. \A m \in I : F[m] = G[b[m]]
    <3>1. ASSUME NEW m \in I PROVE F[m] = G[b[m]]
      <4>1. k + 1 - m \in I /\ k + 1 - (k + 1 - m) = m
        OBVIOUS
      <4>2. b[m] = k + 1 - m
        OBVIOUS
      <4>3. F[m] = Times(Coefficient(p, m), Coefficient(s, k + 1 - m))
        BY DEF Terms
      <4>4. G[k + 1 - m] = Times(Coefficient(s, k + 1 - m), Coefficient(p, m))
        BY <4>1 DEF Terms
      <4> QED
        BY <4>2, <4>3, <4>4, TimesCommutes, CoefficientsAreElements
    <3> QED
      BY <3>1
  <2> HIDE DEF b, F, G, I
  <2>4. Sum(I, F) = Sum(I, G)
    BY <2>1, <2>2, <2>3, SumReordered
  <2> QED
    BY <2>4 DEF Conv, F, G, I
<1> QED
  BY <1>1, MulIs, NormalEqual DEF Same

LEMMA ConvShifted ==
  ASSUME NEW p \in Poly, NEW t \in Poly, NEW k \in Nat \ {0}
  PROVE  Conv(Shift(p, 1), t, k) = IF k = 1 THEN zero ELSE Conv(p, t, k - 1)
<1> DEFINE s == Shift(p, 1)
<1>1. s \in Poly /\ \A m \in Nat \ {0} : Coefficient(s, m) = IF m = 1 THEN zero ELSE Coefficient(p, m - 1)
  BY ShiftedIs
<1>2. s # <<>>
  <2>1. s = [m \in 1 .. 1 |-> zero] \o p
    BY DEF Shift
  <2>2. [m \in 1 .. 1 |-> zero] \in Seq({zero}) /\ Len([m \in 1 .. 1 |-> zero]) = 1
    OBVIOUS
  <2>3. Len(p) \in Nat /\ p \in Seq(Element)
    BY DegreeIs DEF Poly
  <2>4. [m \in 1 .. 1 |-> zero] \in Seq(Element)
    BY ElementPlus
  <2>5. Len([m \in 1 .. 1 |-> zero] \o p) = 1 + Len(p)
    BY <2>2, <2>3, <2>4, ConcatProperties
  <2> HIDE DEF s
  <2>6. Len(s) # 0
    BY <2>1, <2>3, <2>5
  <2> QED
    BY <2>6
<1> HIDE DEF s
<1>3. s[1] = zero
  BY <1>1, <1>2, TailIs
<1>4. Same(Tail(s), p) /\ Tail(s) \in Poly
  <2>1. ASSUME NEW m \in Nat \ {0} PROVE Coefficient(Tail(s), m) = Coefficient(p, m)
    <3>1. (m + 1) \in Nat \ {0} /\ (m + 1) # 1 /\ (m + 1) - 1 = m
      OBVIOUS
    <3>2. Coefficient(Tail(s), m) = Coefficient(s, m + 1)
      BY <1>1, <1>2, TailIs
    <3> QED
      BY <1>1, <3>1, <3>2
  <2> QED
    BY <1>1, <1>2, <2>1, TailIs DEF Same
<1>5. Conv(s, t, k) = Plus(Times(zero, Coefficient(t, k)), IF k = 1 THEN zero ELSE Conv(Tail(s), t, k - 1))
  BY <1>1, <1>2, <1>3, ConvOfTail
<1>6. Times(zero, Coefficient(t, k)) = zero
  BY CoefficientsAreElements, TimesZeroOne
<1>7. \A x : Plus(zero, x) = x
  BY PlusLaws DEF zero
<1>8. k # 1 => k - 1 \in Nat \ {0}
  OBVIOUS
<1>9. k # 1 => Conv(Tail(s), t, k - 1) = Conv(p, t, k - 1)
  BY <1>4, <1>8, ConvSame
<1> QED
  BY <1>5, <1>6, <1>7, <1>9 DEF s

LEMMA ConvScaled ==
  ASSUME NEW c \in Element, NEW t \in Poly
  PROVE  \A p \in Poly : \A k \in Nat \ {0} : Conv(Scaled(c, p), t, k) = Times(c, Conv(p, t, k))
<1> DEFINE S == {p \in Poly : \A k \in Nat \ {0} : Conv(Scaled(c, p), t, k) = Times(c, Conv(p, t, k))}
<1>1. <<>> \in S
  <2>1. <<>> \in Poly /\ \A k \in Nat \ {0} : Coefficient(<<>>, k) = zero
    BY DEF Poly, Coefficient
  <2>2. Scaled(c, <<>>) \in Poly /\ Same(Scaled(c, <<>>), <<>>)
    BY <2>1, ScaledIs, TimesZeroOne DEF Same
  <2>3. Mul(<<>>, t) = <<>>
    BY MulEmpty
  <2>4. \A k \in Nat \ {0} : Conv(<<>>, t, k) = zero
    BY <2>1, <2>3, MulIs
  <2>5. \A k \in Nat \ {0} : Conv(Scaled(c, <<>>), t, k) = zero
    BY <2>2, <2>4, ConvSame
  <2> QED
    BY <2>1, <2>4, <2>5, TimesZeroOne
<1>2. ASSUME NEW p \in Poly \ {<<>>}, Tail(p) \in S PROVE p \in S
  <2> DEFINE u == Scaled(c, p)
  <2>1. Tail(p) \in Poly /\ p[1] \in Element /\ p[1] = Coefficient(p, 1) /\ Len(p) \in Nat \ {0}
        /\ \A k \in Nat \ {0} : Coefficient(Tail(p), k) = Coefficient(p, k + 1)
    BY TailIs
  <2>2. u \in Poly /\ (\A k \in Nat \ {0} : Coefficient(u, k) = Times(c, Coefficient(p, k))) /\ u # <<>>
    <3>1. u # <<>>
      <4>1. Len(u) = Len(p)
        BY <2>1 DEF Scaled
      <4> HIDE DEF u
      <4> QED
        BY <2>1, <4>1
    <3> QED
      BY <3>1, ScaledIs
  <2> HIDE DEF u
  <2>3. Tail(u) \in Poly /\ u[1] = Times(c, p[1]) /\ Same(Tail(u), Scaled(c, Tail(p)))
    <3>1. \A k \in Nat \ {0} : k + 1 \in Nat \ {0}
      OBVIOUS
    <3>2. 1 \in Nat \ {0}
      OBVIOUS
    <3>3. /\ Tail(u) \in Poly /\ u[1] = Coefficient(u, 1)
          /\ \A k \in Nat \ {0} : Coefficient(Tail(u), k) = Coefficient(u, k + 1)
      BY <2>2, TailIs
    <3>4. \A k \in Nat \ {0} : Coefficient(Scaled(c, Tail(p)), k) = Times(c, Coefficient(Tail(p), k))
      BY <2>1, ScaledIs
    <3>5. Coefficient(u, 1) = Times(c, Coefficient(p, 1))
      BY <2>2, <3>2
    <3>6. \A k \in Nat \ {0} : Coefficient(Tail(u), k) = Times(c, Coefficient(p, k + 1))
      BY <2>2, <3>1, <3>3
    <3> QED
      BY <2>1, <3>3, <3>4, <3>5, <3>6 DEF Same
  <2>4. Scaled(c, Tail(p)) \in Poly
    BY <2>1, ScaledIs
  <2>5. ASSUME NEW k \in Nat \ {0} PROVE Conv(u, t, k) = Times(c, Conv(p, t, k))
    <3> DEFINE h == Times(p[1], Coefficient(t, k))
               l == IF k = 1 THEN zero ELSE Conv(Tail(p), t, k - 1)
    <3>1. Coefficient(t, k) \in Element /\ h \in Element /\ l \in Element
      BY <2>1, CoefficientsAreElements, TimesIs, ConvIsElement, ElementPlus
    <3>2. Conv(p, t, k) = Plus(h, l)
      BY ConvOfTail
    <3>3. Conv(u, t, k) = Plus(Times(Times(c, p[1]), Coefficient(t, k)),
                               IF k = 1 THEN zero ELSE Conv(Tail(u), t, k - 1))
      BY <2>2, <2>3, ConvOfTail
    <3>4. Times(Times(c, p[1]), Coefficient(t, k)) = Times(c, h)
      BY <2>1, <3>1, TimesAssociates
    <3>5. (IF k = 1 THEN zero ELSE Conv(Tail(u), t, k - 1)) = Times(c, l)
      <4>1. CASE k = 1
        BY <4>1, TimesZeroOne
      <4>2. CASE k # 1
        <5>1. k - 1 \in Nat \ {0}
          BY <4>2
        <5>2. Conv(Tail(u), t, k - 1) = Conv(Scaled(c, Tail(p)), t, k - 1)
          BY <2>3, <2>4, <5>1, ConvSame
        <5>3. Conv(Scaled(c, Tail(p)), t, k - 1) = Times(c, Conv(Tail(p), t, k - 1))
          BY <1>2, <5>1
        <5> QED
          BY <4>2, <5>2, <5>3
      <4> QED
        BY <4>1, <4>2
    <3> HIDE DEF h, l
    <3>6. Times(c, Plus(h, l)) = Plus(Times(c, h), Times(c, l))
      BY <3>1, TimesAdds
    <3> QED
      BY <3>2, <3>3, <3>4, <3>5, <3>6
  <2> QED
    BY <2>5 DEF u
<1> HIDE DEF S
<1>3. Poly \subseteq S
  BY <1>1, <1>2, PolyInduction
<1> QED
  BY <1>3 DEF S

LEMMA MulAssociates ==
  ASSUME NEW s \in Poly, NEW t \in Poly
  PROVE  \A p \in Poly : Mul(Mul(p, s), t) = Mul(p, Mul(s, t))
<1> DEFINE S == {p \in Poly : Mul(Mul(p, s), t) = Mul(p, Mul(s, t))}
<1>0. Mul(s, t) \in Poly /\ \A p \in Poly : Mul(p, s) \in Poly
  BY MulIs
<1>1. <<>> \in S
  <2>1. <<>> \in Poly
    BY DEF Poly
  <2> QED
    BY <1>0, <2>1, MulEmpty
<1>2. ASSUME NEW p \in Poly \ {<<>>}, Tail(p) \in S PROVE p \in S
  <2> DEFINE u == Scaled(p[1], s)
             w == Mul(Tail(p), s)
             v == Shift(w, 1)
  <2>1. /\ Tail(p) \in Poly /\ p[1] \in Element /\ u \in Poly /\ v \in Poly /\ w \in Poly
        /\ \A k \in Nat \ {0} : Coefficient(Mul(p, s), k) = Plus(Coefficient(u, k), Coefficient(v, k))
    BY <1>0, MulOfTail
  <2>2. Mul(w, t) = Mul(Tail(p), Mul(s, t))
    BY <1>2
  <2>3. ASSUME NEW k \in Nat \ {0} PROVE Conv(Mul(p, s), t, k) = Conv(p, Mul(s, t), k)
    <3>1. Conv(u, t, k) = Times(p[1], Conv(s, t, k))
      BY <2>1, ConvScaled
    <3>2. Conv(v, t, k) = IF k = 1 THEN zero ELSE Conv(w, t, k - 1)
      <4> HIDE DEF w
      <4> QED
        BY <2>1, ConvShifted
    <3> HIDE DEF u, v, w
    <3>3. Conv(Mul(p, s), t, k) = Plus(Conv(u, t, k), Conv(v, t, k))
      BY <1>0, <2>1, ConvAdds
    <3>4. Conv(p, Mul(s, t), k) = Plus(Times(p[1], Coefficient(Mul(s, t), k)),
                                       IF k = 1 THEN zero ELSE Conv(Tail(p), Mul(s, t), k - 1))
      BY <1>0, ConvOfTail
    <3>5. Coefficient(Mul(s, t), k) = Conv(s, t, k)
      BY MulIs
    <3>6. k # 1 => k - 1 \in Nat \ {0}
      OBVIOUS
    <3>7. k # 1 => Conv(w, t, k - 1) = Conv(Tail(p), Mul(s, t), k - 1)
      BY <1>0, <2>1, <2>2, <3>6, MulIs
    <3> QED
      BY <3>1, <3>2, <3>3, <3>4, <3>5, <3>7
  <2> QED
    BY <1>0, <2>3, MulIs, NormalEqual DEF Same
<1> HIDE DEF S
<1>3. Poly \subseteq S
  BY <1>1, <1>2, PolyInduction
<1> QED
  BY <1>3 DEF S

\* The degree of a product is the sum of the degrees.
LEMMA MulLength ==
  ASSUME NEW p \in Poly, NEW s \in Poly, IsNormal(p), IsNormal(s), p # <<>>, s # <<>>
  PROVE  /\ Len(Mul(p, s)) = Len(p) + Len(s) - 1
         /\ Lead(Mul(p, s)) = Times(Lead(p), Lead(s))
<1> DEFINE m == Len(p)
           n == Len(s)
           k == (m + n) - 1
           c == Mul(p, s)
<1>1. /\ m \in Nat \ {0} /\ n \in Nat \ {0} /\ Degree(p) + 1 = m /\ Degree(s) + 1 = n
      /\ p[m] # zero /\ s[n] # zero /\ p[m] = Coefficient(p, m) /\ s[n] = Coefficient(s, n)
      /\ p[m] \in Element /\ s[n] \in Element /\ Degree(p) \in Nat /\ Degree(s) \in Nat
  BY DegreeIs, NormalLength, CoefficientsAreElements
<1>2. c \in Poly /\ IsNormal(c) /\ \A j \in Nat \ {0} : Coefficient(c, j) = Conv(p, s, j)
  BY MulIs
<1> HIDE DEF m, n, c
<1>3. k \in Nat \ {0} /\ k = Degree(p) + Degree(s) + 1 /\ m \in 1 .. k /\ k + 1 - m = n
  BY <1>1
<1>4. Len(c) <= k
  <2>1. \A j \in Nat \ {0} : j > k => Coefficient(c, j) = zero
    <3>1. ASSUME NEW j \in Nat \ {0}, j > k PROVE Coefficient(c, j) = zero
      <4>1. j > Degree(p) + Degree(s) + 1
        BY <1>3, <3>1
      <4> QED
        BY <1>2, <4>1, ConvBeyond
    <3> QED
      BY <3>1
  <2> HIDE DEF k
  <2> QED
    BY <1>2, <1>3, <2>1, LengthAtMost
<1>5. Conv(p, s, k) = Times(p[m], s[n])
  <2> DEFINE F == Terms(p, s, k)
  <2>1. F[m] = Times(p[m], s[n]) /\ F[m] \in Element
    BY <1>1, <1>3, TimesIs DEF Terms
  <2>2. ASSUME NEW j \in (1 .. k) \ {m} PROVE F[j] = zero
    <3>1. F[j] = Times(Coefficient(p, j), Coefficient(s, k + 1 - j))
      BY DEF Terms
    <3>2. Coefficient(p, j) \in Element /\ Coefficient(s, k + 1 - j) \in Element
      BY CoefficientsAreElements
    <3>3. j > m \/ k + 1 - j > n
      BY <1>1
    <3>4. j \in Nat /\ k + 1 - j \in Nat
      BY <1>1
    <3>5. Coefficient(p, j) = zero \/ Coefficient(s, k + 1 - j) = zero
      <4> HIDE DEF k
      <4> QED
        BY <3>3, <3>4, CoefficientsAreElements DEF m, n
    <3> QED
      BY <3>1, <3>2, <3>5, TimesZeroOne
  <2> HIDE DEF F, k
  <2>3. Sum(1 .. k, F) = F[m]
    BY <1>3, <2>1, <2>2, SumOfOne, ZenonT(30)
  <2> QED
    BY <2>1, <2>3 DEF Conv, F
<1>6. Coefficient(c, k) # zero
  BY <1>1, <1>2, <1>3, <1>5, TimesNotZero
<1>7. Len(c) >= k
  <2>1. Len(c) \in Nat /\ (k > Len(c) => Coefficient(c, k) = zero)
    BY <1>2, <1>3, CoefficientsAreElements
  <2> QED
    BY <1>3, <1>6, <2>1
<1>8. Len(c) = k
  <2>1. Len(c) \in Nat /\ k \in Nat
    BY <1>2, <1>3, DegreeIs
  <2> HIDE DEF k
  <2> QED
    BY <1>4, <1>7, <2>1
<1>9. Len(p) + Len(s) - 1 = k
  BY <1>1 DEF m, n
<1>10. Lead(c) = Times(p[m], s[n])
  <2>1. Len(c) # 0
    BY <1>3, <1>8
  <2>2. Lead(c) = Coefficient(c, Len(c))
    BY <1>2, <2>1, DegreeIs
  <2> HIDE DEF k
  <2> QED
    BY <1>2, <1>3, <1>5, <1>8, <2>2
<1>11. Lead(p) = p[m] /\ Lead(s) = s[n]
  BY DegreeIs DEF m, n
<1> QED
  BY <1>8, <1>9, <1>10, <1>11 DEF c

-----------------------------------------------------------------------------
(* divmod.                                                                  *)

LEMMA StaysIn ==
  ASSUME NEW n \in Nat, NEW S, NEW f, f[0] \in S, \A k \in 1 .. n : f[k - 1] \in S => f[k] \in S
  PROVE  \A k \in 0 .. n : f[k] \in S
<1> DEFINE T == {k \in 0 .. n : f[k] \in S}
<1>1. 0 \in T
  OBVIOUS
<1>2. ASSUME NEW k \in 0 .. n - 1, k \in T PROVE k + 1 \in T
  <2>1. k + 1 \in 1 .. n /\ (k + 1) - 1 = k /\ k + 1 \in 0 .. n
    OBVIOUS
  <2> QED
    BY <1>2, <2>1
<1> HIDE DEF T
<1>3. 0 .. n \subseteq T
  BY <1>1, <1>2, Induction
<1> QED
  BY <1>3 DEF T

\* What the variables of divmod can be between two rounds.
DivisionStates(p, d) ==
  {s \in [q : Poly, r : Poly] :
     /\ Len(s.q) = Degree(p) - Degree(d) + 1
     /\ Len(s.r) <= Len(p)
     /\ IsNormal(p) => IsNormal(s.r)
     /\ Lead(d) # zero =>
          /\ \A k \in Nat \ {0} : Plus(Conv(s.q, d, k), Coefficient(s.r, k)) = Coefficient(p, k)
          /\ \A k \in 1 .. Len(s.q) : k <= Len(s.r) - Len(d) + 1 => s.q[k] = zero}

DivisionFirst(p, d) == [q |-> [k \in 1 .. Degree(p) - Degree(d) + 1 |-> zero], r |-> p]

LEMMA DivisionStarts ==
  ASSUME NEW p \in Poly, NEW d \in Poly, Degree(p) >= Degree(d)
  PROVE  DivisionFirst(p, d) \in DivisionStates(p, d)
<1> DEFINE n == Degree(p) - Degree(d) + 1
           z == [k \in 1 .. n |-> zero]
<1>1. n \in Nat /\ Len(p) <= Len(p)
  BY DegreeIs
<1>2. z \in Poly /\ Len(z) = n /\ \A k \in 1 .. n : z[k] = zero
  <2> HIDE DEF n
  <2>1. z \in [1 .. n -> Element] /\ \A k \in 1 .. n : z[k] = zero
    BY ElementPlus
  <2> QED
    BY <1>1, <2>1, PolyOf
<1> HIDE DEF z
<1>3. \A k \in Nat \ {0} : Plus(Conv(z, d, k), Coefficient(p, k)) = Coefficient(p, k)
  <2>1. ASSUME NEW k \in Nat \ {0} PROVE Plus(Conv(z, d, k), Coefficient(p, k)) = Coefficient(p, k)
    <3>1. \A m \in Nat \ {0} : Coefficient(z, m) = zero
      BY <1>2 DEF Coefficient
    <3>2. \A m \in 1 .. k : Terms(z, d, k)[m] = zero
      BY <3>1, CoefficientsAreElements, TimesZeroOne DEF Terms
    <3>3. Conv(z, d, k) = zero
      BY <3>2, SumOfZeros DEF Conv
    <3> QED
      BY <3>3, PlusLaws DEF zero
  <2> QED
    BY <2>1
<1>4. DivisionFirst(p, d) = [q |-> z, r |-> p]
  BY DEF DivisionFirst, z
<1> QED
  BY <1>1, <1>2, <1>3, <1>4 DEF DivisionStates

LEMMA RoundFits ==
  ASSUME NEW p \in Poly, NEW r \in Poly, NEW d \in Poly, Len(r) <= Len(p), Divisible(r, d)
  PROVE  Degree(r) - Degree(d) + 1 <= Degree(p) - Degree(d) + 1
<1>1. r # <<>> /\ Degree(r) + 1 = Len(r) /\ Len(r) \in Nat /\ Len(p) \in Nat
      /\ Len(p) <= Degree(p) + 1 /\ Degree(p) \in Nat /\ Degree(r) \in Nat /\ Degree(d) \in Nat
  BY DegreeIs DEF Divisible
<1>2. \A l, m, x, y, z \in Nat : x + 1 = l /\ l <= m /\ m <= y + 1 => x - z + 1 <= y - z + 1
  OBVIOUS
<1> QED
  BY <1>1, <1>2, Zenon

LEMMA RoundStays ==
  ASSUME NEW p \in Poly, NEW d \in Poly, d # <<>>, Degree(p) >= Degree(d),
         NEW s \in DivisionStates(p, d), Divisible(s.r, d)
  PROVE  /\ DivisionRound(s, d) \in DivisionStates(p, d)
         /\ Lead(d) # zero => Len(DivisionRound(s, d).r) < Len(s.r)
<1> DEFINE q == s.q
           r == s.r
           t == DivisionRound(s, d)
           at == RoundAt(r, d)
<1>1. /\ q \in Poly /\ r \in Poly /\ s = [q |-> q, r |-> r]
      /\ Len(q) = Degree(p) - Degree(d) + 1 /\ Len(r) <= Len(p)
      /\ IsNormal(p) => IsNormal(r)
      /\ Lead(d) # zero =>
          /\ \A k \in Nat \ {0} : Plus(Conv(q, d, k), Coefficient(r, k)) = Coefficient(p, k)
          /\ \A k \in 1 .. Len(q) : k <= Len(r) - Len(d) + 1 => q[k] = zero
  BY DEF DivisionStates
<1>2. Divisible(r, d)
  OBVIOUS
<1> HIDE DEF q, r
<1>3. Degree(r) - Degree(d) + 1 <= Len(q)
  BY <1>1, <1>2, RoundFits
<1>4. t = DivisionRound([q |-> q, r |-> r], d)
  BY <1>1
<1>5. t = [q |-> t.q, r |-> t.r]
  BY DEF DivisionRound
<1> HIDE DEF t
<1>6. /\ at \in Nat /\ at + 1 \in 1 .. Len(q) /\ at + 1 = Len(r) - Len(d) + 1
      /\ t.q = [q EXCEPT ![at + 1] = RoundBy(r, d)] /\ t.q \in Poly /\ Len(t.q) = Len(q)
      /\ t.r \in Poly /\ IsNormal(t.r)
  <2>1. IsRound(q, r, d)
    BY <1>1, <1>2, <1>3, DivisionRoundIs
  <2> QED
    BY <1>4, <2>1 DEF IsRound
<1>7. Len(t.r) <= Len(r) /\ (Lead(d) # zero => Len(t.r) < Len(r))
  BY <1>1, <1>2, <1>3, <1>4, RoundShortens
<1>8. Len(r) \in Nat /\ Len(t.r) \in Nat /\ Len(p) \in Nat /\ Len(d) \in Nat /\ Len(q) \in Nat
  BY <1>1, <1>6, DegreeIs
<1>9. Len(t.r) <= Len(p)
  BY <1>1, <1>7, <1>8
<1>10. ASSUME Lead(d) # zero
       PROVE  \A k \in Nat \ {0} : Plus(Conv(t.q, d, k), Coefficient(t.r, k)) = Coefficient(p, k)
  <2>1. q[at + 1] = zero
    BY <1>1, <1>6, <1>8, <1>10
  <2>2. q[Degree(r) - Degree(d) + 1] = zero
    BY <2>1 DEF RoundAt
  <2>3. ASSUME NEW k \in Nat \ {0} PROVE Plus(Conv(t.q, d, k), Coefficient(t.r, k)) = Coefficient(p, k)
    <3>1. Plus(Conv(t.q, d, k), Coefficient(t.r, k)) = Plus(Conv(q, d, k), Coefficient(r, k))
      BY <1>1, <1>2, <1>3, <1>4, <2>2, RoundKeeps
    <3> QED
      BY <1>1, <1>10, <3>1
  <2> QED
    BY <2>3
<1> HIDE DEF at
<1>11. ASSUME Lead(d) # zero, NEW k \in 1 .. Len(t.q), k <= Len(t.r) - Len(d) + 1 PROVE t.q[k] = zero
  <2>1. k \in 1 .. Len(q) /\ k <= Len(r) - Len(d) + 1 /\ k # at + 1
    <3>1. \A a, b, c \in Nat : b < a /\ k <= b - c + 1 => k <= a - c + 1 /\ k # a - c + 1
      OBVIOUS
    <3>2. k <= Len(r) - Len(d) + 1 /\ k # Len(r) - Len(d) + 1
      BY <1>7, <1>8, <1>11, <3>1, Zenon
    <3> QED
      BY <1>6, <1>11, <3>2
  <2>2. q[k] = zero
    BY <1>1, <1>11, <2>1
  <2> QED
    BY <1>1, <1>6, <2>1, <2>2 DEF Poly
<1>12. t \in DivisionStates(p, d)
  BY <1>1, <1>5, <1>6, <1>9, <1>10, <1>11 DEF DivisionStates
<1> QED
  BY <1>7, <1>12 DEF t, r

\* The loop of divmod.
DivisionLoop(p, divisor) ==
  LET first == [q |-> [k \in 1 .. Degree(p) - Degree(divisor) + 1 |-> zero], r |-> p]
      loop[k \in 0 .. Len(p)] ==
        IF k = 0 THEN first
        ELSE LET s == loop[k - 1]
             IN IF Divisible(s.r, divisor) THEN DivisionRound(s, divisor) ELSE s
  IN loop

LEMMA DivisionLoopIs ==
  ASSUME NEW p \in Poly, NEW d \in Poly, d # <<>>, Degree(p) >= Degree(d)
  PROVE  /\ \A k \in 0 .. Len(p) : DivisionLoop(p, d)[k] \in DivisionStates(p, d)
         /\ Lead(d) # zero => ~Divisible(DivisionLoop(p, d)[Len(p)].r, d)
         /\ divmod(p, d) = [q |-> ensure_normalized(DivisionLoop(p, d)[Len(p)].q),
                            r |-> ensure_normalized(DivisionLoop(p, d)[Len(p)].r)]
<1> DEFINE S == DivisionStates(p, d)
           n == Len(p)
           first == DivisionFirst(p, d)
           next(s) == IF Divisible(s.r, d) THEN DivisionRound(s, d) ELSE s
           step == [k \in 1 .. n |-> [s \in S |-> next(s)]]
           Rule(h) == [k \in 0 .. n |-> IF k = 0 THEN first ELSE next(h[k - 1])]
           loop == CHOOSE h : h = Rule(h)
<1>1. n \in Nat /\ first \in S /\ ~(Degree(p) < Degree(d))
  BY DivisionStarts, DegreeIs
<1>2. DivisionLoop(p, d) = loop
  BY DEF DivisionLoop, DivisionFirst
<1>3. divmod(p, d) = [q |-> ensure_normalized(loop[n].q), r |-> ensure_normalized(loop[n].r)]
  BY <1>1 DEF divmod, DivisionFirst
<1>4. \A s \in S : next(s) \in S
  BY RoundStays
<1> HIDE DEF S, n, first, next
<1>5. step \in [1 .. n -> [S -> S]]
  BY <1>4
<1>6. PICK g \in [0 .. n -> S] : Runs(g, first, step, n)
  <2> HIDE DEF step
  <2> QED
    BY <1>1, <1>5, Recursion
<1>7. \A k \in 0 .. n : g[k] = IF k = 0 THEN first ELSE next(g[k - 1])
  <2>1. ASSUME NEW k \in 1 .. n PROVE g[k] = next(g[k - 1])
    <3>1. g[k] = step[k][g[k - 1]] /\ k - 1 \in 0 .. n
      BY <1>1, <1>6 DEF Runs
    <3> QED
      BY <3>1
  <2>2. \A k \in 0 .. n : k # 0 => k \in 1 .. n
    BY <1>1
  <2> QED
    BY <1>6, <2>1, <2>2 DEF Runs
<1>8. g = Rule(g)
  BY <1>7
<1>9. loop = Rule(loop)
  <2> HIDE DEF Rule
  <2> QED
    BY <1>8
<1> HIDE DEF loop, step
<1>10. 0 \in 0 .. n /\ n \in 0 .. n /\ \A k \in 1 .. n : k \in 0 .. n /\ k # 0 /\ k - 1 \in 0 .. n
  BY <1>1
<1>11. loop[0] = first /\ \A k \in 1 .. n : loop[k] = next(loop[k - 1])
  BY <1>9, <1>10
<1>12. \A k \in 0 .. n : loop[k] \in S
  <2>1. loop[0] \in S /\ \A k \in 1 .. n : loop[k - 1] \in S => loop[k] \in S
    BY <1>1, <1>4, <1>11
  <2> QED
    BY <1>1, <2>1, StaysIn
<1>13. ASSUME Lead(d) # zero PROVE ~Divisible(loop[n].r, d)
  <2> DEFINE T == {k \in 0 .. n : ~Divisible(loop[k].r, d) \/ Len(loop[k].r) + k <= n}
  <2>1. 0 \in T
    <3>1. loop[0].r = p
      BY <1>11 DEF first, DivisionFirst
    <3> QED
      BY <1>1, <1>10, <3>1 DEF n
  <2>2. ASSUME NEW k \in 0 .. n - 1, k \in T PROVE k + 1 \in T
    <3>1. k + 1 \in 1 .. n /\ (k + 1) - 1 = k /\ k + 1 \in 0 .. n /\ k \in 0 .. n
      BY <1>1
    <3>2. loop[k + 1] = next(loop[k])
      BY <1>11, <3>1
    <3>3. CASE ~Divisible(loop[k].r, d)
      BY <3>1, <3>2, <3>3 DEF next
    <3>4. CASE Divisible(loop[k].r, d)
      <4>1. loop[k + 1] = DivisionRound(loop[k], d)
        BY <3>2, <3>4 DEF next
      <4>2. loop[k] \in S /\ loop[k + 1] \in S
        BY <1>12, <3>1
      <4>3. Len(loop[k + 1].r) < Len(loop[k].r)
        BY <1>13, <3>4, <4>1, <4>2, RoundStays DEF S
      <4>4. Len(loop[k].r) + k <= n
        BY <2>2, <3>4
      <4>5. Len(loop[k].r) \in Nat /\ Len(loop[k + 1].r) \in Nat
        <5>1. loop[k].r \in Poly /\ loop[k + 1].r \in Poly
          BY <4>2 DEF S, DivisionStates
        <5> QED
          BY <5>1, DegreeIs
      <4>6. Len(loop[k + 1].r) + (k + 1) <= n
        <5>1. \A a, b, c, e \in Nat : a < b /\ b + c <= e => a + (c + 1) <= e
          OBVIOUS
        <5>2. k \in Nat
          BY <3>1
        <5> QED
          BY <1>1, <4>3, <4>4, <4>5, <5>1, <5>2, Zenon
      <4> QED
        BY <3>1, <4>6
    <3> QED
      BY <3>3, <3>4
  <2> HIDE DEF T
  <2>3. 0 .. n \subseteq T
    BY <1>1, <2>1, <2>2, Induction
  <2>4. n \in T
    BY <1>10, <2>3
  <2>5. loop[n].r \in Poly
    BY <1>10, <1>12 DEF S, DivisionStates
  <2>6. Len(loop[n].r) + n <= n => loop[n].r = <<>>
    <3>1. Len(loop[n].r) \in Nat /\ (loop[n].r = <<>> <=> Len(loop[n].r) = 0)
      BY <2>5, DegreeIs
    <3> QED
      BY <1>1, <3>1
  <2> QED
    BY <2>4, <2>6 DEF T, Divisible
<1> QED
  BY <1>2, <1>3, <1>12, <1>13 DEF S, n

\* Nothing, or of a lower degree.
Short(r, d) == r = <<>> \/ Degree(r) < Degree(d)

\* divmod of any polynomials but by nothing; its quotient and its remainder
\* when the divisor has a leading coefficient.
LEMMA DivmodIs ==
  ASSUME NEW p \in Poly, NEW d \in Poly, d # <<>>
  PROVE  /\ divmod(p, d).q \in Poly /\ divmod(p, d).r \in Poly
         /\ IsNormal(p) => IsNormal(divmod(p, d).q) /\ IsNormal(divmod(p, d).r)
         /\ Lead(d) # zero =>
              /\ \A k \in Nat \ {0} :
                   Plus(Conv(divmod(p, d).q, d, k), Coefficient(divmod(p, d).r, k)) = Coefficient(p, k)
              /\ Short(divmod(p, d).r, d)
<1>0. Degree(p) \in Nat /\ Degree(d) \in Nat /\ Len(p) \in Nat
  BY DegreeIs
<1>1. CASE Degree(p) < Degree(d)
  <2>1. divmod(p, d) = [q |-> <<>>, r |-> p]
    BY <1>1 DEF divmod
  <2>2. <<>> \in Poly /\ IsNormal(<<>>)
    BY DEF Poly, IsNormal
  <2>3. ASSUME NEW k \in Nat \ {0} PROVE Plus(Conv(<<>>, d, k), Coefficient(p, k)) = Coefficient(p, k)
    <3>1. Conv(<<>>, d, k) = Coefficient(<<>>, k)
      BY <2>2, MulIs, MulEmpty
    <3>2. Coefficient(<<>>, k) = zero
      BY DEF Coefficient
    <3> QED
      BY <3>1, <3>2, PlusLaws DEF zero
  <2> QED
    BY <1>1, <2>1, <2>2, <2>3 DEF Short
<1>2. CASE Degree(p) >= Degree(d)
  <2> DEFINE s == DivisionLoop(p, d)[Len(p)]
             u == s.q
             v == s.r
             x == ensure_normalized(u)
             y == ensure_normalized(v)
  <2>1. s \in DivisionStates(p, d) /\ (Lead(d) # zero => ~Divisible(v, d))
        /\ divmod(p, d) = [q |-> x, r |-> y]
    <3>1. Len(p) \in 0 .. Len(p)
      BY <1>0
    <3> QED
      BY <1>2, <3>1, DivisionLoopIs
  <2> HIDE DEF s
  <2>2. /\ u \in Poly /\ v \in Poly
        /\ Lead(d) # zero => \A k \in Nat \ {0} : Plus(Conv(u, d, k), Coefficient(v, k)) = Coefficient(p, k)
    BY <2>1 DEF DivisionStates
  <2> HIDE DEF u, v
  <2>3. /\ x \in Poly /\ IsNormal(x) /\ Same(x, u) /\ y \in Poly /\ IsNormal(y) /\ Same(y, v)
        /\ Len(y) <= Len(v)
    BY <2>2, NormalizedIs
  <2> HIDE DEF x, y
  <2>4. ASSUME Lead(d) # zero, NEW k \in Nat \ {0}
        PROVE  Plus(Conv(x, d, k), Coefficient(y, k)) = Coefficient(p, k)
    <3>1. Conv(x, d, k) = Conv(u, d, k) /\ Coefficient(y, k) = Coefficient(v, k)
      BY <2>3, ConvSame DEF Same
    <3> QED
      BY <2>2, <2>4, <3>1
  <2>5. ASSUME Lead(d) # zero PROVE Short(y, d)
    <3>1. v = <<>> \/ ~(Degree(v) >= Degree(d))
      BY <2>1, <2>5 DEF Divisible
    <3>2. CASE v = <<>> \/ y = <<>>
      <4>1. v = <<>> => Len(v) = 0
        OBVIOUS
      <4>2. v = <<>> => Len(y) = 0
        BY <2>2, <2>3, <4>1, DegreeIs
      <4> QED
        BY <2>3, <3>2, <4>2, DegreeIs DEF Short
    <3>3. CASE v # <<>> /\ y # <<>>
      <4>1. Degree(v) + 1 = Len(v) /\ Degree(y) + 1 = Len(y) /\ Degree(v) \in Nat /\ Degree(y) \in Nat
        BY <2>2, <2>3, <3>3, DegreeIs
      <4>2. Degree(y) <= Degree(v) /\ Degree(v) < Degree(d)
        <5>1. \A a, b \in Nat : a + 1 <= b + 1 => a <= b
          OBVIOUS
        <5>2. \A a, b \in Nat : ~(a >= b) => a < b
          OBVIOUS
        <5>3. Degree(y) + 1 <= Degree(v) + 1
          BY <2>3, <4>1
        <5>4. Degree(y) <= Degree(v)
          BY <4>1, <5>1, <5>3, Zenon
        <5>5. ~(Degree(v) >= Degree(d))
          BY <3>1, <3>3
        <5>6. Degree(v) < Degree(d)
          BY <1>0, <4>1, <5>2, <5>5, Zenon
        <5> QED
          BY <5>4, <5>6
      <4> QED
        BY <1>0, <4>1, <4>2 DEF Short
    <3> QED
      BY <3>2, <3>3
  <2> QED
    BY <2>1, <2>3, <2>4, <2>5
<1> QED
  BY <1>0, <1>1, <1>2

-----------------------------------------------------------------------------
(* The ring of normal polynomials, and remainders.                          *)

NormalPoly == {p \in Poly : IsNormal(p)}

LEMMA AddLaws ==
  ASSUME NEW p \in Poly, NEW s \in Poly, NEW t \in Poly
  PROVE  /\ Add(p, s) = Add(s, p)
         /\ Add(Add(p, s), t) = Add(p, Add(s, t))
         /\ Add(p, p) = <<>>
         /\ IsNormal(p) => Add(p, <<>>) = p /\ Add(<<>>, p) = p
         /\ IsNormal(p) /\ IsNormal(s) /\ Add(p, s) = <<>> => p = s
<1>1. <<>> \in Poly /\ IsNormal(<<>>) /\ \A k \in Nat \ {0} : Coefficient(<<>>, k) = zero
  BY DEF Poly, IsNormal, Coefficient
<1>2. \A u, v \in Poly : /\ Add(u, v) \in Poly /\ IsNormal(Add(u, v))
                         /\ \A k \in Nat \ {0} : Coefficient(Add(u, v), k) = Plus(Coefficient(u, k), Coefficient(v, k))
  BY AddIs
<1>3. \A a, b, c : /\ Plus(a, b) = Plus(b, a) /\ Plus(Plus(a, b), c) = Plus(a, Plus(b, c))
                   /\ Plus(a, a) = zero /\ Plus(a, zero) = a /\ Plus(zero, a) = a
                   /\ (Plus(a, b) = zero => a = b)
  BY PlusLaws DEF zero
<1>4. \A u, v \in Poly : IsNormal(u) /\ IsNormal(v) /\ Same(u, v) => u = v
  BY NormalEqual
<1>5. Add(p, s) = Add(s, p)
  BY <1>2, <1>3, <1>4 DEF Same
<1>6. Add(Add(p, s), t) = Add(p, Add(s, t))
  <2>1. Same(Add(Add(p, s), t), Add(p, Add(s, t)))
    BY <1>2, <1>3 DEF Same
  <2> QED
    BY <1>2, <1>4, <2>1
<1>7. Add(p, p) = <<>>
  BY <1>1, <1>2, <1>3, <1>4 DEF Same
<1>8. IsNormal(p) => Add(p, <<>>) = p /\ Add(<<>>, p) = p
  BY <1>1, <1>2, <1>3, <1>4 DEF Same
<1>9. IsNormal(p) /\ IsNormal(s) /\ Add(p, s) = <<>> => p = s
  BY <1>1, <1>2, <1>3, <1>4 DEF Same
<1> QED
  BY <1>5, <1>6, <1>7, <1>8, <1>9

LEMMA MulAdds ==
  ASSUME NEW p \in Poly, NEW s \in Poly, NEW t \in Poly
  PROVE  /\ Mul(Add(p, s), t) = Add(Mul(p, t), Mul(s, t))
         /\ Mul(t, Add(p, s)) = Add(Mul(t, p), Mul(t, s))
<1>1. \A u, v \in Poly : /\ Add(u, v) \in Poly /\ IsNormal(Add(u, v))
                         /\ \A k \in Nat \ {0} : Coefficient(Add(u, v), k) = Plus(Coefficient(u, k), Coefficient(v, k))
  BY AddIs
<1>2. \A u, v \in Poly : /\ Mul(u, v) \in Poly /\ IsNormal(Mul(u, v))
                         /\ \A k \in Nat \ {0} : Coefficient(Mul(u, v), k) = Conv(u, v, k)
  BY MulIs
<1>3. \A k \in Nat \ {0} : Conv(Add(p, s), t, k) = Plus(Conv(p, t, k), Conv(s, t, k))
  BY <1>1, ConvAdds
<1>4. Mul(Add(p, s), t) = Add(Mul(p, t), Mul(s, t))
  <2>1. Same(Mul(Add(p, s), t), Add(Mul(p, t), Mul(s, t)))
    BY <1>1, <1>2, <1>3 DEF Same
  <2> QED
    BY <1>1, <1>2, <2>1, NormalEqual
<1>5. Mul(t, Add(p, s)) = Add(Mul(t, p), Mul(t, s))
  <2>1. Mul(t, p) = Mul(p, t) /\ Mul(t, s) = Mul(s, t) /\ Mul(t, Add(p, s)) = Mul(Add(p, s), t)
    BY <1>1, MulCommutes
  <2> QED
    BY <1>4, <2>1
<1> QED
  BY <1>4, <1>5

LEMMA NormalPolyIs ==
  /\ <<>> \in NormalPoly /\ NormalPoly \subseteq Poly
  /\ \A p, s \in Poly : Add(p, s) \in NormalPoly /\ Mul(p, s) \in NormalPoly
  /\ \A p \in NormalPoly : IsNormal(p) /\ ensure_normalized(p) = p
  /\ \A p \in NormalPoly : p # <<>> => Lead(p) # zero
<1>1. <<>> \in NormalPoly
  BY DEF Poly, IsNormal, NormalPoly
<1> QED
  BY <1>1, AddIs, MulIs, NormalizedSame DEF NormalPoly, IsNormal

\* d divides p.
DividedBy(p, d) == \E u \in NormalPoly : p = Mul(u, d)

LEMMA DividedAdds ==
  ASSUME NEW p \in Poly, NEW s \in Poly, NEW d \in Poly, DividedBy(p, d), DividedBy(s, d)
  PROVE  DividedBy(Add(p, s), d)
<1>1. PICK u \in NormalPoly, v \in NormalPoly : p = Mul(u, d) /\ s = Mul(v, d)
  BY DEF DividedBy
<1>2. u \in Poly /\ v \in Poly /\ Add(u, v) \in NormalPoly
  BY NormalPolyIs
<1>3. Add(p, s) = Mul(Add(u, v), d)
  BY <1>1, <1>2, MulAdds
<1> QED
  BY <1>2, <1>3 DEF DividedBy

LEMMA DividedMul ==
  ASSUME NEW p \in Poly, NEW s \in Poly, NEW d \in Poly, DividedBy(p, d)
  PROVE  DividedBy(Mul(s, p), d) /\ DividedBy(Mul(p, s), d)
<1>1. PICK u \in NormalPoly : p = Mul(u, d)
  BY DEF DividedBy
<1>2. u \in Poly /\ Mul(s, u) \in NormalPoly
  BY NormalPolyIs
<1>3. Mul(s, p) = Mul(Mul(s, u), d)
  BY <1>1, <1>2, MulAssociates
<1> QED
  BY <1>2, <1>3, MulCommutes DEF DividedBy

LEMMA ShortIs ==
  ASSUME NEW r \in Poly, NEW d \in Poly, d # <<>>
  PROVE  Short(r, d) <=> Len(r) < Len(d)
<1>1. /\ Len(r) \in Nat /\ Degree(r) \in Nat /\ Degree(d) \in Nat /\ Len(d) = Degree(d) + 1
      /\ (r = <<>> <=> Len(r) = 0) /\ (r # <<>> => Len(r) = Degree(r) + 1)
  BY DegreeIs
<1>2. PICK l \in Nat, x \in Nat, y \in Nat : l = Len(r) /\ x = Degree(r) /\ y = Degree(d)
  BY <1>1
<1>3. CASE r = <<>>
  <2>1. l = 0
    BY <1>1, <1>2, <1>3
  <2>2. l < y + 1
    BY <2>1
  <2> QED
    BY <1>1, <1>2, <1>3, <2>2 DEF Short
<1>4. CASE r # <<>>
  <2>1. l = x + 1
    BY <1>1, <1>2, <1>4
  <2>2. x < y <=> l < y + 1
    BY <2>1
  <2> QED
    BY <1>1, <1>2, <1>4, <2>2 DEF Short
<1> QED
  BY <1>3, <1>4

LEMMA ShortAdds ==
  ASSUME NEW r \in Poly, NEW s \in Poly, NEW d \in Poly, d # <<>>, Short(r, d), Short(s, d)
  PROVE  Short(Add(r, s), d)
<1>1. Len(r) < Len(d) /\ Len(s) < Len(d)
  BY ShortIs
<1>2. Len(r) \in Nat /\ Len(s) \in Nat /\ Len(d) \in Nat
  BY DegreeIs
<1>3. PICK n \in Nat : Len(d) = n + 1
  <2>1. \A a, b \in Nat : a < b => \E n \in Nat : b = n + 1
    <3>1. \A a, b \in Nat : a < b => b - 1 \in Nat /\ b = (b - 1) + 1
      OBVIOUS
    <3> QED
      BY <3>1
  <2> QED
    BY <1>1, <1>2, <2>1, Zenon
<1>4. ASSUME NEW k \in Nat \ {0}, k > n PROVE Coefficient(Add(r, s), k) = zero
  <2>1. k > Len(r) /\ k > Len(s)
    BY <1>1, <1>2, <1>3, <1>4
  <2>2. Coefficient(r, k) = zero /\ Coefficient(s, k) = zero
    BY <2>1, CoefficientsAreElements
  <2>3. Coefficient(Add(r, s), k) = Plus(zero, zero)
    BY <2>2, AddIs
  <2> QED
    BY <2>3, PlusLaws DEF zero
<1>5. Len(Add(r, s)) <= n
  BY <1>4, AddIs, LengthAtMost
<1>6. Add(r, s) \in Poly /\ Len(Add(r, s)) \in Nat
  BY AddIs, DegreeIs
<1>7. Len(Add(r, s)) < Len(d)
  BY <1>3, <1>5, <1>6
<1> QED
  BY <1>6, <1>7, ShortIs

\* A multiple that is shorter than the divisor is nothing.
LEMMA ShortMultiple ==
  ASSUME NEW d \in NormalPoly, d # <<>>, NEW p, DividedBy(p, d), Short(p, d)
  PROVE  p = <<>>
<1>1. PICK u \in NormalPoly : p = Mul(u, d)
  BY DEF DividedBy
<1>2. u \in Poly /\ d \in Poly /\ p \in Poly
  BY <1>1, NormalPolyIs
<1>3. CASE u = <<>>
  BY <1>1, <1>2, <1>3, MulEmpty
<1>4. CASE u # <<>>
  <2>1. Len(p) = Len(u) + Len(d) - 1
    BY <1>1, <1>2, <1>4, MulLength, NormalPolyIs
  <2>2. Len(u) \in Nat \ {0} /\ Len(d) \in Nat
    BY <1>2, <1>4, DegreeIs
  <2>3. ~(Len(p) < Len(d))
    BY <2>1, <2>2
  <2> QED
    BY <1>2, <2>3, ShortIs
<1> QED
  BY <1>3, <1>4

\* Division of normal polynomials.
LEMMA DivmodOfNormal ==
  ASSUME NEW d \in NormalPoly, d # <<>>, NEW p \in NormalPoly
  PROVE  /\ divmod(p, d).q \in NormalPoly /\ divmod(p, d).r \in NormalPoly
         /\ p = Add(Mul(divmod(p, d).q, d), divmod(p, d).r)
         /\ DividedBy(Add(p, divmod(p, d).r), d)
         /\ Short(divmod(p, d).r, d)
<1> DEFINE q == divmod(p, d).q
           r == divmod(p, d).r
<1>1. d \in Poly /\ p \in Poly /\ IsNormal(p) /\ Lead(d) # zero
  BY NormalPolyIs
<1>2. /\ q \in Poly /\ r \in Poly /\ q \in NormalPoly /\ r \in NormalPoly /\ Short(r, d)
      /\ \A k \in Nat \ {0} : Plus(Conv(q, d, k), Coefficient(r, k)) = Coefficient(p, k)
  BY <1>1, DivmodIs DEF NormalPoly
<1> HIDE DEF q, r
<1>3. Mul(q, d) \in Poly /\ IsNormal(Mul(q, d)) /\ \A k \in Nat \ {0} : Coefficient(Mul(q, d), k) = Conv(q, d, k)
  BY <1>1, <1>2, MulIs
<1>4. Add(Mul(q, d), r) \in Poly /\ IsNormal(Add(Mul(q, d), r)) /\ Same(p, Add(Mul(q, d), r))
  BY <1>2, <1>3, AddIs DEF Same
<1>5. p = Add(Mul(q, d), r)
  BY <1>1, <1>4, NormalEqual
<1>6. Add(p, r) = Mul(q, d)
  <2>1. Add(Add(Mul(q, d), r), r) = Add(Mul(q, d), Add(r, r))
    BY <1>2, <1>3, AddLaws
  <2>2. Add(r, r) = <<>>
    BY <1>2, AddLaws
  <2>3. Add(Mul(q, d), <<>>) = Mul(q, d)
    BY <1>3, AddLaws
  <2> QED
    BY <1>5, <2>1, <2>2, <2>3
<1> QED
  BY <1>2, <1>5, <1>6 DEF q, r, DividedBy

\* Remainders are equal when the difference is a multiple.
LEMMA RemaindersEqual ==
  ASSUME NEW d \in NormalPoly, d # <<>>, NEW p \in NormalPoly, NEW s \in NormalPoly,
         DividedBy(Add(p, s), d)
  PROVE  divmod(p, d).r = divmod(s, d).r
<1> DEFINE u == divmod(p, d).r
           v == divmod(s, d).r
<1>1. u \in NormalPoly /\ v \in NormalPoly /\ DividedBy(Add(p, u), d) /\ DividedBy(Add(s, v), d)
      /\ Short(u, d) /\ Short(v, d)
  BY DivmodOfNormal
<1> HIDE DEF u, v
<1>2. /\ p \in Poly /\ s \in Poly /\ u \in Poly /\ v \in Poly /\ d \in Poly
      /\ \A x, y \in Poly : Add(x, y) \in Poly
  BY <1>1, NormalPolyIs
<1>3. Add(Add(Add(p, s), Add(p, u)), Add(s, v)) = Add(u, v)
  <2>1. \A x, y, z \in Poly : Add(Add(x, y), z) = Add(x, Add(y, z)) /\ Add(x, y) = Add(y, x)
                              /\ Add(x, x) = <<>>
    BY AddLaws
  <2>2. Add(u, <<>>) = u /\ Add(<<>>, u) = u /\ Add(v, <<>>) = v /\ Add(<<>>, v) = v
        /\ Add(<<>>, Add(u, v)) = Add(u, v)
    BY <1>1, <1>2, AddLaws, NormalPolyIs
  <2>3. Add(Add(p, s), Add(p, u)) = Add(s, u)
    <3>1. Add(Add(p, s), Add(p, u)) = Add(Add(s, p), Add(p, u))
      BY <1>2, <2>1
    <3>2. Add(Add(s, p), Add(p, u)) = Add(s, Add(p, Add(p, u)))
      BY <1>2, <2>1
    <3>3. Add(p, Add(p, u)) = Add(Add(p, p), u)
      BY <1>2, <2>1
    <3> QED
      BY <1>2, <2>1, <2>2, <3>1, <3>2, <3>3
  <2>4. Add(Add(s, u), Add(s, v)) = Add(u, v)
    <3>1. Add(Add(s, u), Add(s, v)) = Add(Add(u, s), Add(s, v))
      BY <1>2, <2>1
    <3>2. Add(Add(u, s), Add(s, v)) = Add(u, Add(s, Add(s, v)))
      BY <1>2, <2>1
    <3>3. Add(s, Add(s, v)) = Add(Add(s, s), v)
      BY <1>2, <2>1
    <3> QED
      BY <1>2, <2>1, <2>2, <3>1, <3>2, <3>3
  <2> QED
    BY <2>3, <2>4
<1>4. DividedBy(Add(u, v), d)
  BY <1>1, <1>2, <1>3, DividedAdds
<1>5. Short(Add(u, v), d)
  BY <1>1, <1>2, ShortAdds
<1>6. Add(u, v) = <<>>
  BY <1>4, <1>5, ShortMultiple
<1>7. u = v
  BY <1>1, <1>2, <1>6, AddLaws, NormalPolyIs
<1> QED
  BY <1>7 DEF u, v

LEMMA RemainderOfShort ==
  ASSUME NEW d \in NormalPoly, d # <<>>, NEW p \in NormalPoly, Short(p, d)
  PROVE  divmod(p, d).r = p
<1> DEFINE u == divmod(p, d).r
<1>1. u \in NormalPoly /\ DividedBy(Add(p, u), d) /\ Short(u, d)
  BY DivmodOfNormal
<1> HIDE DEF u
<1>2. p \in Poly /\ u \in Poly /\ d \in Poly /\ IsNormal(p) /\ IsNormal(u)
  BY <1>1, NormalPolyIs
<1>3. Add(p, u) = <<>>
  BY <1>1, <1>2, ShortAdds, ShortMultiple
<1> QED
  BY <1>2, <1>3, AddLaws DEF u

\* A remainder is its own one, and products may be reduced before or after.
LEMMA RemainderOfRemainder ==
  ASSUME NEW d \in NormalPoly, d # <<>>, NEW p \in NormalPoly
  PROVE  divmod(divmod(p, d).r, d).r = divmod(p, d).r
BY DivmodOfNormal, RemainderOfShort

LEMMA RemainderOfMul ==
  ASSUME NEW d \in NormalPoly, d # <<>>, NEW p \in NormalPoly, NEW s \in NormalPoly
  PROVE  divmod(Mul(p, s), d).r = divmod(Mul(divmod(p, d).r, divmod(s, d).r), d).r
<1> DEFINE u == divmod(p, d).r
           v == divmod(s, d).r
<1>1. u \in NormalPoly /\ v \in NormalPoly /\ DividedBy(Add(p, u), d) /\ DividedBy(Add(s, v), d)
  BY DivmodOfNormal
<1> HIDE DEF u, v
<1>2. /\ p \in Poly /\ s \in Poly /\ u \in Poly /\ v \in Poly /\ d \in Poly
      /\ \A x, y \in Poly : Add(x, y) \in Poly /\ Mul(x, y) \in Poly /\ Mul(x, y) \in NormalPoly
  BY <1>1, NormalPolyIs
<1>3. Add(Mul(p, s), Mul(u, v)) = Add(Mul(Add(p, u), s), Mul(u, Add(s, v)))
  <2>1. Mul(Add(p, u), s) = Add(Mul(p, s), Mul(u, s)) /\ Mul(u, Add(s, v)) = Add(Mul(u, s), Mul(u, v))
    BY <1>2, MulAdds
  <2> DEFINE x == Mul(p, s)
             y == Mul(u, s)
             z == Mul(u, v)
  <2>2. x \in Poly /\ y \in Poly /\ z \in Poly /\ IsNormal(z) /\ z \in NormalPoly
    BY <1>2, NormalPolyIs
  <2> HIDE DEF x, y, z
  <2>3. Add(Add(x, y), Add(y, z)) = Add(x, z)
    <3>1. Add(Add(x, y), Add(y, z)) = Add(x, Add(y, Add(y, z)))
      BY <1>2, <2>2, AddLaws
    <3>2. Add(y, Add(y, z)) = Add(Add(y, y), z)
      BY <2>2, AddLaws
    <3>3. Add(y, y) = <<>> /\ Add(<<>>, z) = z
      BY <2>2, AddLaws
    <3> QED
      BY <3>1, <3>2, <3>3
  <2> QED
    BY <2>1, <2>3 DEF x, y, z
<1>4. DividedBy(Mul(Add(p, u), s), d) /\ DividedBy(Mul(u, Add(s, v)), d)
  BY <1>1, <1>2, DividedMul
<1>5. DividedBy(Add(Mul(p, s), Mul(u, v)), d)
  BY <1>2, <1>3, <1>4, DividedAdds
<1>6. divmod(Mul(p, s), d).r = divmod(Mul(u, v), d).r
  BY <1>2, <1>5, RemaindersEqual
<1> QED
  BY <1>6 DEF u, v

-----------------------------------------------------------------------------
(* Greatest common divisors.                                                *)

LEMMA ConstantIs ==
  ASSUME NEW c \in Element
  PROVE  /\ <<c>> \in Poly /\ (c # zero => <<c>> \in NormalPoly)
         /\ \A p \in Poly : \A k \in Nat \ {0} : Coefficient(Mul(<<c>>, p), k) = Times(c, Coefficient(p, k))
<1>1. <<c>> \in Poly /\ Len(<<c>>) = 1 /\ <<c>>[1] = c
  BY DEF Poly
<1>2. c # zero => <<c>> \in NormalPoly
  BY <1>1, NormalLength DEF NormalPoly
<1>3. Coefficient(<<c>>, 1) = c /\ \A m \in Nat \ {0} : m # 1 => Coefficient(<<c>>, m) = zero
  BY <1>1 DEF Coefficient
<1>4. ASSUME NEW p \in Poly, NEW k \in Nat \ {0}
      PROVE  Coefficient(Mul(<<c>>, p), k) = Times(c, Coefficient(p, k))
  <2>1. Conv(<<c>>, p, k) = IF k >= 1 THEN Times(Coefficient(<<c>>, 1), Coefficient(p, k + 1 - 1)) ELSE zero
    BY <1>1, <1>3, ConvOfMonomial
  <2>2. k >= 1 /\ k + 1 - 1 = k
    OBVIOUS
  <2>3. Coefficient(Mul(<<c>>, p), k) = Conv(<<c>>, p, k)
    BY <1>1, MulIs
  <2> QED
    BY <1>3, <2>1, <2>2, <2>3
<1> QED
  BY <1>1, <1>2, <1>4

LEMMA MulOne ==
  ASSUME NEW p \in NormalPoly
  PROVE  Mul(<<one>>, p) = p /\ Mul(p, <<one>>) = p /\ <<one>> \in NormalPoly
<1>1. one \in Element /\ one # zero
  BY ElementPlus DEF one, zero
<1>2. <<one>> \in NormalPoly /\ <<one>> \in Poly /\ p \in Poly /\ IsNormal(p)
  BY <1>1, ConstantIs, NormalPolyIs
<1>3. Same(Mul(<<one>>, p), p)
  <2>1. \A k \in Nat \ {0} : Coefficient(Mul(<<one>>, p), k) = Times(one, Coefficient(p, k))
    BY <1>1, <1>2, ConstantIs
  <2>2. \A k \in Nat \ {0} : Times(one, Coefficient(p, k)) = Coefficient(p, k)
    BY <1>2, CoefficientsAreElements, TimesZeroOne
  <2> QED
    BY <2>1, <2>2 DEF Same
<1>4. Mul(<<one>>, p) = p
  BY <1>2, <1>3, MulIs, NormalEqual
<1> QED
  BY <1>2, <1>4, MulCommutes

LEMMA MonicIs ==
  ASSUME NEW p \in NormalPoly, p # <<>>
  PROVE  /\ ensure_monic(p) \in NormalPoly /\ ensure_monic(p) # <<>>
         /\ Len(ensure_monic(p)) = Len(p) /\ Lead(ensure_monic(p)) = one
         /\ \E c \in Element \ {zero} : Mul(<<c>>, p) = ensure_monic(p)
         /\ \E c \in Element \ {zero} : Mul(<<c>>, ensure_monic(p)) = p
<1> DEFINE L == Lead(p)
           c == modular_inverse[L]
           n == ensure_monic(p)
<1>1. p \in Poly /\ IsNormal(p) /\ ensure_normalized(p) = p /\ L # zero
  BY NormalPolyIs
<1>2. L \in Element /\ Len(p) \in Nat /\ Len(p) >= 1 /\ L = Coefficient(p, Len(p))
  BY <1>1, DegreeIs
<1>3. n = Mul(<<c>>, p)
  BY <1>1 DEF ensure_monic
<1> HIDE DEF n
<1>4. c \in Element /\ Times(c, L) = one /\ Times(L, c) = one
  <2>1. c \in Element
    BY <1>2, Inverses
  <2>2. Times(Over(one, L), L) = one /\ Over(one, L) = Times(one, c)
    BY <1>1, <1>2, ElementPlus, Inverses DEF Over
  <2>3. Times(one, c) = c
    BY <2>1, TimesZeroOne
  <2> QED
    BY <1>2, <2>1, <2>2, <2>3, TimesCommutes
<1> HIDE DEF c
<1>5. c # zero
  <2>1. one # zero /\ Times(zero, L) = zero
    BY <1>2, TimesZeroOne DEF one, zero
  <2> QED
    BY <1>4, <2>1
<1>6. <<c>> \in NormalPoly /\ <<c>> \in Poly /\ <<L>> \in Poly /\ <<c>> # <<>> /\ Len(<<c>>) = 1
  BY <1>2, <1>4, <1>5, ConstantIs
<1>7. n \in NormalPoly /\ n \in Poly /\ IsNormal(n)
  BY <1>1, <1>3, <1>6, NormalPolyIs
<1>8. Len(n) = Len(p)
  <2>1. IsNormal(<<c>>)
    BY <1>6, NormalPolyIs
  <2>2. Len(n) = Len(<<c>>) + Len(p) - 1
    BY <1>1, <1>3, <1>6, <2>1, MulLength
  <2> QED
    BY <1>2, <1>6, <2>2
<1>9. n # <<>>
  BY <1>2, <1>7, <1>8, DegreeIs
<1>10. \A k \in Nat \ {0} : Coefficient(n, k) = Times(c, Coefficient(p, k))
  BY <1>1, <1>3, <1>4, ConstantIs
<1>11. Lead(n) = one
  <2>1. Lead(n) = Coefficient(n, Len(n)) /\ Len(p) \in Nat \ {0}
    BY <1>2, <1>7, <1>9, DegreeIs
  <2> QED
    BY <1>2, <1>4, <1>8, <1>10, <2>1
<1>12. Mul(<<L>>, n) = p
  <2>1. ASSUME NEW k \in Nat \ {0} PROVE Coefficient(Mul(<<L>>, n), k) = Coefficient(p, k)
    <3> DEFINE a == Coefficient(p, k)
    <3>1. a \in Element
      BY <1>1, CoefficientsAreElements
    <3>2. Coefficient(Mul(<<L>>, n), k) = Times(L, Coefficient(n, k)) /\ Coefficient(n, k) = Times(c, a)
      BY <1>2, <1>7, <1>10, ConstantIs
    <3> HIDE DEF a
    <3>3. Times(L, Times(c, a)) = Times(Times(L, c), a)
      BY <1>2, <1>4, <3>1, TimesAssociates
    <3>4. Times(one, a) = a
      BY <3>1, TimesZeroOne
    <3> QED
      BY <1>4, <3>2, <3>3, <3>4 DEF a
  <2>2. Mul(<<L>>, n) \in Poly /\ IsNormal(Mul(<<L>>, n))
    BY <1>6, <1>7, MulIs
  <2> QED
    BY <1>1, <2>1, <2>2, NormalEqual DEF Same
<1> QED
  BY <1>1, <1>2, <1>3, <1>4, <1>5, <1>7, <1>8, <1>9, <1>11, <1>12 DEF n

LEMMA MonicOfEmpty == ensure_monic(<<>>) = <<>>
<1>1. ensure_normalized(<<>>) = <<>>
  BY NormalPolyIs
<1> QED
  BY <1>1 DEF ensure_monic

LEMMA MonicOfMonic ==
  ASSUME NEW p \in NormalPoly, p # <<>>, Lead(p) = one
  PROVE  ensure_monic(p) = p
<1>1. modular_inverse[one] = one
  <2>1. one \in Element /\ one # zero /\ modular_inverse[one] \in Element
    BY ElementPlus, Inverses DEF one, zero
  <2>2. Times(Over(one, one), one) = one /\ Over(one, one) = Times(one, modular_inverse[one])
    BY <2>1, Inverses DEF Over
  <2> QED
    BY <2>1, <2>2, TimesZeroOne
<1>2. ensure_normalized(p) = p
  BY NormalPolyIs
<1>3. ensure_monic(p) = Mul(<<one>>, p)
  BY <1>1, <1>2 DEF ensure_monic
<1> QED
  BY <1>3, MulOne

LEMMA DividedByLaws ==
  /\ \A d \in NormalPoly : DividedBy(<<>>, d) /\ DividedBy(d, d)
  /\ \A p \in NormalPoly : DividedBy(p, <<one>>)
  /\ \A p \in NormalPoly : DividedBy(p, <<>>) => p = <<>>
<1>1. ASSUME NEW d \in NormalPoly PROVE DividedBy(<<>>, d) /\ DividedBy(d, d)
  <2>1. d \in Poly /\ <<>> \in NormalPoly
    BY NormalPolyIs
  <2>2. <<>> = Mul(<<>>, d) /\ d = Mul(<<one>>, d) /\ <<one>> \in NormalPoly
    BY <2>1, MulEmpty, MulOne
  <2> QED
    BY <2>1, <2>2 DEF DividedBy
<1>2. ASSUME NEW p \in NormalPoly PROVE DividedBy(p, <<one>>)
  BY MulOne DEF DividedBy
<1>3. ASSUME NEW p \in NormalPoly, DividedBy(p, <<>>) PROVE p = <<>>
  <2>1. PICK u \in NormalPoly : p = Mul(u, <<>>)
    BY <1>3 DEF DividedBy
  <2>2. u \in Poly /\ <<>> \in Poly
    BY NormalPolyIs
  <2> QED
    BY <2>1, <2>2, MulEmpty, MulCommutes
<1> QED
  BY <1>1, <1>2, <1>3

\* A divisor and the quotient are not longer than what they divide.
LEMMA DividedLength ==
  ASSUME NEW p \in NormalPoly, p # <<>>, NEW u \in NormalPoly, NEW d \in NormalPoly, p = Mul(u, d)
  PROVE  /\ u # <<>> /\ d # <<>> /\ Len(p) = Len(u) + Len(d) - 1
         /\ Len(u) <= Len(p) /\ Len(d) <= Len(p)
<1>1. u \in Poly /\ d \in Poly /\ IsNormal(u) /\ IsNormal(d)
  BY NormalPolyIs
<1>2. u # <<>> /\ d # <<>>
  BY <1>1, MulEmpty, MulCommutes
<1>3. Len(p) = Len(u) + Len(d) - 1
  BY <1>1, <1>2, MulLength
<1>4. Len(u) \in Nat /\ Len(u) # 0 /\ Len(d) \in Nat /\ Len(d) # 0
  BY <1>1, <1>2, DegreeIs
<1>5. \A a, b \in Nat : a # 0 /\ b # 0 => a <= a + b - 1 /\ b <= a + b - 1
  OBVIOUS
<1>6. Len(u) <= Len(u) + Len(d) - 1 /\ Len(d) <= Len(u) + Len(d) - 1
  BY <1>4, <1>5
<1> QED
  BY <1>2, <1>3, <1>6

LEMMA DividedTransitive ==
  ASSUME NEW p, NEW s \in NormalPoly, NEW d \in NormalPoly, DividedBy(p, s), DividedBy(s, d)
  PROVE  DividedBy(p, d)
<1>1. PICK u \in NormalPoly : p = Mul(u, s)
  BY DEF DividedBy
<1>2. u \in Poly /\ s \in Poly /\ d \in Poly
  BY NormalPolyIs
<1> QED
  BY <1>1, <1>2, DividedMul

\* A polynomial and the monic one divide each other.
LEMMA MonicDivides ==
  ASSUME NEW p \in NormalPoly, NEW d \in NormalPoly
  PROVE  /\ ensure_monic(p) \in NormalPoly
         /\ DividedBy(ensure_monic(p), d) <=> DividedBy(p, d)
         /\ DividedBy(d, ensure_monic(p)) <=> DividedBy(d, p)
<1>1. CASE p = <<>>
  BY <1>1, MonicOfEmpty
<1>2. CASE p # <<>>
  <2> DEFINE n == ensure_monic(p)
  <2>1. n \in NormalPoly
    BY <1>2, MonicIs
  <2>2. PICK c \in Element \ {zero} : Mul(<<c>>, p) = n
    BY <1>2, MonicIs
  <2>3. PICK e \in Element \ {zero} : Mul(<<e>>, n) = p
    BY <1>2, MonicIs
  <2> HIDE DEF n
  <2>4. <<c>> \in NormalPoly /\ <<e>> \in NormalPoly /\ <<c>> \in Poly /\ <<e>> \in Poly
        /\ p \in Poly /\ n \in Poly /\ d \in Poly
    BY <2>1, ConstantIs, NormalPolyIs
  <2>5. DividedBy(n, d) <=> DividedBy(p, d)
    BY <2>2, <2>3, <2>4, DividedMul
  <2>6. DividedBy(n, p) /\ DividedBy(p, n)
    BY <2>2, <2>3, <2>4 DEF DividedBy
  <2>7. DividedBy(d, n) <=> DividedBy(d, p)
    BY <2>1, <2>6, DividedTransitive
  <2> QED
    BY <2>1, <2>5, <2>7 DEF n
<1> QED
  BY <1>1, <1>2

\* A round of Euclid's algorithm keeps the common divisors.
LEMMA CommonDivisors ==
  ASSUME NEW p \in NormalPoly, NEW d \in NormalPoly, NEW r \in NormalPoly, DividedBy(Add(p, r), d),
         NEW e \in NormalPoly
  PROVE  DividedBy(p, e) /\ DividedBy(d, e) <=> DividedBy(d, e) /\ DividedBy(r, e)
<1>1. p \in Poly /\ d \in Poly /\ r \in Poly /\ e \in Poly /\ Add(p, r) \in Poly
      /\ Add(p, r) \in NormalPoly
  BY NormalPolyIs
<1>2. Add(Add(p, r), r) = p /\ Add(p, Add(p, r)) = r
  <2>1. Add(Add(p, r), r) = Add(p, Add(r, r)) /\ Add(p, Add(p, r)) = Add(Add(p, p), r)
    BY <1>1, AddLaws
  <2>2. Add(r, r) = <<>> /\ Add(p, p) = <<>>
    BY <1>1, AddLaws
  <2>3. Add(p, <<>>) = p /\ Add(<<>>, r) = r
    BY <1>1, AddLaws, NormalPolyIs
  <2> QED
    BY <2>1, <2>2, <2>3
<1>3. DividedBy(d, e) => DividedBy(Add(p, r), e)
  BY <1>1, DividedTransitive
<1>4. DividedBy(Add(p, r), e) /\ DividedBy(r, e) => DividedBy(Add(Add(p, r), r), e)
  BY <1>1, DividedAdds
<1>5. DividedBy(Add(p, r), e) /\ DividedBy(p, e) => DividedBy(Add(p, Add(p, r)), e)
  BY <1>1, DividedAdds
<1> QED
  BY <1>2, <1>3, <1>4, <1>5

\* The loop of gcd.
GcdLoop(p, g) ==
  LET rounds == Len(p) + Len(g)
      loop[k \in 0 .. rounds] ==
        IF k = 0 THEN [a |-> p, b |-> g]
        ELSE LET s == loop[k - 1]
             IN IF s.b = <<>> THEN s ELSE [a |-> s.b, b |-> divmod(s.a, s.b).r]
  IN loop

GcdStates == [a : NormalPoly, b : NormalPoly]

GcdNext(s) == IF s.b = <<>> THEN s ELSE [a |-> s.b, b |-> divmod(s.a, s.b).r]

LEMMA GcdNextIs ==
  ASSUME NEW s \in GcdStates
  PROVE  /\ GcdNext(s) \in GcdStates
         /\ s.b # <<>> => Len(GcdNext(s).b) < Len(s.b)
         /\ s.b = <<>> => GcdNext(s) = s
         /\ \A e \in NormalPoly :
              DividedBy(s.a, e) /\ DividedBy(s.b, e) <=> DividedBy(GcdNext(s).a, e) /\ DividedBy(GcdNext(s).b, e)
<1>1. CASE s.b = <<>>
  BY <1>1 DEF GcdNext
<1>2. CASE s.b # <<>>
  <2> DEFINE a == s.a
             b == s.b
             r == divmod(a, b).r
  <2>1. a \in NormalPoly /\ b \in NormalPoly /\ b # <<>> /\ b \in Poly
    BY <1>2, NormalPolyIs DEF GcdStates
  <2>2. GcdNext(s) = [a |-> b, b |-> r]
    BY <1>2 DEF GcdNext
  <2> HIDE DEF a, b
  <2>3. r \in NormalPoly /\ DividedBy(Add(a, r), b) /\ Short(r, b)
    BY <2>1, DivmodOfNormal
  <2> HIDE DEF r
  <2>4. Len(r) < Len(b)
    BY <2>1, <2>3, ShortIs, NormalPolyIs
  <2>5. \A e \in NormalPoly : DividedBy(a, e) /\ DividedBy(b, e) <=> DividedBy(b, e) /\ DividedBy(r, e)
    BY <2>1, <2>3, CommonDivisors
  <2>6. GcdNext(s).a = b /\ GcdNext(s).b = r /\ GcdNext(s) \in GcdStates
    BY <2>1, <2>2, <2>3 DEF GcdStates
  <2> QED
    BY <1>2, <2>4, <2>5, <2>6 DEF a, b
<1> QED
  BY <1>1, <1>2

LEMMA GcdLoopIs ==
  ASSUME NEW p \in NormalPoly, NEW g \in NormalPoly
  PROVE  /\ Len(p) + Len(g) \in Nat
         /\ GcdLoop(p, g)[0] = [a |-> p, b |-> g]
         /\ \A k \in 1 .. Len(p) + Len(g) :
              GcdLoop(p, g)[k - 1] \in GcdStates /\ GcdLoop(p, g)[k] = GcdNext(GcdLoop(p, g)[k - 1])
         /\ \A k \in 0 .. Len(p) + Len(g) : GcdLoop(p, g)[k] \in GcdStates
         /\ gcd(p, g) = GcdLoop(p, g)[Len(p) + Len(g)].a
<1> DEFINE n == Len(p) + Len(g)
           S == GcdStates
           x == [a |-> p, b |-> g]
           next(s) == GcdNext(s)
           step == [k \in 1 .. n |-> [s \in S |-> next(s)]]
           Rule(h) == [k \in 0 .. n |-> IF k = 0 THEN x ELSE next(h[k - 1])]
           loop == CHOOSE h : h = Rule(h)
<1>0. GcdLoop(p, g) = loop /\ gcd(p, g) = loop[n].a
  BY DEF GcdLoop, gcd, GcdNext
<1>1. x \in S /\ (\A s \in S : next(s) \in S) /\ n \in Nat
  <2>1. \A s \in S : next(s) \in S
    BY GcdNextIs
  <2>2. Len(p) \in Nat /\ Len(g) \in Nat
    BY NormalPolyIs, DegreeIs
  <2> QED
    BY <2>1, <2>2 DEF GcdStates
<1> HIDE DEF S, x, next, n
<1>2. step \in [1 .. n -> [S -> S]]
  BY <1>1
<1>3. PICK h \in [0 .. n -> S] : Runs(h, x, step, n)
  <2> HIDE DEF step
  <2> QED
    BY <1>1, <1>2, Recursion
<1>4. \A k \in 0 .. n : h[k] = IF k = 0 THEN x ELSE next(h[k - 1])
  <2>0. \A k \in 1 .. n : k - 1 \in 0 .. n
    BY <1>1
  <2>1. \A k \in 1 .. n : k - 1 \in 0 .. n /\ h[k - 1] \in S
    BY <2>0, Zenon
  <2>2. \A k \in 1 .. n, s \in S : step[k][s] = next(s)
    OBVIOUS
  <2> HIDE DEF step
  <2>3. h[0] = x /\ \A k \in 1 .. n : h[k] = step[k][h[k - 1]]
    BY <1>3 DEF Runs
  <2>4. \A k \in 0 .. n : k # 0 => k \in 1 .. n
    BY <1>1
  <2> QED
    BY <2>1, <2>2, <2>3, <2>4
<1>5. h = Rule(h)
  BY <1>4
<1>6. loop = Rule(loop)
  <2> HIDE DEF Rule
  <2> QED
    BY <1>5
<1> HIDE DEF loop, step
<1>7. \A k \in 1 .. n : k \in 0 .. n /\ k # 0
  BY <1>1
<1>8. loop[0] = x /\ \A k \in 1 .. n : loop[k] = next(loop[k - 1])
  <2>1. 0 \in 0 .. n
    BY <1>1
  <2> QED
    BY <1>6, <1>7, <2>1
<1>9. \A k \in 0 .. n : loop[k] \in S
  <2>1. loop[0] \in S /\ \A k \in 1 .. n : loop[k - 1] \in S => loop[k] \in S
    BY <1>1, <1>8
  <2> QED
    BY <1>1, <2>1, StaysIn
<1>10. \A k \in 1 .. n : k - 1 \in 0 .. n
  BY <1>1
<1> QED
  BY <1>0, <1>1, <1>8, <1>9, <1>10 DEF S, x, next, n

\* The loop of gcd ends, and what it returns has the common divisors of both
\* as its divisors.
LEMMA GcdIs ==
  ASSUME NEW p \in NormalPoly, NEW g \in NormalPoly
  PROVE  /\ gcd(p, g) \in NormalPoly
         /\ \A e \in NormalPoly : DividedBy(p, e) /\ DividedBy(g, e) <=> DividedBy(gcd(p, g), e)
<1> DEFINE n == Len(p) + Len(g)
           loop == GcdLoop(p, g)
           T == {k \in 0 .. n :
                   /\ \A e \in NormalPoly :
                        DividedBy(p, e) /\ DividedBy(g, e) <=> DividedBy(loop[k].a, e) /\ DividedBy(loop[k].b, e)
                   /\ loop[k].b # <<>> => k + Len(loop[k].b) <= Len(g)}
<1>1. /\ n \in Nat /\ loop[0] = [a |-> p, b |-> g]
      /\ \A k \in 1 .. n : loop[k - 1] \in GcdStates /\ loop[k] = GcdNext(loop[k - 1])
      /\ \A k \in 0 .. n : loop[k] \in GcdStates
      /\ gcd(p, g) = loop[n].a
  BY GcdLoopIs
<1>2. Len(p) \in Nat /\ Len(g) \in Nat
  BY NormalPolyIs, DegreeIs
<1> HIDE DEF loop
<1>3. 0 \in T
  <2>1. loop[0].a = p /\ loop[0].b = g /\ 0 \in 0 .. n /\ 0 + Len(g) <= Len(g)
    BY <1>1, <1>2
  <2> QED
    BY <2>1
<1>4. ASSUME NEW k \in 0 .. n - 1, k \in T PROVE k + 1 \in T
  <2> DEFINE s == loop[k]
             t == loop[k + 1]
  <2>1. k + 1 \in 1 .. n /\ (k + 1) - 1 = k /\ k \in 0 .. n /\ k + 1 \in 0 .. n /\ k \in Nat
    BY <1>1
  <2>2. s \in GcdStates /\ t = GcdNext(s) /\ t \in GcdStates
    BY <1>1, <2>1
  <2>3. /\ \A e \in NormalPoly : DividedBy(p, e) /\ DividedBy(g, e) <=> DividedBy(s.a, e) /\ DividedBy(s.b, e)
        /\ s.b # <<>> => k + Len(s.b) <= Len(g)
    BY <1>4
  <2> HIDE DEF s, t
  <2>4. \A e \in NormalPoly : DividedBy(p, e) /\ DividedBy(g, e) <=> DividedBy(t.a, e) /\ DividedBy(t.b, e)
    BY <2>2, <2>3, GcdNextIs
  <2>5. t.b # <<>> => (k + 1) + Len(t.b) <= Len(g)
    <3>1. t.b # <<>> => s.b # <<>> /\ Len(t.b) < Len(s.b)
      BY <2>2, GcdNextIs
    <3>2. Len(t.b) \in Nat /\ Len(s.b) \in Nat
      BY <2>2, NormalPolyIs, DegreeIs DEF GcdStates
    <3>3. \A x, y, z \in Nat : x < y /\ k + y <= z => (k + 1) + x <= z
      BY <2>1
    <3> QED
      BY <1>2, <2>3, <3>1, <3>2, <3>3
  <2> QED
    BY <2>1, <2>4, <2>5 DEF t
<1>5. n \in T
  <2> HIDE DEF T
  <2>1. 0 .. n \subseteq T
    BY <1>1, <1>3, <1>4, Induction
  <2>2. n \in 0 .. n
    BY <1>1
  <2> QED
    BY <2>1, <2>2
<1>6. loop[n] \in GcdStates
  <2>1. n \in 0 .. n
    BY <1>1
  <2> HIDE DEF n
  <2> QED
    BY <1>1, <2>1
<1>7. loop[n].a \in NormalPoly /\ loop[n].b \in NormalPoly
  BY <1>6 DEF GcdStates
<1>8. loop[n].b = <<>>
  <2>1. loop[n].b # <<>> => n + Len(loop[n].b) <= Len(g)
    BY <1>5
  <2> DEFINE b == loop[n].b
  <2>2. Len(b) \in Nat /\ (b # <<>> => Len(b) # 0)
    BY <1>7, NormalPolyIs, DegreeIs
  <2> HIDE DEF b
  <2>3. b # <<>> => n + Len(b) <= Len(g)
    BY <2>1 DEF b
  <2> HIDE DEF loop
  <2>4. b = <<>>
    BY <1>2, <2>2, <2>3
  <2> QED
    BY <2>4 DEF b
<1>9. \A e \in NormalPoly : DividedBy(loop[n].b, e)
  BY <1>8, DividedByLaws
<1>10. \A e \in NormalPoly : DividedBy(p, e) /\ DividedBy(g, e) <=> DividedBy(loop[n].a, e) /\ DividedBy(loop[n].b, e)
  BY <1>5
<1> HIDE DEF n
<1> QED
  BY <1>1, <1>7, <1>9, <1>10

-----------------------------------------------------------------------------
(* Powers modulo a polynomial.                                              *)

PowModStates == [out : NormalPoly, base : Poly, e : Int]

PowModNext(s, m) ==
  LET Mod(a) == divmod(a, m).r
  IN IF s.e = 0 THEN s
     ELSE [out  |-> Mod(IF s.e % 2 = 1 THEN Mul(s.out, s.base) ELSE s.out),
           base |-> Mod(Mul(s.base, s.base)),
           e    |-> s.e \div 2]

LEMMA PowModNextIs ==
  ASSUME NEW m \in NormalPoly, m # <<>>, NEW s \in PowModStates
  PROVE  PowModNext(s, m) \in PowModStates
<1>1. s.out \in NormalPoly /\ s.out \in Poly /\ s.base \in Poly /\ s.e \in Int /\ s.e \div 2 \in Int
  BY NormalPolyIs DEF PowModStates
<1> DEFINE x == IF s.e % 2 = 1 THEN Mul(s.out, s.base) ELSE s.out
           y == Mul(s.base, s.base)
<1>2. x \in NormalPoly /\ y \in NormalPoly
  BY <1>1, NormalPolyIs
<1>3. PowModNext(s, m) = IF s.e = 0 THEN s ELSE [out |-> divmod(x, m).r, base |-> divmod(y, m).r, e |-> s.e \div 2]
  BY DEF PowModNext
<1> HIDE DEF x, y
<1>4. divmod(x, m).r \in NormalPoly /\ divmod(y, m).r \in NormalPoly /\ divmod(y, m).r \in Poly
  BY <1>2, DivmodOfNormal, NormalPolyIs
<1> QED
  BY <1>1, <1>3, <1>4 DEF PowModStates

\* The rounds of pow.
LEMMA PowModRuns ==
  ASSUME NEW p \in Poly, NEW exp \in Int, NEW m \in NormalPoly, m # <<>>
  PROVE  \E loop :
           /\ loop[0] = [out |-> <<one>>, base |-> p, e |-> exp]
           /\ \A k \in 1 .. Width : loop[k] = PowModNext(loop[k - 1], m)
           /\ \A k \in 0 .. Width : loop[k] \in PowModStates
           /\ PowMod(p, exp, m) = loop[Width].out
<1> DEFINE n == Width
           S == PowModStates
           x == [out |-> <<one>>, base |-> p, e |-> exp]
           next(s) == PowModNext(s, m)
           step == [k \in 1 .. n |-> [s \in S |-> next(s)]]
           Rule(h) == [k \in 0 .. n |-> IF k = 0 THEN x ELSE next(h[k - 1])]
           loop == CHOOSE h : h = Rule(h)
<1>0. PowMod(p, exp, m) = loop[n].out
  BY DEF PowMod, PowModNext
<1>1. x \in S /\ (\A s \in S : next(s) \in S) /\ n \in Nat
  <2>1. \A s \in S : next(s) \in S
    BY PowModNextIs
  <2>2. <<one>> \in NormalPoly
    BY MulOne, NormalPolyIs
  <2> QED
    BY <2>1, <2>2, FieldAssumption DEF PowModStates
<1> HIDE DEF S, x, next, n
<1>2. step \in [1 .. n -> [S -> S]]
  BY <1>1
<1>3. PICK h \in [0 .. n -> S] : Runs(h, x, step, n)
  <2> HIDE DEF step
  <2> QED
    BY <1>1, <1>2, Recursion
<1>4. \A k \in 0 .. n : h[k] = IF k = 0 THEN x ELSE next(h[k - 1])
  <2>0. \A k \in 1 .. n : k - 1 \in 0 .. n
    BY <1>1
  <2>1. \A k \in 1 .. n : k - 1 \in 0 .. n /\ h[k - 1] \in S
    BY <2>0, Zenon
  <2>2. \A k \in 1 .. n, s \in S : step[k][s] = next(s)
    OBVIOUS
  <2> HIDE DEF step
  <2>3. h[0] = x /\ \A k \in 1 .. n : h[k] = step[k][h[k - 1]]
    BY <1>3 DEF Runs
  <2>4. \A k \in 0 .. n : k # 0 => k \in 1 .. n
    BY <1>1
  <2> QED
    BY <2>1, <2>2, <2>3, <2>4
<1>5. h = Rule(h)
  BY <1>4
<1>6. loop = Rule(loop)
  <2> HIDE DEF Rule
  <2> QED
    BY <1>5
<1> HIDE DEF loop, step
<1>7. \A k \in 1 .. n : k \in 0 .. n /\ k # 0
  BY <1>1
<1>8. loop[0] = x /\ \A k \in 1 .. n : loop[k] = next(loop[k - 1])
  <2>1. 0 \in 0 .. n
    BY <1>1
  <2> QED
    BY <1>6, <1>7, <2>1
<1>9. \A k \in 0 .. n : loop[k] \in S
  <2>1. loop[0] \in S /\ \A k \in 1 .. n : loop[k - 1] \in S => loop[k] \in S
    BY <1>1, <1>8
  <2> QED
    BY <1>1, <2>1, StaysIn
<1> QED
  BY <1>0, <1>8, <1>9 DEF S, x, next, n

\* pow modulo a polynomial returns a normal one, whatever zeros its argument
\* leads with.
LEMMA PowModTyped ==
  ASSUME NEW p \in Poly, NEW exp \in Int, NEW m \in NormalPoly, m # <<>>
  PROVE  PowMod(p, exp, m) \in NormalPoly
<1>1. PICK loop :
        /\ loop[0] = [out |-> <<one>>, base |-> p, e |-> exp]
        /\ \A k \in 1 .. Width : loop[k] = PowModNext(loop[k - 1], m)
        /\ \A k \in 0 .. Width : loop[k] \in PowModStates
        /\ PowMod(p, exp, m) = loop[Width].out
  BY PowModRuns
<1>2. Width \in 0 .. Width
  BY FieldAssumption
<1> QED
  BY <1>1, <1>2 DEF PowModStates

-----------------------------------------------------------------------------
(* Congruence, and the power of a polynomial by what it is congruent to.    *)

Congruent(p, s, d) == DividedBy(Add(p, s), d)

LEMMA CongruentLaws ==
  ASSUME NEW d \in NormalPoly
  PROVE  /\ \A p \in Poly : Congruent(p, p, d)
         /\ \A p, s \in Poly : Congruent(p, s, d) => Congruent(s, p, d)
         /\ \A p, s, t \in Poly : Congruent(p, s, d) /\ Congruent(s, t, d) => Congruent(p, t, d)
<1>1. ASSUME NEW p \in Poly PROVE Congruent(p, p, d)
  <2>1. Add(p, p) = <<>>
    BY AddLaws
  <2> QED
    BY <2>1, DividedByLaws DEF Congruent
<1>2. ASSUME NEW p \in Poly, NEW s \in Poly, Congruent(p, s, d) PROVE Congruent(s, p, d)
  <2>1. Add(p, s) = Add(s, p)
    BY AddLaws
  <2> QED
    BY <1>2, <2>1 DEF Congruent
<1>3. ASSUME NEW p \in Poly, NEW s \in Poly, NEW t \in Poly, Congruent(p, s, d), Congruent(s, t, d)
      PROVE  Congruent(p, t, d)
  <2>1. Add(p, s) \in Poly /\ Add(s, t) \in Poly /\ IsNormal(Add(s, t)) /\ d \in Poly
    BY AddIs, NormalPolyIs
  <2>2. Add(Add(p, s), Add(s, t)) = Add(p, t)
    <3>1. Add(Add(p, s), Add(s, t)) = Add(p, Add(s, Add(s, t)))
      BY <2>1, AddLaws
    <3>2. Add(s, Add(s, t)) = Add(Add(s, s), t) /\ Add(s, s) = <<>>
      BY AddLaws
    <3>3. Add(p, Add(<<>>, t)) = Add(Add(p, <<>>), t)
      BY NormalPolyIs, AddLaws
    <3>4. Add(<<>>, t) \in Poly /\ Add(p, t) \in Poly
      BY NormalPolyIs, AddIs
    <3>5. Same(Add(p, Add(<<>>, t)), Add(p, t))
      <4>1. ASSUME NEW k \in Nat \ {0}
            PROVE  Coefficient(Add(p, Add(<<>>, t)), k) = Coefficient(Add(p, t), k)
        <5>0. <<>> \in Poly
          BY NormalPolyIs
        <5>1. /\ Coefficient(Add(p, Add(<<>>, t)), k) = Plus(Coefficient(p, k), Coefficient(Add(<<>>, t), k))
              /\ Coefficient(Add(<<>>, t), k) = Plus(Coefficient(<<>>, k), Coefficient(t, k))
              /\ Coefficient(Add(p, t), k) = Plus(Coefficient(p, k), Coefficient(t, k))
          <6>1. Coefficient(Add(p, Add(<<>>, t)), k) = Plus(Coefficient(p, k), Coefficient(Add(<<>>, t), k))
            BY <3>4, AddIs
          <6>2. Coefficient(Add(<<>>, t), k) = Plus(Coefficient(<<>>, k), Coefficient(t, k))
            BY <5>0, AddIs
          <6>3. Coefficient(Add(p, t), k) = Plus(Coefficient(p, k), Coefficient(t, k))
            BY AddIs
          <6> QED
            BY <6>1, <6>2, <6>3
        <5>2. Coefficient(<<>>, k) = zero
          BY DEF Coefficient
        <5>3. Plus(zero, Coefficient(t, k)) = Coefficient(t, k)
          BY DEF Plus, zero
        <5> QED
          BY <5>1, <5>2, <5>3
      <4> QED
        BY <4>1 DEF Same
    <3>6. Add(p, Add(<<>>, t)) = Add(p, t)
      BY <3>4, <3>5, AddIs, NormalEqual
    <3> QED
      BY <3>1, <3>2, <3>6
  <2> QED
    BY <1>3, <2>1, <2>2, DividedAdds DEF Congruent
<1> QED
  BY <1>1, <1>2, <1>3

LEMMA CongruentMul ==
  ASSUME NEW d \in NormalPoly, NEW p \in Poly, NEW u \in Poly, NEW s \in Poly, NEW v \in Poly,
         Congruent(p, u, d), Congruent(s, v, d)
  PROVE  Congruent(Mul(p, s), Mul(u, v), d)
<1>1. d \in Poly /\ Add(p, u) \in Poly /\ Add(s, v) \in Poly
      /\ Mul(p, s) \in Poly /\ Mul(u, s) \in Poly /\ Mul(u, v) \in Poly
  BY AddIs, MulIs, NormalPolyIs
<1>2. Congruent(Mul(p, s), Mul(u, s), d)
  <2>1. Add(Mul(p, s), Mul(u, s)) = Mul(Add(p, u), s)
    BY MulAdds
  <2> QED
    BY <1>1, <2>1, DividedMul DEF Congruent
<1>3. Congruent(Mul(u, s), Mul(u, v), d)
  <2>1. Add(Mul(u, s), Mul(u, v)) = Mul(u, Add(s, v))
    BY MulAdds
  <2> QED
    BY <1>1, <2>1, DividedMul DEF Congruent
<1> QED
  BY <1>1, <1>2, <1>3, CongruentLaws

\* A remainder is congruent modulo whatever divides the divisor.
LEMMA CongruentRemainder ==
  ASSUME NEW m \in NormalPoly, m # <<>>, NEW d \in NormalPoly, DividedBy(m, d), NEW p \in NormalPoly
  PROVE  /\ divmod(p, m).r \in NormalPoly
         /\ \A s \in Poly : Congruent(p, s, d) => Congruent(divmod(p, m).r, s, d)
<1> DEFINE r == divmod(p, m).r
<1>1. r \in NormalPoly /\ DividedBy(Add(p, r), m)
  BY DivmodOfNormal
<1> HIDE DEF r
<1>2. p \in Poly /\ r \in Poly
  BY <1>1, NormalPolyIs
<1>3. Congruent(p, r, d)
  BY <1>1, DividedTransitive DEF Congruent
<1>4. Congruent(r, p, d)
  BY <1>2, <1>3, CongruentLaws
<1>5. ASSUME NEW s \in Poly, Congruent(p, s, d) PROVE Congruent(r, s, d)
  BY <1>2, <1>4, <1>5, CongruentLaws
<1> QED
  BY <1>1, <1>5 DEF r

\* What a power is congruent to: h, when its square is congruent to b, which
\* is idempotent and changes nothing in h, and the exponent is odd.
Idempotent(h, b, d) ==
  /\ h \in NormalPoly /\ b \in NormalPoly
  /\ Congruent(Mul(h, h), b, d) /\ Congruent(Mul(b, b), b, d) /\ Congruent(Mul(h, b), h, d)

PowModCongruent(s, h, b, d) ==
  s.base \in NormalPoly /\ Congruent(s.out, h, d) /\ Congruent(s.base, b, d)

LEMMA PowModKeepsCongruent ==
  ASSUME NEW m \in NormalPoly, m # <<>>, NEW d \in NormalPoly, DividedBy(m, d),
         NEW h, NEW b, Idempotent(h, b, d),
         NEW s \in PowModStates, PowModCongruent(s, h, b, d)
  PROVE  PowModCongruent(PowModNext(s, m), h, b, d)
<1>1. /\ s.out \in NormalPoly /\ s.out \in Poly /\ s.base \in NormalPoly /\ s.base \in Poly
      /\ h \in NormalPoly /\ b \in NormalPoly /\ h \in Poly /\ b \in Poly
  BY NormalPolyIs DEF PowModStates, PowModCongruent, Idempotent
<1> DEFINE x == IF s.e % 2 = 1 THEN Mul(s.out, s.base) ELSE s.out
           y == Mul(s.base, s.base)
<1>2. x \in NormalPoly /\ y \in NormalPoly /\ x \in Poly /\ y \in Poly
  BY <1>1, NormalPolyIs
<1>3. Congruent(x, h, d)
  <2>1. Congruent(Mul(s.out, s.base), Mul(h, b), d)
    BY <1>1, CongruentMul DEF PowModCongruent
  <2>2. Mul(s.out, s.base) \in Poly /\ Mul(h, b) \in Poly
    BY <1>1, MulIs
  <2>3. Congruent(Mul(s.out, s.base), h, d)
    BY <1>1, <2>1, <2>2, CongruentLaws DEF Idempotent
  <2> QED
    BY <2>3 DEF PowModCongruent
<1>4. Congruent(y, b, d)
  <2>1. Congruent(Mul(s.base, s.base), Mul(b, b), d)
    BY <1>1, CongruentMul DEF PowModCongruent
  <2>2. Mul(b, b) \in Poly
    BY <1>1, MulIs
  <2> QED
    BY <1>1, <1>2, <2>1, <2>2, CongruentLaws DEF Idempotent
<1>5. PowModNext(s, m) = IF s.e = 0 THEN s ELSE [out |-> divmod(x, m).r, base |-> divmod(y, m).r, e |-> s.e \div 2]
  BY DEF PowModNext
<1> HIDE DEF x, y
<1>6. /\ divmod(y, m).r \in NormalPoly
      /\ Congruent(divmod(x, m).r, h, d) /\ Congruent(divmod(y, m).r, b, d)
  BY <1>1, <1>2, <1>3, <1>4, CongruentRemainder
<1> QED
  BY <1>5, <1>6 DEF PowModCongruent

LEMMA OddPower ==
  ASSUME NEW m \in NormalPoly, m # <<>>, NEW d \in NormalPoly, DividedBy(m, d),
         NEW h, NEW b, Idempotent(h, b, d),
         NEW p \in Poly, Same(p, h), NEW exp \in Nat, exp % 2 = 1
  PROVE  Congruent(PowMod(p, exp, m), h, d)
<1>1. PICK loop :
        /\ loop[0] = [out |-> <<one>>, base |-> p, e |-> exp]
        /\ \A k \in 1 .. Width : loop[k] = PowModNext(loop[k - 1], m)
        /\ \A k \in 0 .. Width : loop[k] \in PowModStates
        /\ PowMod(p, exp, m) = loop[Width].out
  <2>1. exp \in Int
    OBVIOUS
  <2> QED
    BY <2>1, PowModRuns
<1>2. h \in NormalPoly /\ b \in NormalPoly /\ h \in Poly /\ b \in Poly
  BY NormalPolyIs DEF Idempotent
<1>3. 1 \in 1 .. Width /\ 1 - 1 = 0 /\ 1 \in 0 .. Width /\ Width - 1 \in Nat /\ (Width - 1) + 1 = Width
  BY FieldAssumption
<1>4. PowModCongruent(loop[1], h, b, d)
  <2> DEFINE x == Mul(<<one>>, p)
             y == Mul(p, p)
  <2>1. loop[1] = [out |-> divmod(x, m).r, base |-> divmod(y, m).r, e |-> exp \div 2]
    <3>1. loop[1] = PowModNext([out |-> <<one>>, base |-> p, e |-> exp], m)
      BY <1>1, <1>3
    <3>2. exp # 0
      OBVIOUS
    <3> QED
      BY <3>1, <3>2 DEF PowModNext
  <2>2. <<one>> \in NormalPoly /\ <<one>> \in Poly
    BY MulOne, NormalPolyIs
  <2>3. x = h
    <3>1. Mul(<<one>>, p) = Mul(p, <<one>>) /\ Mul(p, <<one>>) = Mul(h, <<one>>)
      BY <1>2, <2>2, MulCommutes, MulSame
    <3> QED
      BY <1>2, <3>1, MulOne
  <2>4. y = Mul(h, h)
    <3>1. Mul(p, p) = Mul(h, p) /\ Mul(h, p) = Mul(p, h) /\ Mul(p, h) = Mul(h, h)
      BY <1>2, MulCommutes, MulSame
    <3> QED
      BY <3>1
  <2>5. y \in NormalPoly /\ Congruent(y, b, d) /\ Congruent(x, h, d) /\ x \in NormalPoly
    BY <1>2, <2>3, <2>4, NormalPolyIs, CongruentLaws DEF Idempotent
  <2> HIDE DEF x, y
  <2> QED
    BY <1>2, <2>1, <2>5, CongruentRemainder DEF PowModCongruent
<1> DEFINE S == {s \in PowModStates : PowModCongruent(s, h, b, d)}
           after == [k \in 0 .. Width - 1 |-> loop[k + 1]]
<1>5. after[0] \in S
  BY <1>1, <1>3, <1>4
<1>6. ASSUME NEW k \in 1 .. Width - 1, after[k - 1] \in S PROVE after[k] \in S
  <2>1. /\ k \in 0 .. Width - 1 /\ k - 1 \in 0 .. Width - 1 /\ k + 1 \in 1 .. Width /\ k + 1 \in 0 .. Width
        /\ (k + 1) - 1 = k /\ (k - 1) + 1 = k
    BY <1>3
  <2>2. after[k - 1] = loop[k] /\ after[k] = loop[k + 1]
    BY <2>1
  <2>3. loop[k + 1] = PowModNext(loop[k], m) /\ loop[k + 1] \in PowModStates
    BY <1>1, <2>1
  <2> HIDE DEF after
  <2>4. loop[k] \in PowModStates /\ PowModCongruent(loop[k], h, b, d)
    BY <1>6, <2>2
  <2>5. PowModCongruent(loop[k + 1], h, b, d)
    BY <2>3, <2>4, PowModKeepsCongruent
  <2> QED
    BY <2>2, <2>3, <2>5
<1>7. after[Width - 1] = loop[Width] /\ Width - 1 \in 0 .. Width - 1
  BY <1>3
<1>8. loop[Width] \in S
  <2> HIDE DEF after, S
  <2>1. \A k \in 0 .. Width - 1 : after[k] \in S
    BY <1>3, <1>5, <1>6, StaysIn
  <2> QED
    BY <1>7, <2>1
<1> QED
  BY <1>1, <1>8 DEF PowModCongruent

=============================================================================
