-------------------------- MODULE Bytenigma_proofs --------------------------
(***************************************************************************)
(* Proofs about Bytenigma: no rotors encrypt a byte to itself, and a       *)
(* second machine of the same rotors decrypts, for any number of rotors    *)
(* and any even number of byte values.  The invariant remembers the way of *)
(* the byte through the first machine: the way back never meets the way    *)
(* there, and the second machine runs along both in the other direction.   *)
(***************************************************************************)
EXTENDS Bytenigma, SequenceTheorems, TLAPS

\* The positions in which the two machines process the byte.
P(i) == pos["dec"][i]

\* The byte between rotor i and rotor i + 1, on its ways through "enc".
ThereAt(i) == there[i + 1] = At(rotors[i], (there[i] + P(i)) % ByteSize)
BackAt(i)  == back[i] = (At(inv[i], back[i + 1]) - P(i)) % ByteSize
Reflected  == back[R + 1] = ByteSize - 1 - there[R + 1]

WayThere == there[1] = plain /\ \A i \in Rotor : ThereAt(i)
WayBack  == Reflected /\ \A i \in Rotor : BackAt(i)

Inverses == \A i \in Rotor : inv[i] = InverseOf(rotors[i])

\* Where the byte is.
Place ==
  /\ pc = "forward" => index \in Places
  /\ pc = "backward" => index \in 0 .. R
  /\ pc = "turn" => index \in Rotor

EncPaths ==
  who = "enc" =>
    /\ pc = "forward" => /\ there[1] = plain /\ value = there[index]
                         /\ \A i \in 1 .. index - 1 : ThereAt(i)
    /\ pc = "backward" => /\ WayThere /\ Reflected /\ value = back[index + 1]
                          /\ \A i \in index + 1 .. R : BackAt(i)
                          /\ \A i \in index + 1 .. R + 1 : back[i] # there[i]
    /\ pc = "turn" => WayThere /\ WayBack /\ value = back[1] /\ back[1] # there[1]

DecPaths ==
  who = "dec" =>
    /\ pc \in {"ready", "forward", "backward"} => WayThere /\ WayBack
    /\ pc = "ready" => value = back[1]
    /\ pc = "forward" => value = back[index]
    /\ pc = "backward" => value = there[index + 1]
    /\ pc = "turn" => value = plain

\* "enc" is ahead of "dec" in the turning of the rotors from i on, up to k.
AheadUpTo(i, k) ==
  /\ \A j \in i .. k - 1 : At(rotors[j], P(j)) = 0
  /\ k = R \/ At(rotors[k], P(k)) # 0
  /\ \A j \in i .. k : pos["enc"][j] = (P(j) + 1) % ByteSize
  /\ \A j \in Rotor : j < i \/ j > k => pos["enc"][j] = P(j)

Positions ==
  /\ who = "enc" /\ pc \in {"ready", "forward", "backward"} => pos["enc"] = pos["dec"]
  /\ who = "enc" /\ pc = "turn" =>
       \A j \in Rotor : IF j < index
                        THEN /\ pos["enc"][j] = (P(j) + 1) % ByteSize
                             /\ At(rotors[j], P(j)) = 0
                        ELSE pos["enc"][j] = P(j)
  /\ who = "dec" /\ pc \in {"ready", "forward", "backward"} =>
       \E k \in Rotor : AheadUpTo(1, k)
  /\ who = "dec" /\ pc = "turn" => \E k \in index .. R : AheadUpTo(index, k)

Working ==
  /\ pc \notin Failed
  /\ pc # "construct" => Inverses
  /\ Place /\ EncPaths /\ DecPaths /\ Positions

\* The inductive invariant: on the way through documented rotors the byte
\* decrypted has followed the byte encrypted, and at no rotor is the way back
\* the way there.
IInv == Documented => TypeOK /\ (pc = "construct" => who = "enc" /\ pos["enc"] = pos["dec"])
                             /\ (pc # "construct" => Working)

-----------------------------------------------------------------------------
(* Bytes and rotors.                                                        *)

LEMMA Modulo ==
  ASSUME NEW a \in Int
  PROVE  /\ a % ByteSize \in Byte
         /\ a \in Byte => a % ByteSize = a
         /\ a >= ByteSize /\ a < 2 * ByteSize => a % ByteSize = a - ByteSize
         /\ -ByteSize <= a /\ a < 0 => a % ByteSize = a + ByteSize
<1>1. ByteSize \in Nat \ {0}
  BY ByteAssumption
<1>2. PICK m \in Nat \ {0} : m = ByteSize
  BY <1>1
<1>3. a % m \in 0 .. m - 1
  BY <1>2
<1>4. a \in 0 .. m - 1 => a % m = a
  BY <1>2
<1>5. a >= m /\ a < 2 * m => a % m = a - m
  BY <1>2
<1>6. -m <= a /\ a < 0 => a % m = a + m
  BY <1>2
<1> QED
  BY <1>2, <1>3, <1>4, <1>5, <1>6 DEF Byte

\* The turn of a rotor forwards and its turn backwards undo each other.
LEMMA TurnAndBack ==
  ASSUME NEW v \in Byte, NEW p \in Byte
  PROVE  /\ (v + p) % ByteSize \in Byte /\ (v - p) % ByteSize \in Byte
         /\ (((v + p) % ByteSize) - p) % ByteSize = v
         /\ (((v - p) % ByteSize) + p) % ByteSize = v
<1>1. PICK m \in Nat \ {0} : m = ByteSize /\ v \in 0 .. m - 1 /\ p \in 0 .. m - 1
  BY ByteAssumption DEF Byte
<1>2. \A a \in Int : /\ a \in 0 .. m - 1 => a % m = a
                     /\ a >= m /\ a < 2 * m => a % m = a - m
                     /\ -m <= a /\ a < 0 => a % m = a + m
  BY <1>1, Modulo DEF Byte
<1>3. (((v + p) % m) - p) % m = v
  <2>1. CASE v + p < m
    <3>1. (v + p) % m = v + p
      BY <1>1, <1>2, <2>1
    <3> QED
      BY <1>1, <1>2, <3>1
  <2>2. CASE v + p >= m
    <3>1. (v + p) % m = v + p - m
      BY <1>1, <1>2, <2>2
    <3>2. v + p - m - p = v - m /\ -m <= v - m /\ v - m < 0 /\ v - m \in Int
      BY <1>1
    <3>3. (v - m) % m = v - m + m
      BY <1>2, <3>2
    <3> QED
      BY <1>1, <3>1, <3>2, <3>3
  <2>3. v + p < m \/ v + p >= m
    BY <1>1
  <2> QED
    BY <2>1, <2>2, <2>3
<1>4. (((v - p) % m) + p) % m = v
  <2>1. CASE v - p >= 0
    <3>1. (v - p) % m = v - p
      BY <1>1, <1>2, <2>1
    <3>2. v - p + p = v
      BY <1>1
    <3> QED
      BY <1>1, <1>2, <3>1, <3>2
  <2>2. CASE v - p < 0
    <3>1. (v - p) % m = v - p + m
      BY <1>1, <1>2, <2>2
    <3>2. v - p + m + p = v + m /\ v + m >= m /\ v + m < 2 * m /\ v + m \in Int
      BY <1>1
    <3>3. (v + m) % m = v + m - m
      <4>1. PICK a \in Int : a = v + m /\ a >= m /\ a < 2 * m
        BY <3>2
      <4>2. a % m = a - m
        BY <1>1, <4>1
      <4> QED
        BY <1>1, <4>1, <4>2
    <3>4. v + m - m = v
      BY <1>1
    <3>5. ((v - p) % m) + p = v + m
      BY <3>1, <3>2
    <3> QED
      BY <3>3, <3>4, <3>5
  <2>3. v - p >= 0 \/ v - p < 0
    BY <1>1
  <2> QED
    BY <2>1, <2>2, <2>3
<1>5. v + p \in Int /\ v - p \in Int
  BY <1>1
<1> QED
  BY <1>1, <1>3, <1>4, <1>5, Modulo

\* The complement of a byte is a byte, another one, and its own complement.
LEMMA ComplementIs ==
  ASSUME NEW v \in Byte
  PROVE  /\ ByteSize - 1 - v \in Byte /\ ByteSize - 1 - v # v
         /\ ByteSize - 1 - (ByteSize - 1 - v) = v
BY ByteAssumption DEF Byte

\* calculate_inverse_rotors inverts a documented rotor.
LEMMA InverseInverts ==
  ASSUME NEW r \in Seq(Byte), IsRotor(r)
  PROVE  /\ InverseOf(r) \in Seq(Byte) /\ Len(InverseOf(r)) = ByteSize
         /\ \A x \in Byte : At(r, x) \in Byte /\ At(InverseOf(r), x) \in Byte
         /\ \A x \in Byte : At(InverseOf(r), At(r, x)) = x
         /\ \A y \in Byte : At(r, At(InverseOf(r), y)) = y
<1> DEFINE Inputs(y) == {j \in 1 .. Len(r) : r[j] = y - 1}
           Last(y)   == CHOOSE j \in Inputs(y) : \A k \in Inputs(y) : k <= j
<1>1. PICK m \in Nat \ {0} : m = ByteSize /\ Len(r) = m /\ Byte = 0 .. m - 1
  BY ByteAssumption DEF IsRotor, Byte
<1>2. InverseOf(r) = [y \in 1 .. m |-> IF Inputs(y) = {} THEN 0 ELSE (Last(y) - 1) % ByteSize]
  BY <1>1 DEF InverseOf
<1>3. ASSUME NEW x \in Byte PROVE At(r, x) \in Byte
  <2>1. x + 1 \in 1 .. m
    BY <1>1
  <2> QED
    BY <1>1, <2>1, ElementOfSeq DEF At
<1>4. ASSUME NEW x \in Byte PROVE InverseOf(r)[At(r, x) + 1] = x
  <2>1. PICK y \in 1 .. m : y = At(r, x) + 1
    BY <1>1, <1>3
  <2>2. x + 1 \in Inputs(y)
    BY <1>1, <2>1 DEF At
  <2>3. ASSUME NEW j \in Inputs(y) PROVE j = x + 1
    <3>1. j - 1 \in Byte /\ (j - 1) + 1 = j /\ r[j] = y - 1
      BY <1>1
    <3>2. At(r, x) \in Int
      BY <1>1, <1>3
    <3>3. At(r, j - 1) = At(r, x)
      BY <2>1, <3>1, <3>2 DEF At
    <3>4. j - 1 = x
      BY <3>1, <3>3 DEF IsRotor
    <3> QED
      BY <1>1, <3>1, <3>4
  <2>4. Inputs(y) = {x + 1}
    BY <2>2, <2>3
  <2>5. Last(y) = x + 1
    <3>1. x + 1 \in Int /\ x + 1 <= x + 1
      BY <1>1
    <3> QED
      BY <2>4, <3>1
  <2>6. InverseOf(r)[y] = x % ByteSize
    <3>1. InverseOf(r)[y] = IF Inputs(y) = {} THEN 0 ELSE (Last(y) - 1) % ByteSize
      <4> HIDE DEF Inputs, Last
      <4> QED
        BY <1>2
    <3>2. Inputs(y) # {}
      BY <2>2
    <3>3. InverseOf(r)[y] = (Last(y) - 1) % ByteSize
      <4> HIDE DEF Inputs, Last
      <4> QED
        BY <3>1, <3>2
    <3>4. PICK n \in Int : n = x + 1 /\ n - 1 = x
      BY <1>1
    <3>5. n = Last(y)
      <4> HIDE DEF Last
      <4> QED
        BY <2>5, <3>4
    <3>6. InverseOf(r)[y] = (n - 1) % ByteSize
      <4> HIDE DEF Last
      <4> QED
        BY <3>3, <3>5
    <3> QED
      BY <3>4, <3>6
  <2>7. x \in Int
    BY <1>1
  <2> QED
    BY <2>1, <2>6, <2>7, Modulo
<1>5. ASSUME NEW y \in Byte PROVE \E x \in Byte : At(r, x) = y /\ InverseOf(r)[y + 1] = x
  BY <1>4 DEF IsRotor
<1>6. InverseOf(r) \in Seq(Byte) /\ Len(InverseOf(r)) = m
  <2>1. ASSUME NEW y \in 1 .. m PROVE InverseOf(r)[y] \in Byte
    <3>1. y - 1 \in Byte /\ y - 1 + 1 = y
      BY <1>1
    <3> QED
      BY <1>5, <3>1
  <2>2. InverseOf(r) = [y \in 1 .. m |-> InverseOf(r)[y]]
    BY <1>2
  <2>3. InverseOf(r) \in [1 .. m -> Byte]
    BY <2>1, <2>2
  <2>4. \A f \in [1 .. m -> Byte] : f \in Seq(Byte) /\ Len(f) = m
    OBVIOUS
  <2> QED
    BY <2>3, <2>4
<1>7. /\ \A x \in Byte : At(r, x) \in Byte /\ At(InverseOf(r), x) \in Byte
      /\ \A x \in Byte : At(InverseOf(r), At(r, x)) = x
      /\ \A y \in Byte : At(r, At(InverseOf(r), y)) = y
  BY <1>3, <1>4, <1>5 DEF At
<1> QED
  BY <1>1, <1>6, <1>7

\* What the invariant says while the machines work.
LEMMA Machines ==
  ASSUME Documented, TypeOK
  PROVE  /\ R \in Nat \ {0} /\ ByteSize \in Nat \ {0}
         /\ \A i \in Rotor : /\ rotors[i] \in Seq(Byte) /\ IsRotor(rotors[i])
                             /\ Len(rotors[i]) = ByteSize
                             /\ P(i) \in Byte /\ pos["enc"][i] \in Byte
                             /\ i \in Places /\ i + 1 \in Places
<1>1. rotors \in Seq(Seq(Byte))
  BY RotorsAssumption DEF TypeOK
<1>2. R \in Nat \ {0}
  BY <1>1 DEF Documented, R
<1>3. ASSUME NEW i \in Rotor PROVE rotors[i] \in Seq(Byte)
  BY <1>1, <1>3, ElementOfSeq DEF Rotor, R
<1>4. ASSUME NEW i \in Rotor PROVE IsRotor(rotors[i]) /\ Len(rotors[i]) = ByteSize
  BY DEF Documented, IsRotor
<1>5. ASSUME NEW i \in Rotor PROVE P(i) \in Byte /\ pos["enc"][i] \in Byte
  BY DEF TypeOK, P, Machine
<1>6. ASSUME NEW i \in Rotor PROVE i \in Places /\ i + 1 \in Places
  BY <1>2 DEF Rotor, Places
<1> QED
  BY <1>2, <1>3, <1>4, <1>5, <1>6, ByteAssumption

\* A byte passes rotor i and its inverse.
LEMMA RotorPasses ==
  ASSUME Documented, TypeOK, Inverses, NEW i \in Rotor, NEW v \in Byte
  PROVE  /\ At(rotors[i], (v + P(i)) % ByteSize) \in Byte
         /\ (At(inv[i], At(rotors[i], (v + P(i)) % ByteSize)) - P(i)) % ByteSize = v
         /\ (At(inv[i], v) - P(i)) % ByteSize \in Byte
         /\ At(rotors[i], (((At(inv[i], v) - P(i)) % ByteSize) + P(i)) % ByteSize) = v
         /\ Len(inv[i]) = ByteSize /\ v % Len(inv[i]) = v
<1>1. PICK p \in Byte, r \in Seq(Byte) : p = P(i) /\ r = rotors[i] /\ IsRotor(r)
  BY Machines
<1>2. inv[i] = InverseOf(r)
  BY <1>1 DEF Inverses
<1>3. /\ Len(InverseOf(r)) = ByteSize
      /\ \A x \in Byte : At(r, x) \in Byte /\ At(InverseOf(r), x) \in Byte
      /\ \A x \in Byte : At(InverseOf(r), At(r, x)) = x
      /\ \A y \in Byte : At(r, At(InverseOf(r), y)) = y
  BY <1>1, InverseInverts
<1>4. At(r, (v + p) % ByteSize) \in Byte
  BY <1>3, TurnAndBack
<1>5. (At(InverseOf(r), At(r, (v + p) % ByteSize)) - p) % ByteSize = v
  <2>1. (v + p) % ByteSize \in Byte
    BY TurnAndBack
  <2>2. At(InverseOf(r), At(r, (v + p) % ByteSize)) = (v + p) % ByteSize
    BY <1>3, <2>1
  <2> QED
    BY <2>2, TurnAndBack
<1>6. PICK w \in Byte : w = At(InverseOf(r), v) /\ At(r, w) = v
  BY <1>3
<1>7. (w - p) % ByteSize \in Byte /\ (((w - p) % ByteSize) + p) % ByteSize = w
  BY TurnAndBack
<1>8. v % ByteSize = v
  <2>1. v \in Int
    BY ByteAssumption DEF Byte
  <2> QED
    BY <2>1, Modulo
<1> QED
  BY <1>1, <1>2, <1>3, <1>4, <1>5, <1>6, <1>7, <1>8

-----------------------------------------------------------------------------
(* The steps.                                                               *)

\* What the invariant says of machines with documented rotors that work.
Works == Documented /\ TypeOK /\ Working

LEMMA ConstructWorks ==
  ASSUME Documented, TypeOK, who = "enc", pos["enc"] = pos["dec"], Construct
  PROVE  Works'
<1>1. /\ UNCHANGED <<rotors, pos, who, index, value, plain, there, back, turns>>
      /\ pc' = "ready" /\ inv' = [i \in Rotor |-> InverseOf(rotors[i])]
  <2>1. ASSUME NEW i \in Rotor, NEW j \in 1 .. Len(rotors[i])
        PROVE  ~(rotors[i][j] >= Len(rotors[i]))
    <3>1. rotors[i][j] \in Byte /\ Len(rotors[i]) = ByteSize
      BY Machines, ElementOfSeq
    <3> QED
      BY <3>1, ByteAssumption DEF Byte
  <2> QED
    BY <2>1 DEF Construct, trail
<1>2. inv' \in Seq(Seq(Byte))
  <2>1. ASSUME NEW i \in Rotor PROVE InverseOf(rotors[i]) \in Seq(Byte)
    BY Machines, InverseInverts
  <2>2. inv' \in [1 .. R -> Seq(Byte)] /\ R \in Nat
    BY <1>1, <2>1, Machines DEF Rotor
  <2>3. \A f \in [1 .. R -> Seq(Byte)] : f \in Seq(Seq(Byte))
    BY <2>2
  <2> QED
    BY <2>2, <2>3
<1>3. UNCHANGED <<Rotor, Places, R>> /\ Documented'
  BY <1>1 DEF Rotor, Places, R, Documented
<1>4. TypeOK'
  BY <1>1, <1>2, <1>3 DEF TypeOK
<1>5. Inverses'
  BY <1>1, <1>3 DEF Inverses
<1> QED
  BY <1>1, <1>3, <1>4, <1>5 DEF Works, Working, Place, EncPaths, DecPaths, Positions, Failed

LEMMA ProcessByteWorks == ASSUME Works, ProcessByte PROVE Works'
<1> USE DEF Works, Working
<1>1. /\ UNCHANGED <<rotors, inv, pos, who, back, turns>> /\ index' = 1 /\ pc' = "forward"
      /\ pc = "ready"
  BY DEF ProcessByte, const
<1>2. UNCHANGED <<Rotor, Places, R>> /\ Documented' /\ \A i : P(i)' = P(i)
  BY <1>1 DEF Rotor, Places, R, Documented, P
<1>3. Inverses' /\ Place' /\ 1 \in Places /\ R \in Nat \ {0}
  BY <1>1, <1>2, Machines DEF Inverses, Place, Places
<1>4. Positions'
  BY <1>1, <1>2 DEF Positions, AheadUpTo
<1>5. CASE who = "enc"
  <2>1. PICK x \in Byte : value' = x /\ plain' = x /\ there' = [there EXCEPT ![1] = x]
    BY <1>5 DEF ProcessByte
  <2>2. there' \in [Places -> Byte] /\ there'[1] = x
    BY <1>3, <2>1 DEF TypeOK
  <2>3. TypeOK'
    BY <1>1, <1>2, <1>3, <2>1, <2>2 DEF TypeOK, Places
  <2>4. EncPaths' /\ DecPaths'
    BY <1>1, <1>5, <2>1, <2>2 DEF EncPaths, DecPaths
  <2> QED
    BY <1>1, <1>2, <1>3, <1>4, <2>3, <2>4 DEF Failed
<1>6. CASE who = "dec"
  <2>1. UNCHANGED <<value, plain, there>>
    BY <1>6 DEF ProcessByte
  <2>2. TypeOK'
    BY <1>1, <1>2, <1>3, <2>1 DEF TypeOK, Places
  <2>3. WayThere' = WayThere /\ WayBack' = WayBack
    BY <1>1, <1>2, <2>1 DEF WayThere, WayBack, ThereAt, BackAt, Reflected
  <2>4. EncPaths' /\ DecPaths'
    BY <1>1, <1>6, <2>1, <2>3 DEF EncPaths, DecPaths
  <2> QED
    BY <1>1, <1>2, <1>3, <1>4, <2>2, <2>4 DEF Failed
<1> QED
  BY <1>5, <1>6 DEF TypeOK, Machine

LEMMA ForwardWorks == ASSUME Works, Forward PROVE Works'
<1> USE DEF Works, Working
<1>1. /\ UNCHANGED <<rotors, inv, pos, who, pc, plain, back, turns>> /\ pc = "forward"
      /\ index' = index + 1 /\ index <= R
  BY DEF Forward, const
<1>2. UNCHANGED <<Rotor, Places, R>> /\ Documented' /\ \A i : P(i)' = P(i)
  BY <1>1 DEF Rotor, Places, R, Documented, P
<1>3. PICK i \in Rotor, n \in Nat \ {0} : i = index /\ i \in Nat /\ n = R
  BY <1>1, Machines DEF Place, Places, Rotor
<1>4. /\ i \in Places /\ i + 1 \in Places /\ Len(rotors[i]) = ByteSize /\ index' = i + 1
      /\ P(i) \in Byte /\ value \in Byte
  BY <1>1, <1>3, Machines DEF TypeOK
<1>5. pos[who][i] = P(i)
  <2>1. who = "enc" \/ who = "dec"
    BY DEF TypeOK, Machine
  <2> QED
    BY <1>1, <2>1 DEF Positions, P
<1>6. value' = At(rotors[i], (value + P(i)) % ByteSize) /\ value' \in Byte
  BY <1>3, <1>4, <1>5, RotorPasses DEF Forward
<1>7. Inverses' /\ Place'
  BY <1>1, <1>2, <1>4 DEF Inverses, Place
<1>8. Positions'
  BY <1>1, <1>2 DEF Positions, AheadUpTo
<1>9. CASE who = "enc"
  <2>1. there' = [there EXCEPT ![i + 1] = value']
    BY <1>3, <1>9 DEF Forward
  <2>2. /\ there' \in [Places -> Byte] /\ there'[i + 1] = value'
        /\ \A j \in Places : j # i + 1 => there'[j] = there[j]
    BY <1>4, <1>6, <2>1 DEF TypeOK
  <2>3. TypeOK'
    BY <1>1, <1>2, <1>4, <1>6, <2>2 DEF TypeOK, Places
  <2>4. there[1] = plain /\ value = there[i] /\ \A j \in 1 .. i - 1 : ThereAt(j)
    BY <1>1, <1>3, <1>9 DEF EncPaths
  <2>5. there'[1] = plain
    <3>1. 1 \in Places /\ 1 # i + 1
      BY <1>3 DEF Places, Rotor
    <3> QED
      BY <2>2, <2>4, <3>1
  <2>6. ASSUME NEW j \in 1 .. i PROVE ThereAt(j)'
    <3>1. j \in Rotor /\ j \in Places /\ j # i + 1
      BY <1>3 DEF Rotor, Places
    <3>2. there'[j] = there[j]
      BY <2>2, <3>1
    <3>3. CASE j = i
      BY <1>1, <1>2, <1>6, <2>2, <2>4, <3>2, <3>3 DEF ThereAt
    <3>4. CASE j # i
      <4>1. j \in 1 .. i - 1 /\ j + 1 \in Places /\ j + 1 # i + 1
        BY <1>3, <3>1, <3>4 DEF Rotor, Places
      <4>2. there'[j + 1] = there[j + 1] /\ ThereAt(j)
        BY <2>2, <2>4, <4>1
      <4> QED
        BY <1>1, <1>2, <3>2, <4>2 DEF ThereAt
    <3> QED
      BY <3>3, <3>4
  <2>7. EncPaths'
    <3>1. \A j \in 1 .. index' - 1 : j \in 1 .. i
      BY <1>3, <1>4
    <3> QED
      BY <1>1, <1>4, <2>2, <2>5, <2>6, <3>1 DEF EncPaths
  <2>8. DecPaths'
    BY <1>1, <1>9 DEF DecPaths
  <2> QED
    BY <1>1, <1>2, <1>7, <1>8, <2>3, <2>7, <2>8
<1>10. CASE who = "dec"
  <2>1. UNCHANGED there
    BY <1>10 DEF Forward
  <2>2. TypeOK'
    BY <1>1, <1>2, <1>4, <1>6, <2>1 DEF TypeOK, Places
  <2>3. WayThere /\ WayBack /\ value = back[i] /\ BackAt(i) /\ back[i + 1] \in Byte
    BY <1>1, <1>3, <1>4, <1>10 DEF DecPaths, WayBack, TypeOK
  <2>4. value' = back[i + 1]
    <3>1. PICK b \in Byte : b = back[i + 1]
      BY <2>3
    <3>2. At(rotors[i], (((At(inv[i], b) - P(i)) % ByteSize) + P(i)) % ByteSize) = b
      BY <1>1, RotorPasses
    <3>3. value = (At(inv[i], b) - P(i)) % ByteSize
      BY <2>3, <3>1 DEF BackAt
    <3> QED
      BY <1>6, <3>1, <3>2, <3>3
  <2>5. WayThere' = WayThere /\ WayBack' = WayBack
    BY <1>1, <1>2, <2>1 DEF WayThere, WayBack, ThereAt, BackAt, Reflected
  <2>6. EncPaths' /\ DecPaths'
    BY <1>1, <1>4, <1>10, <2>3, <2>4, <2>5 DEF EncPaths, DecPaths
  <2> QED
    BY <1>1, <1>2, <1>7, <1>8, <2>2, <2>6
<1> QED
  BY <1>9, <1>10 DEF TypeOK, Machine

LEMMA ComplementWorks == ASSUME Works, Complement PROVE Works'
<1> USE DEF Works, Working
<1>1. /\ UNCHANGED <<rotors, inv, pos, who, plain, there, turns>> /\ pc = "forward"
      /\ pc' = "backward" /\ index = R + 1 /\ index' = R
      /\ value' = ByteSize - 1 - value
  BY DEF Complement, const
<1>2. UNCHANGED <<Rotor, Places, R>> /\ Documented' /\ \A i : P(i)' = P(i)
  BY <1>1 DEF Rotor, Places, R, Documented, P
<1>3. PICK n \in Nat \ {0} : n = R /\ n + 1 \in Places /\ index' = n
  BY <1>1, Machines DEF Places
<1>4. /\ value \in Byte /\ value' \in Byte /\ value' # value
      /\ ByteSize - 1 - value' = value
  BY <1>1, ComplementIs DEF TypeOK
<1>5. Inverses' /\ Place'
  BY <1>1, <1>2, <1>3 DEF Inverses, Place
<1>6. Positions'
  BY <1>1, <1>2 DEF Positions, AheadUpTo
<1>7. CASE who = "enc"
  <2>1. back' = [back EXCEPT ![n + 1] = value']
    BY <1>1, <1>3, <1>7 DEF Complement
  <2>2. back' \in [Places -> Byte] /\ back'[n + 1] = value'
    BY <1>3, <1>4, <2>1 DEF TypeOK
  <2>3. TypeOK'
    BY <1>1, <1>2, <1>3, <1>4, <2>2 DEF TypeOK
  <2>4. there[1] = plain /\ value = there[n + 1] /\ \A j \in 1 .. n + 1 - 1 : ThereAt(j)
    BY <1>1, <1>3, <1>7 DEF EncPaths
  <2>5. WayThere'
    <3>1. \A j \in 1 .. n : j \in 1 .. n + 1 - 1
      OBVIOUS
    <3>2. \A j \in Rotor : ThereAt(j)
      BY <1>3, <2>4, <3>1 DEF Rotor
    <3> QED
      BY <1>1, <1>2, <2>4, <3>2 DEF WayThere, ThereAt
  <2>6. Reflected' /\ back'[n + 1] # there[n + 1]
    BY <1>1, <1>2, <1>3, <1>4, <2>2, <2>4 DEF Reflected
  <2>7. EncPaths'
    <3>1. \A j \in n + 1 .. n : FALSE
      OBVIOUS
    <3>2. \A j \in n + 1 .. n + 1 : j = n + 1
      OBVIOUS
    <3> QED
      BY <1>1, <1>2, <1>3, <2>2, <2>5, <2>6, <3>1, <3>2 DEF EncPaths
  <2>8. DecPaths'
    BY <1>1, <1>7 DEF DecPaths
  <2> QED
    BY <1>1, <1>2, <1>5, <1>6, <2>3, <2>7, <2>8 DEF Failed
<1>8. CASE who = "dec"
  <2>1. UNCHANGED back
    BY <1>8 DEF Complement
  <2>2. TypeOK'
    BY <1>1, <1>2, <1>3, <1>4, <2>1 DEF TypeOK
  <2>3. WayThere /\ WayBack /\ value = back[n + 1] /\ there[n + 1] \in Byte
    BY <1>1, <1>3, <1>8 DEF DecPaths, TypeOK
  <2>4. value' = there[n + 1]
    <3>1. value = ByteSize - 1 - there[n + 1]
      BY <1>3, <2>3 DEF WayBack, Reflected
    <3> QED
      BY <1>1, <2>3, <3>1, ComplementIs
  <2>5. WayThere' = WayThere /\ WayBack' = WayBack
    BY <1>1, <1>2, <2>1 DEF WayThere, WayBack, ThereAt, BackAt, Reflected
  <2>6. EncPaths' /\ DecPaths'
    BY <1>1, <1>3, <1>8, <2>3, <2>4, <2>5 DEF EncPaths, DecPaths
  <2> QED
    BY <1>1, <1>2, <1>5, <1>6, <2>2, <2>6 DEF Failed
<1> QED
  BY <1>7, <1>8 DEF TypeOK, Machine

LEMMA BackwardWorks == ASSUME Works, Backward PROVE Works'
<1> USE DEF Works, Working
<1>1. /\ UNCHANGED <<rotors, inv, pos, who, pc, plain, there, turns>> /\ pc = "backward"
      /\ index' = index - 1 /\ index > 0
  BY DEF Backward, const
<1>2. UNCHANGED <<Rotor, Places, R>> /\ Documented' /\ \A j : P(j)' = P(j)
  BY <1>1 DEF Rotor, Places, R, Documented, P
<1>3. PICK i \in Rotor, n \in Nat \ {0} : i = index /\ i \in Nat \ {0} /\ n = R
  BY <1>1, Machines DEF Place, Rotor
<1>4. /\ i \in Places /\ i + 1 \in Places /\ index' = i - 1 /\ index' + 1 = i
      /\ P(i) \in Byte /\ i - 1 \in 0 .. n
  <2>1. /\ i \in Places /\ i + 1 \in Places /\ P(i) \in Byte
    BY Machines
  <2>2. i \in 1 .. n /\ i \in Nat \ {0} /\ index' = i - 1
    BY ONLY <1>1, <1>3 DEF Rotor
  <2> HIDE DEF Works, Working
  <2>3. index' + 1 = i /\ i - 1 \in 0 .. n
    BY ONLY <2>2
  <2> QED
    BY <2>1, <2>2, <2>3
<1>5. pos[who][i] = P(i)
  <2>1. who = "enc" \/ who = "dec"
    BY DEF TypeOK, Machine
  <2> QED
    BY <1>1, <2>1 DEF Positions, P
<1>6. PICK v \in Byte : v = value
  BY DEF TypeOK
<1>7. value' = (At(inv[i], v) - P(i)) % ByteSize /\ value' \in Byte
  <2>1. v % Len(inv[i]) = v
    BY <1>1, RotorPasses
  <2>2. value' = (At(inv[i], v % Len(inv[i])) - P(i)) % ByteSize
    BY <1>3, <1>5, <1>6 DEF Backward
  <2>3. (At(inv[i], v) - P(i)) % ByteSize \in Byte
    BY <1>1, RotorPasses
  <2> QED
    BY <2>1, <2>2, <2>3
<1>8. Inverses' /\ Place'
  BY <1>1, <1>2, <1>3, <1>4 DEF Inverses, Place
<1>9. Positions'
  BY <1>1, <1>2 DEF Positions, AheadUpTo
<1>10. there[i] \in Byte /\ there[i + 1] \in Byte
  BY <1>4 DEF TypeOK
<1>11. ThereAt(i) => (At(inv[i], there[i + 1]) - P(i)) % ByteSize = there[i]
  <2>1. PICK x \in Byte : x = there[i]
    BY <1>10
  <2>2. (At(inv[i], At(rotors[i], (x + P(i)) % ByteSize)) - P(i)) % ByteSize = x
    BY <1>1, RotorPasses
  <2> QED
    BY <2>1, <2>2 DEF ThereAt
<1>12. CASE who = "enc"
  <2>1. back' = [back EXCEPT ![i] = value']
    BY <1>3, <1>12 DEF Backward
  <2>2. /\ back' \in [Places -> Byte] /\ back'[i] = value'
        /\ \A j \in Places : j # i => back'[j] = back[j]
    BY <1>4, <1>7, <2>1 DEF TypeOK
  <2>3. TypeOK'
    BY <1>1, <1>2, <1>3, <1>4, <1>7, <2>2 DEF TypeOK
  <2>4. /\ WayThere /\ Reflected /\ value = back[i + 1]
        /\ \A j \in i + 1 .. R : BackAt(j)
        /\ \A j \in i + 1 .. R + 1 : back[j] # there[j]
    BY <1>1, <1>3, <1>12 DEF EncPaths
  <2>5. ThereAt(i)
    BY <2>4 DEF WayThere
  <2>6. i # i + 1 /\ R + 1 # i /\ R + 1 \in Places
    BY <1>3 DEF Rotor, Places
  <2>7. BackAt(i)'
    <3>1. back'[i + 1] = v
      BY <1>4, <1>6, <2>2, <2>4, <2>6
    <3> QED
      BY <1>1, <1>2, <1>7, <2>2, <3>1 DEF BackAt
  <2>8. ASSUME NEW j \in i .. n PROVE BackAt(j)'
    <3>1. CASE j = i
      BY <2>7, <3>1
    <3>2. CASE j # i
      <4>1. /\ j \in i + 1 .. n /\ j \in Places /\ j + 1 \in Places /\ j + 1 # i
        BY <1>3, <3>2 DEF Rotor, Places
      <4>2. back'[j] = back[j] /\ back'[j + 1] = back[j + 1] /\ BackAt(j)
        BY <1>3, <2>2, <2>4, <3>2, <4>1
      <4> QED
        BY <1>1, <1>2, <4>2 DEF BackAt
    <3> QED
      BY <3>1, <3>2
  <2>9. value' # there[i]
    \* Otherwise the byte would have met its way there one rotor before.
    <3>1. SUFFICES ASSUME value' = there[i] PROVE FALSE
      OBVIOUS
    <3>2. At(rotors[i], (((At(inv[i], v) - P(i)) % ByteSize) + P(i)) % ByteSize) = v
      BY <1>1, RotorPasses
    <3>3. v = there[i + 1]
      BY <1>7, <2>5, <3>1, <3>2 DEF ThereAt
    <3>4. i + 1 \in i + 1 .. R + 1
      BY <1>3 DEF Rotor
    <3> QED
      BY <1>6, <2>4, <3>3, <3>4
  <2>10. ASSUME NEW j \in i .. n + 1 PROVE back'[j] # there[j]
    <3>1. CASE j = i
      BY <2>2, <2>9, <3>1
    <3>2. CASE j # i
      <4>1. j \in i + 1 .. n + 1 /\ j \in Places
        BY <1>3, <3>2 DEF Rotor, Places
      <4> QED
        BY <1>3, <2>2, <2>4, <3>2, <4>1
    <3> QED
      BY <3>1, <3>2
  <2>11. WayThere' /\ Reflected'
    BY <1>1, <1>2, <2>2, <2>4, <2>6 DEF WayThere, ThereAt, Reflected
  <2>12. EncPaths'
    BY <1>1, <1>2, <1>3, <1>4, <2>2, <2>8, <2>10, <2>11 DEF EncPaths
  <2>13. DecPaths'
    BY <1>1, <1>12 DEF DecPaths
  <2> QED
    BY <1>1, <1>2, <1>8, <1>9, <2>3, <2>12, <2>13
<1>13. CASE who = "dec"
  <2>1. UNCHANGED back
    BY <1>13 DEF Backward
  <2>2. TypeOK'
    BY <1>1, <1>2, <1>3, <1>4, <1>7, <2>1 DEF TypeOK
  <2>3. WayThere /\ WayBack /\ value = there[i + 1] /\ ThereAt(i)
    BY <1>1, <1>3, <1>13 DEF DecPaths, WayThere
  <2>4. value' = there[i]
    BY <1>6, <1>7, <1>11, <2>3
  <2>5. WayThere' = WayThere /\ WayBack' = WayBack
    BY <1>1, <1>2, <2>1 DEF WayThere, WayBack, ThereAt, BackAt, Reflected
  <2>6. EncPaths' /\ DecPaths'
    BY <1>1, <1>4, <1>13, <2>3, <2>4, <2>5 DEF EncPaths, DecPaths
  <2> QED
    BY <1>1, <1>2, <1>8, <1>9, <2>2, <2>6
<1> QED
  BY <1>12, <1>13 DEF TypeOK, Machine

LEMMA StartTurningWorks == ASSUME Works, StartTurning PROVE Works'
<1> USE DEF Works, Working
<1>1. /\ UNCHANGED <<rotors, inv, pos, who, value, plain, there, back, turns>>
      /\ pc = "backward" /\ index = 0 /\ pc' = "turn" /\ index' = 1
  BY DEF StartTurning, const, trail
<1>2. UNCHANGED <<Rotor, Places, R>> /\ Documented' /\ \A j : P(j)' = P(j)
  BY <1>1 DEF Rotor, Places, R, Documented, P
<1>3. PICK n \in Nat \ {0} : n = R
  BY Machines
<1>4. 1 \in Rotor /\ 1 \in 0 .. R + 1
  BY <1>3 DEF Rotor
<1>5. TypeOK'
  BY <1>1, <1>2, <1>4 DEF TypeOK
<1>6. Inverses' /\ Place'
  BY <1>1, <1>2, <1>4 DEF Inverses, Place
<1>7. WayThere' = WayThere /\ WayBack' = WayBack
  BY <1>1, <1>2 DEF WayThere, WayBack, ThereAt, BackAt, Reflected
<1>8. EncPaths' /\ DecPaths'
  <2>1. /\ who = "enc" => /\ WayThere /\ Reflected /\ value = back[1]
                          /\ \A j \in 1 .. R : BackAt(j)
                          /\ \A j \in 1 .. R + 1 : back[j] # there[j]
        /\ who = "dec" => WayThere /\ WayBack /\ value = there[1]
    BY <1>1 DEF EncPaths, DecPaths
  <2>2. who = "enc" => WayBack /\ back[1] # there[1]
    <3>1. 1 \in 1 .. R + 1
      BY <1>3
    <3> QED
      BY <2>1, <3>1 DEF WayBack, Rotor
  <2> QED
    BY <1>1, <1>7, <2>1, <2>2 DEF EncPaths, DecPaths, WayThere
<1>9. Positions'
  <2>1. CASE who = "enc"
    <3>1. pos["enc"] = pos["dec"]
      BY <1>1, <2>1 DEF Positions
    <3>2. \A j \in Rotor : ~(j < 1)
      BY <1>3 DEF Rotor
    <3> QED
      BY <1>1, <1>2, <2>1, <3>1, <3>2 DEF Positions, P
  <2>2. CASE who = "dec"
    <3>1. PICK k \in Rotor : AheadUpTo(1, k)
      BY <1>1, <2>2 DEF Positions
    <3>2. k \in 1 .. R /\ AheadUpTo(1, k)'
      BY <1>1, <1>2, <3>1 DEF AheadUpTo, Rotor
    <3> QED
      BY <1>1, <1>2, <2>2, <3>2 DEF Positions
  <2> QED
    BY <2>1, <2>2 DEF TypeOK, Machine
<1> QED
  BY <1>1, <1>2, <1>5, <1>6, <1>8, <1>9 DEF Failed

LEMMA TurnWorks == ASSUME Works, Turn PROVE Works'
<1> USE DEF Works, Working
<1>1. UNCHANGED <<rotors, inv, value, plain, there, back>> /\ pc = "turn" /\ index \in Rotor
  BY DEF Turn, const, trail, Place
<1>2. UNCHANGED <<Rotor, Places, R>> /\ Documented'
  BY <1>1 DEF Rotor, Places, R, Documented
<1>3. PICK i \in Rotor, n \in Nat \ {0} : i = index /\ i \in 1 .. n /\ n = R
  BY <1>1, Machines DEF Rotor
<1>4. who \in Machine /\ Len(rotors[i]) = ByteSize /\ P(i) \in Byte
  BY Machines DEF TypeOK
<1>5. /\ pos' = [pos EXCEPT ![who][i] = ((@ + 1) % Len(rotors[i])) % ByteSize]
      /\ turns' = IF who = "enc" THEN [turns EXCEPT ![i] = @ + 1] ELSE turns
      /\ IF Carries(i)
         THEN index' = i + 1 /\ pc' = pc /\ who' = who
         ELSE pc' = "ready" /\ who' = (IF who = "enc" THEN "dec" ELSE "enc") /\ index' = i
  <2>1. ~(index > R)
    BY <1>3
  <2> QED
    BY <1>3, <2>1 DEF Turn
<1>6. pos[who][i] = P(i)
  <2>1. CASE who = "enc"
    <3>1. ~(i < i)
      BY <1>3
    <3> QED
      BY <1>1, <1>3, <2>1, <3>1 DEF Positions
  <2>2. CASE who = "dec"
    BY <2>2 DEF P
  <2> QED
    BY <1>4, <2>1, <2>2 DEF Machine
<1>7. /\ ((P(i) + 1) % Len(rotors[i])) % ByteSize = (P(i) + 1) % ByteSize
      /\ (P(i) + 1) % ByteSize \in Byte
  <2>1. PICK p \in Int : p = P(i)
    BY <1>4 DEF Byte
  <2>2. PICK q \in Byte : q = (p + 1) % ByteSize
    BY Modulo
  <2>3. q \in Int
    BY ByteAssumption DEF Byte
  <2>4. q % ByteSize = q
    BY <2>3, Modulo
  <2> QED
    BY <1>4, <2>1, <2>2, <2>4
<1>8. /\ pos' \in [Machine -> [Rotor -> Byte]] /\ pos'[who][i] = (P(i) + 1) % ByteSize
      /\ \A j \in Rotor : j # i => pos'[who][j] = pos[who][j]
      /\ \A m \in Machine : m # who => pos'[m] = pos[m]
  BY <1>4, <1>5, <1>6, <1>7 DEF TypeOK
<1>9. Carries(i) <=> At(rotors[i], P(i)) = 0 /\ i # n
  <2>1. i < R <=> i # n
    BY <1>3
  <2> QED
    BY <1>6, <2>1 DEF Carries
<1>10. TypeOK' /\ Inverses' /\ Place'
  <2>1. turns' \in [Rotor -> Nat]
    BY <1>5 DEF TypeOK
  <2>2. index' \in 0 .. R + 1 /\ (pc' = "turn" => index' \in Rotor)
    BY <1>3, <1>5, <1>9 DEF Rotor
  <2>3. pc' \in {"ready", "turn"} /\ who' \in Machine
    BY <1>1, <1>4, <1>5 DEF Machine
  <2> QED
    BY <1>1, <1>2, <1>8, <2>1, <2>2, <2>3 DEF TypeOK, Inverses, Place
<1>11. CASE who = "enc"
  <2>1. \A j \in Rotor : P(j)' = P(j)
    BY <1>8, <1>11 DEF P, Machine
  <2>2. WayThere' = WayThere /\ WayBack' = WayBack
    BY <1>1, <1>2, <2>1 DEF WayThere, WayBack, ThereAt, BackAt, Reflected
  <2>3. WayThere /\ WayBack /\ value = back[1] /\ back[1] # there[1]
    BY <1>1, <1>11 DEF EncPaths
  <2>4. \A j \in Rotor : IF j < i
                         THEN /\ pos["enc"][j] = (P(j) + 1) % ByteSize
                              /\ At(rotors[j], P(j)) = 0
                         ELSE pos["enc"][j] = P(j)
    BY <1>1, <1>3, <1>11 DEF Positions
  <2>5. ASSUME NEW j \in Rotor
        PROVE  /\ j < i => pos'["enc"][j] = (P(j)' + 1) % ByteSize /\ At(rotors[j], P(j)') = 0
               /\ j = i => pos'["enc"][j] = (P(j)' + 1) % ByteSize
               /\ j > i => pos'["enc"][j] = P(j)'
    <3>1. (j < i => j # i) /\ (j > i => j # i /\ ~(j < i))
      BY <1>3 DEF Rotor
    <3> QED
      BY <1>8, <1>11, <2>1, <2>4, <3>1
  <2>6. CASE Carries(i)
    <3>1. pc' = "turn" /\ who' = "enc" /\ index' = i + 1 /\ At(rotors[i], P(i)) = 0
      BY <1>1, <1>5, <1>9, <1>11, <2>6
    <3>2. ASSUME NEW j \in Rotor
          PROVE  IF j < i + 1
                 THEN /\ pos'["enc"][j] = (P(j)' + 1) % ByteSize
                      /\ At(rotors[j], P(j)') = 0
                 ELSE pos'["enc"][j] = P(j)'
      <4>1. (j < i + 1 => j < i \/ j = i) /\ (~(j < i + 1) => j > i)
        BY <1>3 DEF Rotor
      <4> QED
        BY <2>1, <2>5, <3>1, <4>1
    <3>3. Positions'
      BY <1>1, <1>2, <3>1, <3>2 DEF Positions
    <3>4. EncPaths' /\ DecPaths'
      BY <1>1, <2>2, <2>3, <3>1 DEF EncPaths, DecPaths
    <3> QED
      BY <1>2, <1>10, <3>1, <3>3, <3>4 DEF Failed
  <2>7. CASE ~Carries(i)
    <3>1. pc' = "ready" /\ who' = "dec" /\ (i = R \/ At(rotors[i], P(i)) # 0)
      BY <1>3, <1>5, <1>9, <1>11, <2>7
    <3>2. \A j \in 1 .. i - 1 : j \in Rotor /\ j < i
      BY <1>3 DEF Rotor
    <3>3. \A j \in 1 .. i : j \in Rotor /\ (j < i \/ j = i)
      BY <1>3 DEF Rotor
    <3>4. \A j \in Rotor : j < 1 \/ j > i => j > i
      BY <1>3 DEF Rotor
    <3>5. AheadUpTo(1, i)'
      BY <1>1, <1>2, <2>1, <2>5, <3>1, <3>2, <3>3, <3>4 DEF AheadUpTo
    <3>6. Positions'
      BY <1>2, <3>1, <3>5 DEF Positions
    <3>7. EncPaths' /\ DecPaths'
      BY <1>1, <2>2, <2>3, <3>1 DEF EncPaths, DecPaths
    <3> QED
      BY <1>2, <1>10, <3>1, <3>6, <3>7 DEF Failed
  <2> QED
    BY <2>6, <2>7
<1>12. CASE who = "dec"
  <2>1. PICK k \in i .. n : AheadUpTo(i, k)
    BY <1>1, <1>3, <1>12 DEF Positions
  <2>2. /\ P(i)' = (P(i) + 1) % ByteSize /\ pos'["enc"] = pos["enc"]
        /\ \A j \in Rotor : j # i => P(j)' = P(j)
    BY <1>8, <1>12 DEF P, Machine
  <2>3. pos'["enc"][i] = P(i)'
    <3>1. i \in i .. k
      BY <1>3, <2>1
    <3> QED
      BY <2>1, <2>2, <3>1 DEF AheadUpTo
  <2>4. /\ \A j \in i .. k - 1 : At(rotors[j], P(j)) = 0
        /\ k = n \/ At(rotors[k], P(k)) # 0
        /\ \A j \in i .. k : pos["enc"][j] = (P(j) + 1) % ByteSize
        /\ \A j \in Rotor : j < i \/ j > k => pos["enc"][j] = P(j)
    BY <1>3, <2>1 DEF AheadUpTo
  <2>5. value = plain
    BY <1>1, <1>12 DEF DecPaths
  <2>6. CASE Carries(i)
    <3>1. pc' = "turn" /\ who' = "dec" /\ index' = i + 1 /\ At(rotors[i], P(i)) = 0 /\ i # n
      BY <1>1, <1>5, <1>9, <1>12, <2>6
    <3>2. k \in i + 1 .. n
      <4>1. k # i
        BY <2>4, <3>1
      <4> QED
        BY <1>3, <2>1, <4>1
    <3>3. ASSUME NEW j \in i + 1 .. k PROVE P(j)' = P(j) /\ j \in i .. k
      <4>1. j \in Rotor /\ j # i /\ j \in i .. k
        BY <1>3, <2>1 DEF Rotor
      <4> QED
        BY <2>2, <4>1
    <3>4. \A j \in i + 1 .. k - 1 : At(rotors[j], P(j)') = 0
      <4>1. \A j \in i + 1 .. k - 1 : j \in i + 1 .. k /\ j \in i .. k - 1
        BY <1>3, <2>1
      <4> QED
        BY <2>4, <3>3, <4>1
    <3>5. k = n \/ At(rotors[k], P(k)') # 0
      <4>1. k \in i + 1 .. k
        BY <1>3, <3>2
      <4> QED
        BY <2>4, <3>3, <4>1
    <3>6. \A j \in i + 1 .. k : pos'["enc"][j] = (P(j)' + 1) % ByteSize
      BY <2>2, <2>4, <3>3
    <3>7. ASSUME NEW j \in Rotor, j < i + 1 \/ j > k PROVE pos'["enc"][j] = P(j)'
      <4>1. j = i \/ (j # i /\ (j < i \/ j > k))
        BY <1>3, <2>1, <3>2, <3>7 DEF Rotor
      <4> QED
        BY <2>2, <2>3, <2>4, <4>1
    <3>8. AheadUpTo(i + 1, k)'
      BY <1>1, <1>2, <1>3, <3>4, <3>5, <3>6, <3>7 DEF AheadUpTo
    <3>9. Positions'
      BY <1>2, <1>3, <3>1, <3>2, <3>8 DEF Positions
    <3>10. EncPaths' /\ DecPaths'
      BY <1>1, <2>5, <3>1 DEF EncPaths, DecPaths
    <3> QED
      BY <1>2, <1>10, <3>1, <3>9, <3>10 DEF Failed
  <2>7. CASE ~Carries(i)
    <3>1. pc' = "ready" /\ who' = "enc"
      BY <1>5, <1>12, <2>7
    <3>2. k = i
      <4>1. SUFFICES ASSUME k # i PROVE FALSE
        OBVIOUS
      <4>2. i \in i .. k - 1 /\ i # n
        BY <1>3, <2>1, <4>1
      <4> QED
        BY <1>9, <2>4, <2>7, <4>2
    <3>3. ASSUME NEW j \in Rotor PROVE pos'["enc"][j] = pos'["dec"][j]
      <4>1. j = i \/ (j # i /\ (j < i \/ j > k))
        BY <1>3, <3>2 DEF Rotor
      <4> QED
        BY <2>2, <2>3, <2>4, <4>1 DEF P
    <3>4. pos'["enc"] = pos'["dec"]
      <4>1. pos'["enc"] \in [Rotor -> Byte] /\ pos'["dec"] \in [Rotor -> Byte]
        BY <1>8 DEF Machine
      <4> QED
        BY <3>3, <4>1
    <3>5. Positions' /\ EncPaths' /\ DecPaths'
      BY <3>1, <3>4 DEF Positions, EncPaths, DecPaths
    <3> QED
      BY <1>2, <1>10, <3>1, <3>5 DEF Failed
  <2> QED
    BY <2>6, <2>7
<1> QED
  BY <1>4, <1>11, <1>12 DEF Machine

-----------------------------------------------------------------------------

\* Every behaviour stays in the invariant.  Rotors never change, so that
\* those that are not as documented are no concern of it.
THEOREM Invariance == Spec => []IInv
<1>1. Init => IInv
  <2>1. SUFFICES ASSUME Init, Documented PROVE IInv
    BY DEF IInv
  <2>2. 0 \in Byte /\ ByteSize \in Nat \ {0}
    <3>1. PICK m \in Nat \ {0} : m = ByteSize
      BY ByteAssumption
    <3> QED
      BY <3>1 DEF Byte
  <2>3. inv \in Seq(Seq(Byte))
    BY <2>1, EmptySeq DEF Init
  <2>4. R \in Nat
    BY RotorsAssumption DEF Init, R
  <2>5. TypeOK
    BY <2>1, <2>2, <2>3, <2>4 DEF TypeOK, Init, Machine, Rotor, Places, R
  <2> QED
    BY <2>1, <2>5 DEF IInv, Init, Machine
<1>2. IInv /\ [Next]_vars => IInv'
  <2>1. SUFFICES ASSUME IInv, [Next]_vars, Documented' PROVE IInv'
    BY DEF IInv
  <2>2. UNCHANGED rotors
    BY <2>1 DEF Next, vars, const, Construct, ProcessByte, DividesByZero, Forward, Complement,
       Backward, StartTurning, Turn, Terminated
  <2>3. Documented /\ TypeOK
    BY <2>1, <2>2 DEF Documented, Rotor, R, IInv
  <2>4. (pc = "construct" => who = "enc" /\ pos["enc"] = pos["dec"]) /\ (pc # "construct" => Works)
    BY <2>1, <2>3 DEF IInv, Works
  <2>5. CASE UNCHANGED vars
    BY <2>1, <2>5 DEF IInv, vars, const, trail, TypeOK, Working, Inverses, Place, EncPaths,
       DecPaths, Positions, AheadUpTo, WayThere, WayBack, Reflected, ThereAt, BackAt, P, Rotor,
       Places, R, Documented
  <2>6. CASE Construct
    BY <2>3, <2>4, <2>6, ConstructWorks DEF Construct, Works, IInv
  <2>7. CASE ProcessByte
    BY <2>4, <2>7, ProcessByteWorks DEF ProcessByte, Works, IInv
  <2>8. CASE DividesByZero
    <3>1. Works /\ index \in Rotor
      BY <2>4, <2>8 DEF DividesByZero, Works, Working, Place, Places, Rotor
    <3>2. Len(rotors[index]) = ByteSize /\ ByteSize # 0
      BY <2>3, <3>1, Machines, ByteAssumption
    <3> QED
      BY <2>8, <3>2 DEF DividesByZero
  <2>9. CASE Forward
    BY <2>4, <2>9, ForwardWorks DEF Forward, Works, IInv
  <2>10. CASE Complement
    BY <2>4, <2>10, ComplementWorks DEF Complement, Works, IInv
  <2>11. CASE Backward
    BY <2>4, <2>11, BackwardWorks DEF Backward, Works, IInv
  <2>12. CASE StartTurning
    BY <2>4, <2>12, StartTurningWorks DEF StartTurning, Works, IInv
  <2>13. CASE Turn
    BY <2>4, <2>13, TurnWorks DEF Turn, Works, IInv
  <2>14. CASE Terminated
    BY <2>5, <2>14 DEF Terminated
  <2> QED
    BY <2>1, <2>5, <2>6, <2>7, <2>8, <2>9, <2>10, <2>11, <2>12, <2>13, <2>14 DEF Next
<1> QED
  BY <1>1, <1>2, PTL DEF Spec

\* Machines with documented rotors neither throw nor trap.
THEOREM NeverFails == Spec => []DocumentedNeverFails
<1>1. IInv => DocumentedNeverFails
  BY DEF IInv, Working, DocumentedNeverFails, Failed
<1> QED
  BY <1>1, Invariance, PTL

\* No rotors, in whatever positions, encrypt a byte to itself.
THEOREM NoFixedPoint == Spec => []NeverToItself
<1>1. IInv => NeverToItself
  BY DEF IInv, Working, EncPaths, WayThere, NeverToItself
<1> QED
  BY <1>1, Invariance, PTL

\* A second machine of the same rotors decrypts every byte.
THEOREM Decryption == Spec => []Decrypts
<1>1. IInv => Decrypts
  BY DEF IInv, Working, DecPaths, Decrypts
<1> QED
  BY <1>1, Invariance, PTL

-----------------------------------------------------------------------------
(* The odometer.                                                            *)

\* How often rotor i has turned away from its 0, which is how often rotor
\* i + 1 is to have turned.
CarriesOf(i) == (turns[i] + ByteSize - 1 - Zero(i)) \div ByteSize

\* Of two rotors the second one lags behind only between its turn and the
\* turn of the first one that causes it.
Counted ==
  /\ \A i \in Rotor : pos["enc"][i] = turns[i] % ByteSize
  /\ \A i \in 1 .. R - 1 :
       CarriesOf(i) = IF pc = "turn" /\ who = "enc" /\ index = i + 1
                      THEN turns[i + 1] + 1 ELSE turns[i + 1]

\* The invariant of the odometer, which rests on that of the machines.
OdometerInv == Documented => Counted

\* What a turn does to the two numbers that a position and a carry are.
LEMMA TurnCounts ==
  ASSUME NEW t \in Nat, NEW z \in Byte
  PROVE  /\ (t + 1) % ByteSize = ((t % ByteSize) + 1) % ByteSize
         /\ (t + 1 + ByteSize - 1 - z) \div ByteSize =
              IF t % ByteSize = z THEN ((t + ByteSize - 1 - z) \div ByteSize) + 1
              ELSE (t + ByteSize - 1 - z) \div ByteSize
<1>1. PICK m \in Nat \ {0} : m = ByteSize /\ z \in 0 .. m - 1
  BY ByteAssumption DEF Byte
<1>2. PICK k \in Nat, s \in 0 .. m - 1 : k = t \div m /\ s = t % m /\ t = m * k + s
  <2>1. t \div m \in Nat /\ t % m \in 0 .. m - 1 /\ t = m * (t \div m) + (t % m)
    BY <1>1, SMT
  <2> QED
    BY <2>1
\* A number of the form m * b + c with c below m has the quotient b.
<1>3. ASSUME NEW b \in Nat, NEW c \in 0 .. m - 1
      PROVE  (m * b + c) \div m = b /\ (m * b + c) % m = c
  BY <1>1, SMT
<1>4. m * (k + 1) = m * k + m /\ m * k \in Nat
  BY <1>1, <1>2
<1>5. (t + 1) % m = (s + 1) % m
  <2>1. CASE s + 1 < m
    <3>1. s + 1 \in 0 .. m - 1 /\ t + 1 = m * k + (s + 1)
      BY <1>2, <1>4, <2>1
    <3>2. (m * k + (s + 1)) % m = s + 1
      BY <1>3, <3>1
    <3>3. (s + 1) % m = s + 1
      BY <1>1, <3>1
    <3> QED
      BY <3>1, <3>2, <3>3
  <2>2. CASE s + 1 >= m
    <3>1. s + 1 = m /\ t + 1 = m * (k + 1) + 0 /\ 0 \in 0 .. m - 1 /\ k + 1 \in Nat
      BY <1>1, <1>2, <1>4, <2>2
    <3>2. (m * (k + 1) + 0) % m = 0
      BY <1>3, <3>1
    <3>3. m % m = 0
      BY <1>1
    <3> QED
      BY <3>1, <3>2, <3>3
  <2> QED
    BY <1>1, <1>2, <2>1, <2>2
<1> DEFINE Quotient(x) == (x + m - 1 - z) \div m
<1>6. CASE s = z
  <2>1. /\ t + m - 1 - z = m * k + (m - 1) /\ m - 1 \in 0 .. m - 1
        /\ t + 1 + m - 1 - z = m * (k + 1) + 0 /\ 0 \in 0 .. m - 1 /\ k + 1 \in Nat
    BY <1>1, <1>2, <1>4, <1>6
  <2>2. (m * k + (m - 1)) \div m = k /\ (m * (k + 1) + 0) \div m = k + 1
    BY <1>3, <2>1
  <2>3. Quotient(t) = k /\ Quotient(t + 1) = k + 1
    BY <2>1, <2>2
  <2> QED
    BY <1>1, <1>2, <1>5, <1>6, <2>3
<1>7. CASE s < z
  <2>1. t + m - 1 - z = m * k + (s + m - 1 - z) /\ t + 1 + m - 1 - z = m * k + (s + m - z)
    BY <1>1, <1>2, <1>4
  <2>2. s + m - 1 - z \in 0 .. m - 1 /\ s + m - z \in 0 .. m - 1
    BY <1>1, <1>2, <1>7
  <2>3. /\ (m * k + (s + m - 1 - z)) \div m = k
        /\ (m * k + (s + m - z)) \div m = k
    BY <1>2, <1>3, <2>2
  <2>4. Quotient(t) = k /\ Quotient(t + 1) = k
    BY <2>1, <2>3
  <2> QED
    BY <1>1, <1>2, <1>5, <1>7, <2>4
<1>8. CASE s > z
  <2>1. /\ t + m - 1 - z = m * (k + 1) + (s - 1 - z) /\ s - 1 - z \in 0 .. m - 1
        /\ t + 1 + m - 1 - z = m * (k + 1) + (s - z) /\ s - z \in 0 .. m - 1
        /\ k + 1 \in Nat
    BY <1>1, <1>2, <1>4, <1>8
  <2>2. /\ (m * (k + 1) + (s - 1 - z)) \div m = k + 1
        /\ (m * (k + 1) + (s - z)) \div m = k + 1
    BY <1>3, <2>1
  <2>3. Quotient(t) = k + 1 /\ Quotient(t + 1) = k + 1
    BY <2>1, <2>2
  <2> QED
    BY <1>1, <1>2, <1>5, <1>8, <2>3
<1> QED
  BY <1>1, <1>2, <1>6, <1>7, <1>8

\* A documented rotor has its 0 in one place.
LEMMA ZeroIs ==
  ASSUME Documented, NEW i \in Rotor
  PROVE  Zero(i) \in Byte /\ \A p \in Byte : At(rotors[i], p) = 0 <=> p = Zero(i)
<1>1. IsRotor(rotors[i])
  BY DEF Documented
<1>2. 0 \in Byte
  <2>1. PICK m \in Nat \ {0} : m = ByteSize
    BY ByteAssumption
  <2> QED
    BY <2>1 DEF Byte
<1>3. \E j \in Byte : At(rotors[i], j) = 0
  BY <1>1, <1>2 DEF IsRotor
<1>4. Zero(i) \in Byte /\ At(rotors[i], Zero(i)) = 0
  BY <1>3 DEF Zero
<1> QED
  BY <1>1, <1>4 DEF IsRotor

LEMMA InitCounts == ASSUME Init PROVE OdometerInv
<1> SUFFICES ASSUME Documented PROVE Counted
  BY DEF OdometerInv
<1>1. PICK m \in Nat \ {0} : m = ByteSize
  BY ByteAssumption
<1>2. /\ \A i \in Rotor : turns[i] = 0 /\ pos["enc"][i] = 0
      /\ pc = "construct" /\ R \in Nat
  BY RotorsAssumption DEF Init, Rotor, R, Machine
<1>3. 0 % m = 0
  BY <1>1
<1>4. ASSUME NEW i \in 1 .. R - 1 PROVE CarriesOf(i) = turns[i + 1]
  <2>1. i \in Rotor /\ i + 1 \in Rotor
    BY <1>2 DEF Rotor
  <2>2. PICK z \in 0 .. m - 1 : z = Zero(i)
    BY <1>1, <2>1, ZeroIs DEF Byte
  <2>3. (0 + m - 1 - z) \div m = 0
    BY <1>1, SMT
  <2> QED
    BY <1>1, <1>2, <2>1, <2>2, <2>3 DEF CarriesOf
<1> QED
  BY <1>1, <1>2, <1>3, <1>4 DEF Counted

\* Whoever does not turn a rotor of "enc" leaves the odometer as it is.
LEMMA OthersCount ==
  ASSUME Documented, TypeOK, Counted, UNCHANGED <<rotors, turns>>, pos'["enc"] = pos["enc"],
         ~(pc = "turn" /\ who = "enc"),
         pc' = "turn" /\ who' = "enc" => index' = 1
  PROVE  Counted'
<1>1. UNCHANGED <<R, Rotor>> /\ \A i \in Rotor : Zero(i)' = Zero(i)
  BY DEF R, Rotor, Zero
<1>2. ASSUME NEW i \in Rotor PROVE CarriesOf(i)' = CarriesOf(i)
  BY <1>1 DEF CarriesOf
<1>3. PICK n \in Nat : n = R
  BY Machines
<1>4. ASSUME NEW i \in 1 .. R - 1 PROVE i \in Rotor /\ i + 1 # 1
  BY <1>3 DEF Rotor
<1>5. ASSUME NEW i \in 1 .. R - 1 PROVE CarriesOf(i) = turns[i + 1]
  BY DEF Counted
<1> QED
  BY <1>1, <1>2, <1>4, <1>5 DEF Counted

LEMMA EncTurnCounts ==
  ASSUME Works, Counted, Turn, who = "enc"
  PROVE  Counted'
<1>1. Documented /\ TypeOK /\ UNCHANGED rotors /\ pc = "turn" /\ index \in Rotor
  BY DEF Works, Working, Place, Turn, const
<1>2. UNCHANGED <<R, Rotor>> /\ \A j \in Rotor : Zero(j)' = Zero(j)
  BY <1>1 DEF R, Rotor, Zero
<1>3. PICK i \in Rotor, n \in Nat \ {0} : i = index /\ n = R /\ i \in 1 .. n
  BY <1>1, Machines DEF Rotor
<1>4. Len(rotors[i]) = ByteSize /\ pos["enc"][i] \in Byte /\ turns[i] \in Nat
  BY <1>1, Machines DEF TypeOK
<1>5. /\ pos' = [pos EXCEPT !["enc"][i] = ((@ + 1) % Len(rotors[i])) % ByteSize]
      /\ turns' = [turns EXCEPT ![i] = @ + 1]
      /\ IF Carries(i) THEN index' = i + 1 /\ pc' = "turn" /\ who' = "enc"
         ELSE pc' = "ready"
  <2>1. ~(index > R)
    BY <1>3
  <2> QED
    BY <1>1, <1>3, <2>1 DEF Turn
<1>6. PICK t \in Nat : t = turns[i]
  BY <1>4
<1>7. turns'[i] = t + 1 /\ \A j \in Rotor : j # i => turns'[j] = turns[j]
  BY <1>1, <1>5, <1>6 DEF TypeOK
<1>8. PICK z \in Byte : z = Zero(i)
  BY <1>1, ZeroIs
<1>9. pos["enc"][i] = t % ByteSize
  BY <1>6 DEF Counted
<1>10. /\ pos'["enc"][i] = (((t % ByteSize) + 1) % ByteSize) % ByteSize
       /\ \A j \in Rotor : j # i => pos'["enc"][j] = pos["enc"][j]
  BY <1>1, <1>4, <1>5, <1>9 DEF TypeOK, Machine
<1>11. (((t % ByteSize) + 1) % ByteSize) % ByteSize = (t + 1) % ByteSize
  <2>1. (t + 1) % ByteSize = ((t % ByteSize) + 1) % ByteSize
    BY <1>6, <1>8, TurnCounts
  <2>2. PICK q \in Byte : q = (t + 1) % ByteSize
    BY <1>6, Modulo
  <2>3. q \in Int
    BY ByteAssumption DEF Byte
  <2>4. q % ByteSize = q
    BY <2>3, Modulo
  <2> QED
    BY <2>1, <2>2, <2>4
<1>12. ASSUME NEW j \in Rotor PROVE pos'["enc"][j] = turns'[j] % ByteSize
  <2>1. CASE j = i
    BY <1>7, <1>10, <1>11, <2>1
  <2>2. CASE j # i
    BY <1>7, <1>10, <2>2 DEF Counted
  <2> QED
    BY <2>1, <2>2
<1>13. Carries(i) <=> t % ByteSize = z /\ i < n
  <2>1. At(rotors[i], pos["enc"][i]) = 0 <=> pos["enc"][i] = z
    BY <1>1, <1>4, <1>8, ZeroIs
  <2> QED
    BY <1>3, <1>9, <2>1 DEF Carries
<1>14. ASSUME NEW j \in 1 .. n - 1
       PROVE  CarriesOf(j)' = IF pc' = "turn" /\ who' = "enc" /\ index' = j + 1
                              THEN turns'[j + 1] + 1 ELSE turns'[j + 1]
  <2>1. j \in Rotor /\ j + 1 \in Rotor /\ j \in Nat
    BY <1>3 DEF Rotor
  <2>2. CarriesOf(j) = IF i = j + 1 THEN turns[j + 1] + 1 ELSE turns[j + 1]
    BY <1>1, <1>3 DEF Counted
  \* The rotor that turns now: the next one is to follow if it turns from its 0.
  <2>3. CASE j = i
    <3>1. CarriesOf(i) = turns[i + 1] /\ i # i + 1
      BY <1>3, <2>2, <2>3
    <3>2. turns'[i + 1] = turns[i + 1]
      BY <1>7, <2>1, <2>3, <3>1
    <3>3. CarriesOf(i)' = (t + 1 + ByteSize - 1 - z) \div ByteSize
      BY <1>2, <1>7, <1>8 DEF CarriesOf
    <3>4. CarriesOf(i) = (t + ByteSize - 1 - z) \div ByteSize
      BY <1>6, <1>8 DEF CarriesOf
    <3>5. CarriesOf(i)' = IF t % ByteSize = z THEN CarriesOf(i) + 1 ELSE CarriesOf(i)
      BY <1>6, <1>8, <3>3, <3>4, TurnCounts
    <3>6. Carries(i) <=> t % ByteSize = z
      BY <1>3, <1>13, <2>3
    <3> QED
      BY <1>5, <2>3, <3>1, <3>2, <3>5, <3>6
  \* The one after the rotor that caused this turn.
  <2>4. CASE j + 1 = i
    <3>1. CarriesOf(j) = t + 1 /\ j # i
      BY <1>3, <1>6, <2>1, <2>2, <2>4
    <3>2. CarriesOf(j)' = CarriesOf(j)
      BY <1>2, <1>7, <2>1, <3>1 DEF CarriesOf
    <3>3. index' # j + 1 \/ pc' = "ready"
      BY <1>3, <1>5, <2>4
    <3> QED
      BY <1>7, <2>4, <3>1, <3>2, <3>3
  <2>5. CASE j # i /\ j + 1 # i
    <3>1. CarriesOf(j)' = CarriesOf(j) /\ turns'[j + 1] = turns[j + 1]
      BY <1>2, <1>7, <2>1, <2>5 DEF CarriesOf
    <3>2. ~(pc' = "turn" /\ index' = j + 1)
      <4>1. i + 1 # j + 1
        BY <1>3, <2>1, <2>5
      <4> QED
        BY <1>5, <4>1
    <3> QED
      BY <2>2, <2>5, <3>1, <3>2
  <2> QED
    BY <2>3, <2>4, <2>5
<1> QED
  BY <1>2, <1>3, <1>12, <1>14 DEF Counted

LEMMA StepCounts ==
  ASSUME IInv, OdometerInv, [Next]_vars
  PROVE  OdometerInv'
<1>1. SUFFICES ASSUME Documented' PROVE Counted'
  BY DEF OdometerInv
<1>2. UNCHANGED rotors
  BY DEF Next, vars, const, Construct, ProcessByte, DividesByZero, Forward, Complement,
     Backward, StartTurning, Turn, Terminated
<1>3. Documented /\ TypeOK /\ Counted /\ (pc # "construct" => Works)
  BY <1>1, <1>2 DEF Documented, Rotor, R, IInv, OdometerInv, Works
<1>4. CASE Turn /\ who = "enc"
  BY <1>3, <1>4, EncTurnCounts DEF Turn
<1>5. CASE Turn /\ who # "enc"
  <2>1. who = "dec" /\ pc = "turn" /\ Works
    BY <1>3, <1>5 DEF Turn, TypeOK, Machine
  <2>2. ~(index > R) /\ index \in Rotor
    <3>1. PICK n \in Nat : n = R
      BY <1>3, Machines
    <3>2. index \in 1 .. n
      BY <2>1, <3>1 DEF Works, Working, Place, Rotor
    <3> QED
      BY <3>1, <3>2 DEF Rotor
  <2>3. UNCHANGED turns /\ pos'["enc"] = pos["enc"]
    BY <1>3, <1>5, <2>1, <2>2 DEF Turn, TypeOK, Machine
  <2>4. ~(pc' = "turn" /\ who' = "enc")
    BY <1>5, <2>1, <2>2 DEF Turn
  <2> QED
    BY <1>2, <1>3, <2>1, <2>3, <2>4, OthersCount
<1>6. CASE UNCHANGED vars
  BY <1>3, <1>6 DEF vars, const, Counted, CarriesOf, Zero, Rotor, R
<1>7. CASE ~Turn /\ ~UNCHANGED vars
  <2>1. /\ UNCHANGED <<turns, pos>> /\ pc # "turn"
        /\ pc' = "turn" => index' = 1
    BY <1>7 DEF Next, vars, const, trail, Construct, ProcessByte, DividesByZero, Forward,
       Complement, Backward, StartTurning, Terminated
  <2> QED
    BY <1>2, <1>3, <2>1, OthersCount
<1> QED
  BY <1>4, <1>5, <1>6, <1>7

\* The rotors count the bytes like an odometer: the position of each is the
\* number of its turns, and each turns once for every round of the one before.
THEOREM CountsLikeOdometer == Spec => []Odometer
<1>1. Init => OdometerInv
  BY InitCounts
<1>2. IInv /\ OdometerInv /\ [Next]_vars => OdometerInv'
  BY StepCounts
<1>3. OdometerInv => Odometer
  BY DEF OdometerInv, Counted, CarriesOf, Odometer
<1> QED
  BY <1>1, <1>2, <1>3, Invariance, PTL DEF Spec

=============================================================================
