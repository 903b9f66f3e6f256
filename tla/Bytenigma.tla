------------------------------ MODULE Bytenigma ------------------------------
(***************************************************************************)
(* Bytenigma::Bytenigma (src/bytenigma.cpp): rotors that a byte passes     *)
(* forwards, complemented and backwards, and that turn like an odometer    *)
(* after each byte.  Two machines of the same rotors are modelled: "enc"   *)
(* processes a byte, then "dec" processes the result.  The loops of        *)
(* forward_pass and backward_pass and the recursion of turn_rotor are run  *)
(* one rotor at a time.                                                    *)
(***************************************************************************)
EXTENDS Integers, Sequences

CONSTANTS
  ByteSize,      \* 2^8, the number of values of a std::uint8_t
  RotorChoices,  \* the rotors the machines may be given
  MaxBytes       \* bound of the model: bytes to process

Byte == 0 .. ByteSize - 1

\* ByteSize is even: no byte is its own complement.
ASSUME ByteAssumption ==
  ByteSize \in Nat \ {0} /\ ByteSize % 2 = 0

ASSUME RotorsAssumption == RotorChoices \subseteq Seq(Seq(Byte))

VARIABLES
  rotors,      \* m_rotors
  inv,         \* m_inv_rotors
  pos,         \* pos[m]: m_rotor_positions of machine m
  who,         \* the machine that processes a byte, or will next
  pc,          \* where it is
  index,       \* the rotor the byte is at, or that turns
  value,       \* the byte on its way
  plain,       \* the byte "enc" was given
  there, back, \* the byte between the rotors of "enc" on its ways forwards
               \* and backwards, remembered for the invariants
  turns        \* turns[i]: how often rotor i of "enc" has turned, likewise

const  == <<rotors, inv>>
trail  == <<plain, there, back>>
vars   == <<const, pos, who, pc, index, value, trail, turns>>

Machine == {"enc", "dec"}
Failed  == {"thrown", "killed"}

R      == Len(rotors)
Rotor  == 1 .. R
Places == 1 .. R + 1

\* vector::at, from 0.
At(r, j) == r[j + 1]

\* The documented precondition (bytenigma.hpp:10): a rotor maps each of the
\* 256 bytes to a byte of its own.
IsRotor(r) ==
  /\ Len(r) = ByteSize
  /\ \A j, k \in Byte : At(r, j) = At(r, k) => j = k
  /\ \A y \in Byte : \E j \in Byte : At(r, j) = y

Documented == R > 0 /\ \A i \in Rotor : IsRotor(rotors[i])

\* One rotor of calculate_inverse_rotors: the last input that gives y, or
\* the 0 the vector was created with.  An input is stored as a byte.
InverseOf(r) ==
  LET Inputs(y) == {j \in 1 .. Len(r) : r[j] = y - 1}
      Last(y)   == CHOOSE j \in Inputs(y) : \A k \in Inputs(y) : k <= j
  IN [y \in 1 .. Len(r) |-> IF Inputs(y) = {} THEN 0 ELSE (Last(y) - 1) % ByteSize]

-----------------------------------------------------------------------------
Init ==
  /\ rotors \in RotorChoices
  /\ inv = <<>>
  /\ pos = [m \in Machine |-> [i \in 1 .. Len(rotors) |-> 0]]
  /\ who = "enc"
  /\ pc = "construct"
  /\ index = 0
  /\ value = 0
  /\ plain = 0
  /\ there = [i \in 1 .. Len(rotors) + 1 |-> 0]
  /\ back = [i \in 1 .. Len(rotors) + 1 |-> 0]
  /\ turns = [i \in 1 .. Len(rotors) |-> 0]

\* The constructor: at throws for an output that is no index of its rotor.
Construct ==
  /\ pc = "construct"
  /\ IF \E i \in Rotor : \E j \in 1 .. Len(rotors[i]) : rotors[i][j] >= Len(rotors[i])
     THEN pc' = "thrown" /\ UNCHANGED inv
     ELSE pc' = "ready" /\ inv' = [i \in Rotor |-> InverseOf(rotors[i])]
  /\ UNCHANGED <<rotors, pos, who, index, value, trail, turns>>

\* process_byte is called: on any byte, or on what came out of "enc".
ProcessByte ==
  /\ pc = "ready"
  /\ \/ /\ who = "enc"
        /\ \A i \in Rotor : turns[i] < MaxBytes
        /\ \E x \in Byte : /\ value' = x
                           /\ plain' = x
                           /\ there' = [there EXCEPT ![1] = x]
     \/ /\ who = "dec"
        /\ UNCHANGED <<value, plain, there>>
  /\ index' = 1
  /\ pc' = "forward"
  /\ UNCHANGED <<const, pos, who, back, turns>>

\* % by the size of an empty rotor is a division by zero, which traps.
DividesByZero ==
  /\ pc = "forward"
  /\ index <= R
  /\ Len(rotors[index]) = 0
  /\ pc' = "killed"
  /\ UNCHANGED <<const, pos, who, index, value, trail, turns>>

Forward ==
  /\ pc = "forward"
  /\ index <= R
  /\ Len(rotors[index]) # 0
  /\ value' = At(rotors[index], (value + pos[who][index]) % Len(rotors[index]))
  /\ there' = IF who = "enc" THEN [there EXCEPT ![index + 1] = value'] ELSE there
  /\ index' = index + 1
  /\ UNCHANGED <<const, pos, who, pc, plain, back, turns>>

\* Mutant of Complement: the byte is reflected as it is.
Reflect ==
  /\ pc = "forward"
  /\ index = R + 1
  /\ back' = IF who = "enc" THEN [back EXCEPT ![index] = value] ELSE back
  /\ index' = R
  /\ pc' = "backward"
  /\ UNCHANGED <<const, pos, who, value, plain, there, turns>>

Complement ==
  /\ pc = "forward"
  /\ index = R + 1
  /\ value' = ByteSize - 1 - value
  /\ back' = IF who = "enc" THEN [back EXCEPT ![index] = value'] ELSE back
  /\ index' = R
  /\ pc' = "backward"
  /\ UNCHANGED <<const, pos, who, plain, there, turns>>

\* Mutant of Backward: the position is forgotten on the way back.
BackwardUnturned ==
  /\ pc = "backward"
  /\ index > 0
  /\ value' = At(inv[index], value % Len(inv[index]))
  /\ back' = IF who = "enc" THEN [back EXCEPT ![index] = value'] ELSE back
  /\ index' = index - 1
  /\ UNCHANGED <<const, pos, who, pc, plain, there, turns>>

\* The subtraction wraps modulo 2^8, whatever the size of the rotor.
Backward ==
  /\ pc = "backward"
  /\ index > 0
  /\ value' = (At(inv[index], value % Len(inv[index])) - pos[who][index]) % ByteSize
  /\ back' = IF who = "enc" THEN [back EXCEPT ![index] = value'] ELSE back
  /\ index' = index - 1
  /\ UNCHANGED <<const, pos, who, pc, plain, there, turns>>

\* process_byte calls turn_rotor(0).
StartTurning ==
  /\ pc = "backward"
  /\ index = 0
  /\ pc' = "turn"
  /\ index' = 1
  /\ UNCHANGED <<const, pos, who, value, trail, turns>>

\* Mutant of Carries: the position the rotor turns to decides.
CarriesAfter(i) ==
  At(rotors[i], (pos[who][i] + 1) % Len(rotors[i])) = 0 /\ i < R

\* Mutant of Carries: the last rotor has a next one.
CarriesPast(i) == At(rotors[i], pos[who][i]) = 0

\* The rotor turns away from its 0 and is not the last one.
Carries(i) == At(rotors[i], pos[who][i]) = 0 /\ i < R

\* One call of turn_rotor, which stores the position as a byte; where
\* there is no rotor at throws.
Turn ==
  /\ pc = "turn"
  /\ IF index > R
     THEN /\ pc' = "thrown"
          /\ UNCHANGED <<pos, turns, index, who>>
     ELSE /\ pos' = [pos EXCEPT ![who][index] = ((@ + 1) % Len(rotors[index])) % ByteSize]
          /\ turns' = IF who = "enc" THEN [turns EXCEPT ![index] = @ + 1] ELSE turns
          /\ IF Carries(index)
             THEN index' = index + 1 /\ UNCHANGED <<pc, who>>
             ELSE /\ pc' = "ready"
                  /\ who' = IF who = "enc" THEN "dec" ELSE "enc"
                  /\ UNCHANGED index
  /\ UNCHANGED <<const, value, trail>>

\* The input is processed, or the program has ended.
Terminated ==
  /\ \/ pc \in Failed
     \/ pc = "ready" /\ who = "enc" /\ \E i \in Rotor : turns[i] = MaxBytes
  /\ UNCHANGED vars

Next ==
  \/ Construct \/ ProcessByte \/ DividesByZero \/ Forward \/ Complement \/ Backward
  \/ StartTurning \/ Turn \/ Terminated

Spec == Init /\ [][Next]_vars

-----------------------------------------------------------------------------
(* Properties.                                                              *)

\* Every variable stays within its type; value, above all, is a byte.
TypeOK ==
  /\ rotors \in RotorChoices
  /\ inv \in Seq(Seq(Byte))
  /\ pos \in [Machine -> [Rotor -> Byte]]
  /\ who \in Machine
  /\ pc \in {"construct", "ready", "forward", "backward", "turn"} \cup Failed
  /\ index \in 0 .. R + 1
  /\ value \in Byte /\ plain \in Byte
  /\ there \in [Places -> Byte] /\ back \in [Places -> Byte]
  /\ turns \in [Rotor -> Nat]

\* Machines with rotors as documented neither throw nor trap.
DocumentedNeverFails == Documented => pc \notin Failed

\* docs/bytenigma/security.md:20: no byte is encrypted to itself, by any
\* rotors in any positions.
NeverToItself == Documented /\ pc = "turn" /\ who = "enc" => value # plain

\* A machine decrypts what another of the same rotors has encrypted, byte
\* after byte: its own inverse, and turned the same way meanwhile.
Decrypts == Documented /\ pc = "turn" /\ who = "dec" => value = plain

\* The position of rotor i from which it turns the next one.
Zero(i) == CHOOSE j \in Byte : At(rotors[i], j) = 0

\* The rotors count the bytes like an odometer whose digits wrap where each
\* rotor has its 0: rotor n turns every ByteSize^n bytes (docs/bytenigma/
\* security.md:16 says 2^n) and the machine starts over after ByteSize^R.
Odometer ==
  Documented /\ pc = "ready" /\ who = "enc" =>
    /\ \A i \in Rotor : pos["enc"][i] = turns[i] % ByteSize
    /\ \A i \in 1 .. R - 1 :
         turns[i + 1] = (turns[i] + ByteSize - 1 - Zero(i)) \div ByteSize

=============================================================================
