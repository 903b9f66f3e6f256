--------------------------- MODULE BlockRecovery ---------------------------
(***************************************************************************)
(* What PaddingOracle::Attack::recover_block promises its caller           *)
(* (include/padding_oracle/attack.hpp): the bytes of D(C), called secret   *)
(* here, become known one after the other from the last to the first, and  *)
(* the call either returns their exclusive-or with the previous block or   *)
(* ends without returning anything.  Sockets, the oracle and its answers   *)
(* do not appear: module PaddingOracle implements this one.                *)
(***************************************************************************)
EXTENDS Integers

CONSTANTS
  BlockSize,   \* PaddingOracle::BLOCK_SIZE
  Radix,       \* number of values of a std::uint8_t
  Xor(_, _)    \* exclusive-or of two bytes

VARIABLES
  secret,   \* D(C), the block before CBC is applied
  prev,     \* the previous ciphertext block or the IV
  left,     \* how many bytes are still to be recovered
  raw,      \* the block recovered so far
  status,   \* of the call: "running", "returned" or "aborted"
  plain     \* the block returned

vars == <<secret, prev, left, raw, status, plain>>

Byte  == 0 .. Radix - 1
Index == 0 .. BlockSize - 1
Block == [Index -> Byte]
Zeros == [j \in Index |-> 0]

Init ==
  /\ secret \in Block
  /\ prev \in Block
  /\ left = BlockSize
  /\ raw = Zeros
  /\ status = "running"
  /\ plain = Zeros

RecoverByte ==
  /\ status = "running"
  /\ left > 0
  /\ left' = left - 1
  /\ raw' = [raw EXCEPT ![left - 1] = secret[left - 1]]
  /\ UNCHANGED <<secret, prev, status, plain>>

Return ==
  /\ status = "running"
  /\ left = 0
  /\ status' = "returned"
  /\ plain' = [j \in Index |-> Xor(raw[j], prev[j])]
  /\ UNCHANGED <<secret, prev, left, raw>>

\* An exception or a signal ends the call; the partial block is discarded.
Abort ==
  /\ status = "running"
  /\ status' = "aborted"
  /\ left' = BlockSize
  /\ raw' = Zeros
  /\ UNCHANGED <<secret, prev, plain>>

Next == RecoverByte \/ Return \/ Abort

Spec == Init /\ [][Next]_vars

=============================================================================
