---------------------------- MODULE NumberStream ----------------------------
(***************************************************************************)
(* What TCP::Communicator offers the two ends of one direction of a        *)
(* connection (include/tcp/communicator.hpp): the numbers one end writes   *)
(* come out at the other in order, whatever the byte order of the hosts.   *)
(* A lost connection ends the stream, after at most one number that was    *)
(* never written.  Bytes and system calls do not appear: module            *)
(* Communicator implements this one.                                       *)
(***************************************************************************)
EXTENDS Naturals, Sequences

CONSTANTS
  Byte,        \* the values of a std::uint8_t
  Widths       \* Widths[i]: sizeof(T) of the i-th number

VARIABLES
  sent,        \* numbers given to write_num
  received,    \* numbers returned by read_num
  open         \* FALSE once an error was taken for data

vars == <<sent, received, open>>

Numbers(w) == [0 .. w - 1 -> Byte]

Init ==
  /\ sent = <<>>
  /\ received = <<>>
  /\ open = TRUE

Send ==
  /\ Len(sent) < Len(Widths)
  /\ \E n \in Numbers(Widths[Len(sent) + 1]) : sent' = Append(sent, n)
  /\ UNCHANGED <<received, open>>

Receive ==
  /\ open
  /\ Len(received) < Len(sent)
  /\ received' = Append(received, sent[Len(received) + 1])
  /\ UNCHANGED <<sent, open>>

Lose ==
  /\ open
  /\ open' = FALSE
  /\ \/ UNCHANGED received
     \/ /\ Len(received) < Len(Widths)
        /\ \E n \in Numbers(Widths[Len(received) + 1]) : received' = Append(received, n)
  /\ UNCHANGED sent

Next == Send \/ Receive \/ Lose

Spec == Init /\ [][Next]_vars

=============================================================================
