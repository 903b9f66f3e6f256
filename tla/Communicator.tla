---------------------------- MODULE Communicator ----------------------------
(***************************************************************************)
(* TCP::Communicator::write_num and read_num, byte by byte, over one       *)
(* direction of a connection (include/tcp/communicator.hpp): one action    *)
(* is one system call.  read and write may transfer fewer bytes than       *)
(* asked; their -1 becomes the largest std::size_t, which the loops add to *)
(* total as if it were a count.  read_raw and write_raw are runs of calls  *)
(* of width 1.  A number is given by its bytes, least significant first.   *)
(***************************************************************************)
EXTENDS Integers, Sequences

CONSTANTS
  Byte,        \* the values of a std::uint8_t
  Widths,      \* sizeof(T) of each number the two programs exchange
  Order,       \* the endianness both pass, "little" in the padding oracle
  SizeMod,     \* 2^64: std::size_t is computed modulo it
  Cap,         \* bytes the kernel holds between the two ends
  Faults       \* which of "sever", "kill_writer", "kill_reader" may happen

Orders == {"little", "big"}
Calls  == 1 .. Len(Widths)

ASSUME WidthsAssumption ==
  /\ Widths \in Seq(Nat \ {0}) /\ Widths # <<>>
  /\ SizeMod \in Nat
  /\ \A i \in Calls : Widths[i] < SizeMod

ASSUME OrderAssumption == Order \in Orders

ASSUME CapAssumption == Cap \in Nat \ {0}

ASSUME ByteAssumption == Byte # {}

VARIABLES
  host,        \* host[e]: std::endian::native of end e
  wpc,         \* where the writing program is
  value,       \* of write_num, in the writer's memory
  written,     \* its total
  sent,        \* the arguments write_num was called with
  rpc,         \* where the reading program is
  result,      \* of read_num, in the reader's memory
  total,       \* of read_num
  received,    \* what read_num returned
  wire,        \* bytes written and not yet read
  link         \* link[e]: what end e has learnt of the connection

writer == <<wpc, value, written, sent>>
reader == <<rpc, result, total, received>>
vars   == <<host, writer, reader, wire, link>>

End   == {"writer", "reader"}
Ended == {"done", "thrown", "killed"}

Numbers(w) == [0 .. w - 1 -> Byte]
AnyNumber  == UNION {Numbers(Widths[i]) : i \in Calls}

WWidth == Widths[Len(sent)]
RWidth == Widths[Len(received) + 1]

\* The bytes on the wire carry the call and the place they come from, for
\* the invariants only: the reader takes nothing but data.
Bytes == [call : Calls, place : Nat, data : Byte]

Prefixes(s) == {SubSeq(s, 1, n) : n \in 0 .. Len(s)}

-----------------------------------------------------------------------------
(* Byte order.                                                              *)

\* A number or the memory it occupies, read from its other end.
byteswap(w, n) == [j \in 0 .. w - 1 |-> n[w - 1 - j]]

\* The memory of a number on a host, and the number some memory holds.
Memory(h, w, n) == IF h = "little" THEN n ELSE byteswap(w, n)

\* Mutant of swap_for_endianness: the host's own order goes on the wire.
swap_never(h, w, n) == n

swap_for_endianness(h, w, n) == IF h = Order THEN n ELSE byteswap(w, n)

\* std::size_t addition.
Plus(a, b) == IF a + b < SizeMod THEN a + b ELSE a + b - SizeMod
Minus1     == SizeMod - 1

-----------------------------------------------------------------------------
Init ==
  /\ host \in [End -> Orders]
  /\ wpc = "ready"
  /\ value = <<>>
  /\ written = 0
  /\ sent = <<>>
  /\ rpc = "ready"
  /\ result = <<>>
  /\ total = 0
  /\ received = <<>>
  /\ wire = <<>>
  /\ link = [e \in End |-> "up"]

-----------------------------------------------------------------------------
(* The writing end.                                                         *)

\* write_num is called; the swapped value is in the writer's memory.
CallWrite ==
  /\ wpc = "ready"
  /\ Len(sent) < Len(Widths)
  /\ LET w == Widths[Len(sent) + 1]
     IN \E n \in Numbers(w) :
          /\ sent' = Append(sent, n)
          /\ value' = Memory(host["writer"], w, swap_for_endianness(host["writer"], w, n))
  /\ written' = 0
  /\ wpc' = "write"
  /\ UNCHANGED <<host, reader, wire, link>>

\* Mutant of Wrote: write_num returns after one write.
WroteOnce(n) ==
  /\ written' = Plus(written, n)
  /\ wpc' = IF Len(sent) < Len(Widths) THEN "ready" ELSE "close"
  /\ UNCHANGED <<host, value, sent, reader>>

\* write has returned n, and the loop goes on or write_num returns.
Wrote(n) ==
  /\ written' = Plus(written, n)
  /\ wpc' = IF written' < WWidth THEN "write"
            ELSE IF Len(sent) < Len(Widths) THEN "ready" ELSE "close"
  /\ UNCHANGED <<host, value, sent, reader>>

\* The n bytes write takes from value + total.
Taken(n) ==
  [i \in 1 .. n |-> [call |-> Len(sent), place |-> written + i - 1,
                     data |-> value[written + i - 1]]]

\* write transfers some bytes.  A peer that has closed answers the bytes it
\* is sent with a reset: the next write finds the pipe broken.
WriteSome ==
  /\ wpc = "write"
  /\ \E n \in 1 .. WWidth - written :
       /\ \/ /\ link["writer"] = "up"
             /\ Len(wire) + n <= Cap
             /\ wire' = wire \o Taken(n)
             /\ UNCHANGED link
          \/ /\ link["writer"] = "fin"
             /\ link' \in {link, [link EXCEPT !["writer"] = "dead"]}
             /\ UNCHANGED wire
       /\ Wrote(n)

\* write reports the pending error, once.
WriteFails ==
  /\ wpc = "write"
  /\ link["writer"] = "reset"
  /\ link' = [link EXCEPT !["writer"] = "dead"]
  /\ Wrote(Minus1)
  /\ UNCHANGED wire

\* The writer's descriptor is closed.
CloseWriter ==
  link' = IF link["reader"] = "up" THEN [link EXCEPT !["reader"] = "fin"] ELSE link

WriteKilled ==
  /\ wpc = "write"
  /\ link["writer"] = "dead"
  /\ wpc' = "killed"
  /\ CloseWriter
  /\ UNCHANGED <<host, value, written, sent, reader, wire>>

FinishWriting ==
  /\ wpc = "close"
  /\ wpc' = "done"
  /\ CloseWriter
  /\ UNCHANGED <<host, value, written, sent, reader, wire>>

WriterNext == CallWrite \/ WriteSome \/ WriteFails \/ WriteKilled \/ FinishWriting

-----------------------------------------------------------------------------
(* The reading end.                                                         *)

\* read_num is called; its local result holds whatever the stack held.
CallRead ==
  /\ rpc = "ready"
  /\ Len(received) < Len(Widths)
  /\ result' \in Numbers(RWidth)
  /\ total' = 0
  /\ rpc' = "read"
  /\ UNCHANGED <<host, writer, received, wire, link>>

\* Mutant of GotBytes: read_num returns after one read.
GotBytesOnce(n) ==
  /\ total' = Plus(total, n)
  /\ received' = Append(received,
       swap_for_endianness(host["reader"], RWidth,
                           Memory(host["reader"], RWidth, result')))
  /\ rpc' = IF Len(received') < Len(Widths) THEN "ready" ELSE "close"
  /\ UNCHANGED <<host, writer>>

\* read has returned n, and the loop goes on or read_num returns.
GotBytes(n) ==
  /\ total' = Plus(total, n)
  /\ IF total' < RWidth
     THEN UNCHANGED <<rpc, received>>
     ELSE /\ received' = Append(received,
               swap_for_endianness(host["reader"], RWidth,
                                   Memory(host["reader"], RWidth, result')))
          /\ rpc' = IF Len(received') < Len(Widths) THEN "ready" ELSE "close"
  /\ UNCHANGED <<host, writer>>

ReadSome ==
  /\ rpc = "read"
  /\ \E n \in 1 .. RWidth - total :
       /\ n <= Len(wire)
       /\ wire' = SubSeq(wire, n + 1, Len(wire))
       /\ result' = [j \in 0 .. RWidth - 1 |->
                       IF total <= j /\ j < total + n THEN wire[j - total + 1].data
                       ELSE result[j]]
       /\ GotBytes(n)
  /\ UNCHANGED link

\* read reports the pending error, once and after the data that came before.
ReadFails ==
  /\ rpc = "read"
  /\ wire = <<>>
  /\ link["reader"] = "reset"
  /\ link' = [link EXCEPT !["reader"] = "dead"]
  /\ UNCHANGED <<result, wire>>
  /\ GotBytes(Minus1)

\* The reader's descriptor is closed: bytes it has not read are lost, and
\* the writer is told so at once.
CloseReader ==
  /\ wire' = <<>>
  /\ link' \in IF link["writer"] # "up" THEN {link}
               ELSE {[link EXCEPT !["writer"] = "fin"]} \cup
                    {l \in {[link EXCEPT !["writer"] = "reset"]} : wire # <<>>}

\* Mutant of ReadThrows: the end of the stream is taken for "not yet".
ReadRetries ==
  /\ rpc = "read"
  /\ wire = <<>>
  /\ link["reader"] \in {"fin", "dead"}
  /\ UNCHANGED vars

\* read returns 0 at the end of the stream.
ReadThrows ==
  /\ rpc = "read"
  /\ wire = <<>>
  /\ link["reader"] \in {"fin", "dead"}
  /\ rpc' = "thrown"
  /\ CloseReader
  /\ UNCHANGED <<host, writer, result, total, received>>

FinishReading ==
  /\ rpc = "close"
  /\ rpc' = "done"
  /\ CloseReader
  /\ UNCHANGED <<host, writer, result, total, received>>

ReaderNext == CallRead \/ ReadSome \/ ReadFails \/ ReadThrows \/ FinishReading

-----------------------------------------------------------------------------
(* The environment.                                                         *)

\* The connection breaks: each end that has not heard the end of the stream
\* gets an error, and the last bytes in flight are lost.
Sever ==
  /\ "sever" \in Faults
  /\ link["reader"] \in {"up", "fin"}
  /\ rpc \notin Ended
  /\ link' = [e \in End |-> IF link[e] = "up" \/ e = "reader" THEN "reset" ELSE link[e]]
  /\ wire' \in Prefixes(wire)
  /\ UNCHANGED <<host, writer, reader>>

KillWriter ==
  /\ "kill_writer" \in Faults
  /\ wpc \notin Ended
  /\ wpc' = "killed"
  /\ CloseWriter
  /\ UNCHANGED <<host, value, written, sent, reader, wire>>

KillReader ==
  /\ "kill_reader" \in Faults
  /\ rpc \notin Ended
  /\ rpc' = "killed"
  /\ CloseReader
  /\ UNCHANGED <<host, writer, result, total, received>>

Terminated ==
  /\ wpc \in Ended
  /\ rpc \in Ended
  /\ UNCHANGED vars

Next == WriterNext \/ ReaderNext \/ Sever \/ KillWriter \/ KillReader \/ Terminated

Spec == Init /\ [][Next]_vars

\* Each process is scheduled as long as it is not blocked in a system call.
FairSpec == Spec /\ WF_vars(WriterNext) /\ WF_vars(ReaderNext)

-----------------------------------------------------------------------------
(* Properties.                                                              *)

\* Every variable stays within its type; total may be the largest
\* std::size_t, once a failed call has been added to it.
TypeOK ==
  /\ host \in [End -> Orders]
  /\ wpc \in {"ready", "write", "close"} \cup Ended
  /\ value \in AnyNumber \cup {<<>>}
  /\ written \in 0 .. SizeMod - 1
  /\ sent \in Seq(AnyNumber)
  /\ rpc \in {"ready", "read", "close"} \cup Ended
  /\ result \in AnyNumber \cup {<<>>}
  /\ total \in 0 .. SizeMod - 1
  /\ received \in Seq(AnyNumber)
  /\ wire \in Seq(Bytes)
  /\ link \in [End -> {"up", "fin", "reset", "dead"}]

\* read_num returns the numbers write_num was called with, in order and
\* between hosts of any byte order, however the bytes were split; only the
\* last number returned can be another one, and only after a failed read.
ReceivedIsSent ==
  \A i \in 1 .. Len(received) :
    \/ i <= Len(sent) /\ received[i] = sent[i]
    \/ i = Len(received) /\ link["reader"] = "dead"

\* When a write_num returns on a connection that still stands, its number
\* is complete behind it: nothing of it is left for a later call.
WholeNumbers ==
  wpc = "ready" /\ link["writer"] = "up" /\ wire # <<>> =>
    LET last == wire[Len(wire)]
    IN last.call = Len(sent) /\ last.place = Widths[last.call] - 1

\* Every number gets to the reader, unless the connection breaks or one of
\* the processes is killed.
Delivers ==
  <>(\/ rpc = "done" /\ received = sent /\ Len(received) = Len(Widths)
     \/ wpc = "killed" \/ rpc = "killed"
     \/ \E e \in End : link[e] \in {"reset", "dead"})

\* Neither end waits for the other forever.
BothEnd == <>(wpc \in Ended /\ rpc \in Ended)

Stream == INSTANCE NumberStream WITH open <- link["reader"] # "dead"

\* A direction of a connection is a stream of numbers.
ImplementsStream == Stream!Spec

\* communicator.hpp:45 says that read_num throws if reading failed: a call
\* whose read failed returns no number.
ReadFailureThrows == [][ReadFails => received' = received]_vars

=============================================================================
