------------------------ MODULE Communicator_proofs ------------------------
(***************************************************************************)
(* Proofs about Communicator: for numbers of any widths, buffers of any    *)
(* size and hosts of either byte order, one direction of a connection is a *)
(* stream of numbers in which nothing genuine follows an error taken for   *)
(* data.  The invariant relates the bytes on the wire to the numbers sent: *)
(* where the writer is, where the reader is and what lies between.         *)
(***************************************************************************)
EXTENDS Communicator, SequenceTheorems, TLAPS

\* The bytes number c leaves on the wire.
OnWire(c) == Memory(Order, Widths[c], sent[c])

\* Place p2 of number c2 comes d bytes after place p1 of number c1.  Nothing
\* is said of bytes beyond the first of the next number.
Follows(c1, p1, c2, p2, d) ==
  /\ d < Widths[c1] - p1 => c2 = c1 /\ p2 = p1 + d
  /\ d = Widths[c1] - p1 => c2 = c1 + 1 /\ p2 = 0

\* The first l bytes of f follow each other, and place p of number c comes
\* right after them.
Ordered(f, l) ==
  \A k, i \in 1 .. l :
    k <= i => Follows(f[k].call, f[k].place, f[i].call, f[i].place, i - k)

Before(f, l, c, p) ==
  \A k \in 1 .. l : Follows(f[k].call, f[k].place, c, p, l + 1 - k)

\* The place the writer writes at next, and the one the reader reads next.
WCall  == IF wpc = "write" THEN Len(sent) ELSE Len(sent) + 1
WPlace == IF wpc = "write" THEN written ELSE 0
RCall  == Len(received) + 1
RPlace == IF rpc = "read" THEN total ELSE 0

Writing == link["writer"] = "up" /\ wpc # "killed"
Reading == link["reader"] # "dead" /\ rpc \notin Ended

Locals ==
  /\ Len(sent) <= Len(Widths) /\ Len(received) <= Len(Widths)
  /\ \A i \in 1 .. Len(sent) : sent[i] \in Numbers(Widths[i])
  /\ wpc = "ready" => Len(sent) < Len(Widths)
  /\ wpc = "write" => Len(sent) > 0 /\ value = OnWire(Len(sent)) /\ written < WWidth
  /\ rpc \in {"ready", "read"} => Len(received) < Len(Widths)
  /\ rpc = "read" => result \in Numbers(RWidth) /\ total < RWidth

Connected ==
  /\ link["reader"] \in {"reset", "dead"} => link["writer"] # "up"
  /\ link["reader"] = "dead" => wire = <<>>
  /\ rpc \in Ended => wire = <<>> /\ link["writer"] # "up"

Genuine ==
  \A i \in 1 .. Len(wire) :
    /\ wire[i].call <= Len(sent)
    /\ wire[i].place < Widths[wire[i].call]
    /\ wire[i].data = OnWire(wire[i].call)[wire[i].place]

InOrder == Ordered(wire, Len(wire))

WriterFollows == Writing => Before(wire, Len(wire), WCall, WPlace)

ReaderPrecedes ==
  Reading =>
    /\ wire # <<>> => wire[1].call = RCall /\ wire[1].place = RPlace
    /\ wire = <<>> /\ Writing => WCall = RCall /\ WPlace = RPlace

HalfRead ==
  Reading /\ rpc = "read" /\ total > 0 =>
    /\ RCall <= Len(sent)
    /\ \A j \in 0 .. total - 1 : result[j] = OnWire(RCall)[j]

\* The inductive invariant: the wire holds what was written and not read, in
\* order, and what each end has of the number it is at is the number's start.
IInv ==
  /\ TypeOK
  /\ Locals
  /\ Connected
  /\ Genuine
  /\ InOrder
  /\ WriterFollows
  /\ ReaderPrecedes
  /\ HalfRead
  /\ ReceivedIsSent

-----------------------------------------------------------------------------
(* Byte order, widths, arithmetic.                                          *)

LEMMA WidthsArePositive ==
  /\ Len(Widths) \in Nat \ {0}
  /\ \A c \in Calls : Widths[c] \in Nat \ {0} /\ Widths[c] < SizeMod
<1>1. Widths \in Seq(Nat \ {0}) /\ Widths # <<>>
  BY WidthsAssumption
<1>2. Len(Widths) \in Nat \ {0}
  BY <1>1, EmptySeq
<1>3. \A c \in 1 .. Len(Widths) : Widths[c] \in Nat \ {0}
  BY <1>1, ElementOfSeq
<1> QED
  BY <1>2, <1>3, WidthsAssumption DEF Calls

LEMMA SwapTwice ==
  ASSUME NEW w \in Nat, NEW n \in Numbers(w)
  PROVE  byteswap(w, n) \in Numbers(w) /\ byteswap(w, byteswap(w, n)) = n
<1>1. \A j \in 0 .. w - 1 : w - 1 - j \in 0 .. w - 1 /\ w - 1 - (w - 1 - j) = j
  OBVIOUS
<1>2. byteswap(w, n) \in Numbers(w)
  BY <1>1 DEF byteswap, Numbers
<1>3. \A j \in 0 .. w - 1 : byteswap(w, byteswap(w, n))[j] = n[j]
  BY <1>1 DEF byteswap, Numbers
<1>4. byteswap(w, byteswap(w, n)) = [j \in 0 .. w - 1 |-> byteswap(w, byteswap(w, n))[j]]
  BY DEF byteswap
<1>5. n = [j \in 0 .. w - 1 |-> n[j]]
  BY DEF Numbers
<1> QED
  BY <1>2, <1>3, <1>4, <1>5

\* What a host puts on the wire does not depend on its byte order.
LEMMA HostOrderHidden ==
  ASSUME NEW h \in Orders, NEW w \in Nat, NEW n \in Numbers(w)
  PROVE  /\ Memory(h, w, swap_for_endianness(h, w, n)) = Memory(Order, w, n)
         /\ Memory(h, w, n) \in Numbers(w)
         /\ swap_for_endianness(h, w, n) \in Numbers(w)
         /\ swap_for_endianness(h, w, Memory(h, w, Memory(Order, w, n))) = n
BY SwapTwice, OrderAssumption DEF Memory, swap_for_endianness, Orders

LEMMA SizeArithmetic ==
  ASSUME NEW a \in 0 .. SizeMod - 1
  PROVE  /\ \A n \in Nat : a + n < SizeMod => Plus(a, n) = a + n
         /\ a = 0 => Plus(a, Minus1) = SizeMod - 1
         /\ a > 0 => Plus(a, Minus1) = a - 1
BY WidthsAssumption DEF Plus, Minus1

\* The positions and widths a state can hold are numbers.
LEMMA Naturals ==
  ASSUME TypeOK, Locals
  PROVE  /\ Len(sent) \in Nat /\ Len(received) \in Nat /\ Len(wire) \in Nat
         /\ wpc = "write" => Len(sent) \in Calls /\ WWidth \in Nat \ {0} /\ WWidth < SizeMod
         /\ rpc \in {"ready", "read"} => RCall \in Calls /\ RWidth = Widths[RCall]
                                       /\ RWidth \in Nat \ {0} /\ RWidth < SizeMod
         /\ \A i \in 1 .. Len(wire) : wire[i] \in Bytes
         /\ \A c \in 1 .. Len(sent) : c \in Calls /\ OnWire(c) \in Numbers(Widths[c])
<1>1. sent \in Seq(AnyNumber) /\ received \in Seq(AnyNumber) /\ wire \in Seq(Bytes)
  BY DEF TypeOK
<1>2. Len(sent) \in Nat /\ Len(received) \in Nat /\ Len(wire) \in Nat
  BY <1>1
<1>3. \A i \in 1 .. Len(wire) : wire[i] \in Bytes
  BY <1>1, ElementOfSeq
<1>4. PICK n \in Nat, m \in Nat, l \in Nat :
        n = Len(sent) /\ m = Len(received) /\ l = Len(Widths)
  BY <1>2, WidthsArePositive
<1>5. wpc = "write" => n \in Calls
  BY <1>4 DEF Locals, Calls
<1>6. rpc \in {"ready", "read"} => m + 1 \in Calls
  BY <1>4 DEF Locals, Calls
<1>7. \A c \in 1 .. n : c \in Calls
  BY <1>4 DEF Locals, Calls
<1>8. ASSUME NEW c \in 1 .. n PROVE OnWire(c) \in Numbers(Widths[c])
  <2>1. sent[c] \in Numbers(Widths[c]) /\ Widths[c] \in Nat
    BY <1>4, <1>7, WidthsArePositive DEF Locals
  <2> QED
    BY <2>1, HostOrderHidden, OrderAssumption DEF OnWire
<1> QED
  BY <1>2, <1>3, <1>4, <1>5, <1>6, <1>7, <1>8, WidthsArePositive DEF WWidth, RWidth, RCall

-----------------------------------------------------------------------------
(* The writing end.                                                         *)

LEMMA CallWriteKeeps == ASSUME IInv, CallWrite PROVE IInv'
<1> USE DEF IInv
<1>0. PICK c \in Calls : c = Len(sent) + 1 /\ Len(sent) \in Nat
  <2>1. Len(sent) \in Nat /\ Len(sent) < Len(Widths)
    BY Naturals DEF CallWrite
  <2> QED
    BY <2>1, WidthsArePositive DEF Calls
<1>1. PICK n \in Numbers(Widths[c]) :
        /\ sent' = Append(sent, n)
        /\ value' = Memory(host["writer"], Widths[c],
                          swap_for_endianness(host["writer"], Widths[c], n))
  BY <1>0 DEF CallWrite
<1>2. /\ wpc = "ready" /\ wpc' = "write" /\ written' = 0 /\ Len(sent) < Len(Widths)
      /\ UNCHANGED <<host, rpc, result, total, received, wire, link>>
  BY DEF CallWrite, reader
<1>3. c \in Calls /\ Len(sent) \in Nat /\ Len(sent) = c - 1 /\ Widths[c] \in Nat \ {0}
  BY <1>0, WidthsArePositive DEF Calls
<1>4. n \in AnyNumber /\ sent \in Seq(AnyNumber)
  BY <1>3 DEF AnyNumber, TypeOK
<1>5. /\ sent' \in Seq(AnyNumber) /\ Len(sent') = c /\ sent'[c] = n
      /\ \A i \in 1 .. Len(sent) : sent'[i] = sent[i]
  BY <1>0, <1>1, <1>4
<1>6. value' \in Numbers(Widths[c]) /\ value' = OnWire(c)'
  <2>1. host["writer"] \in Orders
    BY DEF TypeOK, End
  <2> QED
    BY <1>1, <1>3, <1>5, <2>1, HostOrderHidden, OrderAssumption DEF OnWire
<1>7. ASSUME NEW i \in 1 .. Len(sent) PROVE OnWire(i)' = OnWire(i)
  BY <1>5 DEF OnWire
<1>8. TypeOK'
  <2>1. value' \in AnyNumber
    BY <1>3, <1>6 DEF AnyNumber
  <2>2. written' \in 0 .. SizeMod - 1
    BY <1>2, <1>3, WidthsArePositive, WidthsAssumption
  <2> QED
    BY <1>2, <1>5, <2>1, <2>2 DEF TypeOK
<1>9. Locals'
  <2>1. Len(sent)' <= Len(Widths) /\ Len(sent)' > 0 /\ WWidth' = Widths[c]
    BY <1>2, <1>3, <1>5, WidthsArePositive DEF WWidth
  <2>2. \A i \in 1 .. Len(sent)' : sent'[i] \in Numbers(Widths[i])
    BY <1>1, <1>3, <1>5 DEF Locals
  <2>3. value' = OnWire(Len(sent))' /\ written' < WWidth'
    BY <1>2, <1>3, <1>5, <1>6, <2>1
  <2>4. /\ Len(received)' <= Len(Widths)
        /\ (rpc \in {"ready", "read"})' => Len(received)' < Len(Widths)
        /\ rpc' = "read" => result' \in Numbers(RWidth') /\ total' < RWidth'
    BY <1>2 DEF Locals, RWidth
  <2> QED
    BY <1>2, <2>1, <2>2, <2>3, <2>4 DEF Locals
<1>10. Connected'
  BY <1>2 DEF Connected
<1>11. Genuine' /\ InOrder'
  <2>1. ASSUME NEW i \in 1 .. Len(wire)
        PROVE  /\ wire[i].call <= Len(sent)' /\ wire[i].place < Widths[wire[i].call]
               /\ wire'[i].data = OnWire(wire[i].call)'[wire'[i].place]
    <3>1. PICK d \in Nat \ {0} : d = wire[i].call /\ d <= Len(sent)
      BY Naturals DEF Genuine, Bytes, Calls
    <3>2. OnWire(d)' = OnWire(d) /\ d <= Len(sent)'
      BY <1>3, <1>5, <1>7, <3>1
    <3>3. OnWire(wire[i].call)' = OnWire(d)'
      BY <1>2, <3>1
    <3> QED
      BY <1>2, <3>1, <3>2, <3>3 DEF Genuine
  <2> QED
    BY <1>2, <2>1 DEF Genuine, InOrder
<1>12. WCall' = WCall /\ WPlace' = WPlace
  BY <1>2, <1>3, <1>5 DEF WCall, WPlace
<1>13. WriterFollows' /\ ReaderPrecedes'
  BY <1>2, <1>12 DEF WriterFollows, ReaderPrecedes, Writing, Reading, RCall, RPlace
<1>14. HalfRead'
  <2>1. SUFFICES ASSUME Reading, rpc = "read", total > 0, NEW d, d = RCall
                 PROVE  d <= Len(sent)' /\ \A j \in 0 .. total - 1 : result[j] = OnWire(d)'[j]
    BY <1>2 DEF HalfRead, Reading, RCall
  <2>2. d \in 1 .. Len(sent) /\ \A j \in 0 .. total - 1 : result[j] = OnWire(d)[j]
    BY <2>1, Naturals DEF HalfRead, Calls
  <2> QED
    BY <1>3, <1>5, <1>7, <2>2
<1>15. ReceivedIsSent'
  BY <1>2, <1>3, <1>5 DEF ReceivedIsSent
<1> QED
  BY <1>8, <1>9, <1>10, <1>11, <1>13, <1>14, <1>15

LEMMA FollowsOn ==
  ASSUME NEW c1, NEW c2, NEW c3, NEW p1 \in Nat, NEW p2 \in Nat, NEW p3 \in Nat,
         Widths[c1] \in Nat, Widths[c2] \in Nat, NEW d \in Nat, NEW e \in Nat,
         Follows(c1, p1, c2, p2, d), Follows(c2, p2, c3, p3, e), e <= Widths[c2] - p2,
         e > 0 \/ (c3 = c2 /\ p3 = p2)
  PROVE  Follows(c1, p1, c3, p3, d + e)
<1>1. CASE e > 0
  BY <1>1 DEF Follows
<1>2. CASE e = 0
  BY <1>2 DEF Follows
<1> QED
  BY <1>1, <1>2

\* The bytes a write takes are those of the number being written.
LEMMA TakenBytes ==
  ASSUME IInv, wpc = "write", NEW n \in Nat \ {0}, written + n <= WWidth
  PROVE  /\ Taken(n) \in Seq(Bytes) /\ Len(Taken(n)) = n
         /\ \A i \in 1 .. n : /\ Taken(n)[i].call = Len(sent)
                              /\ Taken(n)[i].place = written + i - 1
                              /\ Taken(n)[i].data = OnWire(Len(sent))[written + i - 1]
<1> USE DEF IInv
<1>1. Len(sent) \in Calls /\ WWidth \in Nat /\ written \in Nat /\ written < WWidth
  BY Naturals DEF TypeOK, Locals
<1>2. OnWire(Len(sent)) \in Numbers(WWidth) /\ value = OnWire(Len(sent))
  BY Naturals DEF Locals, WWidth, Calls
<1>3. \A i \in 1 .. n : written + i - 1 \in 0 .. WWidth - 1
  BY <1>1
<1>4. \A i \in 1 .. n : Taken(n)[i] = [call |-> Len(sent), place |-> written + i - 1,
                                       data |-> value[written + i - 1]]
  BY DEF Taken
<1>5. \A i \in 1 .. n : value[written + i - 1] \in Byte
  BY <1>2, <1>3 DEF Numbers
<1>6. ASSUME NEW i \in 1 .. n PROVE Taken(n)[i] \in Bytes
  <2>1. written + i - 1 \in Nat
    BY <1>1
  <2>2. Taken(n)[i] = [call |-> Len(sent), place |-> written + i - 1,
                       data |-> value[written + i - 1]]
    BY <1>4
  <2>3. value[written + i - 1] \in Byte
    BY <1>5
  <2> QED
    BY <1>1, <2>1, <2>2, <2>3 DEF Bytes
<1>7. n \in Nat /\ Taken(n) \in [1 .. n -> Bytes]
  <2>1. Taken(n) = [i \in 1 .. n |-> Taken(n)[i]]
    BY DEF Taken
  <2>2. n \in Nat
    BY <1>1
  <2> QED
    BY <1>6, <2>1, <2>2
<1>8. Taken(n) \in Seq(Bytes)
  BY <1>7, SeqDef
<1>9. Len(Taken(n)) = n
  <2>1. DOMAIN Taken(n) = 1 .. n /\ DOMAIN Taken(n) = 1 .. Len(Taken(n)) /\ Len(Taken(n)) \in Nat
    BY <1>7, <1>8, LenProperties
  <2> QED
    BY <1>7, <2>1
<1> QED
  BY <1>2, <1>4, <1>8, <1>9

\* What a write of some bytes does to the writer.
LEMMA WroteSome ==
  ASSUME IInv, wpc = "write", NEW n \in Nat \ {0}, written + n <= WWidth, Wrote(n)
  PROVE  /\ written' = written + n /\ written' \in 0 .. SizeMod - 1
         /\ written + n < WWidth => wpc' = "write"
         /\ written + n = WWidth =>
              wpc' = IF Len(sent) < Len(Widths) THEN "ready" ELSE "close"
         /\ UNCHANGED <<host, value, sent, rpc, result, total, received>>
         /\ Len(sent) \in Calls /\ WWidth \in Nat /\ written \in Nat
<1> USE DEF IInv
<1>1. /\ Len(sent) \in Calls /\ WWidth \in Nat /\ WWidth < SizeMod
      /\ written \in 0 .. SizeMod - 1 /\ written < WWidth
  BY Naturals DEF TypeOK, Locals
<1>2. written + n <= WWidth /\ n \in Nat /\ SizeMod \in Nat
  BY <1>1, WidthsAssumption
<1>3. Plus(written, n) = written + n
  BY <1>1, <1>2, SizeArithmetic
<1>4. WWidth' = WWidth /\ UNCHANGED <<host, value, sent, rpc, result, total, received>>
  BY DEF Wrote, WWidth, reader
<1> QED
  BY <1>1, <1>2, <1>3, <1>4 DEF Wrote

\* n bytes of one number, appended to bytes they come right after.
LEMMA AppendRun ==
  ASSUME NEW f, NEW g, NEW l \in Nat, NEW n \in Nat \ {0}, NEW s, NEW w \in Nat,
         NEW c, NEW p \in Nat, Widths[s] \in Nat, w + n <= Widths[s],
         \A k \in 1 .. l : f[k].place \in Nat /\ Widths[f[k].call] \in Nat,
         Ordered(f, l), Before(f, l, s, w), Follows(s, w, c, p, n),
         \A i \in 1 .. l : g[i] = f[i],
         \A i \in 1 .. n : g[l + i].call = s /\ g[l + i].place = w + i - 1
  PROVE  Ordered(g, l + n) /\ Before(g, l + n, c, p)
<1>1. ASSUME NEW i \in 1 .. l + n, i > l
      PROVE  /\ i - l \in 1 .. n
             /\ g[i].call = s /\ g[i].place = w + (i - l) - 1
  <2>1. i - l \in 1 .. n /\ l + (i - l) = i
    BY <1>1
  <2> QED
    BY <2>1
<1>2. ASSUME NEW k \in 1 .. l
      PROVE  /\ g[k] = f[k] /\ f[k].place \in Nat /\ Widths[f[k].call] \in Nat
             /\ l + 1 - k \in Nat
             /\ Follows(f[k].call, f[k].place, s, w, l + 1 - k)
  BY DEF Before
<1>3. Ordered(g, l + n)
  <2>1. SUFFICES ASSUME NEW k \in 1 .. l + n, NEW i \in 1 .. l + n, k <= i
                 PROVE  Follows(g[k].call, g[k].place, g[i].call, g[i].place, i - k)
    BY DEF Ordered
  <2>2. CASE i <= l
    <3>1. k \in 1 .. l /\ i \in 1 .. l
      BY <2>1, <2>2
    <3> QED
      BY <2>1, <3>1 DEF Ordered
  <2>3. CASE k <= l /\ i > l
    <3>1. PICK d \in Nat, e \in Nat : d = l + 1 - k /\ e = i - l - 1
      BY <2>3
    <3>2. /\ k \in 1 .. l /\ w + e \in Nat /\ w + (i - l) - 1 = w + e
          /\ d + e = i - k /\ (e > 0 \/ w + e = w)
      BY <2>3, <3>1
    <3>3. Follows(s, w, s, w + e, e) /\ e <= Widths[s] - w
      <4>1. e < n
        BY <2>3, <3>1
      <4> QED
        BY <4>1 DEF Follows
    <3>4. /\ f[k].place \in Nat /\ Widths[f[k].call] \in Nat
          /\ Follows(f[k].call, f[k].place, s, w, d)
      BY <1>2, <3>1, <3>2
    <3>5. Follows(f[k].call, f[k].place, s, w + e, d + e)
      BY <3>2, <3>3, <3>4, FollowsOn
    <3> QED
      BY <1>1, <1>2, <2>3, <3>2, <3>5
  <2>4. CASE k > l
    <3>1. /\ i > l /\ g[i].call = s /\ g[i].place = w + (i - l) - 1
          /\ g[k].call = s /\ g[k].place = w + (k - l) - 1
      BY <1>1, <2>1, <2>4
    <3>2. Follows(s, w + (k - l) - 1, s, w + (i - l) - 1, i - k)
      BY <2>1, <2>4 DEF Follows
    <3> QED
      BY <3>1, <3>2
  <2> QED
    BY <2>2, <2>3, <2>4
<1>4. ASSUME NEW k \in 1 .. l + n
      PROVE  Follows(g[k].call, g[k].place, c, p, l + n + 1 - k)
  <2>1. CASE k <= l
    <3>1. k \in 1 .. l /\ n <= Widths[s] - w /\ n \in Nat /\ n > 0
      BY <2>1
    <3>2. Follows(f[k].call, f[k].place, c, p, (l + 1 - k) + n)
      BY <1>2, <3>1, FollowsOn
    <3>3. (l + 1 - k) + n = l + n + 1 - k
      OBVIOUS
    <3> QED
      BY <1>2, <3>1, <3>2, <3>3
  <2>2. CASE k > l
    <3>1. g[k].call = s /\ g[k].place = w + (k - l) - 1
      BY <1>1, <2>2
    <3>2. Follows(s, w + (k - l) - 1, c, p, l + n + 1 - k)
      BY <2>2 DEF Follows
    <3> QED
      BY <3>1, <3>2
  <2> QED
    BY <2>1, <2>2
<1> QED
  BY <1>3, <1>4 DEF Before

\* The bytes that are left when the first n are taken.
LEMMA DropRun ==
  ASSUME NEW f, NEW g, NEW l \in Nat, NEW n \in 1 .. l, Ordered(f, l),
         \A i \in 1 .. l - n : g[i] = f[i + n]
  PROVE  /\ Ordered(g, l - n)
         /\ \A c, p : Before(f, l, c, p) => Before(g, l - n, c, p)
<1>1. ASSUME NEW i \in 1 .. l - n PROVE g[i] = f[i + n] /\ i + n \in 1 .. l
  OBVIOUS
<1>2. ASSUME NEW k \in 1 .. l - n, NEW i \in 1 .. l - n, k <= i
      PROVE  Follows(g[k].call, g[k].place, g[i].call, g[i].place, i - k)
  <2>1. k + n <= i + n /\ (i + n) - (k + n) = i - k
    BY <1>2
  <2> QED
    BY <1>1, <2>1 DEF Ordered
<1>3. ASSUME NEW c, NEW p, Before(f, l, c, p), NEW k \in 1 .. l - n
      PROVE  Follows(g[k].call, g[k].place, c, p, (l - n) + 1 - k)
  <2>1. (l - n) + 1 - k = l + 1 - (k + n)
    OBVIOUS
  <2> QED
    BY <1>1, <1>3, <2>1 DEF Before
<1> QED
  BY <1>2, <1>3 DEF Ordered, Before

\* A write of n bytes on a connection that stands puts them behind the others.
LEMMA WriteUpKeeps ==
  ASSUME IInv, wpc = "write", link["writer"] = "up",
         NEW n \in Nat \ {0}, written + n <= WWidth,
         wire' = wire \o Taken(n), UNCHANGED link, Wrote(n)
  PROVE  IInv'
<1> USE DEF IInv
<1>1. PICK s \in Calls, l \in Nat, w \in Nat, width \in Nat :
        s = Len(sent) /\ l = Len(wire) /\ w = written /\ Widths[s] = width /\ WWidth = width
  BY WroteSome, Naturals DEF WWidth
<1>0. w + n <= width
  BY <1>1
<1>2. /\ written' = w + n /\ written' \in 0 .. SizeMod - 1
      /\ UNCHANGED <<host, value, sent, rpc, result, total, received, link>>
  BY <1>1, WroteSome
<1>3. /\ w + n < width => wpc' = "write"
      /\ w + n = width => wpc' = IF Len(sent) < Len(Widths) THEN "ready" ELSE "close"
  BY <1>1, WroteSome
<1>4. /\ Taken(n) \in Seq(Bytes) /\ Len(Taken(n)) = n
      /\ \A i \in 1 .. n : /\ Taken(n)[i].call = s
                           /\ Taken(n)[i].place = w + i - 1
                           /\ Taken(n)[i].data = OnWire(s)[w + i - 1]
  BY <1>1, TakenBytes
<1>5. /\ wire' \in Seq(Bytes) /\ Len(wire') = l + n
      /\ \A i \in 1 .. l : wire'[i] = wire[i]
      /\ \A i \in 1 .. n : wire'[l + i] = Taken(n)[i]
  <2>1. wire \in Seq(Bytes)
    BY DEF TypeOK
  <2>2. /\ wire \o Taken(n) \in Seq(Bytes) /\ Len(wire \o Taken(n)) = Len(wire) + Len(Taken(n))
        /\ \A i \in 1 .. Len(wire) + Len(Taken(n)) :
             (wire \o Taken(n))[i] = IF i <= Len(wire) THEN wire[i] ELSE Taken(n)[i - Len(wire)]
    BY <1>4, <2>1, ConcatProperties
  <2>3. \A i \in 1 .. l + n : wire'[i] = IF i <= l THEN wire[i] ELSE Taken(n)[i - l]
    BY <1>1, <1>4, <2>2
  <2> QED
    BY <1>1, <1>2, <1>4, <2>2, <2>3
<1>6. \A c : OnWire(c)' = OnWire(c)
  BY <1>2 DEF OnWire
<1>7. TypeOK'
  <2>1. value' \in AnyNumber \cup {<<>>} /\ wpc' \in {"ready", "write", "close"} \cup Ended
    BY <1>0, <1>2, <1>3 DEF TypeOK
  <2> QED
    BY <1>2, <1>5, <2>1 DEF TypeOK
<1>8. Locals'
  <2>1. wpc' = "write" => written' < Widths[s]
    BY <1>0, <1>1, <1>2, <1>3
  <2>2. wpc' = "ready" => Len(sent) < Len(Widths)
    BY <1>0, <1>2, <1>3
  <2>3. OnWire(Len(sent))' = OnWire(Len(sent)) /\ WWidth' = Widths[s] /\ RWidth' = RWidth
    BY <1>1, <1>2 DEF OnWire, WWidth, RWidth
  <2> QED
    BY <1>1, <1>2, <2>1, <2>2, <2>3 DEF Locals
<1>9. Connected'
  <2>1. rpc \notin Ended /\ link["reader"] # "dead" /\ link["reader"] # "reset"
    BY DEF Connected
  <2> QED
    BY <1>2, <2>1 DEF Connected
<1>10. Genuine'
  <2>1. SUFFICES ASSUME NEW i \in 1 .. l + n
                 PROVE  /\ wire'[i].call <= Len(sent)
                        /\ wire'[i].place < Widths[wire'[i].call]
                        /\ wire'[i].data = OnWire(wire'[i].call)[wire'[i].place]
    BY <1>2, <1>5, <1>6 DEF Genuine, OnWire
  <2>2. CASE i <= l
    BY <1>1, <1>5, <2>2 DEF Genuine
  <2>3. CASE i > l
    <3>1. PICK m \in 1 .. n : i = l + m
      <4>1. i - l \in 1 .. n /\ i = l + (i - l)
        BY <2>3
      <4> QED
        BY <4>1
    <3>2. wire'[i].call = s /\ wire'[i].place = w + m - 1 /\ wire'[i].data = OnWire(s)[w + m - 1]
      BY <1>4, <1>5, <3>1
    <3>3. w + m - 1 < Widths[s]
      BY <1>0, <1>1
    <3> QED
      BY <1>1, <3>2, <3>3
  <2>4. i <= l \/ i > l
    OBVIOUS
  <2> QED
    BY <2>2, <2>3, <2>4
<1>11. Writing /\ WCall = s /\ WPlace = w
  BY <1>1 DEF Writing, WCall, WPlace
<1>12. PICK c \in Nat, p \in Nat : c = WCall' /\ p = WPlace' /\ Follows(s, w, c, p, n)
  <2>1. CASE w + n < width
    <3>1. WCall' = s /\ WPlace' = w + n /\ s \in Nat
      BY <1>1, <1>2, <1>3, <2>1 DEF WCall, WPlace, Calls
    <3>2. Follows(s, w, s, w + n, n)
      BY <1>1, <2>1 DEF Follows
    <3> QED
      BY <3>1, <3>2
  <2>2. CASE w + n = width
    <3>1. WCall' = s + 1 /\ WPlace' = 0 /\ s + 1 \in Nat
      BY <1>1, <1>2, <1>3, <2>2 DEF WCall, WPlace, Calls
    <3>2. Follows(s, w, s + 1, 0, n)
      BY <1>1, <2>2 DEF Follows
    <3> QED
      BY <3>1, <3>2
  <2> QED
    BY <1>0, <2>1, <2>2
<1>13. InOrder' /\ WriterFollows'
  <2>1. \A k \in 1 .. l : wire[k].place \in Nat /\ Widths[wire[k].call] \in Nat
    <3>1. \A k \in 1 .. l : wire[k] \in Bytes
      BY <1>1, Naturals
    <3> QED
      BY <3>1, WidthsArePositive DEF Bytes
  <2>2. Ordered(wire, l) /\ Before(wire, l, s, w)
    BY <1>1, <1>11 DEF InOrder, WriterFollows
  <2>3. \A i \in 1 .. n : wire'[l + i].call = s /\ wire'[l + i].place = w + i - 1
    BY <1>4, <1>5
  <2>4. \A i \in 1 .. l : wire'[i] = wire[i]
    BY <1>5
  <2>5. Widths[s] \in Nat /\ w + n <= Widths[s]
    BY <1>0, <1>1
  <2>6. PICK g : g = wire'
    OBVIOUS
  <2>7. Ordered(g, l + n) /\ Before(g, l + n, c, p)
    BY <1>12, <2>1, <2>2, <2>3, <2>4, <2>5, <2>6, AppendRun
  <2> QED
    BY <1>5, <1>12, <2>6, <2>7 DEF InOrder, WriterFollows
<1>14. ReaderPrecedes'
  <2>1. RCall' = RCall /\ RPlace' = RPlace /\ Reading' = Reading
    BY <1>2 DEF RCall, RPlace, Reading
  <2>2. wire' # <<>>
    BY <1>1, <1>2, <1>5
  <2>3. Reading => wire'[1].call = RCall /\ wire'[1].place = RPlace
    <3>1. CASE wire = <<>>
      <4>1. l = 0
        BY <1>1, <3>1
      <4>2. 1 \in 1 .. n /\ w + 1 - 1 = w /\ l + 1 = 1
        BY <4>1
      <4>3. wire'[1] = Taken(n)[1] /\ Taken(n)[1].call = s /\ Taken(n)[1].place = w
        BY <1>4, <1>5, <4>2
      <4> QED
        BY <1>11, <3>1, <4>3 DEF ReaderPrecedes
    <3>2. CASE wire # <<>>
      <4>1. l > 0
        BY <1>1, <3>2, EmptySeq DEF TypeOK
      <4>2. wire'[1] = wire[1]
        BY <1>1, <1>5, <4>1
      <4> QED
        BY <3>2, <4>2 DEF ReaderPrecedes
    <3> QED
      BY <3>1, <3>2
  <2> QED
    BY <2>1, <2>2, <2>3 DEF ReaderPrecedes
<1>15. HalfRead' /\ ReceivedIsSent'
  BY <1>2 DEF HalfRead, ReceivedIsSent, Reading, RCall, OnWire
<1> QED
  BY <1>7, <1>8, <1>9, <1>10, <1>13, <1>14, <1>15

\* What a failed write does to the writer.
LEMMA WroteMinus1 ==
  ASSUME IInv, wpc = "write", Wrote(Minus1)
  PROVE  /\ written' \in 0 .. SizeMod - 1
         /\ wpc' = "write" => written' < WWidth
         /\ wpc' = "ready" => Len(sent) < Len(Widths)
         /\ wpc' \in {"write", "ready", "close"}
         /\ UNCHANGED <<host, value, sent, rpc, result, total, received>>
<1> USE DEF IInv
<1>1. /\ WWidth \in Nat \ {0} /\ WWidth < SizeMod /\ SizeMod \in Nat
      /\ written \in 0 .. SizeMod - 1
  BY Naturals, WidthsAssumption DEF TypeOK
<1>2. WWidth' = WWidth /\ UNCHANGED <<host, value, sent, rpc, result, total, received>>
  BY DEF Wrote, WWidth, reader
<1>3. written' = Plus(written, Minus1) /\ written' \in 0 .. SizeMod - 1
  <2>1. written' = Plus(written, Minus1)
    BY DEF Wrote
  <2>2. CASE written = 0
    BY <1>1, <2>1, <2>2, SizeArithmetic
  <2>3. CASE written > 0
    BY <1>1, <2>1, <2>3, SizeArithmetic
  <2> QED
    BY <1>1, <2>2, <2>3
<1>4. wpc' = IF written' < WWidth THEN "write"
             ELSE IF Len(sent) < Len(Widths) THEN "ready" ELSE "close"
  BY <1>2 DEF Wrote
<1> QED
  BY <1>2, <1>3, <1>4

\* A write on a connection that does not stand changes nothing but the writer.
LEMMA WriteLostKeeps ==
  ASSUME IInv, wpc = "write", link["writer"] # "up", UNCHANGED wire,
         link' \in {link, [link EXCEPT !["writer"] = "dead"]},
         written' \in 0 .. SizeMod - 1,
         wpc' = "write" => written' < WWidth,
         wpc' = "ready" => Len(sent) < Len(Widths),
         wpc' \in {"write", "ready", "close"},
         UNCHANGED <<host, value, sent, rpc, result, total, received>>
  PROVE  IInv'
<1> USE DEF IInv
<1>1. /\ link' \in [End -> {"up", "fin", "reset", "dead"}] /\ link'["writer"] # "up"
      /\ link'["reader"] = link["reader"]
  BY DEF TypeOK, End
<1>2. TypeOK'
  BY <1>1 DEF TypeOK
<1>3. Locals'
  BY DEF Locals, OnWire, WWidth, RWidth
<1>4. Connected'
  BY <1>1 DEF Connected
<1>5. Genuine' /\ InOrder'
  BY DEF Genuine, InOrder, OnWire
<1>6. ~Writing /\ ~Writing' /\ Reading' = Reading /\ RCall' = RCall /\ RPlace' = RPlace
  BY <1>1 DEF Writing, Reading, RCall, RPlace
<1>7. WriterFollows' /\ ReaderPrecedes'
  BY <1>6 DEF WriterFollows, ReaderPrecedes
<1>8. HalfRead'
  BY <1>6 DEF HalfRead, RCall, OnWire
<1>9. ReceivedIsSent'
  BY <1>1 DEF ReceivedIsSent
<1> QED
  BY <1>2, <1>3, <1>4, <1>5, <1>7, <1>8, <1>9

LEMMA WriteSomeKeeps == ASSUME IInv, WriteSome PROVE IInv'
<1> USE DEF IInv
<1>1. wpc = "write" /\ written \in Nat /\ WWidth \in Nat
  BY Naturals DEF WriteSome, TypeOK
<1>2. PICK n \in 1 .. WWidth - written :
        /\ \/ /\ link["writer"] = "up"
              /\ Len(wire) + n <= Cap
              /\ wire' = wire \o Taken(n)
              /\ UNCHANGED link
           \/ /\ link["writer"] = "fin"
              /\ link' \in {link, [link EXCEPT !["writer"] = "dead"]}
              /\ UNCHANGED wire
        /\ Wrote(n)
  BY DEF WriteSome
<1>3. n \in Nat \ {0} /\ written + n <= WWidth
  BY <1>1
<1>4. CASE link["writer"] = "up"
  BY <1>1, <1>2, <1>3, <1>4, WriteUpKeeps
<1>5. CASE link["writer"] # "up"
  <2>1. /\ written' = written + n /\ written' \in 0 .. SizeMod - 1
        /\ written + n < WWidth => wpc' = "write"
        /\ written + n = WWidth =>
             wpc' = IF Len(sent) < Len(Widths) THEN "ready" ELSE "close"
        /\ UNCHANGED <<host, value, sent, rpc, result, total, received>>
    BY <1>1, <1>2, <1>3, WroteSome
  <2>2. /\ wpc' = "write" => written' < WWidth
        /\ wpc' = "ready" => Len(sent) < Len(Widths)
        /\ wpc' \in {"write", "ready", "close"}
    BY <1>1, <1>3, <2>1
  <2> QED
    BY <1>1, <1>2, <1>5, <2>1, <2>2, WriteLostKeeps
<1> QED
  BY <1>4, <1>5

LEMMA WriteFailsKeeps == ASSUME IInv, WriteFails PROVE IInv'
<1>1. /\ wpc = "write" /\ link["writer"] # "up" /\ UNCHANGED wire /\ Wrote(Minus1)
      /\ link' = [link EXCEPT !["writer"] = "dead"]
  BY DEF WriteFails
<1> QED
  BY <1>1, WroteMinus1, WriteLostKeeps

\* The writer closes its end: of its own will, killed or by SIGPIPE.
LEMMA WriterStopKeeps ==
  ASSUME IInv, wpc \notin Ended, wpc' = "killed" \/ (wpc' = "done" /\ wpc = "close"),
         CloseWriter, UNCHANGED <<host, value, written, sent, reader, wire>>
  PROVE  IInv'
<1> USE DEF IInv
<1>1. /\ link' \in [End -> {"up", "fin", "reset", "dead"}] /\ link'["writer"] = link["writer"]
      /\ link'["reader"] = (IF link["reader"] = "up" THEN "fin" ELSE link["reader"])
  BY DEF CloseWriter, TypeOK, End
<1>2. UNCHANGED <<rpc, result, total, received>>
  BY DEF reader
<1>3. TypeOK'
  BY <1>1, <1>2 DEF TypeOK, Ended
<1>4. Locals'
  BY <1>2 DEF Locals, OnWire, RWidth
<1>5. Connected'
  BY <1>1, <1>2 DEF Connected
<1>6. Genuine' /\ InOrder'
  BY DEF Genuine, InOrder, OnWire
<1>7. /\ Writing' => Writing /\ WCall' = WCall /\ WPlace' = WPlace
      /\ Reading' = Reading /\ RCall' = RCall /\ RPlace' = RPlace
  BY <1>1, <1>2 DEF Writing, Reading, WCall, WPlace, RCall, RPlace
<1>8. WriterFollows' /\ ReaderPrecedes'
  BY <1>7 DEF WriterFollows, ReaderPrecedes
<1>9. HalfRead'
  BY <1>2, <1>7 DEF HalfRead, RCall, OnWire
<1>10. ReceivedIsSent'
  BY <1>1, <1>2 DEF ReceivedIsSent
<1> QED
  BY <1>3, <1>4, <1>5, <1>6, <1>8, <1>9, <1>10

-----------------------------------------------------------------------------
(* The reading end.                                                         *)

LEMMA CallReadKeeps == ASSUME IInv, CallRead PROVE IInv'
<1> USE DEF IInv
<1>1. /\ rpc = "ready" /\ Len(received) < Len(Widths) /\ result' \in Numbers(RWidth)
      /\ total' = 0 /\ rpc' = "read"
      /\ UNCHANGED <<host, wpc, value, written, sent, received, wire, link>>
  BY DEF CallRead, writer
<1>2. /\ RWidth \in Nat \ {0} /\ RWidth' = RWidth /\ RCall \in Calls /\ RWidth = Widths[RCall]
      /\ RWidth < SizeMod
  <2>1. RWidth' = RWidth
    BY <1>1 DEF RWidth
  <2> QED
    BY <1>1, <2>1, Naturals
<1>3. TypeOK'
  <2>1. result' \in AnyNumber
    BY <1>1, <1>2 DEF AnyNumber
  <2>2. total' \in 0 .. SizeMod - 1
    BY <1>1, <1>2, WidthsAssumption
  <2> QED
    BY <1>1, <2>1, <2>2 DEF TypeOK
<1>4. Locals'
  <2>1. total' < RWidth' /\ result' \in Numbers(RWidth')
    BY <1>1, <1>2
  <2> QED
    BY <1>1, <2>1 DEF Locals, OnWire, WWidth
<1>5. Connected' /\ Genuine' /\ InOrder'
  BY <1>1 DEF Connected, Genuine, InOrder, OnWire, Ended
<1>6. /\ Writing' = Writing /\ WCall' = WCall /\ WPlace' = WPlace
      /\ Reading' = Reading /\ RCall' = RCall /\ RPlace' = RPlace
  BY <1>1 DEF Writing, Reading, WCall, WPlace, RCall, RPlace, Ended
<1>7. WriterFollows' /\ ReaderPrecedes'
  BY <1>1, <1>6 DEF WriterFollows, ReaderPrecedes
<1>8. HalfRead' /\ ReceivedIsSent'
  BY <1>1 DEF HalfRead, ReceivedIsSent
<1> QED
  BY <1>3, <1>4, <1>5, <1>7, <1>8

\* When read_num returns, a number of the right width is received.
LEMMA ReturnIs ==
  ASSUME IInv, rpc = "read", NEW v \in Numbers(RWidth), received' = Append(received, v)
  PROVE  /\ received' \in Seq(AnyNumber) /\ Len(received') = Len(received) + 1
         /\ Len(received') <= Len(Widths) /\ received'[RCall] = v
         /\ \A i \in 1 .. Len(received) : received'[i] = received[i]
<1> USE DEF IInv
<1>1. v \in AnyNumber /\ received \in Seq(AnyNumber) /\ Len(received) < Len(Widths)
  BY Naturals DEF AnyNumber, TypeOK, Locals
<1>2. /\ Append(received, v) \in Seq(AnyNumber)
      /\ Len(Append(received, v)) = Len(received) + 1
      /\ Append(received, v)[Len(received) + 1] = v
      /\ \A i \in 1 .. Len(received) : Append(received, v)[i] = received[i]
  BY <1>1
<1>3. Len(received) \in Nat /\ Len(Widths) \in Nat
  BY Naturals, WidthsArePositive
<1>4. Len(received) + 1 <= Len(Widths)
  BY <1>1, <1>3
<1> QED
  BY <1>2, <1>4 DEF RCall

\* What remains true of the writer and of the wire when only the reader and
\* the front of the wire change.
LEMMA TakenFromFront ==
  ASSUME IInv, UNCHANGED <<host, writer, link>>, NEW n \in Nat \ {0}, n <= Len(wire),
         wire' = SubSeq(wire, n + 1, Len(wire))
  PROVE  /\ wire' \in Seq(Bytes) /\ Len(wire') = Len(wire) - n
         /\ \A i \in 1 .. Len(wire) - n : wire'[i] = wire[i + n]
         /\ Genuine' /\ InOrder' /\ WriterFollows'
<1> USE DEF IInv
<1>1. PICK l \in Nat : l = Len(wire) /\ n \in 1 .. l
  BY Naturals
<1>2. wire' \in Seq(Bytes) /\ Len(wire') = l - n /\ \A i \in 1 .. l - n : wire'[i] = wire[i + n]
  <2>1. \A i \in n + 1 .. l : wire[i] \in Bytes
    <3>1. \A i \in 1 .. l : wire[i] \in Bytes
      BY <1>1, Naturals
    <3> QED
      BY <1>1, <3>1
  <2>2. /\ SubSeq(wire, n + 1, l) \in Seq(Bytes)
        /\ Len(SubSeq(wire, n + 1, l)) = IF n + 1 <= l THEN l - (n + 1) + 1 ELSE 0
        /\ \A i \in 1 .. l - (n + 1) + 1 : SubSeq(wire, n + 1, l)[i] = wire[n + 1 + i - 1]
    BY <2>1, SubSeqProperties
  <2>3. PICK w : w = wire' /\ w = SubSeq(wire, n + 1, l)
    BY <1>1
  <2>4. Len(w) = l - n
    BY <1>1, <2>2, <2>3
  <2>5. \A i \in 1 .. l - n : w[i] = wire[i + n]
    <3>1. ASSUME NEW i \in 1 .. l - n PROVE i \in 1 .. l - (n + 1) + 1 /\ n + 1 + i - 1 = i + n
      OBVIOUS
    <3> QED
      BY <2>2, <2>3, <3>1
  <2> QED
    BY <2>2, <2>3, <2>4, <2>5
<1>3. UNCHANGED <<wpc, value, written, sent>>
  BY DEF writer
<1>4. \A c : OnWire(c)' = OnWire(c)
  BY <1>3 DEF OnWire
<1>5. Genuine'
  <2>1. SUFFICES ASSUME NEW i \in 1 .. l - n
                 PROVE  /\ wire'[i].call <= Len(sent)
                        /\ wire'[i].place < Widths[wire'[i].call]
                        /\ wire'[i].data = OnWire(wire'[i].call)[wire'[i].place]
    BY <1>2, <1>3, <1>4 DEF Genuine, OnWire
  <2>2. wire'[i] = wire[i + n] /\ i + n \in 1 .. l
    BY <1>2
  <2> QED
    BY <1>1, <2>2 DEF Genuine
<1>6. PICK f, g : f = wire /\ g = wire'
  OBVIOUS
<1>7. Ordered(g, l - n) /\ \A c, p : Before(f, l, c, p) => Before(g, l - n, c, p)
  <2>1. Ordered(f, l) /\ \A i \in 1 .. l - n : g[i] = f[i + n]
    BY <1>1, <1>2, <1>6 DEF InOrder
  <2> QED
    BY <1>1, <2>1, DropRun
<1>8. InOrder'
  BY <1>2, <1>6, <1>7 DEF InOrder
<1>9. WCall' = WCall /\ WPlace' = WPlace /\ Writing' = Writing
  BY <1>3 DEF WCall, WPlace, Writing
<1>10. WriterFollows'
  BY <1>1, <1>2, <1>6, <1>7, <1>9 DEF WriterFollows
<1> QED
  BY <1>1, <1>2, <1>5, <1>8, <1>10

\* The first bytes on the wire, up to the end of their number, are the bytes
\* of the number being read, in their places.
LEMMA FrontOfWire ==
  ASSUME IInv, rpc = "read", link["reader"] # "dead", Len(wire) > 0
  PROVE  /\ RCall \in 1 .. Len(sent)
         /\ \A i \in 1 .. Len(wire) : i <= RWidth - total =>
              wire[i].data = OnWire(RCall)[total + i - 1]
         /\ \A i \in 1 .. Len(wire) :
              Follows(RCall, total, wire[i].call, wire[i].place, i - 1)
         /\ Writing => Follows(RCall, total, WCall, WPlace, Len(wire))
<1> USE DEF IInv
<1>1. PICK l \in Nat : l = Len(wire) /\ 1 \in 1 .. l
  BY Naturals
<1>2. wire # <<>> /\ Reading
  BY DEF Reading, Ended
<1>3. PICK c \in Calls, t \in Nat : /\ c = RCall /\ t = total /\ t < Widths[c] /\ Widths[c] \in Nat
                                    /\ RWidth = Widths[c]
  BY Naturals DEF Locals, TypeOK
<1>4. wire[1].call = c /\ wire[1].place = t
  BY <1>2, <1>3 DEF ReaderPrecedes, RPlace
<1>5. c <= Len(sent) /\ c \in Nat \ {0}
  BY <1>1, <1>3, <1>4 DEF Genuine, Calls
<1>6. ASSUME NEW i \in 1 .. l PROVE Follows(c, t, wire[i].call, wire[i].place, i - 1)
  <2>1. 1 <= i
    OBVIOUS
  <2> QED
    BY <1>1, <1>4, <2>1 DEF InOrder, Ordered
<1>7. ASSUME NEW i \in 1 .. l, i <= Widths[c] - t
      PROVE  wire[i].data = OnWire(c)[t + i - 1]
  <2>1. wire[i].call = c /\ wire[i].place = t + (i - 1)
    BY <1>3, <1>6, <1>7 DEF Follows
  <2>2. wire[i].data = OnWire(wire[i].call)[wire[i].place]
    BY <1>1 DEF Genuine
  <2>3. t + (i - 1) = t + i - 1
    OBVIOUS
  <2> QED
    BY <2>1, <2>2, <2>3
<1>8. Writing => Follows(c, t, WCall, WPlace, l)
  <2>1. l + 1 - 1 = l
    OBVIOUS
  <2> QED
    BY <1>1, <1>4, <2>1 DEF WriterFollows, Before
<1>9. RCall \in 1 .. Len(sent)
  BY <1>3, <1>5, Naturals
<1> QED
  BY <1>1, <1>3, <1>6, <1>7, <1>8, <1>9

LEMMA ReadSomeKeeps == ASSUME IInv, ReadSome PROVE IInv'
<1> USE DEF IInv
<1>1. PICK c \in Calls, t \in Nat, l \in Nat, width \in Nat :
        /\ c = RCall /\ t = total /\ l = Len(wire) /\ width = RWidth /\ width = Widths[c]
        /\ t < width /\ width < SizeMod /\ rpc = "read"
  <2>1. rpc = "read"
    BY DEF ReadSome
  <2>2. /\ RCall \in Calls /\ RWidth = Widths[RCall] /\ RWidth \in Nat /\ RWidth < SizeMod
        /\ Len(wire) \in Nat
    BY <2>1, Naturals
  <2>3. total \in Nat /\ total < RWidth
    <3>1. total \in 0 .. SizeMod - 1
      BY DEF TypeOK
    <3> QED
      BY <2>1, <3>1, WidthsAssumption DEF Locals
  <2> QED
    BY <2>1, <2>2, <2>3
<1>2. PICK n \in 1 .. width - t :
        /\ n <= l
        /\ wire' = SubSeq(wire, n + 1, Len(wire))
        /\ result' = [j \in 0 .. width - 1 |->
                        IF t <= j /\ j < t + n THEN wire[j - t + 1].data ELSE result[j]]
        /\ GotBytes(n) /\ UNCHANGED link
  BY <1>1 DEF ReadSome
<1>3. n \in Nat \ {0} /\ t + n <= width /\ l > 0
  BY <1>2
<1>4. link["reader"] # "dead" /\ Reading
  <2>1. wire # <<>>
    BY <1>1, <1>3
  <2> QED
    BY <1>1, <2>1 DEF Connected, Reading, Ended
<1>5. UNCHANGED <<host, wpc, value, written, sent>> /\ UNCHANGED writer
  BY <1>2 DEF GotBytes, writer
<1>6. /\ wire' \in Seq(Bytes) /\ Len(wire') = l - n
      /\ \A i \in 1 .. l - n : wire'[i] = wire[i + n]
      /\ Genuine' /\ InOrder' /\ WriterFollows'
  BY <1>1, <1>2, <1>3, <1>5, TakenFromFront
<1>7. /\ c \in 1 .. Len(sent)
      /\ \A i \in 1 .. l : i <= width - t => wire[i].data = OnWire(c)[t + i - 1]
      /\ \A i \in 1 .. l : Follows(c, t, wire[i].call, wire[i].place, i - 1)
      /\ Writing => Follows(c, t, WCall, WPlace, l)
  BY <1>1, <1>3, <1>4, FrontOfWire
<1>8. \A j \in 0 .. t + n - 1 : result'[j] = OnWire(c)[j]
  <2>1. SUFFICES ASSUME NEW j \in 0 .. t + n - 1 PROVE result'[j] = OnWire(c)[j]
    OBVIOUS
  <2>2. j \in 0 .. width - 1
    BY <1>3
  <2>3. CASE j < t
    <3>1. result'[j] = result[j] /\ j \in 0 .. t - 1 /\ t > 0
      BY <1>2, <2>2, <2>3
    <3> QED
      BY <1>1, <1>4, <3>1 DEF HalfRead
  <2>4. CASE j >= t
    <3>1. result'[j] = wire[j - t + 1].data
      BY <1>2, <2>2, <2>4
    <3>2. j - t + 1 \in 1 .. l /\ j - t + 1 <= width - t /\ t + (j - t + 1) - 1 = j
      BY <1>2, <1>3, <2>4
    <3> QED
      BY <1>7, <3>1, <3>2
  <2>5. j < t \/ j >= t
    OBVIOUS
  <2> QED
    BY <2>3, <2>4, <2>5
<1>9. result' \in Numbers(width)
  <2>1. \A j \in 0 .. width - 1 : result[j] \in Byte
    BY <1>1 DEF Locals, Numbers
  <2>2. ASSUME NEW j \in 0 .. width - 1 PROVE result'[j] \in Byte
    <3>1. CASE t <= j /\ j < t + n
      <4>1. j - t + 1 \in 1 .. l
        BY <1>2, <3>1
      <4>2. wire[j - t + 1] \in Bytes
        BY <1>1, <4>1, Naturals
      <4> QED
        BY <1>2, <3>1, <4>2 DEF Bytes
    <3>2. CASE ~(t <= j /\ j < t + n)
      BY <1>2, <2>1, <3>2
    <3> QED
      BY <3>1, <3>2
  <2>3. result' = [j \in 0 .. width - 1 |-> result'[j]]
    BY <1>2
  <2> QED
    BY <2>2, <2>3 DEF Numbers
<1>10. total' = t + n /\ total' \in 0 .. SizeMod - 1
  <2>1. total' = Plus(total, n) /\ t \in 0 .. SizeMod - 1 /\ t + n < SizeMod /\ SizeMod \in Nat
    BY <1>1, <1>2, <1>3, WidthsAssumption DEF GotBytes
  <2>2. total = t /\ t \in Nat /\ n \in Nat
    BY <1>1, <1>3
  <2>3. Plus(t, n) = t + n
    BY <2>1, <2>2, SizeArithmetic
  <2>4. t + n \in 0 .. SizeMod - 1
    BY ONLY <2>1, <2>2
  <2> QED
    BY <2>1, <2>2, <2>3, <2>4
<1>11. Connected'
  <2>1. rpc' \notin Ended
    BY <1>1, <1>2 DEF GotBytes, Ended
  <2> QED
    BY <1>2, <1>4, <2>1 DEF Connected
<1>12. /\ \A d : OnWire(d)' = OnWire(d)
       /\ Writing' = Writing /\ WCall' = WCall /\ WPlace' = WPlace
  BY <1>2, <1>5 DEF OnWire, Writing, WCall, WPlace
<1>13. CASE t + n < width
  <2>1. UNCHANGED <<rpc, received>> /\ RWidth' = RWidth /\ RCall' = c /\ RPlace' = t + n
    <3>1. RWidth' = RWidth
      BY <1>1, <1>2, <1>10, <1>13 DEF GotBytes, RWidth
    <3> QED
      BY <1>1, <1>2, <1>10, <1>13, <3>1 DEF GotBytes, RCall, RPlace
  <2>2. TypeOK'
    <3>1. result' \in AnyNumber
      BY <1>1, <1>9 DEF AnyNumber
    <3> QED
      BY <1>2, <1>5, <1>6, <1>10, <2>1, <3>1 DEF TypeOK
  <2>3. Locals'
    <3>1. result' \in Numbers(RWidth') /\ total' < RWidth'
      BY <1>1, <1>9, <1>10, <1>13, <2>1
    <3>2. WWidth' = WWidth /\ OnWire(Len(sent))' = OnWire(Len(sent))
      BY <1>5 DEF WWidth, OnWire
    <3> QED
      BY <1>5, <2>1, <3>1, <3>2 DEF Locals
  <2>4. ReaderPrecedes'
    <3>1. ASSUME wire' # <<>> PROVE wire'[1].call = c /\ wire'[1].place = t + n
      <4>1. l - n > 0
        BY <1>6, <3>1, EmptySeq
      <4>2. wire'[1] = wire[n + 1] /\ n + 1 \in 1 .. l /\ (n + 1) - 1 = n
        BY <1>6, <4>1
      <4>3. Follows(c, t, wire[n + 1].call, wire[n + 1].place, n)
        BY <1>7, <4>2
      <4> QED
        BY <1>1, <1>13, <4>2, <4>3 DEF Follows
    <3>2. ASSUME wire' = <<>>, Writing PROVE WCall = c /\ WPlace = t + n
      <4>1. l = n
        BY <1>6, <3>2, EmptySeq
      <4>2. Follows(c, t, WCall, WPlace, n)
        BY <1>7, <3>2, <4>1
      <4> QED
        BY <1>1, <1>13, <4>2 DEF Follows
    <3> QED
      BY <1>12, <2>1, <3>1, <3>2 DEF ReaderPrecedes
  <2>5. HalfRead'
    <3>1. c <= Len(sent) /\ \A j \in 0 .. total' - 1 : result'[j] = OnWire(c)[j]
      BY <1>7, <1>8, <1>10
    <3>2. OnWire(c)' = OnWire(c)
      BY <1>12
    <3>3. OnWire(RCall)' = OnWire(c)'
      BY <2>1
    <3> QED
      BY <1>5, <2>1, <3>1, <3>2, <3>3 DEF HalfRead
  <2>6. ReceivedIsSent'
    BY <1>2, <1>5, <2>1 DEF ReceivedIsSent
  <2> QED
    BY <1>6, <1>11, <2>2, <2>3, <2>4, <2>5, <2>6
<1>14. CASE t + n = width
  <2>1. PICK v : /\ v = swap_for_endianness(host["reader"], width, Memory(host["reader"], width, result'))
                 /\ received' = Append(received, v)
                 /\ rpc' = IF Len(received') < Len(Widths) THEN "ready" ELSE "close"
    <3>1. ~(total' < RWidth)
      BY <1>1, <1>10, <1>14
    <3> QED
      BY <1>1, <1>2, <3>1 DEF GotBytes
  <2>2. v = sent[c] /\ v \in Numbers(width)
    <3>1. sent[c] \in Numbers(width) /\ OnWire(c) \in Numbers(width)
      BY <1>1, <1>7, Naturals DEF Locals
    <3>2. result' = OnWire(c)
      <4>1. \A j \in 0 .. width - 1 : result'[j] = OnWire(c)[j]
        BY <1>8, <1>14
      <4> QED
        BY <1>9, <3>1, <4>1 DEF Numbers
    <3>3. host["reader"] \in Orders
      BY DEF TypeOK, End
    <3>4. result' = Memory(Order, width, sent[c])
      BY <1>1, <3>2 DEF OnWire
    <3> QED
      BY <2>1, <3>1, <3>3, <3>4, HostOrderHidden
  <2>3. /\ received' \in Seq(AnyNumber) /\ Len(received') = Len(received) + 1
        /\ Len(received') <= Len(Widths) /\ received'[c] = v
        /\ \A i \in 1 .. Len(received) : received'[i] = received[i]
    BY <1>1, <2>1, <2>2, ReturnIs
  <2>4. RCall' = c + 1 /\ RPlace' = 0 /\ Len(received) \in Nat /\ c = Len(received) + 1
    BY <1>1, <2>1, <2>3, Naturals DEF RCall, RPlace
  <2>5. TypeOK'
    <3>1. result' \in AnyNumber
      BY <1>1, <1>9 DEF AnyNumber
    <3>2. rpc' \in {"ready", "close"}
      BY <2>1
    <3> QED
      BY <1>2, <1>5, <1>6, <1>10, <2>3, <3>1, <3>2 DEF TypeOK
  <2>6. Locals'
    <3>1. WWidth' = WWidth /\ OnWire(Len(sent))' = OnWire(Len(sent))
      BY <1>5 DEF WWidth, OnWire
    <3> QED
      BY <1>5, <2>1, <2>3, <3>1 DEF Locals
  <2>7. ReaderPrecedes'
    <3>1. ASSUME wire' # <<>> PROVE wire'[1].call = c + 1 /\ wire'[1].place = 0
      <4>1. l - n > 0
        BY <1>6, <3>1, EmptySeq
      <4>2. wire'[1] = wire[n + 1] /\ n + 1 \in 1 .. l /\ (n + 1) - 1 = n
        BY <1>6, <4>1
      <4>3. Follows(c, t, wire[n + 1].call, wire[n + 1].place, n)
        BY <1>7, <4>2
      <4> QED
        BY <1>1, <1>14, <4>2, <4>3 DEF Follows
    <3>2. ASSUME wire' = <<>>, Writing PROVE WCall = c + 1 /\ WPlace = 0
      <4>1. l = n
        BY <1>6, <3>2, EmptySeq
      <4>2. Follows(c, t, WCall, WPlace, n)
        BY <1>7, <3>2, <4>1
      <4> QED
        BY <1>1, <1>14, <4>2 DEF Follows
    <3> QED
      BY <1>12, <2>4, <3>1, <3>2 DEF ReaderPrecedes
  <2>8. HalfRead'
    BY <2>1 DEF HalfRead
  <2>9. ReceivedIsSent'
    <3>1. SUFFICES ASSUME NEW i \in 1 .. Len(received')
                   PROVE  i <= Len(sent) /\ received'[i] = sent[i]
      BY <1>5 DEF ReceivedIsSent
    <3>2. CASE i = c
      BY <1>7, <2>2, <2>3, <3>2
    <3>3. CASE i # c
      <4>1. i \in 1 .. Len(received)
        BY <2>3, <2>4, <3>3
      <4> QED
        BY <1>4, <2>3, <4>1 DEF ReceivedIsSent
    <3> QED
      BY <3>2, <3>3
  <2> QED
    BY <1>6, <1>11, <2>5, <2>6, <2>7, <2>8, <2>9
<1> QED
  BY <1>3, <1>13, <1>14

\* What a failed read returns, if it returns, is the last number received.
LEMMA ReadFailsKeeps == ASSUME IInv, ReadFails PROVE IInv'
<1> USE DEF IInv
<1>1. /\ rpc = "read" /\ wire = <<>> /\ wire' = <<>> /\ result' = result
      /\ link["reader"] = "reset" /\ link' = [link EXCEPT !["reader"] = "dead"]
      /\ UNCHANGED <<host, wpc, value, written, sent>>
      /\ GotBytes(Minus1)
  BY DEF ReadFails, GotBytes, writer
<1>2. /\ link' \in [End -> {"up", "fin", "reset", "dead"}] /\ link'["reader"] = "dead"
      /\ link'["writer"] = link["writer"] /\ link["writer"] # "up"
  BY <1>1 DEF TypeOK, End, Connected
<1>3. PICK c \in Calls, t \in Nat, width \in Nat \ {0} :
        /\ c = RCall /\ t = total /\ width = RWidth /\ width = Widths[c]
        /\ t < width /\ width < SizeMod
  <2>1. RCall \in Calls /\ RWidth = Widths[RCall] /\ RWidth \in Nat \ {0} /\ RWidth < SizeMod
    BY <1>1, Naturals
  <2>2. total \in Nat /\ total < RWidth
    <3>1. total \in 0 .. SizeMod - 1
      BY DEF TypeOK
    <3> QED
      BY <1>1, <3>1, WidthsAssumption DEF Locals
  <2> QED
    BY <2>1, <2>2
<1>4. /\ total' \in 0 .. SizeMod - 1
      /\ t = 0 => ~(total' < width)
      /\ t > 0 => total' < width
  <2>1. total' = Plus(t, Minus1) /\ t \in 0 .. SizeMod - 1 /\ SizeMod \in Nat
    BY <1>1, <1>3, WidthsAssumption DEF GotBytes
  <2>2. CASE t = 0
    BY <1>3, <2>1, <2>2, SizeArithmetic
  <2>3. CASE t > 0
    BY <1>3, <2>1, <2>3, SizeArithmetic
  <2> QED
    BY <2>2, <2>3
<1>5. Connected' /\ Genuine' /\ InOrder'
  <2>1. Len(wire') = 0
    BY <1>1, EmptySeq
  <2>2. rpc' \notin Ended
    BY <1>1 DEF GotBytes, Ended
  <2> QED
    BY <1>1, <1>2, <2>1, <2>2 DEF Connected, Genuine, InOrder, Ordered
<1>6. ~Writing' /\ ~Reading'
  BY <1>2 DEF Writing, Reading
<1>7. WriterFollows' /\ ReaderPrecedes' /\ HalfRead'
  BY <1>6 DEF WriterFollows, ReaderPrecedes, HalfRead
<1>8. WWidth' = WWidth /\ OnWire(Len(sent))' = OnWire(Len(sent))
  BY <1>1 DEF WWidth, OnWire
<1>9. CASE t > 0
  <2>1. UNCHANGED <<rpc, received>>
    BY <1>1, <1>3, <1>4, <1>9 DEF GotBytes
  <2>2. RWidth' = RWidth
    BY <2>1 DEF RWidth
  <2>3. TypeOK'
    BY <1>1, <1>2, <1>4, <2>1 DEF TypeOK
  <2>4. Locals'
    BY <1>1, <1>3, <1>4, <1>8, <1>9, <2>1, <2>2 DEF Locals
  <2>5. ReceivedIsSent'
    BY <1>1, <1>2, <2>1 DEF ReceivedIsSent
  <2> QED
    BY <1>5, <1>7, <2>3, <2>4, <2>5
<1>10. CASE t = 0
  <2>1. PICK v : /\ v = swap_for_endianness(host["reader"], width, Memory(host["reader"], width, result))
                 /\ received' = Append(received, v)
                 /\ rpc' = IF Len(received') < Len(Widths) THEN "ready" ELSE "close"
    <3>1. ~(total' < RWidth)
      BY <1>3, <1>4, <1>10
    <3> QED
      BY <1>1, <1>3, <3>1 DEF GotBytes
  <2>2. v \in Numbers(width)
    <3>1. host["reader"] \in Orders /\ result \in Numbers(width)
      BY <1>1, <1>3 DEF TypeOK, End, Locals
    <3> QED
      BY <2>1, <3>1, HostOrderHidden
  <2>3. /\ received' \in Seq(AnyNumber) /\ Len(received') = Len(received) + 1
        /\ Len(received') <= Len(Widths)
        /\ \A i \in 1 .. Len(received) : received'[i] = received[i]
    BY <1>1, <1>3, <2>1, <2>2, ReturnIs
  <2>4. TypeOK'
    <3>1. rpc' \in {"ready", "close"}
      BY <2>1
    <3> QED
      BY <1>1, <1>2, <1>4, <2>3, <3>1 DEF TypeOK
  <2>5. Locals'
    BY <1>1, <1>8, <2>1, <2>3 DEF Locals
  <2>6. ReceivedIsSent'
    <3>1. SUFFICES ASSUME NEW i \in 1 .. Len(received'), i # Len(received')
                   PROVE  i <= Len(sent) /\ received'[i] = sent[i]
      BY <1>1, <1>2 DEF ReceivedIsSent
    <3>2. i \in 1 .. Len(received)
      BY <2>3, <3>1, Naturals
    <3>3. link["reader"] # "dead"
      BY <1>1
    <3> QED
      BY <2>3, <3>2, <3>3 DEF ReceivedIsSent
  <2> QED
    BY <1>5, <1>7, <2>4, <2>5, <2>6
<1> QED
  BY <1>3, <1>9, <1>10

\* The reader closes its end: of its own will, by an exception or killed.
LEMMA ReaderStopKeeps ==
  ASSUME IInv, rpc \notin Ended, rpc' \in Ended, CloseReader,
         UNCHANGED <<host, writer, result, total, received>>
  PROVE  IInv'
<1> USE DEF IInv
<1>1. /\ link' \in [End -> {"up", "fin", "reset", "dead"}] /\ link'["writer"] # "up"
      /\ link'["reader"] = link["reader"]
  <2>1. CASE link["writer"] # "up"
    BY <2>1 DEF CloseReader, TypeOK, End
  <2>2. CASE link["writer"] = "up"
    <3>1. \/ link' = [link EXCEPT !["writer"] = "fin"]
          \/ link' = [link EXCEPT !["writer"] = "reset"]
      BY <2>2 DEF CloseReader
    <3> QED
      BY <3>1 DEF TypeOK, End
  <2> QED
    BY <2>1, <2>2
<1>2. wire' = <<>> /\ Len(wire') = 0 /\ wire' \in Seq(Bytes)
  BY EmptySeq DEF CloseReader
<1>3. UNCHANGED <<wpc, value, written, sent>>
  BY DEF writer
<1>4. TypeOK'
  BY <1>1, <1>2, <1>3 DEF TypeOK
<1>5. Locals'
  <2>1. WWidth' = WWidth /\ OnWire(Len(sent))' = OnWire(Len(sent))
    BY <1>3 DEF WWidth, OnWire
  <2>2. rpc' \notin {"ready", "read"}
    BY DEF Ended
  <2> QED
    BY <1>3, <2>1, <2>2 DEF Locals
<1>6. Connected' /\ Genuine' /\ InOrder'
  BY <1>1, <1>2 DEF Connected, Genuine, InOrder, Ordered
<1>7. ~Writing' /\ ~Reading'
  BY <1>1 DEF Writing, Reading
<1>8. WriterFollows' /\ ReaderPrecedes' /\ HalfRead'
  BY <1>7 DEF WriterFollows, ReaderPrecedes, HalfRead
<1>9. ReceivedIsSent'
  BY <1>1, <1>3 DEF ReceivedIsSent
<1> QED
  BY <1>4, <1>5, <1>6, <1>8, <1>9

-----------------------------------------------------------------------------
(* The environment and the whole.                                           *)

\* The bytes that are not lost are the first ones.
LEMMA SeverKeeps == ASSUME IInv, Sever PROVE IInv'
<1> USE DEF IInv
<1>1. /\ link["reader"] \in {"up", "fin"} /\ rpc \notin Ended
      /\ UNCHANGED <<host, wpc, value, written, sent, rpc, result, total, received>>
  BY DEF Sever, writer, reader
<1>2. /\ link' \in [End -> {"up", "fin", "reset", "dead"}]
      /\ link'["reader"] = "reset" /\ link'["writer"] # "up"
  BY DEF Sever, TypeOK, End
<1>3. PICK l \in Nat, m \in Nat :
        /\ l = Len(wire) /\ m <= l /\ Len(wire') = m /\ wire' \in Seq(Bytes)
        /\ \A i \in 1 .. m : wire'[i] = wire[i] /\ i \in 1 .. l
  <2>1. PICK m \in 0 .. Len(wire) : wire' = SubSeq(wire, 1, m)
    BY DEF Sever, Prefixes
  <2>2. Len(wire) \in Nat /\ \A i \in 1 .. Len(wire) : wire[i] \in Bytes
    BY Naturals
  <2>3. \A i \in 1 .. m : wire[i] \in Bytes
    BY <2>2
  <2>4. /\ SubSeq(wire, 1, m) \in Seq(Bytes)
        /\ Len(SubSeq(wire, 1, m)) = IF 1 <= m THEN m - 1 + 1 ELSE 0
        /\ \A i \in 1 .. m - 1 + 1 : SubSeq(wire, 1, m)[i] = wire[1 + i - 1]
    BY <2>2, <2>3, SubSeqProperties
  <2>5. PICK w : w = wire' /\ w = SubSeq(wire, 1, m)
    BY <2>1
  <2>6. w \in Seq(Bytes) /\ Len(w) = m /\ m \in Nat /\ m <= Len(wire)
    BY <2>2, <2>4, <2>5
  <2>7. ASSUME NEW i \in 1 .. m PROVE w[i] = wire[i] /\ i \in 1 .. Len(wire)
    <3>1. i \in 1 .. m - 1 + 1 /\ 1 + i - 1 = i
      OBVIOUS
    <3>2. i \in 1 .. Len(wire)
      BY <2>2
    <3> QED
      BY <2>4, <2>5, <3>1, <3>2
  <2> QED
    BY <2>2, <2>5, <2>6, <2>7
<1>4. TypeOK'
  BY <1>1, <1>2, <1>3 DEF TypeOK
<1>5. Locals'
  BY <1>1 DEF Locals, OnWire, WWidth, RWidth
<1>6. Connected'
  BY <1>1, <1>2 DEF Connected
<1>7. \A c : OnWire(c)' = OnWire(c)
  BY <1>1 DEF OnWire
<1>8. Genuine'
  <2>1. SUFFICES ASSUME NEW i \in 1 .. m
                 PROVE  /\ wire'[i].call <= Len(sent)
                        /\ wire'[i].place < Widths[wire'[i].call]
                        /\ wire'[i].data = OnWire(wire'[i].call)[wire'[i].place]
    BY <1>1, <1>3, <1>7 DEF Genuine, OnWire
  <2>2. wire'[i] = wire[i] /\ i \in 1 .. l
    BY <1>3
  <2> QED
    BY <1>3, <2>2 DEF Genuine
<1>9. InOrder'
  <2>1. PICK f, g : f = wire /\ g = wire'
    OBVIOUS
  <2>2. Ordered(f, l) /\ \A i \in 1 .. m : g[i] = f[i] /\ i \in 1 .. l
    BY <1>3, <2>1 DEF InOrder
  <2>3. Ordered(g, m)
    BY <2>2 DEF Ordered
  <2> QED
    BY <1>3, <2>1, <2>3 DEF InOrder
<1>10. ~Writing' /\ Reading' = Reading /\ RCall' = RCall /\ RPlace' = RPlace
  BY <1>1, <1>2 DEF Writing, Reading, RCall, RPlace
<1>11. WriterFollows'
  BY <1>10 DEF WriterFollows
<1>12. ReaderPrecedes'
  <2>1. SUFFICES ASSUME Reading, wire' # <<>>
                 PROVE  wire'[1].call = RCall /\ wire'[1].place = RPlace
    BY <1>10 DEF ReaderPrecedes
  <2>2. m > 0
    BY <1>3, <2>1, EmptySeq
  <2>3. wire'[1] = wire[1] /\ l > 0
    BY <1>3, <2>2
  <2>4. wire # <<>>
    BY <1>3, <2>3
  <2> QED
    BY <2>1, <2>3, <2>4 DEF ReaderPrecedes
<1>13. HalfRead'
  BY <1>1, <1>7, <1>10 DEF HalfRead, RCall, OnWire
<1>14. ReceivedIsSent'
  BY <1>1, <1>2 DEF ReceivedIsSent
<1> QED
  BY <1>4, <1>5, <1>6, <1>8, <1>9, <1>11, <1>12, <1>13, <1>14

LEMMA InitIsInvariant == Init => IInv
<1> SUFFICES ASSUME Init PROVE IInv
  OBVIOUS
<1>1. /\ Len(sent) = 0 /\ Len(received) = 0 /\ Len(wire) = 0 /\ wire = <<>>
      /\ wpc = "ready" /\ rpc = "ready" /\ link["reader"] = "up" /\ link["writer"] = "up"
  BY EmptySeq DEF Init, End
<1>2. TypeOK
  <2>1. 0 \in 0 .. SizeMod - 1
    <3>1. 1 \in Calls
      BY WidthsArePositive DEF Calls
    <3>2. Widths[1] \in Nat /\ Widths[1] < SizeMod
      BY <3>1, WidthsArePositive
    <3> QED
      BY <3>2, WidthsAssumption
  <2> QED
    BY <2>1, EmptySeq DEF Init, TypeOK
<1>3. Locals
  BY <1>1, WidthsArePositive DEF Locals
<1>4. Connected /\ Genuine /\ InOrder /\ WriterFollows
  BY <1>1 DEF Connected, Genuine, InOrder, Ordered, WriterFollows, Before, Ended
<1>5. ReaderPrecedes /\ HalfRead /\ ReceivedIsSent
  BY <1>1 DEF ReaderPrecedes, HalfRead, ReceivedIsSent, WCall, RCall, WPlace, RPlace
<1> QED
  BY <1>2, <1>3, <1>4, <1>5 DEF IInv

LEMMA StepKeeps == ASSUME IInv, [Next]_vars PROVE IInv'
<1>1. CASE WriterNext
  <2>1. CASE WriteKilled
    <3>1. wpc \notin Ended /\ wpc' = "killed"
      BY <2>1 DEF WriteKilled, Ended
    <3> QED
      BY <2>1, <3>1, WriterStopKeeps DEF WriteKilled
  <2>2. CASE FinishWriting
    <3>1. wpc \notin Ended /\ wpc' = "done" /\ wpc = "close"
      BY <2>2 DEF FinishWriting, Ended
    <3> QED
      BY <2>2, <3>1, WriterStopKeeps DEF FinishWriting
  <2> QED
    BY <1>1, <2>1, <2>2, CallWriteKeeps, WriteSomeKeeps, WriteFailsKeeps DEF WriterNext
<1>2. CASE ReaderNext
  <2>1. CASE ReadThrows
    <3>1. rpc \notin Ended /\ rpc' \in Ended
      BY <2>1 DEF ReadThrows, Ended
    <3> QED
      BY <2>1, <3>1, ReaderStopKeeps DEF ReadThrows
  <2>2. CASE FinishReading
    <3>1. rpc \notin Ended /\ rpc' \in Ended
      BY <2>2 DEF FinishReading, Ended
    <3> QED
      BY <2>2, <3>1, ReaderStopKeeps DEF FinishReading
  <2> QED
    BY <1>2, <2>1, <2>2, CallReadKeeps, ReadSomeKeeps, ReadFailsKeeps DEF ReaderNext
<1>3. CASE Sever
  BY <1>3, SeverKeeps
<1>4. CASE KillWriter
  BY <1>4, WriterStopKeeps DEF KillWriter
<1>5. CASE KillReader
  <2>1. rpc \notin Ended /\ rpc' \in Ended
    BY <1>5 DEF KillReader, Ended
  <2> QED
    BY <1>5, <2>1, ReaderStopKeeps DEF KillReader
<1>6. CASE Terminated \/ UNCHANGED vars
  <2>1. UNCHANGED <<host, wpc, value, written, sent, rpc, result, total, received, wire, link>>
    BY <1>6 DEF Terminated, vars, writer, reader
  <2>2. /\ TypeOK' = TypeOK /\ Locals' = Locals /\ Connected' = Connected
        /\ Genuine' = Genuine /\ InOrder' = InOrder
    BY <2>1 DEF TypeOK, Locals, Connected, Genuine, InOrder, WWidth, RWidth, OnWire
  <2>3. /\ Writing' = Writing /\ WCall' = WCall /\ WPlace' = WPlace
        /\ Reading' = Reading /\ RCall' = RCall /\ RPlace' = RPlace
    BY <2>1 DEF Writing, WCall, WPlace, Reading, RCall, RPlace
  <2>4. WriterFollows' = WriterFollows /\ ReaderPrecedes' = ReaderPrecedes
    BY <2>1, <2>3 DEF WriterFollows, ReaderPrecedes
  <2>5. HalfRead' = HalfRead /\ ReceivedIsSent' = ReceivedIsSent
    BY <2>1, <2>3 DEF HalfRead, ReceivedIsSent, OnWire
  <2> QED
    BY <2>2, <2>4, <2>5 DEF IInv
<1> QED
  BY <1>1, <1>2, <1>3, <1>4, <1>5, <1>6 DEF Next

\* The bytes in flight are those of the numbers sent, in order and without a
\* gap, from where the reader is to where the writer is.
THEOREM Invariance == Spec => []IInv
<1> QED
  BY InitIsInvariant, StepKeeps, PTL DEF Spec

\* The variables keep their types; the counters of both loops never leave
\* the range of std::size_t.
THEOREM TypeCorrect == Spec => []TypeOK
<1>1. IInv => TypeOK
  BY DEF IInv
<1> QED
  BY <1>1, Invariance, PTL

\* read_num returns what write_num was called with, for numbers of any width
\* and hosts of either byte order, up to a failed read.
THEOREM NumbersArrive == Spec => []ReceivedIsSent
<1>1. IInv => ReceivedIsSent
  BY DEF IInv
<1> QED
  BY <1>1, Invariance, PTL

\* write_num returns on a standing connection only after its last byte.
THEOREM NumbersAreWhole == Spec => []WholeNumbers
<1>1. IInv => WholeNumbers
  <2>1. SUFFICES ASSUME IInv, wpc = "ready", link["writer"] = "up", wire # <<>>
                 PROVE  /\ wire[Len(wire)].call = Len(sent)
                        /\ wire[Len(wire)].place = Widths[wire[Len(wire)].call] - 1
    BY DEF WholeNumbers
  <2>2. PICK l \in Nat, s \in Nat : l = Len(wire) /\ s = Len(sent) /\ l \in 1 .. l
    <3>1. Len(wire) \in Nat /\ Len(sent) \in Nat
      BY <2>1, Naturals DEF IInv
    <3>2. Len(wire) > 0
      BY <2>1, <3>1, EmptySeq DEF IInv, TypeOK
    <3> QED
      BY <3>1, <3>2
  <2>3. wire[l] \in Bytes /\ wire[l].place < Widths[wire[l].call]
    BY <2>1, <2>2, Naturals DEF IInv, Genuine
  <2>4. PICK c \in Calls, p \in Nat : c = wire[l].call /\ p = wire[l].place /\ p < Widths[c]
    BY <2>3 DEF Bytes
  <2>5. Writing /\ WCall = s + 1 /\ WPlace = 0
    BY <2>1, <2>2 DEF Writing, WCall, WPlace
  <2>6. Follows(c, p, s + 1, 0, 1)
    <3>1. l + 1 - l = 1
      OBVIOUS
    <3> QED
      BY <2>1, <2>2, <2>4, <2>5, <3>1 DEF IInv, WriterFollows, Before
  <2>7. c \in Nat /\ Widths[c] \in Nat
    BY WidthsArePositive DEF Calls
  <2>8. 1 = Widths[c] - p
    BY <2>4, <2>6, <2>7 DEF Follows
  <2>9. c + 1 = s + 1
    BY <2>6, <2>8 DEF Follows
  <2> QED
    BY <2>2, <2>4, <2>7, <2>8, <2>9
<1> QED
  BY <1>1, Invariance, PTL

-----------------------------------------------------------------------------
(* The refinement: a number counts as received when its last byte is read.  *)

LEMMA ReadSomeReceives ==
  ASSUME IInv, ReadSome
  PROVE  Stream!Receive \/ UNCHANGED Stream!vars
<1>1. rpc = "read" /\ UNCHANGED <<sent, link>>
  BY DEF ReadSome, GotBytes, writer
<1>2. UNCHANGED received \/ \E v : received' = Append(received, v)
  BY DEF ReadSome, GotBytes
<1>3. CASE UNCHANGED received
  BY <1>1, <1>3 DEF Stream!vars
<1>4. CASE \E v : received' = Append(received, v)
  <2>0. PICK m \in Nat : m = Len(received)
    BY Naturals DEF IInv
  <2>1. PICK v : received' = Append(received, v)
    BY <1>4
  <2>2. received \in Seq(AnyNumber)
    BY DEF IInv, TypeOK
  <2>3. Len(received') = m + 1 /\ received'[m + 1] = v
    BY <2>0, <2>1, <2>2
  <2>4. link["reader"] # "dead"
    <3>1. wire # <<>>
      <4>1. Len(wire) > 0
        BY <1>1, Naturals DEF ReadSome, IInv, Locals, TypeOK
      <4> QED
        BY <4>1, EmptySeq
    <3> QED
      BY <3>1 DEF IInv, Connected
  <2>5. m + 1 <= Len(sent) /\ v = sent[m + 1]
    <3>1. ReceivedIsSent'
      BY ReadSomeKeeps DEF IInv
    <3>2. m + 1 \in 1 .. Len(received')
      BY <2>3
    <3>3. m + 1 <= Len(sent') /\ received'[m + 1] = sent'[m + 1]
      BY <1>1, <2>4, <3>1, <3>2 DEF ReceivedIsSent
    <3> QED
      BY <1>1, <2>3, <3>3
  <2>6. m < Len(sent)
    BY <2>0, <2>5, Naturals DEF IInv
  <2> QED
    BY <1>1, <2>0, <2>1, <2>4, <2>5, <2>6 DEF Stream!Receive
<1> QED
  BY <1>2, <1>3, <1>4

LEMMA ReadFailsLoses == ASSUME IInv, ReadFails PROVE Stream!Lose
<1>1. /\ rpc = "read" /\ UNCHANGED <<sent, host, result>> /\ GotBytes(Minus1)
      /\ link["reader"] # "dead" /\ link'["reader"] = "dead"
  BY DEF ReadFails, GotBytes, writer, IInv, TypeOK, End
<1>2. PICK m \in Nat, width \in Nat :
        /\ m = Len(received) /\ m < Len(Widths) /\ width = RWidth /\ width = Widths[m + 1]
  BY <1>1, Naturals DEF IInv, Locals, RWidth
<1>3. \/ UNCHANGED received
      \/ received' = Append(received,
           swap_for_endianness(host["reader"], width, Memory(host["reader"], width, result)))
  BY <1>1, <1>2 DEF GotBytes
<1>4. swap_for_endianness(host["reader"], width, Memory(host["reader"], width, result))
        \in [0 .. width - 1 -> Byte]
  <2>1. PICK v : v = swap_for_endianness(host["reader"], width,
                                         Memory(host["reader"], width, result))
    OBVIOUS
  <2>2. host["reader"] \in Orders /\ result \in Numbers(width)
    BY <1>1, <1>2 DEF IInv, TypeOK, End, Locals
  <2>3. Memory(host["reader"], width, result) \in Numbers(width)
    BY <2>2, HostOrderHidden
  <2>4. v \in Numbers(width)
    BY <2>1, <2>2, <2>3, HostOrderHidden
  <2> QED
    BY <2>1, <2>4 DEF Numbers
<1> QED
  BY <1>1, <1>2, <1>3, <1>4 DEF Stream!Lose, Stream!Numbers

LEMMA StepRefines ==
  ASSUME IInv, [Next]_vars
  PROVE  [Stream!Next]_(Stream!vars)
<1>1. CASE CallWrite
  BY <1>1 DEF CallWrite, reader, Numbers, Stream!Send, Stream!Numbers, Stream!Next
<1>2. CASE ReadSome
  BY <1>2, ReadSomeReceives DEF Stream!Next
<1>3. CASE ReadFails
  BY <1>3, ReadFailsLoses DEF Stream!Next
<1>4. ASSUME UNCHANGED <<sent, received>>, link'["reader"] # "dead" <=> link["reader"] # "dead"
      PROVE  UNCHANGED Stream!vars
  BY <1>4 DEF Stream!vars
<1>5. CASE WriteSome \/ WriteFails
  BY <1>4, <1>5 DEF WriteSome, WriteFails, Wrote, reader, IInv, TypeOK, End
<1>6. CASE WriteKilled \/ FinishWriting \/ KillWriter
  BY <1>4, <1>6 DEF WriteKilled, FinishWriting, KillWriter, CloseWriter, reader, IInv, TypeOK, End
<1>7. CASE CallRead
  BY <1>4, <1>7 DEF CallRead, writer
<1>8. CASE ReadThrows \/ FinishReading \/ KillReader
  <2>1. UNCHANGED <<sent, received>> /\ CloseReader
    BY <1>8 DEF ReadThrows, FinishReading, KillReader, writer
  <2>2. \/ link' = link \/ link' = [link EXCEPT !["writer"] = "fin"]
        \/ link' = [link EXCEPT !["writer"] = "reset"]
    BY <2>1 DEF CloseReader
  <2>3. link'["reader"] = link["reader"]
    BY <2>2 DEF IInv, TypeOK, End
  <2> QED
    BY <1>4, <2>1, <2>3
<1>9. CASE Sever
  BY <1>4, <1>9 DEF Sever, writer, reader, End
<1>10. CASE Terminated \/ UNCHANGED vars
  BY <1>4, <1>10 DEF Terminated, vars, writer, reader
<1> QED
  BY <1>1, <1>2, <1>3, <1>5, <1>6, <1>7, <1>8, <1>9, <1>10 DEF Next, WriterNext, ReaderNext

\* One direction of a connection is a stream of numbers, whatever becomes of
\* the two processes and of the connection.
THEOREM Refinement == Spec => ImplementsStream
<1>1. Init => Stream!Init
  BY DEF Init, Stream!Init, End
<1> QED
  BY <1>1, StepRefines, Invariance, PTL DEF Spec, ImplementsStream, Stream!Spec

=============================================================================
