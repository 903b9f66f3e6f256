--------------------------- MODULE PaddingOracle ---------------------------
(***************************************************************************)
(* One connection of the padding oracle: PaddingOracle::Attack recovering  *)
(* one block (src/padding_oracle/attack.cpp) against the process           *)
(* PaddingOracle::XORCBCServer::handle_client runs in                      *)
(* (src/padding_oracle/server.cpp).  The two are concurrent; what one has  *)
(* written and the other has not read yet is kept in wire.  One action is  *)
(* one call of read_num, write_num, read_raw or write_raw, whose loops and *)
(* whose blindness to -1 module Communicator models byte by byte.          *)
(***************************************************************************)
EXTENDS Integers, Sequences

CONSTANTS
  BlockSize,   \* PaddingOracle::BLOCK_SIZE, 16 in the code
  Radix,       \* number of values of a std::uint8_t, 256 in the code
  Xor(_, _),   \* exclusive-or of two bytes
  QueryCap,    \* messages the kernel holds from the client to the server
  ReplyCap,    \* messages the kernel holds from the server to the client
  Ciphertexts, \* blocks the attack is asked to decrypt
  Keys,        \* keys the server is started with
  Previous,    \* previous blocks or IVs
  Faults       \* which of "sever", "kill_client", "kill_server" may happen

Byte  == 0 .. Radix - 1
Index == 0 .. BlockSize - 1
Last  == BlockSize - 1
Block == [Index -> Byte]
Zeros == [j \in Index |-> 0]

ASSUME SizesAssumption ==
  /\ BlockSize \in Nat /\ Radix \in Nat
  /\ 2 <= BlockSize /\ BlockSize < Radix

ASSUME CapsAssumption ==
  /\ QueryCap \in Nat \ {0}
  /\ ReplyCap \in Nat /\ Radix <= ReplyCap

ASSUME InputsAssumption ==
  Ciphertexts \subseteq Block /\ Keys \subseteq Block /\ Previous \subseteq Block

ASSUME XorAssumption ==
  /\ \A a, b \in Byte : Xor(a, b) \in Byte /\ Xor(a, b) = Xor(b, a)
  /\ \A a, b, c \in Byte : Xor(Xor(a, b), c) = Xor(a, Xor(b, c))
  /\ \A a \in Byte : Xor(a, a) = 0 /\ Xor(a, 0) = a

VARIABLES
  ciphertext,     \* argument block of recover_raw_block
  prev,           \* argument prev of recover_block
  m_key,          \* of the server
  cpc,            \* where the client is
  index,          \* the byte recover_byte works on
  candidate,      \* the candidate being sent or examined
  responses,      \* read so far in this round
  raw_recovered,  \* of recover_raw_block
  result,         \* what recover_block returned
  spc,            \* where handle_client is
  s_ciphertext,   \* its local ciphertext
  count,          \* its local count
  served,         \* its loop variable i
  q,              \* its local q
  wire,           \* wire[e]: written by end e, not yet read by its peer
  link            \* link[e]: what end e has learnt of the connection

client == <<cpc, index, candidate, responses, raw_recovered, result>>
server == <<spc, s_ciphertext, count, served, q>>
inputs == <<ciphertext, prev, m_key>>
vars   == <<inputs, client, server, wire, link>>

End      == {"client", "server"}
Peer(e)  == IF e = "client" THEN "server" ELSE "client"
Cap(e)   == IF e = "client" THEN QueryCap ELSE ReplyCap

ClientEnded == {"done", "thrown", "not_found", "killed"}
ClientAt    == {"ciphertext", "count", "send", "recv", "scan",
                "vcount", "vsend", "vrecv", "end", "close"} \cup ClientEnded
ServerEnded == {"exit0", "exit1", "killed"}
ServerAt    == {"ciphertext", "count", "q", "reply"} \cup ServerEnded

QBlock(b) == [size |-> "block", bytes |-> b]
U16(n)    == [size |-> "u16", value |-> n]
U8(n)     == [size |-> "u8", value |-> n]
QBlocks   == {QBlock(b) : b \in Block}
Counts    == {U16(n) : n \in 0 .. Radix}
Verdicts  == {U8(v) : v \in {0, 1}}
Messages  == QBlocks \cup Counts \cup Verdicts
Prefixes(s) == {SubSeq(s, 1, n) : n \in 0 .. Len(s)}

-----------------------------------------------------------------------------
(* The connection.  link[e] is "up"; "fin" once the peer has closed and all *)
(* it wrote may still be read; "reset" while an error is pending; "dead"    *)
(* when the error was handed to the program, which took it for data.        *)

\* The bytes of m are taken by the kernel, or seem to be: after the peer has
\* closed they are lost, and a pending error is taken for success.  A block
\* is one write per byte, so the byte after an ignored error raises SIGPIPE.
Write(e, m) ==
  \/ /\ link[e] = "up"
     /\ Len(wire[e]) < Cap(e)
     /\ wire' = [wire EXCEPT ![e] = Append(@, m)]
     /\ UNCHANGED link
  \/ /\ link[e] = "fin"
     /\ link' \in {link, [link EXCEPT ![e] = "dead"]}
     /\ UNCHANGED wire
  \/ /\ link[e] = "reset"
     /\ m.size # "block"
     /\ link' = [link EXCEPT ![e] = "dead"]
     /\ UNCHANGED wire

WriteKills(e, m) ==
  \/ link[e] = "dead"
  \/ link[e] \in {"fin", "reset"} /\ m.size = "block"

\* A reader takes the next message as what it expects.  Nothing on the wire
\* tells a block from a count: that they are never confused is FramesAgree.
Read(e, m) ==
  /\ wire[Peer(e)] # <<>>
  /\ m = Head(wire[Peer(e)])
  /\ wire' = [wire EXCEPT ![Peer(e)] = Tail(@)]
  /\ UNCHANGED link

\* read returns -1: the loop of read_num ends and hands out what its
\* uninitialised local held.
ReadGarbage(e) ==
  /\ wire[Peer(e)] = <<>>
  /\ link[e] = "reset"
  /\ link' = [link EXCEPT ![e] = "dead"]
  /\ UNCHANGED wire

\* The end of the stream, or the bytes that follow an ignored error.
ReadThrows(e, size) ==
  /\ wire[Peer(e)] = <<>>
  /\ link[e] \in {"fin", "dead"} \/ (link[e] = "reset" /\ size # "u8")

\* The process of end e ends and its descriptor is closed.  Closing with
\* unread input resets the connection, and a reset may overtake data.
Close(e) ==
  LET p == Peer(e)
  IN IF link[p] = "up"
     THEN \/ /\ link' = [link EXCEPT ![p] = "fin"]
             /\ wire' = [wire EXCEPT ![p] = <<>>]
          \/ /\ wire[p] # <<>>
             /\ link' = [link EXCEPT ![p] = "reset"]
             /\ \E kept \in Prefixes(wire[e]) :
                  wire' = [wire EXCEPT ![p] = <<>>, ![e] = kept]
     ELSE /\ wire' = [wire EXCEPT ![p] = <<>>]
          /\ UNCHANGED link

-----------------------------------------------------------------------------
(* The server's functions.                                                  *)

Decrypt(b, c) == [j \in Index |-> Xor(Xor(b[j], c[j]), m_key[j])]

\* Mutant of ValidatePadding: a block that is nothing but padding is refused.
ValidatePaddingShort(b) ==
  LET n == b[Last]
  IN IF n = 0 \/ n >= BlockSize \/ \E j \in Index : j < n /\ b[Last - j] # n
     THEN {0} ELSE {1}

\* The values validate_padding may return.  A padding count above the size of
\* a block makes the loop compare bytes in front of the array: what they hold
\* is undefined, and matters only when every byte of the block agrees.
ValidatePadding(b) ==
  LET n      == b[Last]
      agrees == \A j \in Index : j < n => b[Last - j] = n
  IN IF n = 0 \/ ~agrees THEN {0}
     ELSE IF n <= BlockSize THEN {1} ELSE {0, 1}

-----------------------------------------------------------------------------
\* recover_raw_block is called and connects; the server forks a process.
Connecting ==
  /\ cpc = "ciphertext" /\ spc = "ciphertext"
  /\ index = Last
  /\ candidate = 0
  /\ responses = <<>>
  /\ raw_recovered = Zeros
  /\ result = Zeros
  /\ s_ciphertext = Zeros
  /\ count = 0
  /\ served = 0
  /\ q = Zeros
  /\ wire = [e \in End |-> <<>>]
  /\ link = [e \in End |-> "up"]

Init ==
  /\ ciphertext \in Ciphertexts
  /\ prev \in Previous
  /\ m_key \in Keys
  /\ Connecting

-----------------------------------------------------------------------------
(* The client: recover_block, recover_raw_block and recover_byte.           *)

padding_byte == BlockSize - index

\* Mutant of Payload: the bytes recovered so far are not made into padding.
PayloadUnpadded(cand) ==
  [j \in Index |-> IF j > index THEN raw_recovered[j] ELSE IF j = index THEN cand ELSE 0]

\* Bytes after the index decrypt to the padding, the byte at it is tried.
Payload(cand) ==
  [j \in Index |-> IF j > index THEN Xor(padding_byte, raw_recovered[j])
                   ELSE IF j = index THEN cand ELSE 0]

Validator(cand) == [j \in Index |-> IF j = Last THEN cand ELSE Radix - 1]

WriteCiphertext ==
  /\ cpc = "ciphertext"
  /\ Write("client", QBlock(ciphertext))
  /\ cpc' = "count"
  /\ UNCHANGED <<inputs, server, index, candidate, responses, raw_recovered, result>>

WriteCount ==
  /\ cpc = "count"
  /\ Write("client", U16(Radix))
  /\ cpc' = "send"
  /\ candidate' = 0
  /\ responses' = <<>>
  /\ UNCHANGED <<inputs, server, index, raw_recovered, result>>

WriteCandidate ==
  /\ cpc = "send"
  /\ Write("client", QBlock(Payload(candidate)))
  /\ candidate' = candidate + 1
  /\ cpc' = IF candidate' = Radix THEN "recv" ELSE "send"
  /\ UNCHANGED <<inputs, server, index, responses, raw_recovered, result>>

Response(r) ==
  /\ responses' = Append(responses, r)
  /\ IF Len(responses') = Radix
     THEN cpc' = "scan" /\ candidate' = 0
     ELSE UNCHANGED <<cpc, candidate>>
  /\ UNCHANGED <<inputs, server, index, raw_recovered, result>>

ReadResponse ==
  /\ cpc = "recv"
  /\ \/ \E m \in Verdicts : Read("client", m) /\ Response(m.value)
     \/ ReadGarbage("client") /\ \E r \in {0, 1} : Response(r)

\* recover_byte returns; recover_raw_block goes on with the byte before.
Found ==
  /\ raw_recovered' = [raw_recovered EXCEPT ![index] = Xor(candidate, padding_byte)]
  /\ IF index = 0
     THEN cpc' = "end" /\ UNCHANGED index
     ELSE cpc' = "count" /\ index' = index - 1
  /\ UNCHANGED <<inputs, server, candidate, responses, result>>

Reject ==
  /\ candidate' = candidate + 1
  /\ cpc' = "scan"
  /\ UNCHANGED <<inputs, server, index, responses, raw_recovered, result>>

\* Mutant of Scan: the last byte is not validated with a second query.
ScanUnvalidated ==
  /\ cpc = "scan"
  /\ candidate < Radix
  /\ \/ responses[candidate + 1] # 1 /\ Reject
     \/ responses[candidate + 1] = 1 /\ Found
  /\ UNCHANGED <<wire, link>>

Scan ==
  /\ cpc = "scan"
  /\ candidate < Radix
  /\ \/ responses[candidate + 1] # 1 /\ Reject
     \/ responses[candidate + 1] = 1 /\ padding_byte # 1 /\ Found
     \/ /\ responses[candidate + 1] = 1 /\ padding_byte = 1
        /\ cpc' = "vcount"
        /\ UNCHANGED <<inputs, server, index, candidate, responses, raw_recovered, result>>
  /\ UNCHANGED <<wire, link>>

WriteValidatorCount ==
  /\ cpc = "vcount"
  /\ Write("client", U16(1))
  /\ cpc' = "vsend"
  /\ UNCHANGED <<inputs, server, index, candidate, responses, raw_recovered, result>>

WriteValidator ==
  /\ cpc = "vsend"
  /\ Write("client", QBlock(Validator(candidate)))
  /\ cpc' = "vrecv"
  /\ UNCHANGED <<inputs, server, index, candidate, responses, raw_recovered, result>>

Verdict(v) == (v # 0 /\ Found) \/ (v = 0 /\ Reject)

ReadVerdict ==
  /\ cpc = "vrecv"
  /\ \/ \E m \in Verdicts : Read("client", m) /\ Verdict(m.value)
     \/ ReadGarbage("client") /\ \E v \in {0, 1} : Verdict(v)

WriteEnd ==
  /\ cpc = "end"
  /\ Write("client", U16(0))
  /\ cpc' = "close"
  /\ UNCHANGED <<inputs, server, index, candidate, responses, raw_recovered, result>>

\* Mutant of Finish: the block is returned without its exclusive-or with prev.
FinishRaw ==
  /\ cpc = "close"
  /\ Close("client")
  /\ cpc' = "done"
  /\ result' = raw_recovered
  /\ UNCHANGED <<inputs, server, index, candidate, responses, raw_recovered>>

\* The Communicator is destroyed and recover_block applies CBC.
Finish ==
  /\ cpc = "close"
  /\ Close("client")
  /\ cpc' = "done"
  /\ result' = [j \in Index |-> Xor(raw_recovered[j], prev[j])]
  /\ UNCHANGED <<inputs, server, index, candidate, responses, raw_recovered>>

NextWrite ==
  CASE cpc = "ciphertext" -> QBlock(ciphertext)
    [] cpc = "count"      -> U16(Radix)
    [] cpc = "send"       -> QBlock(Payload(candidate))
    [] cpc = "vcount"     -> U16(1)
    [] cpc = "vsend"      -> QBlock(Validator(candidate))
    [] cpc = "end"        -> U16(0)

ClientStops(how) ==
  /\ cpc' = how
  /\ Close("client")
  /\ UNCHANGED <<inputs, server, index, candidate, responses, raw_recovered, result>>

ClientSigpipe ==
  /\ cpc \in {"ciphertext", "count", "send", "vcount", "vsend", "end"}
  /\ WriteKills("client", NextWrite)
  /\ ClientStops("killed")

ClientThrows ==
  /\ cpc \in {"recv", "vrecv"}
  /\ ReadThrows("client", "u8")
  /\ ClientStops("thrown")

NoneFound ==
  /\ cpc = "scan"
  /\ candidate = Radix
  /\ ClientStops("not_found")

ClientNext ==
  \/ WriteCiphertext \/ WriteCount \/ WriteCandidate \/ ReadResponse \/ Scan
  \/ WriteValidatorCount \/ WriteValidator \/ ReadVerdict \/ WriteEnd \/ Finish
  \/ ClientSigpipe \/ ClientThrows \/ NoneFound

-----------------------------------------------------------------------------
(* The server: handle_client in the forked process.                         *)

ReadCiphertext ==
  /\ spc = "ciphertext"
  /\ \/ \E m \in QBlocks : Read("server", m) /\ s_ciphertext' = m.bytes
     \/ ReadGarbage("server") /\ s_ciphertext' \in Block
  /\ spc' = "count"
  /\ UNCHANGED <<inputs, client, count, served, q>>

\* A count of 0 ends handle_client and, by _exit, the process.
ServerStops(how) ==
  /\ spc' = how
  /\ UNCHANGED <<inputs, client, s_ciphertext, count, served, q>>

StartRound(n) ==
  /\ n # 0
  /\ count' = n
  /\ served' = 0
  /\ spc' = "q"
  /\ UNCHANGED <<inputs, client, s_ciphertext, q>>

ReadCount ==
  /\ spc = "count"
  /\ \/ \E m \in Counts : Read("server", m) /\ StartRound(m.value)
     \/ ReadGarbage("server") /\ \E n \in {1, Radix} : StartRound(n)

ReadZero ==
  /\ spc = "count"
  /\ \/ wire["client"] # <<>> /\ Head(wire["client"]) = U16(0)
     \/ wire["client"] = <<>> /\ link["server"] = "reset"
  /\ Close("server")
  /\ ServerStops("exit0")

ReadQ ==
  /\ spc = "q"
  /\ \/ \E m \in QBlocks : Read("server", m) /\ q' = m.bytes
     \/ ReadGarbage("server") /\ q' \in Block
  /\ spc' = "reply"
  /\ UNCHANGED <<inputs, client, s_ciphertext, count, served>>

\* Mutant of Reply: one more block is expected after the last.
ReplyPastCount ==
  /\ spc = "reply"
  /\ \E valid \in ValidatePadding(Decrypt(q, s_ciphertext)) : Write("server", U8(valid))
  /\ served' = served + 1
  /\ spc' = IF served' <= count THEN "q" ELSE "count"
  /\ UNCHANGED <<inputs, client, s_ciphertext, count, q>>

\* Mutant of Reply: the verdict is written as two bytes.
ReplyWide ==
  /\ spc = "reply"
  /\ link["server"] = "up" => Len(wire["server"]) + 2 <= Cap("server")
  /\ link["server"] # "up" => Write("server", U8(0))
  /\ link["server"] = "up" =>
       /\ \E valid \in ValidatePadding(Decrypt(q, s_ciphertext)) :
            wire' = [wire EXCEPT !["server"] = @ \o <<U8(valid), U8(0)>>]
       /\ UNCHANGED link
  /\ served' = served + 1
  /\ spc' = IF served' < count THEN "q" ELSE "count"
  /\ UNCHANGED <<inputs, client, s_ciphertext, count, q>>

Reply ==
  /\ spc = "reply"
  /\ \E valid \in ValidatePadding(Decrypt(q, s_ciphertext)) : Write("server", U8(valid))
  /\ served' = served + 1
  /\ spc' = IF served' < count THEN "q" ELSE "count"
  /\ UNCHANGED <<inputs, client, s_ciphertext, count, q>>

ServerSigpipe ==
  /\ spc = "reply"
  /\ WriteKills("server", U8(0))
  /\ Close("server")
  /\ ServerStops("killed")

\* Mutant of ServerThrows: the end of the stream is taken for "not yet".
ServerRetries ==
  /\ spc \in {"ciphertext", "q", "count"}
  /\ ReadThrows("server", "block")
  /\ UNCHANGED vars

\* The exception leaves handle_client and reaches main, which returns 1.
ServerThrows ==
  /\ \/ spc \in {"ciphertext", "q"} /\ ReadThrows("server", "block")
     \/ spc = "count" /\ ReadThrows("server", "u16")
  /\ Close("server")
  /\ ServerStops("exit1")

ServerNext ==
  \/ ReadCiphertext \/ ReadCount \/ ReadZero \/ ReadQ \/ Reply
  \/ ServerSigpipe \/ ServerThrows

-----------------------------------------------------------------------------
(* The environment.                                                         *)

\* The connection breaks: both ends get an error, data in flight is lost.
Sever ==
  /\ "sever" \in Faults
  /\ \A e \in End : link[e] = "up"
  /\ link' = [e \in End |-> "reset"]
  /\ \E c \in Prefixes(wire["client"]), s \in Prefixes(wire["server"]) :
       wire' = [e \in End |-> IF e = "client" THEN c ELSE s]
  /\ UNCHANGED <<inputs, client, server>>

KillClient ==
  /\ "kill_client" \in Faults
  /\ cpc \notin ClientEnded
  /\ ClientStops("killed")

KillServer ==
  /\ "kill_server" \in Faults
  /\ spc \notin ServerEnded
  /\ Close("server")
  /\ ServerStops("killed")

\* Both processes have ended.
Terminated ==
  /\ cpc \in ClientEnded
  /\ spc \in ServerEnded
  /\ UNCHANGED vars

Next == ClientNext \/ ServerNext \/ Sever \/ KillClient \/ KillServer \/ Terminated

Spec == Init /\ [][Next]_vars

\* Each process is scheduled as long as it is not blocked in a system call.
FairSpec == Spec /\ WF_vars(ClientNext) /\ WF_vars(ServerNext)

-----------------------------------------------------------------------------
(* Properties.                                                              *)

Secret == [j \in Index |-> Xor(ciphertext[j], m_key[j])]

\* Every variable stays within its type; in particular the wire only ever
\* carries blocks, counts and replies, and no reply beyond 0 and 1.
TypeOK ==
  /\ ciphertext \in Block /\ prev \in Block /\ m_key \in Block
  /\ cpc \in ClientAt
  /\ index \in Index
  /\ candidate \in 0 .. Radix
  /\ responses \in Seq({0, 1})
  /\ raw_recovered \in Block
  /\ result \in Block
  /\ spc \in ServerAt
  /\ s_ciphertext \in Block
  /\ count \in 0 .. Radix
  /\ served \in 0 .. Radix
  /\ q \in Block
  /\ wire \in [End -> Seq(Messages)]
  /\ link \in [End -> {"up", "fin", "reset", "dead"}]

\* A block recover_block returns is the decryption of the ciphertext under
\* the server's key, whatever the connection did meanwhile and whatever
\* validate_padding read in front of a block (attack.cpp recover_block).
RecoveredIsRight ==
  cpc = "done" => result = [j \in Index |-> Xor(Secret[j], prev[j])]

\* recover_byte gives up without a candidate only when an ignored read error
\* put an uninitialised byte among the answers (attack.cpp, its last throw).
NotFoundOnlyOnLoss ==
  cpc = "not_found" => link["client"] = "dead"

\* Neither process takes one kind of message for another: what is first on
\* the wire is what its reader is about to read, and a reader that expects
\* a count never finds a block although nothing on the wire tells them apart.
FramesAgree ==
  /\ wire["client"] # <<>> /\ spc \notin ServerEnded \cup {"reply"} =>
       Head(wire["client"]).size = IF spc = "count" THEN "u16" ELSE "block"
  /\ wire["server"] # <<>> =>
       cpc \in {"send", "recv", "vsend", "vrecv"} \cup ClientEnded

\* The client sends Radix blocks before it reads one answer, so answers pile
\* up; the server still never has to wait for room, hence the two never wait
\* for each other (attack.cpp recover_byte, server.cpp handle_client).
NeverWaitsForRoom ==
  spc = "reply" /\ link["server"] = "up" => Len(wire["server"]) < ReplyCap

\* Whatever happens to the connection or to either process, both end.
BothEnd == <>(cpc \in ClientEnded /\ spc \in ServerEnded)

Lost == link["client"] = "dead" /\ cpc \notin {"close", "done"}

Aborted == Lost \/ cpc \in ClientEnded \ {"done"}

Left == IF Aborted THEN BlockSize
        ELSE IF cpc \in {"end", "close", "done"} THEN 0 ELSE index + 1

Status == IF Aborted THEN "aborted"
          ELSE IF cpc = "done" THEN "returned" ELSE "running"

Raw == IF Aborted THEN Zeros ELSE raw_recovered

Recovery == INSTANCE BlockRecovery WITH
  secret <- Secret, left <- Left, raw <- Raw, status <- Status, plain <- result

\* A connection implements recover_block's contract: bytes become known from
\* the last to the first, each with the right value, and a block is returned
\* only when all are; a lost connection discards what was recovered.
ImplementsRecovery == Recovery!Spec

\* server.hpp:53-55 says of validate_padding that it returns true if the
\* padding is valid and false otherwise: padding longer than a block is not.
PaddingVerdictIsSound ==
  spc = "reply" =>
    LET b == Decrypt(q, s_ciphertext)
    IN b[Last] > BlockSize => ValidatePadding(b) = {0}

=============================================================================
