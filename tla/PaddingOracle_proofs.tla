------------------------ MODULE PaddingOracle_proofs ------------------------
(***************************************************************************)
(* The inductive invariant of PaddingOracle, and the proofs that rest on   *)
(* it.  Its idea: while both ends are connected, what is on the wire is a  *)
(* window of a script that the client's state determines, and the server's *)
(* state says where the window begins; and whatever happens to the         *)
(* connection, an answer the client holds answers the query it stands for. *)
(* At the end, what follows for the text of many connections (Plaintext).  *)
(***************************************************************************)
EXTENDS Plaintext, SequenceTheorems, TLAPS

Connected ==
  /\ link["client"] = "up" /\ link["server"] = "up"
  /\ cpc \notin ClientEnded /\ spc \notin ServerEnded

\* An end that is up has a peer that runs and is up too.
UpIsConnected ==
  \/ link["client"] = "up" /\ cpc \notin ClientEnded
  \/ link["server"] = "up" /\ spc \notin ServerEnded
  => Connected

-----------------------------------------------------------------------------
(* The round the client is in.                                              *)

Validating == cpc \in {"vsend", "vrecv"}
InRound    == cpc \in {"send", "recv", "vsend", "vrecv"}

RoundSize == IF cpc = "close" THEN 0 ELSE IF Validating THEN 1 ELSE Radix
Query(k)  == IF Validating THEN Validator(candidate) ELSE Payload(k)
Received  == IF cpc = "recv" THEN Len(responses) ELSE 0
Answered  == Received + Len(wire["server"])

\* Position 0 of the script is the count, position k + 1 query k; the
\* ciphertext comes before the first round, at position -1.
Script(p) ==
  IF p = -1 THEN QBlock(ciphertext)
  ELSE IF p = 0 THEN U16(RoundSize) ELSE QBlock(Query(p - 1))

\* The position the client writes at next.
Written ==
  IF cpc = "ciphertext" THEN -1
  ELSE IF cpc = "send" THEN candidate + 1
  ELSE IF cpc = "recv" THEN Radix + 1
  ELSE IF cpc \in {"vsend", "close"} THEN 1
  ELSE IF cpc = "vrecv" THEN 2 ELSE 0

\* The position the server reads at next.
NextRead ==
  IF spc = "ciphertext" THEN -1
  ELSE IF spc = "q" THEN served + 1
  ELSE IF spc = "reply" THEN served + 2
  ELSE IF Answered = 0 THEN 0 ELSE RoundSize + 1

\* Answers come only in rounds and never more than the queries.
Bounded ==
  /\ spc \in {"q", "reply"} => served < count
  /\ cpc \notin ClientEnded =>
    /\ Answered <= RoundSize
    /\ ~InRound => wire["server"] = <<>>
    /\ cpc = "send" => responses = <<>> /\ candidate < Radix
    /\ cpc = "recv" => Len(responses) < Radix
    /\ cpc \in {"scan", "vcount", "vsend", "vrecv"} => Len(responses) = Radix
    /\ cpc \in {"vcount", "vsend", "vrecv"} => index = Last /\ candidate < Radix

Window ==
  /\ Len(wire["client"]) = Written - NextRead
  /\ \A k \in 1 .. Len(wire["client"]) : wire["client"][k] = Script(NextRead + k - 1)

ServerLocals ==
  /\ spc = "ciphertext" => Answered = 0 /\ cpc \in {"ciphertext", "count", "send", "recv"}
  /\ spc # "ciphertext" => s_ciphertext = ciphertext
  /\ spc = "count" => Answered \in {0, RoundSize}
  /\ spc \in {"q", "reply"} => InRound /\ count = RoundSize /\ served = Answered
  /\ spc = "reply" => q = Query(served)

InStep == Connected => Window /\ ServerLocals

-----------------------------------------------------------------------------
(* What the client knows.                                                   *)

Answers(b) == ValidatePadding(Decrypt(b, ciphertext))

\* The candidate recover_byte looks for.
RightCandidate == Xor(Secret[index], padding_byte)

Known(j) == raw_recovered[j] = Secret[j]

Genuine ==
  cpc \notin ClientEnded /\ ~Lost =>
    /\ \A j \in Index : j > index \/ cpc \in {"end", "close"} => Known(j)
    /\ \A k \in 1 .. Len(wire["server"]) :
         \E v \in Answers(Query(Received + k - 1)) : wire["server"][k] = U8(v)
    /\ cpc \in {"recv", "scan", "vcount", "vsend", "vrecv"} =>
         \A k \in 1 .. Len(responses) : responses[k] \in Answers(Payload(k - 1))
    /\ cpc \in {"scan", "vcount", "vsend", "vrecv"} => candidate <= RightCandidate
    /\ cpc \in {"vcount", "vsend", "vrecv"} => responses[candidate + 1] = 1

\* The inductive invariant: what the two processes know of each other (the
\* wire agrees with both program counters) and the truth of every answer that
\* is on the wire or was kept, for as long as the client has lost none.
IInv ==
  /\ TypeOK
  /\ UpIsConnected
  /\ Bounded
  /\ InStep
  /\ Genuine
  /\ RecoveredIsRight
  /\ NotFoundOnlyOnLoss

-----------------------------------------------------------------------------
(* Bytes and blocks.                                                        *)

LEMMA Sizes ==
  /\ Last \in Index /\ Last - 1 \in Index /\ 0 \in Index
  /\ 0 \in Byte /\ 1 \in Byte /\ Radix - 1 \in Byte /\ Radix - 1 # 0
  /\ \A j \in Index : BlockSize - j \in Byte /\ BlockSize - j # 0
BY SizesAssumption DEF Last, Index, Byte

LEMMA XorCancels ==
  ASSUME NEW a \in Byte, NEW b \in Byte
  PROVE  /\ Xor(a, b) \in Byte
         /\ Xor(a, b) = Xor(b, a)
         /\ Xor(Xor(a, b), b) = a
<1>1. Xor(Xor(a, b), b) = Xor(a, Xor(b, b))
  BY XorAssumption
<1> QED
  BY <1>1, XorAssumption

\* No byte but 0 leaves a byte as it is.
LEMMA XorMoves ==
  ASSUME NEW a \in Byte, NEW b \in Byte, Xor(a, b) = b
  PROVE  a = 0
BY XorCancels, XorAssumption

\* decrypt works byte by byte on the exclusive-or of ciphertext and key.
LEMMA DecryptIsXor ==
  ASSUME TypeOK, NEW b \in Block
  PROVE  /\ Secret \in Block
         /\ Decrypt(b, ciphertext) = [j \in Index |-> Xor(b[j], Secret[j])]
<1>1. ciphertext \in Block /\ m_key \in Block
  BY DEF TypeOK
<1>2. ASSUME NEW j \in Index
      PROVE  /\ Secret[j] = Xor(ciphertext[j], m_key[j])
             /\ Secret[j] \in Byte
             /\ Xor(Xor(b[j], ciphertext[j]), m_key[j]) = Xor(b[j], Secret[j])
  <2>1. b[j] \in Byte /\ ciphertext[j] \in Byte /\ m_key[j] \in Byte
    BY <1>1 DEF Block
  <2>2. Secret[j] = Xor(ciphertext[j], m_key[j])
    BY DEF Secret
  <2> QED
    BY <2>1, <2>2, XorAssumption
<1>3. Secret \in Block
  BY <1>2 DEF Secret, Block
<1> QED
  BY <1>2, <1>3 DEF Decrypt

-----------------------------------------------------------------------------
(* The oracle's answers.                                                    *)

LEMMA QueriesAreBlocks ==
  ASSUME TypeOK, NEW c \in Byte
  PROVE  Payload(c) \in Block /\ Validator(c) \in Block
<1>1. padding_byte \in Byte /\ raw_recovered \in Block
  BY Sizes DEF padding_byte, TypeOK
<1>2. \A j \in Index : Xor(padding_byte, raw_recovered[j]) \in Byte
  BY <1>1, XorAssumption DEF Block
<1> QED
  BY <1>2, Sizes DEF Payload, Validator, Block

LEMMA AnswersAreBits ==
  ASSUME NEW b
  PROVE  /\ Answers(b) \subseteq {0, 1}
         /\ Answers(b) # {}
BY DEF Answers, ValidatePadding

\* The bytes a query decrypts to.
LEMMA PayloadDecrypts ==
  ASSUME TypeOK, NEW c \in Byte,
         \A j \in Index : j > index => Known(j)
  PROVE  LET d == Decrypt(Payload(c), ciphertext)
         IN \A j \in Index :
              /\ j > index => d[j] = padding_byte
              /\ j = index => d[j] = Xor(c, Secret[j])
              /\ j < index => d[j] = Secret[j]
<1>1. Payload(c) \in Block /\ Secret \in Block
  BY QueriesAreBlocks, DecryptIsXor
<1>2. padding_byte \in Byte /\ index \in Index
  BY Sizes DEF padding_byte, TypeOK
<1>3. SUFFICES ASSUME NEW j \in Index
      PROVE  LET x == Xor(Payload(c)[j], Secret[j])
             IN /\ j > index => x = padding_byte
                /\ j = index => x = Xor(c, Secret[j])
                /\ j < index => x = Secret[j]
  BY <1>1, DecryptIsXor
<1>4. Secret[j] \in Byte
  BY <1>1 DEF Block
<1>5. CASE j > index
  <2>1. Payload(c)[j] = Xor(padding_byte, Secret[j])
    BY <1>5 DEF Payload, Known
  <2> QED
    BY <1>2, <1>4, <1>5, <2>1, XorCancels DEF Index
<1>6. CASE j = index
  <2>1. Payload(c)[j] = c
    BY <1>2, <1>6 DEF Payload, Index
  <2> QED
    BY <1>2, <1>6, <2>1 DEF Index
<1>7. CASE j < index
  <2>1. Payload(c)[j] = 0
    BY <1>2, <1>7 DEF Payload, Index
  <2>2. Xor(0, Secret[j]) = Secret[j]
    BY <1>4, XorAssumption, Sizes
  <2> QED
    BY <1>2, <1>7, <2>1, <2>2 DEF Index
<1> QED
  BY <1>2, <1>5, <1>6, <1>7 DEF Index

LEMMA RightCandidateIs ==
  ASSUME TypeOK
  PROVE  /\ RightCandidate \in Byte
         /\ \A c \in Byte : Xor(c, Secret[index]) = padding_byte <=> c = RightCandidate
         /\ Xor(RightCandidate, padding_byte) = Secret[index]
<1>1. Zeros \in Block
  BY Sizes DEF Zeros, Block
<1>2. Secret \in Block
  BY <1>1, DecryptIsXor
<1>3. Secret[index] \in Byte /\ padding_byte \in Byte
  BY <1>2, Sizes DEF padding_byte, TypeOK, Block
<1> QED
  BY <1>3, XorCancels DEF RightCandidate

\* The right candidate is answered 1.
LEMMA RightAnswer ==
  ASSUME TypeOK, \A j \in Index : j > index => Known(j)
  PROVE  Answers(Payload(RightCandidate)) = {1}
<1> DEFINE d == Decrypt(Payload(RightCandidate), ciphertext)
<1>1. index \in Index /\ padding_byte = BlockSize - index
  BY DEF TypeOK, padding_byte
<1>2. \A j \in Index : j >= index => d[j] = padding_byte
  BY <1>1, RightCandidateIs, PayloadDecrypts DEF Index
<1>3. d[Last] = padding_byte
  BY <1>1, <1>2, Sizes DEF Index, Last
<1>4. ASSUME NEW j \in Index, j < padding_byte
      PROVE  d[Last - j] = padding_byte
  <2>1. Last - j \in Index /\ Last - j >= index
    BY <1>1, <1>4, SizesAssumption DEF Index, Last
  <2> QED
    BY <1>2, <2>1
<1>5. padding_byte # 0 /\ padding_byte <= BlockSize
  BY <1>1, SizesAssumption DEF Index
<1> QED
  BY <1>3, <1>4, <1>5 DEF Answers, ValidatePadding

\* Before the last byte of a block, any other candidate is answered 0.
LEMMA WrongAnswer ==
  ASSUME TypeOK, index # Last, NEW c \in Byte, c # RightCandidate,
         \A j \in Index : j > index => Known(j)
  PROVE  Answers(Payload(c)) = {0}
<1> DEFINE d == Decrypt(Payload(c), ciphertext)
<1>1. index \in Index /\ padding_byte = BlockSize - index
  BY DEF TypeOK, padding_byte
<1>2. d[Last] = padding_byte
  BY <1>1, PayloadDecrypts, Sizes DEF Index, Last
<1>3. d[index] # padding_byte
  BY <1>1, PayloadDecrypts, RightCandidateIs DEF Index
<1>4. /\ Last - index \in Index /\ Last - index < padding_byte
      /\ Last - (Last - index) = index
  BY <1>1, SizesAssumption DEF Index, Last
<1> QED
  BY <1>2, <1>3, <1>4 DEF Answers, ValidatePadding

LEMMA ValidatorDecrypts ==
  ASSUME TypeOK, index = Last, NEW c \in Byte
  PROVE  LET v == Decrypt(Validator(c), ciphertext)
         IN /\ v[Last] = Xor(c, Secret[Last])
            /\ v[Last - 1] = Xor(Radix - 1, Secret[Last - 1])
<1>1. Validator(c) \in Block
  BY QueriesAreBlocks
<1>2. Validator(c)[Last] = c /\ Validator(c)[Last - 1] = Radix - 1
  BY Sizes DEF Validator, Index, Last
<1> QED
  BY <1>1, <1>2, DecryptIsXor, Sizes

\* For the last byte, the validator is answered 1 for the right candidate.
LEMMA RightVerdict ==
  ASSUME TypeOK, index = Last
  PROVE  Answers(Validator(RightCandidate)) = {1}
<1> DEFINE v == Decrypt(Validator(RightCandidate), ciphertext)
<1>1. padding_byte = 1
  BY SizesAssumption DEF padding_byte, Last
<1>2. v[Last] = 1
  <2>1. RightCandidate \in Byte
    BY RightCandidateIs
  <2>2. v[Last] = Xor(RightCandidate, Secret[Last])
    BY <2>1, ValidatorDecrypts
  <2> QED
    BY <1>1, <2>1, <2>2, RightCandidateIs
<1>3. \A j \in Index : j < 1 => Last - j = Last
  BY SizesAssumption DEF Index, Last
<1> QED
  BY <1>2, <1>3, SizesAssumption DEF Answers, ValidatePadding

\* A wrong candidate that was answered 1 ended in a longer padding, or in
\* one longer than the block; the validator breaks either.
LEMMA WrongVerdict ==
  ASSUME TypeOK, index = Last, NEW c \in Byte, c # RightCandidate,
         1 \in Answers(Payload(c))
  PROVE  Answers(Validator(c)) = {0}
<1> DEFINE d == Decrypt(Payload(c), ciphertext)
           v == Decrypt(Validator(c), ciphertext)
           n == Xor(c, Secret[Last])
<1>1. padding_byte = 1
  BY SizesAssumption DEF padding_byte, Last
<1>2. \A j \in Index : ~(j > index)
  BY SizesAssumption DEF Index, Last
<1>3. d[Last] = n /\ d[Last - 1] = Secret[Last - 1]
  <2>1. \A j \in Index : j > index => Known(j)
    BY <1>2
  <2>2. Last - 1 < Last
    BY SizesAssumption DEF Last
  <2> QED
    BY <2>1, <2>2, PayloadDecrypts, Sizes
<1>4. Secret \in Block
  BY DecryptIsXor, QueriesAreBlocks
<1>5. Secret[Last - 1] \in Byte /\ n \in Byte
  BY <1>4, Sizes, XorAssumption DEF Block
<1>6. n # 1
  BY <1>1, RightCandidateIs
<1>7. n # 0 /\ \A j \in Index : j < n => d[Last - j] = n
  BY <1>3 DEF Answers, ValidatePadding
<1>8. 1 \in Index /\ 1 < n
  BY <1>5, <1>6, <1>7, SizesAssumption DEF Byte, Index
<1>9. Secret[Last - 1] = n
  BY <1>3, <1>7, <1>8
<1>10. v[Last] = n /\ v[Last - 1] # n
  BY <1>5, <1>9, ValidatorDecrypts, XorMoves, Sizes
<1> QED
  BY <1>8, <1>10 DEF Answers, ValidatePadding

-----------------------------------------------------------------------------
(* Sequences and the operations of the connection.                          *)

Links == {"up", "fin", "reset", "dead"}

LEMMA AppendFacts ==
  ASSUME NEW S, NEW s \in Seq(S), NEW m \in S
  PROVE  /\ Append(s, m) \in Seq(S)
         /\ Len(Append(s, m)) = Len(s) + 1
         /\ \A k \in 1 .. Len(s) : Append(s, m)[k] = s[k]
         /\ Append(s, m)[Len(s) + 1] = m
OBVIOUS

LEMMA TailFacts ==
  ASSUME NEW S, NEW s \in Seq(S), s # <<>>
  PROVE  /\ Tail(s) \in Seq(S) /\ Head(s) = s[1]
         /\ Len(s) \in Nat \ {0}
         /\ Len(Tail(s)) = Len(s) - 1
         /\ \A k \in 1 .. Len(Tail(s)) : Tail(s)[k] = s[k + 1]
OBVIOUS

LEMMA LoneMessage ==
  ASSUME NEW S, NEW s \in Seq(S), s # <<>>, NEW n \in Nat, n = Len(s), n <= 1
  PROVE  n = 1 /\ Tail(s) = <<>>
<1>1. n # 0
  OBVIOUS
<1>2. n = 1
  BY <1>1
<1>3. Len(Tail(s)) = n - 1
  OBVIOUS
<1>4. Len(Tail(s)) = 0
  BY <1>2, <1>3
<1>5. Tail(s) \in Seq(S)
  OBVIOUS
<1>6. Tail(s) = <<>>
  BY <1>4, <1>5
<1> QED
  BY <1>2, <1>6

LEMMA PrefixFacts ==
  ASSUME NEW S, NEW s \in Seq(S), NEW t \in Prefixes(s)
  PROVE  /\ t \in Seq(S)
         /\ Len(t) <= Len(s)
         /\ \A k \in 1 .. Len(t) : t[k] = s[k]
<1>1. PICK n \in 0 .. Len(s) : t = SubSeq(s, 1, n)
  BY DEF Prefixes
<1>2. \A k \in 1 .. n : s[k] \in S
  BY <1>1
<1>3. t = [k \in 1 .. n |-> s[k]]
  BY <1>1
<1> QED
  BY <1>1, <1>2, <1>3

LEMMA WriteTypes ==
  ASSUME TypeOK, NEW e \in End, NEW m \in Messages, Write(e, m)
  PROVE  wire' \in [End -> Seq(Messages)] /\ link' \in [End -> Links]
<1>1. wire \in [End -> Seq(Messages)] /\ link \in [End -> Links]
  BY DEF TypeOK, Links
<1>2. Append(wire[e], m) \in Seq(Messages)
  BY <1>1, AppendFacts
<1> QED
  BY <1>1, <1>2 DEF Write, Links

LEMMA ReadTypes ==
  ASSUME TypeOK, NEW e \in End, NEW m, Read(e, m)
  PROVE  wire' \in [End -> Seq(Messages)] /\ link' \in [End -> Links]
<1>1. wire \in [End -> Seq(Messages)] /\ link \in [End -> Links]
  BY DEF TypeOK, Links
<1>2. Peer(e) \in End
  BY DEF Peer, End
<1>3. Tail(wire[Peer(e)]) \in Seq(Messages)
  BY <1>1, <1>2, TailFacts DEF Read
<1> QED
  BY <1>1, <1>3 DEF Read

LEMMA GarbageTypes ==
  ASSUME TypeOK, NEW e \in End, ReadGarbage(e)
  PROVE  wire' \in [End -> Seq(Messages)] /\ link' \in [End -> Links]
BY DEF TypeOK, ReadGarbage, Links

LEMMA CloseTypes ==
  ASSUME TypeOK, NEW e \in End, Close(e)
  PROVE  wire' \in [End -> Seq(Messages)] /\ link' \in [End -> Links]
<1>1. wire \in [End -> Seq(Messages)] /\ link \in [End -> Links]
  BY DEF TypeOK, Links
<1>2. Prefixes(wire[e]) \subseteq Seq(Messages)
  BY <1>1, PrefixFacts
<1>3. <<>> \in Seq(Messages)
  OBVIOUS
<1> QED
  BY <1>1, <1>2, <1>3 DEF Close, Links

LEMMA MessageTypes ==
  /\ \A b \in Block : QBlock(b) \in Messages
  /\ \A n \in 0 .. Radix : U16(n) \in Messages
  /\ \A v \in {0, 1} : U8(v) \in Messages
  /\ \A b \in Block, n \in Int : QBlock(b) # U16(n) /\ QBlock(b) # U8(n)
  /\ \A m, n \in Int : U16(m) # U8(n)
BY DEF Messages, QBlocks, Counts, Verdicts, QBlock, U16, U8

-----------------------------------------------------------------------------
(* Types.                                                                   *)

LEMMA ClientKeepsTypes ==
  ASSUME TypeOK, Bounded, ClientNext
  PROVE  TypeOK'
<1> USE DEF inputs, server
<1>1. /\ "client" \in End /\ 0 \in 0 .. Radix /\ Radix \in 0 .. Radix
      /\ 1 \in 0 .. Radix
  BY SizesAssumption DEF End
<1>2. CASE WriteCiphertext
  BY <1>1, <1>2, WriteTypes, MessageTypes DEF WriteCiphertext, TypeOK, Links, ClientAt
<1>3. CASE WriteCount
  BY <1>1, <1>3, WriteTypes, MessageTypes DEF WriteCount, TypeOK, Links, ClientAt
<1>4. CASE WriteCandidate
  <2>1. candidate \in Byte /\ candidate + 1 \in 0 .. Radix
    BY <1>4, SizesAssumption DEF WriteCandidate, Bounded, TypeOK, Byte, ClientEnded
  <2> QED
    BY <1>1, <1>4, <2>1, WriteTypes, MessageTypes, QueriesAreBlocks
    DEF WriteCandidate, TypeOK, Links, ClientAt
<1>5. CASE ReadResponse
  <2>1. PICK r \in {0, 1} : Response(r)
    BY <1>5 DEF ReadResponse, Verdicts, U8
  <2>2. wire' \in [End -> Seq(Messages)] /\ link' \in [End -> Links]
    BY <1>1, <1>5, ReadTypes, GarbageTypes DEF ReadResponse
  <2>3. responses' \in Seq({0, 1})
    BY <2>1, AppendFacts DEF Response, TypeOK
  <2> QED
    BY <1>1, <1>5, <2>1, <2>2, <2>3 DEF ReadResponse, Response, TypeOK, Links, ClientAt
<1>6. ASSUME Found, candidate \in Byte
      PROVE  /\ raw_recovered' \in Block /\ index' \in Index /\ cpc' \in ClientAt
             /\ UNCHANGED <<inputs, server, candidate, responses, result>>
  <2>1. index \in Index /\ raw_recovered \in Block
    BY DEF TypeOK
  <2>2. padding_byte \in Byte
    BY <2>1, Sizes DEF padding_byte
  <2>3. Xor(candidate, padding_byte) \in Byte
    BY <1>6, <2>2, XorAssumption
  <2> QED
    BY <1>6, <2>1, <2>3, SizesAssumption DEF Found, Block, Index, ClientAt
<1>7. CASE Scan
  <2>1. candidate \in Byte /\ candidate + 1 \in 0 .. Radix
    BY <1>7, SizesAssumption DEF Scan, TypeOK, Byte
  <2>2. CASE Found
    BY <1>6, <1>7, <2>1, <2>2 DEF Scan, TypeOK
  <2>3. CASE ~Found
    BY <1>7, <2>1, <2>3 DEF Scan, Reject, TypeOK, ClientAt
  <2> QED
    BY <2>2, <2>3
<1>8. CASE WriteValidatorCount
  BY <1>1, <1>8, WriteTypes, MessageTypes DEF WriteValidatorCount, TypeOK, Links, ClientAt
<1>9. CASE WriteValidator
  <2>1. candidate \in Byte
    BY <1>9, SizesAssumption DEF WriteValidator, Bounded, TypeOK, Byte, ClientEnded
  <2> QED
    BY <1>1, <1>9, <2>1, WriteTypes, MessageTypes, QueriesAreBlocks
    DEF WriteValidator, TypeOK, Links, ClientAt
<1>10. CASE ReadVerdict
  <2>1. PICK v \in {0, 1} : Verdict(v)
    BY <1>10 DEF ReadVerdict, Verdicts, U8
  <2>2. wire' \in [End -> Seq(Messages)] /\ link' \in [End -> Links]
    BY <1>1, <1>10, ReadTypes, GarbageTypes DEF ReadVerdict
  <2>3. candidate \in Byte /\ candidate + 1 \in 0 .. Radix
    BY <1>10, SizesAssumption DEF ReadVerdict, Bounded, TypeOK, Byte, ClientEnded
  <2>4. CASE Found
    BY <1>6, <2>2, <2>3, <2>4 DEF TypeOK, Links
  <2>5. CASE Reject
    BY <2>2, <2>3, <2>5 DEF Reject, TypeOK, ClientAt, Links
  <2> QED
    BY <2>1, <2>4, <2>5 DEF Verdict
<1>11. CASE WriteEnd
  BY <1>1, <1>11, WriteTypes, MessageTypes DEF WriteEnd, TypeOK, Links, ClientAt
<1>12. CASE Finish
  <2>1. result' \in Block
    BY <1>12, XorAssumption DEF Finish, TypeOK, Block
  <2> QED
    BY <1>1, <1>12, <2>1, CloseTypes DEF Finish, TypeOK, Links, ClientAt, ClientEnded
<1>13. ASSUME NEW how \in ClientEnded, ClientStops(how)
       PROVE  TypeOK'
  BY <1>1, <1>13, CloseTypes DEF ClientStops, TypeOK, Links, ClientAt
<1>14. CASE ClientSigpipe \/ ClientThrows \/ NoneFound
  BY <1>13, <1>14 DEF ClientSigpipe, ClientThrows, NoneFound, ClientEnded
<1> QED
  BY <1>2, <1>3, <1>4, <1>5, <1>7, <1>8, <1>9, <1>10, <1>11, <1>12, <1>14 DEF ClientNext

LEMMA ServerKeepsTypes ==
  ASSUME TypeOK, Bounded, ServerNext
  PROVE  TypeOK'
<1> USE DEF inputs, client
<1>1. "server" \in End /\ 0 \in 0 .. Radix /\ 1 \in 0 .. Radix /\ Radix \in 0 .. Radix
  BY SizesAssumption DEF End
<1>2. CASE ReadCiphertext
  <2>1. s_ciphertext' \in Block
    BY <1>2 DEF ReadCiphertext, QBlocks, QBlock
  <2>2. wire' \in [End -> Seq(Messages)] /\ link' \in [End -> Links]
    BY <1>1, <1>2, ReadTypes, GarbageTypes DEF ReadCiphertext
  <2> QED
    BY <1>2, <2>1, <2>2 DEF ReadCiphertext, TypeOK, Links, ServerAt
<1>3. CASE ReadCount
  <2>1. PICK n \in 0 .. Radix : StartRound(n)
    BY <1>1, <1>3 DEF ReadCount, Counts, U16
  <2>2. wire' \in [End -> Seq(Messages)] /\ link' \in [End -> Links]
    BY <1>1, <1>3, ReadTypes, GarbageTypes DEF ReadCount
  <2> QED
    BY <1>1, <2>1, <2>2 DEF StartRound, TypeOK, Links, ServerAt
<1>4. CASE ReadQ
  <2>1. q' \in Block
    BY <1>4 DEF ReadQ, QBlocks, QBlock
  <2>2. wire' \in [End -> Seq(Messages)] /\ link' \in [End -> Links]
    BY <1>1, <1>4, ReadTypes, GarbageTypes DEF ReadQ
  <2> QED
    BY <1>4, <2>1, <2>2 DEF ReadQ, TypeOK, Links, ServerAt
<1>5. CASE Reply
  <2>1. PICK v \in {0, 1} : Write("server", U8(v))
    BY <1>5 DEF Reply, ValidatePadding
  <2>2. wire' \in [End -> Seq(Messages)] /\ link' \in [End -> Links]
    BY <1>1, <2>1, WriteTypes, MessageTypes
  <2>3. served' \in 0 .. Radix
    BY <1>5, SizesAssumption DEF Reply, Bounded, TypeOK
  <2> QED
    BY <1>5, <2>2, <2>3 DEF Reply, TypeOK, Links, ServerAt
<1>6. ASSUME NEW how \in ServerEnded, ServerStops(how), Close("server")
      PROVE  TypeOK'
  BY <1>1, <1>6, CloseTypes DEF ServerStops, TypeOK, Links, ServerAt
<1>7. CASE ReadZero \/ ServerSigpipe \/ ServerThrows
  BY <1>6, <1>7 DEF ReadZero, ServerSigpipe, ServerThrows, ServerEnded
<1> QED
  BY <1>2, <1>3, <1>4, <1>5, <1>7 DEF ServerNext

LEMMA StepKeepsTypes ==
  ASSUME TypeOK, Bounded, [Next]_vars
  PROVE  TypeOK'
<1>1. CASE ClientNext
  BY <1>1, ClientKeepsTypes
<1>2. CASE ServerNext
  BY <1>2, ServerKeepsTypes
<1>3. CASE Sever
  <2>1. wire' \in [End -> Seq(Messages)]
    <3>1. wire["client"] \in Seq(Messages) /\ wire["server"] \in Seq(Messages)
      BY DEF TypeOK, End
    <3>2. Prefixes(wire["client"]) \subseteq Seq(Messages)
      BY <3>1, PrefixFacts
    <3>3. Prefixes(wire["server"]) \subseteq Seq(Messages)
      BY <3>1, PrefixFacts
    <3> QED
      BY <1>3, <3>2, <3>3 DEF Sever
  <2> QED
    BY <1>3, <2>1 DEF Sever, TypeOK, inputs, client, server
<1>4. CASE KillClient
  BY <1>4, CloseTypes DEF KillClient, ClientStops, TypeOK, Links, ClientAt, ClientEnded,
                          End, inputs, server
<1>5. CASE KillServer
  BY <1>5, CloseTypes DEF KillServer, ServerStops, TypeOK, Links, ServerAt, ServerEnded,
                          End, inputs, client
<1>6. CASE Terminated \/ UNCHANGED vars
  BY <1>6 DEF Terminated, vars, TypeOK, inputs, client, server
<1> QED
  BY <1>1, <1>2, <1>3, <1>4, <1>5, <1>6 DEF Next

-----------------------------------------------------------------------------
(* What one step does to the connection.                                    *)

LEMMA WireTypes ==
  ASSUME TypeOK
  PROVE  /\ wire["client"] \in Seq(Messages) /\ wire["server"] \in Seq(Messages)
         /\ Len(wire["client"]) \in Nat /\ Len(wire["server"]) \in Nat
         /\ link["client"] \in Links /\ link["server"] \in Links
         /\ DOMAIN wire = End /\ DOMAIN link = End
         /\ Peer("client") = "server" /\ Peer("server") = "client"
         /\ "client" \in End /\ "server" \in End
<1>1. wire["client"] \in Seq(Messages) /\ wire["server"] \in Seq(Messages)
  BY DEF TypeOK, End
<1> QED
  BY <1>1 DEF TypeOK, End, Links, Peer

\* A write appends while the writer is up and is otherwise lost.
LEMMA WriteEffect ==
  ASSUME TypeOK, NEW e \in End, NEW m \in Messages, Write(e, m)
  PROVE  /\ wire'[Peer(e)] = wire[Peer(e)] /\ link'[Peer(e)] = link[Peer(e)]
         /\ IF link[e] = "up"
            THEN link' = link /\ wire'[e] = Append(wire[e], m)
            ELSE link'[e] # "up" /\ wire' = wire
         /\ link[e] # "dead"
<1>1. Peer(e) # e /\ Peer(e) \in End
  BY DEF Peer, End
<1> QED
  BY <1>1 DEF Write, TypeOK

\* A read takes the head off, or hands out garbage over an empty wire.
LEMMA ReadEffect ==
  ASSUME TypeOK, NEW e \in End
  PROVE  /\ \A m : Read(e, m) =>
              /\ wire'[e] = wire[e] /\ wire'[Peer(e)] = Tail(wire[Peer(e)])
              /\ link' = link
              /\ wire[Peer(e)] # <<>> /\ m = wire[Peer(e)][1]
         /\ ReadGarbage(e) =>
              /\ wire' = wire /\ wire[Peer(e)] = <<>>
              /\ link'[Peer(e)] = link[Peer(e)]
              /\ link[e] = "reset" /\ link'[e] = "dead"
<1>1. Peer(e) # e /\ Peer(e) \in End /\ wire[Peer(e)] \in Seq(Messages)
  BY DEF Peer, End, TypeOK
<1> QED
  BY <1>1, TailFacts DEF Read, ReadGarbage, TypeOK

\* Closing leaves the peer's link down, and at most the first part of what
\* the closing end had written.
LEMMA CloseEffect ==
  ASSUME TypeOK, NEW e \in End, Close(e)
  PROVE  /\ link'[Peer(e)] # "up" /\ link'[e] = link[e]
         /\ link'[Peer(e)] = "dead" <=> link[Peer(e)] = "dead"
         /\ wire'[Peer(e)] = <<>>
         /\ wire'[e] \in Prefixes(wire[e])
<1>1. Peer(e) # e /\ Peer(e) \in End /\ wire[e] \in Seq(Messages)
  BY DEF Peer, End, TypeOK
<1>2. wire[e] \in Prefixes(wire[e])
  BY <1>1 DEF Prefixes
<1> QED
  BY <1>1, <1>2 DEF Close, TypeOK

LEMMA ClientStepEffect ==
  ASSUME TypeOK, Bounded, ClientNext
  PROVE  /\ cpc \notin ClientEnded
         /\ UNCHANGED <<inputs, server>>
         /\ \/ /\ cpc' \notin ClientEnded
               /\ link'["server"] = link["server"]
               /\ link'["client"] = "up" <=> link["client"] = "up"
            \/ cpc' \in ClientEnded /\ Close("client")
<1> USE WireTypes DEF ClientEnded, inputs, server
<1>1. \A c \in Byte : Payload(c) \in Block /\ Validator(c) \in Block
  BY QueriesAreBlocks
<1>2. CASE WriteCiphertext
  BY <1>2, WriteEffect, MessageTypes DEF WriteCiphertext, TypeOK
<1>3. CASE WriteCount
  BY <1>3, WriteEffect, MessageTypes, SizesAssumption DEF WriteCount
<1>4. CASE WriteCandidate
  <2>1. candidate \in Byte
    BY <1>4, SizesAssumption DEF WriteCandidate, Bounded, TypeOK, Byte
  <2> QED
    BY <1>1, <1>4, <2>1, WriteEffect, MessageTypes DEF WriteCandidate
<1>5. CASE ReadResponse
  BY <1>5, ReadEffect DEF ReadResponse, Response
<1>6. CASE Scan
  BY <1>6 DEF Scan, Found, Reject
<1>7. CASE WriteValidatorCount
  BY <1>7, WriteEffect, MessageTypes, SizesAssumption DEF WriteValidatorCount
<1>8. CASE WriteValidator
  <2>1. candidate \in Byte
    BY <1>8, SizesAssumption DEF WriteValidator, Bounded, TypeOK, Byte
  <2> QED
    BY <1>1, <1>8, <2>1, WriteEffect, MessageTypes DEF WriteValidator
<1>9. CASE ReadVerdict
  BY <1>9, ReadEffect DEF ReadVerdict, Verdict, Found, Reject
<1>10. CASE WriteEnd
  BY <1>10, WriteEffect, MessageTypes, SizesAssumption DEF WriteEnd
<1>11. CASE Finish
  BY <1>11 DEF Finish
<1>12. CASE ClientSigpipe \/ ClientThrows \/ NoneFound
  BY <1>12 DEF ClientSigpipe, ClientThrows, NoneFound, ClientStops
<1> QED
  BY <1>2, <1>3, <1>4, <1>5, <1>6, <1>7, <1>8, <1>9, <1>10, <1>11, <1>12 DEF ClientNext

LEMMA ServerStepEffect ==
  ASSUME TypeOK, ServerNext
  PROVE  /\ spc \notin ServerEnded
         /\ UNCHANGED <<inputs, client>>
         /\ \/ /\ spc' \notin ServerEnded
               /\ link'["client"] = link["client"]
               /\ link'["server"] = "up" <=> link["server"] = "up"
            \/ spc' \in ServerEnded /\ Close("server")
<1> USE WireTypes DEF ServerEnded, inputs, client
<1>1. CASE ReadCiphertext
  BY <1>1, ReadEffect DEF ReadCiphertext
<1>2. CASE ReadCount
  BY <1>2, ReadEffect DEF ReadCount, StartRound
<1>3. CASE ReadQ
  BY <1>3, ReadEffect DEF ReadQ
<1>4. CASE Reply
  <2>1. PICK v \in {0, 1} : Write("server", U8(v))
    BY <1>4 DEF Reply, ValidatePadding
  <2> QED
    BY <1>4, <2>1, WriteEffect, MessageTypes DEF Reply
<1>5. CASE ReadZero \/ ServerSigpipe \/ ServerThrows
  BY <1>5 DEF ReadZero, ServerSigpipe, ServerThrows, ServerStops
<1> QED
  BY <1>1, <1>2, <1>3, <1>4, <1>5 DEF ServerNext

LEMMA StepKeepsConnection ==
  ASSUME TypeOK, Bounded, UpIsConnected, [Next]_vars
  PROVE  UpIsConnected'
<1> USE WireTypes DEF UpIsConnected, Connected
<1>1. CASE ClientNext
  BY <1>1, ClientStepEffect, CloseEffect DEF server
<1>2. CASE ServerNext
  BY <1>2, ServerStepEffect, CloseEffect DEF client
<1>3. CASE Sever
  BY <1>3 DEF Sever
<1>4. CASE KillClient
  BY <1>4, CloseEffect DEF KillClient, ClientStops, ClientEnded
<1>5. CASE KillServer
  BY <1>5, CloseEffect DEF KillServer, ServerStops, ServerEnded
<1>6. CASE Terminated \/ UNCHANGED vars
  BY <1>6 DEF Terminated, vars, client, server
<1> QED
  BY <1>1, <1>2, <1>3, <1>4, <1>5, <1>6 DEF Next

-----------------------------------------------------------------------------
(* Steps that add no answer leave what the client holds as it was.          *)

LEMMA FewerAnswers ==
  ASSUME TypeOK, Bounded, Genuine, UNCHANGED <<inputs, client>>,
         wire'["server"] \in Prefixes(wire["server"]),
         link'["client"] = "dead" <=> link["client"] = "dead",
         spc' \in {"q", "reply"} => served' < count'
  PROVE  Bounded' /\ Genuine'
<1> USE DEF inputs, client
<1>1. /\ Len(wire'["server"]) \in Nat
      /\ Len(wire'["server"]) <= Len(wire["server"])
      /\ \A k \in 1 .. Len(wire'["server"]) : wire'["server"][k] = wire["server"][k]
      /\ wire["server"] = <<>> => wire'["server"] = <<>>
  <2>1. wire["server"] \in Seq(Messages)
    BY WireTypes
  <2>2. wire'["server"] \in Seq(Messages)
    BY <2>1, PrefixFacts
  <2> QED
    BY <2>1, <2>2, PrefixFacts
<1>2. Received' = Received /\ Received \in Nat
  BY DEF Received, TypeOK
<1>3. /\ Answered' <= Answered /\ Answered' \in Nat /\ Answered \in Nat
      /\ RoundSize' = RoundSize
  BY <1>1, <1>2, WireTypes DEF Answered, RoundSize, Validating
<1>4. RoundSize \in Nat
  BY SizesAssumption DEF RoundSize
<1>5. Bounded'
  BY <1>1, <1>3, <1>4 DEF Bounded, InRound
<1>6. Genuine'
  <2>1. SUFFICES ASSUME cpc \notin ClientEnded, ~Lost
                 PROVE  Genuine'
    BY DEF Genuine, Lost
  <2>2. ASSUME NEW k \in 1 .. Len(wire'["server"])
        PROVE  \E v \in (Answers(Query(Received + k - 1)))' : wire'["server"][k] = U8(v)
    <3>1. k \in 1 .. Len(wire["server"]) /\ wire'["server"][k] = wire["server"][k]
      BY <1>1, WireTypes
    <3>2. (Answers(Query(Received + k - 1)))' = Answers(Query(Received + k - 1))
      BY <1>2 DEF Answers, Query, Validating, Payload, Validator, padding_byte, Decrypt,
                  ValidatePadding
    <3> QED
      BY <2>1, <3>1, <3>2 DEF Genuine
  <2>3. \A k \in Int : (Answers(Payload(k)))' = Answers(Payload(k))
    BY DEF Answers, Payload, padding_byte, Decrypt, ValidatePadding
  <2>4. RightCandidate' = RightCandidate /\ \A j \in Index : Known(j)' <=> Known(j)
    BY DEF RightCandidate, Known, Secret, padding_byte
  <2> QED
    BY <2>1, <2>2, <2>3, <2>4 DEF Genuine, Lost, TypeOK
<1> QED
  BY <1>5, <1>6

-----------------------------------------------------------------------------
(* The server's steps.                                                      *)

Core == TypeOK /\ UpIsConnected /\ Bounded /\ InStep /\ Genuine

LEMMA CountsAreNaturals ==
  ASSUME TypeOK
  PROVE  /\ Received \in Nat /\ Answered \in Nat /\ RoundSize \in Nat
         /\ Written \in Int /\ NextRead \in Int
         /\ candidate \in Nat /\ served \in Nat /\ count \in Nat
         /\ Radix \in Nat /\ Radix > 2 /\ 0 \in 0 .. Radix
<1>1. /\ Len(responses) \in Nat /\ Len(wire["server"]) \in Nat
      /\ candidate \in 0 .. Radix /\ served \in 0 .. Radix /\ count \in 0 .. Radix
  BY WireTypes DEF TypeOK
<1>2. Radix \in Nat /\ Radix > 2 /\ 0 \in 0 .. Radix
  BY SizesAssumption
<1>3. Received \in Nat /\ Answered \in Nat
  <2>1. Received \in Nat
    BY DEF Received, TypeOK
  <2> QED
    BY <1>1, <2>1 DEF Answered
<1>4. RoundSize \in Nat
  BY <1>2 DEF RoundSize
<1>5. candidate \in Nat /\ served \in Nat /\ count \in Nat
  BY <1>1, <1>2
<1>6. Written \in Int /\ NextRead \in Int
  BY <1>2, <1>3, <1>4, <1>5 DEF Written, NextRead
<1> QED
  BY <1>2, <1>3, <1>4, <1>5, <1>6

\* The window of the script moves by one when the server reads.
LEMMA ServerReads ==
  ASSUME Core, UNCHANGED <<inputs, client>>, Connected,
         wire["client"] # <<>>, wire'["client"] = Tail(wire["client"]),
         wire'["server"] = wire["server"], NextRead' = NextRead + 1
  PROVE  /\ Len(wire'["client"]) = Written' - NextRead'
         /\ \A k \in 1 .. Len(wire'["client"]) :
              wire'["client"][k] = Script(NextRead + k - 1)'
         /\ wire["client"][1] = Script(NextRead)
         /\ Written - NextRead >= 1
         /\ Answered' = Answered /\ RoundSize' = RoundSize
<1> USE DEF inputs, client
<1>1. TypeOK /\ InStep
  BY DEF Core
<1>2. /\ Len(wire'["client"]) = Len(wire["client"]) - 1
      /\ Len(wire["client"]) \in Nat \ {0}
      /\ \A k \in 1 .. Len(wire'["client"]) : wire'["client"][k] = wire["client"][k + 1]
  BY <1>1, WireTypes, TailFacts
<1>3. Written' = Written /\ Answered' = Answered /\ RoundSize' = RoundSize
  BY DEF Written, Answered, Received, RoundSize, Validating
<1>4. \A p \in Int : Script(p)' = Script(p)
  BY <1>3 DEF Script, Query, Validating, Payload, Validator, padding_byte
<1>5. Window
  BY <1>1 DEF InStep
<1>6. Written \in Int /\ NextRead \in Int
  BY <1>1, CountsAreNaturals
<1>7. Len(wire'["client"]) = Written' - NextRead' /\ Written - NextRead >= 1
  BY <1>2, <1>3, <1>5, <1>6 DEF Window
<1>8. wire["client"][1] = Script(NextRead)
  <2>1. 1 \in 1 .. Len(wire["client"]) /\ NextRead + 1 - 1 = NextRead
    BY <1>2, <1>6
  <2> QED
    BY <1>5, <2>1 DEF Window
<1>9. ASSUME NEW k \in 1 .. Len(wire'["client"])
      PROVE  wire'["client"][k] = Script(NextRead + k)
  <2>1. k + 1 \in 1 .. Len(wire["client"]) /\ NextRead + (k + 1) - 1 = NextRead + k
    BY <1>2, <1>6
  <2> QED
    BY <1>2, <1>5, <2>1 DEF Window
<1>10. ASSUME NEW k \in 1 .. Len(wire'["client"])
       PROVE  (Script(NextRead + k - 1))' = Script(NextRead + k)
  <2>1. NextRead' + k - 1 = NextRead + k /\ NextRead + k \in Int
    BY <1>2, <1>6
  <2> QED
    BY <1>4, <2>1
<1> QED
  BY <1>3, <1>7, <1>8, <1>9, <1>10

LEMMA ReadCiphertextKeeps ==
  ASSUME Core, ReadCiphertext
  PROVE  Bounded' /\ InStep' /\ Genuine'
<1> USE DEF Core
<1>1. Bounded' /\ Genuine'
  <2>1. wire["server"] \in Prefixes(wire["server"])
    BY WireTypes DEF Prefixes
  <2> QED
    BY <2>1, FewerAnswers, ReadEffect, WireTypes DEF ReadCiphertext
<1>2. SUFFICES ASSUME Connected' PROVE InStep'
  BY <1>1 DEF InStep
<1>3. PICK m \in QBlocks : Read("server", m) /\ s_ciphertext' = m.bytes
  BY <1>2, ReadEffect, WireTypes DEF ReadCiphertext, Connected
<1>4. Connected
  BY <1>2, <1>3, ReadEffect, WireTypes DEF Connected, ReadCiphertext, client, ServerEnded
<1>5. NextRead = -1 /\ NextRead' = 0 /\ Answered = 0
  BY <1>3, <1>4, ReadEffect, WireTypes
  DEF ReadCiphertext, NextRead, InStep, Window, ServerLocals, Answered, Received, client
<1>6. /\ wire["client"] # <<>> /\ m = wire["client"][1]
      /\ wire'["client"] = Tail(wire["client"]) /\ wire'["server"] = wire["server"]
      /\ UNCHANGED <<inputs, client>>
  BY <1>3, ReadEffect, WireTypes DEF ReadCiphertext
<1>7. /\ Window'
      /\ wire["client"][1] = Script(NextRead)
      /\ Answered' = Answered /\ RoundSize' = RoundSize
  BY <1>4, <1>5, <1>6, ServerReads DEF Window
<1>8. m = QBlock(ciphertext)
  BY <1>5, <1>6, <1>7 DEF Script
<1>9. ServerLocals'
  BY <1>3, <1>5, <1>7, <1>8 DEF ReadCiphertext, ServerLocals, QBlock, inputs
<1> QED
  BY <1>7, <1>9 DEF InStep

LEMMA ReadCountKeeps ==
  ASSUME Core, ReadCount
  PROVE  Bounded' /\ InStep' /\ Genuine'
<1> USE DEF Core
<1>1. PICK n \in 0 .. Radix : StartRound(n)
  BY SizesAssumption DEF ReadCount, Counts, U16
<1>2. Bounded' /\ Genuine'
  <2>1. wire["server"] \in Prefixes(wire["server"])
    BY WireTypes DEF Prefixes
  <2> QED
    BY <1>1, <2>1, FewerAnswers, ReadEffect, WireTypes DEF ReadCount, StartRound
<1>3. SUFFICES ASSUME Connected' PROVE InStep'
  BY <1>2 DEF InStep
<1>4. PICK m \in Counts : Read("server", m) /\ StartRound(m.value)
  BY <1>3, ReadEffect, WireTypes DEF ReadCount, Connected
<1>5. Connected
  BY <1>3, <1>4, ReadEffect, WireTypes
  DEF Connected, ReadCount, StartRound, client, ServerEnded
<1>6. Len(wire["client"]) >= 1
  BY <1>4, ReadEffect, WireTypes, TailFacts
<1>7. Written - NextRead >= 1
  BY <1>5, <1>6 DEF InStep, Window, ServerLocals
<1>8. Written <= RoundSize + 1 /\ (Written >= 1 => InRound \/ cpc = "close")
  <2>1. candidate \in Nat /\ Radix \in Nat /\ Radix > 2
    BY CountsAreNaturals
  <2>2. cpc = "send" => candidate < Radix
    BY <1>5 DEF Bounded, Connected
  <2> QED
    BY ONLY <2>1, <2>2 DEF Written, RoundSize, InRound, Validating
<1>9. NextRead = 0 /\ Answered = 0
  BY <1>5, <1>7, <1>8, CountsAreNaturals DEF ReadCount, NextRead, InStep, Window, ServerLocals
<1>10. NextRead' = 1 /\ served' = 0 /\ spc' = "q" /\ s_ciphertext' = s_ciphertext
  BY <1>4 DEF StartRound, NextRead
<1>11. /\ wire["client"] # <<>> /\ m = wire["client"][1]
      /\ wire'["client"] = Tail(wire["client"]) /\ wire'["server"] = wire["server"]
      /\ UNCHANGED <<inputs, client>>
  BY <1>4, ReadEffect, WireTypes DEF StartRound
<1>12. /\ Window'
      /\ wire["client"][1] = Script(NextRead)
      /\ Answered' = Answered /\ RoundSize' = RoundSize
  BY <1>5, <1>9, <1>10, <1>11, ServerReads DEF Window
<1>13. m = U16(RoundSize)
  BY <1>9, <1>11, <1>12 DEF Script
<1>14. count' = RoundSize /\ RoundSize # 0
  BY <1>4, <1>13 DEF StartRound, U16
<1>15. InRound /\ InRound'
  BY <1>4, <1>7, <1>8, <1>9, <1>14, CountsAreNaturals DEF RoundSize, StartRound, client, InRound
<1>16. s_ciphertext = ciphertext
  BY <1>5 DEF InStep, ServerLocals, ReadCount
<1>17. ServerLocals'
  BY <1>4, <1>9, <1>10, <1>14, <1>15, <1>12, <1>16 DEF StartRound, ServerLocals, inputs
<1> QED
  BY <1>12, <1>17 DEF InStep

LEMMA ReadQKeeps ==
  ASSUME Core, ReadQ
  PROVE  Bounded' /\ InStep' /\ Genuine'
<1> USE DEF Core
<1>1. Bounded' /\ Genuine'
  <2>1. wire["server"] \in Prefixes(wire["server"])
    BY WireTypes DEF Prefixes
  <2>2. served < count
    BY DEF ReadQ, Bounded
  <2> QED
    BY <2>1, <2>2, FewerAnswers, ReadEffect, WireTypes DEF ReadQ
<1>2. SUFFICES ASSUME Connected' PROVE InStep'
  BY <1>1 DEF InStep
<1>3. PICK m \in QBlocks : Read("server", m) /\ q' = m.bytes
  BY <1>2, ReadEffect, WireTypes DEF ReadQ, Connected
<1>4. Connected
  BY <1>2, <1>3, ReadEffect, WireTypes DEF Connected, ReadQ, client, ServerEnded
<1>5. NextRead = served + 1 /\ NextRead' = NextRead + 1
  BY CountsAreNaturals DEF ReadQ, NextRead
<1>6. /\ wire["client"] # <<>> /\ m = wire["client"][1]
      /\ wire'["client"] = Tail(wire["client"]) /\ wire'["server"] = wire["server"]
      /\ UNCHANGED <<inputs, client>>
  BY <1>3, ReadEffect, WireTypes DEF ReadQ
<1>7. /\ Window'
      /\ wire["client"][1] = Script(NextRead)
      /\ Answered' = Answered /\ RoundSize' = RoundSize
  BY <1>4, <1>5, <1>6, ServerReads DEF Window
<1>8. m = QBlock(Query(served))
  <2>1. NextRead # -1 /\ NextRead # 0 /\ NextRead - 1 = served
    BY <1>5, CountsAreNaturals
  <2> QED
    BY <1>6, <1>7, <2>1 DEF Script
<1>9. q' = Query(served) /\ Query(served)' = Query(served) /\ served' = served
  BY <1>3, <1>8
  DEF ReadQ, QBlock, Query, Validating, Payload, Validator, padding_byte, client
<1>10. InRound' = InRound
  BY DEF InRound, ReadQ, client
<1>11. ServerLocals'
  BY <1>4, <1>9, <1>10, <1>7 DEF ReadQ, InStep, ServerLocals, inputs
<1> QED
  BY <1>7, <1>11 DEF InStep

\* A reply is the answer to the query the server read last.
LEMMA ReplyKeeps ==
  ASSUME Core, Reply
  PROVE  Bounded' /\ InStep' /\ Genuine'
<1> USE DEF Core, inputs, client
<1>1. PICK v \in ValidatePadding(Decrypt(q, s_ciphertext)) : Write("server", U8(v))
  BY DEF Reply
<1>2. v \in {0, 1} /\ U8(v) \in Messages
  BY <1>1, MessageTypes DEF ValidatePadding
<1>3. /\ wire'["client"] = wire["client"] /\ link'["client"] = link["client"]
      /\ IF link["server"] = "up"
         THEN link' = link /\ wire'["server"] = Append(wire["server"], U8(v))
         ELSE link'["server"] # "up" /\ wire' = wire
  BY <1>1, <1>2, WriteEffect, WireTypes
<1>4. /\ UNCHANGED <<inputs, client>> /\ spc = "reply" /\ served < count
      /\ spc' \in {"q", "reply"} => served' < count'
  BY DEF Reply, Bounded
<1>5. CASE link["server"] # "up"
  <2>1. wire["server"] \in Prefixes(wire["server"])
    BY WireTypes DEF Prefixes
  <2>2. Bounded' /\ Genuine'
    BY <1>3, <1>4, <1>5, <2>1, FewerAnswers
  <2> QED
    BY <1>3, <1>5, <2>2 DEF InStep, Connected
<1>6. CASE link["server"] = "up"
  <2>1. Connected
    BY <1>4, <1>6 DEF UpIsConnected, ServerEnded
  <2>2. Window /\ ServerLocals
    BY <2>1 DEF InStep
  <2>3. /\ q = Query(served) /\ s_ciphertext = ciphertext /\ InRound
        /\ count = RoundSize /\ served = Answered
    BY <1>4, <2>2 DEF ServerLocals
  <2>4. /\ Len(wire'["server"]) = Len(wire["server"]) + 1
        /\ \A k \in 1 .. Len(wire["server"]) : wire'["server"][k] = wire["server"][k]
        /\ wire'["server"][Len(wire["server"]) + 1] = U8(v)
    <3>1. wire'["server"] = Append(wire["server"], U8(v))
      BY <1>3, <1>6
    <3>2. wire["server"] \in Seq(Messages)
      BY WireTypes
    <3> QED
      BY <1>2, <3>1, <3>2, AppendFacts
  <2>5. Received' = Received /\ RoundSize' = RoundSize /\ Answered' = Answered + 1
    <3>1. Received' = Received /\ RoundSize' = RoundSize
      BY <1>4 DEF Received, RoundSize, Validating
    <3> QED
      BY <2>4, <3>1, CountsAreNaturals, WireTypes DEF Answered
  <2>6. served' = Answered' /\ served' <= RoundSize' /\ RoundSize # 0
    BY <1>4, <2>3, <2>5, CountsAreNaturals DEF Reply
  <2>7. InRound' /\ cpc \notin ClientEnded
    BY <1>4, <2>1, <2>3 DEF InRound, Connected
  <2>8. Bounded'
    BY <1>4, <2>5, <2>6, <2>7 DEF Bounded, InRound
  <2>9. NextRead' = NextRead /\ NextRead = served + 2
    <3>1. CASE served' < count
      BY <1>4, <3>1, CountsAreNaturals DEF Reply, NextRead
    <3>2. CASE ~(served' < count)
      <4>1. served' = RoundSize
        BY <2>3, <2>5, <2>6, <3>2, CountsAreNaturals
      <4> QED
        BY <1>4, <2>5, <2>6, <3>2, <4>1, CountsAreNaturals DEF Reply, NextRead
    <3> QED
      BY <3>1, <3>2
  <2>10. Window'
    <3>1. Written' = Written
      BY <1>4 DEF Written
    <3>2. \A p \in Int : Script(p)' = Script(p)
      BY <1>4, <2>5 DEF Script, Query, Validating, Payload, Validator, padding_byte
    <3>3. \A k \in 1 .. Len(wire["client"]) : NextRead + k - 1 \in Int
      BY CountsAreNaturals
    <3> QED
      BY <1>3, <2>2, <2>9, <3>1, <3>2, <3>3 DEF Window
  <2>11. ServerLocals'
    <3>1. spc' = "count" => served' = count
      BY <2>3, <2>5, <2>6, CountsAreNaturals DEF Reply
    <3> QED
      BY <2>3, <2>5, <2>6, <2>7, <3>1 DEF Reply, ServerLocals
  <2>12. Genuine'
    <3>1. SUFFICES ASSUME ~Lost PROVE Genuine'
      BY <1>4, <1>3, <2>7 DEF Genuine, Lost
    <3>2. \A b : (Answers(b))' = Answers(b)
      BY <1>4 DEF Answers, Decrypt, ValidatePadding
    <3>3. \A k \in Int : Query(k)' = Query(k) /\ Payload(k)' = Payload(k)
      BY <1>4 DEF Query, Validating, Payload, Validator, padding_byte
    <3>4. ASSUME NEW k \in 1 .. Len(wire'["server"])
          PROVE  \E w \in (Answers(Query(Received + k - 1)))' : wire'["server"][k] = U8(w)
      <4>1. Received + k - 1 \in Int
        BY <2>4, CountsAreNaturals, WireTypes
      <4>2. (Answers(Query(Received + k - 1)))' = Answers(Query(Received + k - 1))
        BY <1>4, <2>5, <3>2, <3>3, <4>1 DEF Answers, Decrypt, ValidatePadding
      <4>3. CASE k \in 1 .. Len(wire["server"])
        BY <2>4, <2>7, <3>1, <4>2, <4>3 DEF Genuine
      <4>4. CASE k = Len(wire["server"]) + 1
        <5>1. Received + k - 1 = served
          BY <2>3, <4>4, CountsAreNaturals, WireTypes DEF Answered
        <5>2. v \in Answers(Query(served))
          BY <1>1, <2>3 DEF Answers
        <5> QED
          BY <2>4, <4>2, <4>4, <5>1, <5>2
      <4> QED
        BY <2>4, <4>3, <4>4, WireTypes
    <3>5. \A k \in Int : (Answers(Payload(k)))' = Answers(Payload(k))
      BY <1>4 DEF Answers, Payload, padding_byte, Decrypt, ValidatePadding
    <3>6. RightCandidate' = RightCandidate /\ \A j \in Index : Known(j)' <=> Known(j)
      BY <1>4 DEF RightCandidate, Known, Secret, padding_byte
    <3> QED
      BY <1>4, <2>7, <3>1, <3>4, <3>5, <3>6 DEF Genuine, TypeOK
  <2> QED
    BY <2>8, <2>10, <2>11, <2>12 DEF InStep
<1> QED
  BY <1>5, <1>6

LEMMA ServerStopKeeps ==
  ASSUME Core, NEW how \in ServerEnded, ServerStops(how), Close("server")
  PROVE  Bounded' /\ InStep' /\ Genuine'
<1>1. Bounded' /\ Genuine'
  BY CloseEffect, WireTypes, FewerAnswers DEF Core, ServerStops, ServerEnded
<1> QED
  BY <1>1 DEF InStep, Connected, ServerStops

LEMMA SeverKeeps ==
  ASSUME Core, Sever
  PROVE  Bounded' /\ InStep' /\ Genuine'
<1>1. wire'["server"] \in Prefixes(wire["server"]) /\ link'["client"] = "reset"
  BY DEF Sever, End
<1>2. Bounded' /\ Genuine'
  BY <1>1, FewerAnswers, WireTypes DEF Core, Sever, Bounded, server
<1> QED
  BY <1>1, <1>2 DEF InStep, Connected

-----------------------------------------------------------------------------
(* The client's steps.                                                      *)

\* The window of the script grows by one when the client writes.
LEMMA ClientWrites ==
  ASSUME Core, NEW m \in Messages, Write("client", m), UNCHANGED <<inputs, server>>,
         cpc \notin ClientEnded,
         Written' = Written + 1, Answered' = Answered,
         Answered = 0 \/ RoundSize' = RoundSize,
         NEW p \in Int, p = Written, m = Script(p)',
         \A r \in Int : -1 <= r /\ r < Written => Script(r)' = Script(r),
         InRound => InRound' /\ RoundSize' = RoundSize
                      /\ \A k \in Nat : Query(k)' = Query(k),
         spc = "ciphertext" => cpc' \in {"count", "send", "recv"},
         spc = "count" => Answered \in {0, RoundSize'}
  PROVE  InStep'
<1> USE DEF inputs, server
<1>1. TypeOK /\ InStep
  BY DEF Core
<1>2. SUFFICES ASSUME Connected' PROVE InStep'
  BY DEF InStep
<1>3. link["client"] = "up" /\ wire'["client"] = Append(wire["client"], m)
      /\ Connected
  BY <1>1, <1>2, WriteEffect, WireTypes DEF Connected
<1>4. Window /\ ServerLocals
  BY <1>1, <1>3 DEF InStep
<1>5. /\ Written \in Int /\ NextRead \in Int /\ Len(wire["client"]) \in Nat
      /\ wire["client"] \in Seq(Messages) /\ served \in Nat
      /\ Answered \in Nat /\ RoundSize \in Nat
  BY <1>1, CountsAreNaturals, WireTypes
<1>6. NextRead >= -1 /\ NextRead' = NextRead
  <2>1. CASE spc \in {"q", "reply"}
    BY <1>5, <2>1 DEF NextRead
  <2>2. CASE spc \notin {"q", "reply"}
    BY <1>5, <2>2 DEF NextRead
  <2> QED
    BY <2>1, <2>2
<1>7. Window'
  <2>1. /\ Len(wire'["client"]) = Len(wire["client"]) + 1
        /\ \A k \in 1 .. Len(wire["client"]) : wire'["client"][k] = wire["client"][k]
        /\ wire'["client"][Len(wire["client"]) + 1] = m
    BY <1>3, <1>5, AppendFacts
  <2>2. Len(wire'["client"]) = Written' - NextRead'
    BY <1>4, <1>5, <1>6, <2>1 DEF Window
  <2>3. ASSUME NEW k \in 1 .. Len(wire'["client"])
        PROVE  wire'["client"][k] = (Script(NextRead + k - 1))'
    <3>1. CASE k \in 1 .. Len(wire["client"])
      <4>1. /\ NextRead + k - 1 \in Int /\ -1 <= NextRead + k - 1
            /\ NextRead + k - 1 < Written
        BY <1>4, <1>5, <1>6, <3>1 DEF Window
      <4>2. (Script(NextRead + k - 1))' = Script(NextRead + k - 1)
        BY <1>6, <4>1
      <4> QED
        BY <1>4, <2>1, <3>1, <4>2 DEF Window
    <3>2. CASE k = Len(wire["client"]) + 1
      <4>1. NextRead' + k - 1 = p
        BY <1>4, <1>5, <1>6, <3>2 DEF Window
      <4> QED
        BY <2>1, <3>2, <4>1
    <3> QED
      BY <1>5, <2>1, <3>1, <3>2
  <2> QED
    BY <2>2, <2>3 DEF Window
<1>8. ServerLocals'
  <2>1. CASE spc \in {"q", "reply"}
    BY <1>4, <1>5, <2>1 DEF ServerLocals
  <2>2. CASE spc \notin {"q", "reply"}
    BY <1>4, <2>2 DEF ServerLocals
  <2> QED
    BY <2>1, <2>2
<1> QED
  BY <1>7, <1>8 DEF InStep

LEMMA WriteCiphertextKeeps ==
  ASSUME Core, WriteCiphertext
  PROVE  Bounded' /\ InStep' /\ Genuine'
<1> USE DEF Core, inputs, server
<1>1. QBlock(ciphertext) \in Messages
  BY MessageTypes DEF TypeOK
<1>2. wire'["server"] = wire["server"] /\ wire["server"] = <<>>
  BY <1>1, WriteEffect, WireTypes DEF WriteCiphertext, Bounded, ClientEnded, InRound
<1>3. Answered' = 0 /\ Answered = 0 /\ RoundSize' = Radix
  BY <1>2 DEF WriteCiphertext, Answered, Received, RoundSize, Validating
<1>4. Bounded'
  BY <1>2, <1>3, SizesAssumption DEF WriteCiphertext, Bounded, InRound, ClientEnded
<1>5. InStep'
  <2>1. Written = -1 /\ Written' = 0 /\ QBlock(ciphertext) = Script(-1)'
    BY DEF WriteCiphertext, Written, Script
  <2> QED
    BY <1>1, <1>3, <2>1, ClientWrites DEF WriteCiphertext, InRound, ClientEnded
<1>6. Genuine'
  BY <1>2 DEF WriteCiphertext, Genuine, Known, Secret, Lost, ClientEnded, Write
<1> QED
  BY <1>4, <1>5, <1>6

\* Starting a round or sending a query changes neither what is known nor
\* which answers are on their way.
LEMMA WritesKeepKnowledge ==
  ASSUME Core, NEW m \in Messages, Write("client", m), cpc \notin ClientEnded,
         UNCHANGED <<inputs, index, raw_recovered>>
  PROVE  /\ ~Lost
         /\ wire'["server"] = wire["server"]
         /\ \A j \in Index : j > index \/ cpc = "end" => Known(j)'
         /\ RightCandidate' = RightCandidate
         /\ \A k \in Int : (Answers(Payload(k)))' = Answers(Payload(k))
         /\ \A k \in Int : Payload(k)' = Payload(k)
<1> USE DEF Core, inputs
<1>1. link["client"] # "dead" /\ wire'["server"] = wire["server"]
  BY WriteEffect, WireTypes
<1>2. ~Lost
  BY <1>1 DEF Lost
<1>3. RightCandidate' = RightCandidate /\ \A j \in Index : Known(j)' <=> Known(j)
  BY DEF RightCandidate, Known, Secret, padding_byte
<1>4. \A k \in Int : (Answers(Payload(k)))' = Answers(Payload(k))
  BY DEF Answers, Payload, padding_byte, Decrypt, ValidatePadding
<1>5. \A k \in Int : Payload(k)' = Payload(k)
  BY DEF Payload, padding_byte
<1> QED
  BY <1>1, <1>2, <1>3, <1>4, <1>5 DEF Genuine

LEMMA WriteCountKeeps ==
  ASSUME Core, WriteCount
  PROVE  Bounded' /\ InStep' /\ Genuine'
<1> USE DEF Core, inputs, server
<1>1. U16(Radix) \in Messages
  BY MessageTypes, SizesAssumption
<1>2. wire'["server"] = wire["server"] /\ wire["server"] = <<>>
  BY <1>1, WriteEffect, WireTypes DEF WriteCount, Bounded, ClientEnded, InRound
<1>3. Answered' = 0 /\ Answered = 0 /\ RoundSize' = Radix
  BY <1>2 DEF WriteCount, Answered, Received, RoundSize, Validating
<1>4. Bounded'
  BY <1>2, <1>3, SizesAssumption DEF WriteCount, Bounded, InRound, ClientEnded
<1>5. InStep'
  <2>1. Written = 0 /\ Written' = 1
    BY DEF WriteCount, Written
  <2>2. U16(Radix) = Script(0)'
    BY <1>3 DEF Script
  <2>3. \A r \in Int : -1 <= r /\ r < Written => Script(r)' = Script(r)
    BY <2>1 DEF Script, WriteCount
  <2> QED
    BY <1>1, <1>3, <2>1, <2>2, <2>3, ClientWrites DEF WriteCount, InRound, ClientEnded
<1>6. Genuine'
  BY <1>1, <1>2, WritesKeepKnowledge DEF WriteCount, Genuine, ClientEnded
<1> QED
  BY <1>4, <1>5, <1>6

LEMMA WriteCandidateKeeps ==
  ASSUME Core, WriteCandidate
  PROVE  Bounded' /\ InStep' /\ Genuine'
<1> USE DEF Core, inputs, server
<1>1. QBlock(Payload(candidate)) \in Messages
  <2>1. candidate \in Byte
    BY SizesAssumption DEF WriteCandidate, Bounded, TypeOK, Byte, ClientEnded
  <2> QED
    BY <2>1, MessageTypes, QueriesAreBlocks
<1>2. wire'["server"] = wire["server"]
  BY <1>1, WriteEffect, WireTypes DEF WriteCandidate
<1>3. Received' = 0 /\ Received = 0 /\ RoundSize' = Radix /\ RoundSize = Radix
      /\ Answered' = Answered
  BY <1>2 DEF WriteCandidate, Answered, Received, RoundSize, Validating, Bounded,
              ClientEnded
<1>4. Bounded'
  BY <1>3, CountsAreNaturals, SizesAssumption
  DEF WriteCandidate, Bounded, InRound, ClientEnded, TypeOK
<1>5. \A k \in Int : Query(k)' = Payload(k) /\ Query(k) = Payload(k)
  BY <1>1, WritesKeepKnowledge DEF WriteCandidate, Query, Validating, ClientEnded
<1>6. InStep'
  <2>1. Written = candidate + 1 /\ Written' = Written + 1
    BY CountsAreNaturals, SizesAssumption DEF WriteCandidate, Written
  <2>2. PICK p \in Int : p = Written
    BY CountsAreNaturals
  <2>3. QBlock(Payload(candidate)) = Script(p)'
    <3>1. p # -1 /\ p # 0 /\ p - 1 = candidate
      BY <2>1, <2>2, CountsAreNaturals
    <3>2. Query(p - 1)' = Payload(p - 1)
      BY <1>5, <3>1, CountsAreNaturals
    <3> QED
      BY <3>1, <3>2 DEF Script
  <2>4. \A r \in Int : Script(r)' = Script(r)
    BY <1>3, <1>5 DEF Script, WriteCandidate
  <2> QED
    <3>1. spc = "ciphertext" => cpc' \in {"count", "send", "recv"}
      BY DEF WriteCandidate
    <3>2. InRound /\ InRound' /\ cpc \notin ClientEnded
      BY DEF WriteCandidate, InRound, ClientEnded
    <3>3. UNCHANGED <<inputs, server>> /\ Write("client", QBlock(Payload(candidate)))
      BY DEF WriteCandidate
    <3>4. \A k \in Nat : Query(k)' = Query(k)
      BY <1>5
    <3>5. CASE Connected
      <4>1. spc = "count" => Answered \in {0, RoundSize'}
        BY <1>3, <3>5 DEF InStep, ServerLocals
      <4> QED
        BY <1>1, <1>3, <2>1, <2>3, <2>4, <2>2, <3>1, <3>2, <3>3, <3>4, <4>1, ClientWrites
    <3>6. Connected' => Connected
      BY <1>1, <3>2, <3>3, WriteEffect, WireTypes DEF Connected
    <3> QED
      BY <3>5, <3>6 DEF InStep
<1>7. Genuine'
  <2>1. ~Lost /\ \A j \in Index : j > index => Known(j)'
    BY <1>1, WritesKeepKnowledge DEF WriteCandidate, ClientEnded
  <2>2. ASSUME NEW k \in 1 .. Len(wire'["server"])
        PROVE  \E v \in (Answers(Query(Received + k - 1)))' : wire'["server"][k] = U8(v)
    <3>1. k - 1 \in Int /\ Received + k - 1 = k - 1 /\ Received' + k - 1 = k - 1
      BY <1>3
    <3>2. (Answers(Query(Received + k - 1)))' = Answers(Query(Received + k - 1))
      BY <1>5, <3>1 DEF WriteCandidate, Answers, Decrypt, ValidatePadding
    <3> QED
      BY <1>2, <2>1, <3>2 DEF Genuine, WriteCandidate, ClientEnded
  <2>3. responses' = <<>> /\ index' = index /\ cpc' \in {"send", "recv"}
    BY DEF WriteCandidate, Bounded, ClientEnded
  <2> QED
    BY <2>1, <2>2, <2>3 DEF Genuine
<1> QED
  BY <1>4, <1>6, <1>7

LEMMA WriteValidatorCountKeeps ==
  ASSUME Core, WriteValidatorCount
  PROVE  Bounded' /\ InStep' /\ Genuine'
<1> USE DEF Core, inputs, server
<1>1. U16(1) \in Messages
  BY MessageTypes, SizesAssumption
<1>2. wire'["server"] = wire["server"] /\ wire["server"] = <<>>
  BY <1>1, WriteEffect, WireTypes DEF WriteValidatorCount, Bounded, ClientEnded, InRound
<1>3. Answered' = 0 /\ Answered = 0 /\ RoundSize' = 1
  BY <1>2 DEF WriteValidatorCount, Answered, Received, RoundSize, Validating
<1>4. Bounded'
  BY <1>2, <1>3 DEF WriteValidatorCount, Bounded, InRound, ClientEnded
<1>5. InStep'
  <2>1. Written = 0 /\ Written' = 1
    BY DEF WriteValidatorCount, Written
  <2>2. U16(1) = Script(0)'
    BY <1>3 DEF Script
  <2>3. \A r \in Int : -1 <= r /\ r < Written => Script(r)' = Script(r)
    BY <2>1 DEF Script, WriteValidatorCount
  <2>4. Connected => spc # "ciphertext"
    BY DEF InStep, ServerLocals, WriteValidatorCount
  <2>5. Connected' => Connected
    BY <1>1, WriteEffect, WireTypes DEF Connected, WriteValidatorCount, ClientEnded
  <2>6. CASE Connected
    BY <1>1, <1>3, <2>1, <2>2, <2>3, <2>4, <2>6, ClientWrites
    DEF WriteValidatorCount, InRound, ClientEnded
  <2> QED
    BY <2>5, <2>6 DEF InStep
<1>6. Genuine'
  BY <1>1, <1>2, WritesKeepKnowledge DEF WriteValidatorCount, Genuine, ClientEnded
<1> QED
  BY <1>4, <1>5, <1>6

LEMMA WriteValidatorKeeps ==
  ASSUME Core, WriteValidator
  PROVE  Bounded' /\ InStep' /\ Genuine'
<1> USE DEF Core, inputs, server
<1>1. QBlock(Validator(candidate)) \in Messages
  <2>1. candidate \in Byte
    BY SizesAssumption DEF WriteValidator, Bounded, TypeOK, Byte, ClientEnded
  <2> QED
    BY <2>1, MessageTypes, QueriesAreBlocks
<1>2. wire'["server"] = wire["server"]
  BY <1>1, WriteEffect, WireTypes DEF WriteValidator
<1>3. Received' = 0 /\ Received = 0 /\ RoundSize' = 1 /\ RoundSize = 1
      /\ Answered' = Answered
  BY <1>2 DEF WriteValidator, Answered, Received, RoundSize, Validating
<1>4. Bounded'
  BY <1>3 DEF WriteValidator, Bounded, InRound, ClientEnded
<1>5. \A k \in Int : Query(k)' = Validator(candidate) /\ Query(k) = Validator(candidate)
  BY DEF WriteValidator, Query, Validating, Validator
<1>6. InStep'
  <2>1. Written = 1 /\ Written' = 2
    BY DEF WriteValidator, Written
  <2>2. QBlock(Validator(candidate)) = Script(1)'
    BY <1>5 DEF Script
  <2>3. \A r \in Int : Script(r)' = Script(r)
    BY <1>3, <1>5 DEF Script, WriteValidator
  <2>4. Connected => spc # "ciphertext"
    BY DEF InStep, ServerLocals, WriteValidator
  <2>5. Connected' => Connected
    BY <1>1, WriteEffect, WireTypes DEF Connected, WriteValidator, ClientEnded
  <2>6. CASE Connected
    BY <1>1, <1>3, <1>5, <2>1, <2>2, <2>3, <2>4, <2>6, ClientWrites
    DEF WriteValidator, InRound, ClientEnded, InStep, ServerLocals
  <2> QED
    BY <2>5, <2>6 DEF InStep
<1>7. Genuine'
  <2>1. (Answers(Validator(candidate)))' = Answers(Validator(candidate))
    BY DEF WriteValidator, Answers, Validator, Decrypt, ValidatePadding
  <2> QED
    BY <1>1, <1>2, <1>3, <1>5, <2>1, WritesKeepKnowledge
    DEF WriteValidator, Genuine, ClientEnded
<1> QED
  BY <1>4, <1>6, <1>7

LEMMA WriteEndKeeps ==
  ASSUME Core, WriteEnd
  PROVE  Bounded' /\ InStep' /\ Genuine'
<1> USE DEF Core, inputs, server
<1>1. U16(0) \in Messages
  BY MessageTypes, SizesAssumption
<1>2. wire'["server"] = wire["server"] /\ wire["server"] = <<>>
  BY <1>1, WriteEffect, WireTypes DEF WriteEnd, Bounded, ClientEnded, InRound
<1>3. Answered' = 0 /\ Answered = 0 /\ RoundSize' = 0
  BY <1>2 DEF WriteEnd, Answered, Received, RoundSize
<1>4. Bounded'
  BY <1>2, <1>3 DEF WriteEnd, Bounded, InRound, ClientEnded
<1>5. InStep'
  <2>1. Written = 0 /\ Written' = 1
    BY DEF WriteEnd, Written
  <2>2. U16(0) = Script(0)'
    BY <1>3 DEF Script
  <2>3. \A r \in Int : -1 <= r /\ r < Written => Script(r)' = Script(r)
    BY <2>1 DEF Script, WriteEnd
  <2>4. Connected => spc # "ciphertext"
    BY DEF InStep, ServerLocals, WriteEnd
  <2>5. Connected' => Connected
    BY <1>1, WriteEffect, WireTypes DEF Connected, WriteEnd, ClientEnded
  <2>6. CASE Connected
    BY <1>1, <1>3, <2>1, <2>2, <2>3, <2>4, <2>6, ClientWrites
    DEF WriteEnd, InRound, ClientEnded
  <2> QED
    BY <2>5, <2>6 DEF InStep
<1>6. Genuine'
  BY <1>1, <1>2, WritesKeepKnowledge DEF WriteEnd, Genuine, ClientEnded
<1> QED
  BY <1>4, <1>5, <1>6

\* Between rounds the server waits for a count over an empty wire.
LEMMA IdleServer ==
  ASSUME Core, Connected, cpc \in {"scan", "vcount", "end"}
  PROVE  spc = "count" /\ wire["client"] = <<>> /\ s_ciphertext = ciphertext
<1> USE DEF Core
<1>1. Window /\ ServerLocals /\ spc \in {"ciphertext", "count", "q", "reply"}
  BY DEF InStep, Connected, TypeOK, ServerAt
<1>2. spc = "count" /\ s_ciphertext = ciphertext
  BY <1>1 DEF ServerLocals, InRound
<1>3. wire["server"] = <<>> /\ Received = 0
  BY DEF Bounded, InRound, ClientEnded, Received
<1>4. Answered = 0
  BY <1>3 DEF Answered
<1>5. Len(wire["client"]) = 0
  BY <1>1, <1>2, <1>4 DEF Window, Written, NextRead
<1> QED
  BY <1>2, <1>5, WireTypes

LEMMA StaysInStep ==
  ASSUME spc' = "count", wire'["client"] = <<>>, wire'["server"] = <<>>,
         s_ciphertext' = ciphertext', cpc' \in {"scan", "vcount", "count", "end"}
  PROVE  InStep'
<1>1. Answered' = 0
  BY DEF Answered, Received
<1>2. Window'
  BY <1>1 DEF Window, Written, NextRead
<1> QED
  BY <1>1, <1>2 DEF InStep, ServerLocals

\* The round ends when its last answer is read.
LEMMA RoundEnds ==
  ASSUME Core, cpc \in {"recv", "vrecv"}, cpc' \in {"scan", "count", "end"},
         UNCHANGED <<inputs, server>>,
         Answered = RoundSize, wire'["server"] = <<>>, wire'["client"] = wire["client"],
         Connected' => Connected
  PROVE  InStep'
<1> USE DEF Core, inputs, server
<1>1. SUFFICES ASSUME Connected' PROVE InStep'
  BY DEF InStep
<1>2. Window /\ ServerLocals /\ spc \in {"ciphertext", "count", "q", "reply"}
  BY <1>1 DEF InStep, Connected, TypeOK, ServerAt
<1>3. RoundSize > 0 /\ Written = RoundSize + 1
  BY SizesAssumption DEF RoundSize, Validating, Written
<1>4. spc \notin {"q", "reply"}
  BY <1>2, CountsAreNaturals DEF ServerLocals, Bounded
<1>5. spc = "count" /\ s_ciphertext = ciphertext
  BY <1>2, <1>3, <1>4, CountsAreNaturals DEF ServerLocals
<1>6. NextRead = RoundSize + 1
  BY <1>3, <1>5, CountsAreNaturals DEF NextRead
<1>7. Len(wire["client"]) = 0
  BY <1>2, <1>3, <1>6, CountsAreNaturals DEF Window
<1>8. wire["client"] = <<>>
  BY <1>7, WireTypes
<1> QED
  BY <1>5, <1>8, StaysInStep

\* Taking the right candidate makes the byte at index known.
LEMMA FoundIsRight ==
  ASSUME TypeOK, Found, UNCHANGED inputs, candidate = RightCandidate,
         \A j \in Index : j > index => Known(j)
  PROVE  \A j \in Index : j > index' \/ cpc' = "end" => Known(j)'
<1>1. index \in Index /\ raw_recovered \in Block
  BY DEF TypeOK
<1>2. Secret' = Secret
  BY DEF Secret, inputs
<1>3. raw_recovered'[index] = Secret[index]
  BY <1>1, RightCandidateIs DEF Found, Block
<1>4. \A j \in Index : j # index => raw_recovered'[j] = raw_recovered[j]
  BY <1>1 DEF Found, Block
<1>5. \A j \in Index : j > index' \/ cpc' = "end" => j >= index
  BY <1>1, SizesAssumption DEF Found, Index
<1> QED
  BY <1>1, <1>2, <1>3, <1>4, <1>5, SizesAssumption DEF Known, Index

LEMMA RejectIsRight ==
  ASSUME TypeOK, Reject, UNCHANGED inputs, candidate \in Byte,
         candidate <= RightCandidate, candidate # RightCandidate
  PROVE  /\ candidate' <= RightCandidate' /\ index' = index
         /\ responses' = responses
         /\ \A j \in Index : Known(j)' <=> Known(j)
         /\ \A k \in Int : (Answers(Payload(k)))' = Answers(Payload(k))
<1>1. RightCandidate' = RightCandidate /\ \A j \in Index : Known(j)' <=> Known(j)
  BY DEF RightCandidate, Known, Secret, padding_byte, Reject, inputs
<1>2. \A k \in Int : (Answers(Payload(k)))' = Answers(Payload(k))
  BY DEF Answers, Payload, padding_byte, Decrypt, ValidatePadding, Reject, inputs
<1>3. candidate' <= RightCandidate
  BY RightCandidateIs, SizesAssumption DEF Reject, Byte
<1> QED
  BY <1>1, <1>2, <1>3 DEF Reject

LEMMA ScanKeeps ==
  ASSUME Core, Scan
  PROVE  Bounded' /\ InStep' /\ Genuine'
<1> USE DEF Core
<1>1. /\ cpc = "scan" /\ cpc' \in {"scan", "vcount", "count", "end"}
      /\ UNCHANGED <<inputs, server, wire, link>>
      /\ candidate \in Byte /\ wire["server"] = <<>>
  BY SizesAssumption
  DEF Scan, Found, Reject, Byte, TypeOK, Bounded, ClientEnded, InRound
<1>2. InStep'
  <2>1. SUFFICES ASSUME Connected' PROVE InStep'
    BY DEF InStep
  <2>2. Connected
    BY <1>1, <2>1 DEF Connected, server, ClientEnded
  <2> QED
    BY <1>1, <2>2, IdleServer, StaysInStep DEF server, inputs
<1>3. Answered' = 0 /\ RoundSize' = Radix /\ Radix > 0
  BY <1>1, SizesAssumption DEF Answered, Received, RoundSize, Validating
<1>4. Len(responses) = Radix /\ (candidate # candidate' => cpc' = "scan")
  BY DEF Bounded, Scan, ClientEnded, Found, Reject
<1>5. Bounded'
  <2>1. cpc' = "vcount" => index' = Last /\ candidate' < Radix
    BY <1>1, SizesAssumption DEF Scan, Found, Reject, padding_byte, Last, TypeOK, Index
  <2>2. responses' = responses
    BY DEF Scan, Found, Reject
  <2> QED
    BY <1>1, <1>3, <1>4, <2>1, <2>2 DEF Bounded, InRound, server
<1>6. Genuine'
  <2>1. SUFFICES ASSUME ~Lost PROVE Genuine'
    BY <1>1 DEF Genuine, Lost
  <2>2. /\ \A j \in Index : j > index => Known(j)
        /\ \A k \in 1 .. Len(responses) : responses[k] \in Answers(Payload(k - 1))
        /\ candidate <= RightCandidate
    BY <1>1, <2>1 DEF Genuine, ClientEnded
  <2>3. responses[candidate + 1] \in Answers(Payload(candidate))
    <3>1. candidate + 1 \in 1 .. Len(responses) /\ (candidate + 1) - 1 = candidate
      BY <1>1, <1>4, SizesAssumption DEF Byte
    <3> QED
      BY <2>2, <3>1
  <2>4. CASE responses[candidate + 1] # 1 /\ Reject
    <3>1. candidate # RightCandidate
      BY <2>2, <2>3, <2>4, RightAnswer
    <3>2. cpc' = "scan" /\ Reject
      BY <2>4 DEF Reject
    <3> QED
      BY <1>1, <2>2, <3>1, <3>2, RejectIsRight DEF Genuine
  <2>5. CASE responses[candidate + 1] = 1 /\ padding_byte # 1 /\ Found
    <3>1. index # Last
      BY <2>5, SizesAssumption DEF padding_byte, Last
    <3>2. candidate = RightCandidate
      BY <1>1, <2>2, <2>3, <2>5, <3>1, WrongAnswer
    <3>3. cpc' \in {"count", "end"}
      BY <2>5 DEF Found
    <3> QED
      BY <1>1, <2>2, <2>5, <3>2, <3>3, FoundIsRight DEF Genuine
  <2>6. CASE /\ responses[candidate + 1] = 1 /\ cpc' = "vcount"
             /\ UNCHANGED <<inputs, server, index, candidate, responses, raw_recovered, result>>
    <3>1. RightCandidate' = RightCandidate /\ \A j \in Index : Known(j)' <=> Known(j)
      BY <2>6 DEF RightCandidate, Known, Secret, padding_byte, inputs
    <3>2. \A k \in Int : (Answers(Payload(k)))' = Answers(Payload(k))
      BY <2>6 DEF Answers, Payload, padding_byte, Decrypt, ValidatePadding, inputs
    <3> QED
      BY <1>1, <2>2, <2>6, <3>1, <3>2 DEF Genuine
  <2> QED
    BY <2>4, <2>5, <2>6 DEF Scan
<1> QED
  BY <1>2, <1>5, <1>6

LEMMA ReadResponseKeeps ==
  ASSUME Core, ReadResponse
  PROVE  Bounded' /\ InStep' /\ Genuine'
<1> USE DEF Core, inputs, server
<1>1. PICK r \in {0, 1} :
        /\ Response(r)
        /\ \/ Read("client", U8(r)) \/ ReadGarbage("client")
  BY DEF ReadResponse, Verdicts, U8
<1>2. /\ cpc = "recv" /\ cpc' \in {"recv", "scan"} /\ UNCHANGED <<inputs, server>>
      /\ UNCHANGED <<index, raw_recovered>>
      /\ cpc' = "scan" <=> Len(responses') = Radix
      /\ cpc' = "scan" => candidate' = 0
      /\ wire'["client"] = wire["client"]
  BY <1>1, ReadEffect, WireTypes DEF ReadResponse, Response
<1>3. /\ responses \in Seq({0, 1}) /\ responses' \in Seq({0, 1})
      /\ Len(responses') = Len(responses) + 1
      /\ \A k \in 1 .. Len(responses) : responses'[k] = responses[k]
      /\ responses'[Len(responses) + 1] = r
  BY <1>1, AppendFacts DEF Response, TypeOK
<1>4. /\ Received = Len(responses) /\ RoundSize = Radix /\ Len(responses) < Radix
      /\ Answered <= Radix /\ Answered = Len(responses) + Len(wire["server"])
  BY <1>2 DEF Received, RoundSize, Validating, Bounded, ClientEnded, Answered
<1>5. /\ cpc' = "recv" => Received' = Len(responses) + 1
      /\ cpc' = "scan" => Received' = 0
      /\ RoundSize' = Radix
  BY <1>2, <1>3 DEF Received, RoundSize, Validating
<1>6. CASE ReadGarbage("client")
  <2>1. wire'["server"] = <<>> /\ link'["client"] = "dead" /\ wire["server"] = <<>>
    BY <1>6, ReadEffect, WireTypes
  <2>2. Bounded'
    BY <1>2, <1>3, <1>4, <1>5, <2>1, SizesAssumption
    DEF Bounded, InRound, ClientEnded, Answered
  <2> QED
    BY <1>2, <2>1, <2>2 DEF InStep, Connected, Genuine, Lost
<1>7. CASE Read("client", U8(r))
  <2>1. /\ wire["server"] # <<>> /\ link' = link /\ U8(r) = wire["server"][1]
        /\ wire'["server"] = Tail(wire["server"])
    BY <1>7, ReadEffect, WireTypes
  <2>2. /\ Len(wire'["server"]) = Len(wire["server"]) - 1
        /\ Len(wire["server"]) \in Nat \ {0}
        /\ \A k \in 1 .. Len(wire'["server"]) : wire'["server"][k] = wire["server"][k + 1]
        /\ wire'["server"] \in Seq(Messages)
    BY <2>1, WireTypes, TailFacts
  <2>3. cpc' = "scan" => Answered = Radix /\ wire'["server"] = <<>>
    <3>1. SUFFICES ASSUME cpc' = "scan"
                   PROVE  Answered = Radix /\ wire'["server"] = <<>>
      OBVIOUS
    <3>2. Len(responses) = Radix - 1
      BY <1>2, <1>3, <3>1, SizesAssumption
    <3>3. PICK n \in Nat : n = Len(wire["server"])
      BY WireTypes
    <3>4. n <= 1 /\ wire["server"] \in Seq(Messages)
      BY <1>4, <3>2, <3>3, WireTypes, SizesAssumption
    <3>5. n = 1 /\ Tail(wire["server"]) = <<>>
      BY <2>1, <3>3, <3>4, LoneMessage
    <3> QED
      BY <1>4, <2>1, <3>2, <3>3, <3>5, SizesAssumption
  <2>4. cpc' = "recv" => Answered' = Answered
    BY <1>4, <1>5, <2>2, <1>3 DEF Answered
  <2>5. Bounded'
    BY <1>2, <1>3, <1>4, <1>5, <2>3, <2>4, SizesAssumption
    DEF Bounded, InRound, ClientEnded, Answered, TypeOK
  <2>6. Connected' => Connected
    BY <1>2, <2>1 DEF Connected, ClientEnded
  <2>7. \A k \in Int : Payload(k)' = Payload(k)
                       /\ (Answers(Payload(k)))' = Answers(Payload(k))
    BY <1>2 DEF Answers, Payload, padding_byte, Decrypt, ValidatePadding
  <2>8. InStep'
    <3>1. CASE cpc' = "scan"
      BY <1>2, <1>4, <2>3, <2>6, <3>1, RoundEnds
    <3>2. CASE cpc' = "recv"
      <4>1. SUFFICES ASSUME Connected PROVE InStep'
        BY <2>6 DEF InStep
      <4>2. Window /\ ServerLocals
        BY <4>1 DEF InStep
      <4>3. /\ Written' = Written /\ NextRead' = NextRead
            /\ Answered' = Answered /\ RoundSize' = RoundSize
        BY <1>2, <1>4, <1>5, <2>4, <3>2 DEF Written, NextRead
      <4>4. \A k \in Int : Query(k)' = Query(k)
        BY <1>2, <2>7, <3>2 DEF Query, Validating
      <4>5. \A p \in Int : Script(p)' = Script(p)
        BY <1>2, <4>3, <4>4 DEF Script
      <4>6. Window'
        BY <1>2, <4>2, <4>3, <4>5, CountsAreNaturals DEF Window
      <4>7. ServerLocals'
        BY <1>2, <3>2, <4>2, <4>3, <4>4, CountsAreNaturals DEF ServerLocals, InRound
      <4> QED
        BY <4>6, <4>7 DEF InStep
    <3> QED
      BY <1>2, <3>1, <3>2
  <2>9. Genuine'
    <3>1. SUFFICES ASSUME ~Lost PROVE Genuine'
      BY <1>2, <2>1 DEF Genuine, Lost
    <3>2. /\ \A j \in Index : j > index => Known(j)
          /\ \A k \in 1 .. Len(wire["server"]) :
               \E v \in Answers(Query(Received + k - 1)) : wire["server"][k] = U8(v)
          /\ \A k \in 1 .. Len(responses) : responses[k] \in Answers(Payload(k - 1))
      BY <1>2, <3>1 DEF Genuine, ClientEnded
    <3>3. \A k \in Int : Query(k) = Payload(k) /\ (cpc' = "recv" => Query(k)' = Payload(k))
      BY <1>2, <2>7 DEF Query, Validating
    <3>4. r \in Answers(Payload(Len(responses)))
      <4>1. PICK v \in Answers(Query(Received + 1 - 1)) : wire["server"][1] = U8(v)
        BY <2>2, <3>2
      <4>2. Received + 1 - 1 = Len(responses)
        BY <1>3, <1>4
      <4>3. v = r
        BY <2>1, <4>1 DEF U8
      <4> QED
        BY <1>3, <3>3, <4>1, <4>2, <4>3
    <3>5. \A k \in 1 .. Len(responses') : responses'[k] \in (Answers(Payload(k - 1)))'
      <4>1. SUFFICES ASSUME NEW k \in 1 .. Len(responses')
                     PROVE  responses'[k] \in Answers(Payload(k - 1))
        BY <1>3, <2>7
      <4>2. CASE k \in 1 .. Len(responses)
        BY <1>3, <3>2, <4>2
      <4>3. CASE k = Len(responses) + 1
        <5>1. k - 1 = Len(responses)
          BY <1>3, <4>3
        <5> QED
          BY <1>3, <3>4, <4>3, <5>1
      <4> QED
        BY <1>3, <4>2, <4>3
    <3>6. ASSUME NEW k \in 1 .. Len(wire'["server"])
          PROVE  \E v \in (Answers(Query(Received + k - 1)))' : wire'["server"][k] = U8(v)
      <4>1. cpc' = "recv"
        BY <1>2, <2>3
      <4>2. /\ k + 1 \in 1 .. Len(wire["server"])
            /\ Received + (k + 1) - 1 = Len(responses) + k
            /\ Received' + k - 1 = Len(responses) + k
            /\ Len(responses) + k \in Int
        BY <1>3, <1>4, <1>5, <2>2, <4>1
      <4>3. PICK v \in Answers(Query(Received + (k + 1) - 1)) : wire["server"][k + 1] = U8(v)
        BY <3>2, <4>2
      <4>4. v \in Answers(Payload(Len(responses) + k))
        BY <3>3, <4>2, <4>3
      <4>5. (Answers(Query(Received + k - 1)))' = Answers(Payload(Len(responses) + k))
        BY <1>2, <3>3, <4>1, <4>2 DEF Answers, Decrypt, ValidatePadding
      <4> QED
        BY <2>2, <4>3, <4>4, <4>5
    <3>7. \A j \in Index : Known(j)' <=> Known(j)
      BY <1>2 DEF Known, Secret
    <3>8. RightCandidate' = RightCandidate /\ 0 <= RightCandidate
      BY <1>2, RightCandidateIs, SizesAssumption
      DEF RightCandidate, Secret, padding_byte, Byte
    <3> QED
      BY <1>2, <3>2, <3>5, <3>6, <3>7, <3>8 DEF Genuine
  <2> QED
    BY <2>5, <2>8, <2>9
<1> QED
  BY <1>1, <1>6, <1>7

LEMMA ReadVerdictKeeps ==
  ASSUME Core, ReadVerdict
  PROVE  Bounded' /\ InStep' /\ Genuine'
<1> USE DEF Core, inputs, server
<1>1. PICK v \in {0, 1} :
        /\ Verdict(v)
        /\ \/ Read("client", U8(v)) \/ ReadGarbage("client")
  BY DEF ReadVerdict, Verdicts, U8
<1>2. /\ cpc = "vrecv" /\ cpc' \in {"scan", "count", "end"} /\ UNCHANGED <<inputs, server>>
      /\ wire'["client"] = wire["client"] /\ responses' = responses
      /\ Len(responses) = Radix /\ index = Last /\ candidate \in Byte
  BY <1>1, ReadEffect, WireTypes, SizesAssumption
  DEF ReadVerdict, Verdict, Found, Reject, Bounded, ClientEnded, TypeOK, Byte
<1>3. Received = 0 /\ RoundSize = 1 /\ Answered <= 1 /\ Answered = Len(wire["server"])
  BY <1>2, WireTypes
  DEF Received, RoundSize, Validating, Bounded, ClientEnded, Answered
<1>4. wire'["server"] = <<>>
  <2>1. CASE ReadGarbage("client")
    BY <2>1, ReadEffect, WireTypes
  <2>2. CASE Read("client", U8(v))
    <3>1. wire'["server"] = Tail(wire["server"]) /\ wire["server"] # <<>>
      BY <2>2, ReadEffect, WireTypes
    <3>2. wire["server"] \in Seq(Messages)
      BY WireTypes
    <3>3. PICK n \in Nat : n = Len(wire["server"])
      BY WireTypes
    <3> QED
      BY <1>3, <3>1, <3>2, <3>3, LoneMessage
  <2> QED
    BY <1>1, <2>1, <2>2
<1>5. Bounded'
  <2>1. Answered' = 0 /\ RoundSize' = Radix /\ Radix > 0
    BY <1>2, <1>4, SizesAssumption DEF Answered, Received, RoundSize, Validating
  <2> QED
    BY <1>2, <1>4, <2>1 DEF Bounded, InRound
<1>6. CASE ReadGarbage("client")
  BY <1>2, <1>5, <1>6, ReadEffect, WireTypes DEF InStep, Connected, Genuine, Lost
<1>7. CASE Read("client", U8(v))
  <2>1. /\ wire["server"] # <<>> /\ link' = link /\ U8(v) = wire["server"][1]
    BY <1>7, ReadEffect, WireTypes
  <2>2. Len(wire["server"]) = 1
    <3>1. wire["server"] \in Seq(Messages)
      BY WireTypes
    <3>2. PICK n \in Nat : n = Len(wire["server"])
      BY WireTypes
    <3> QED
      BY <1>3, <2>1, <3>1, <3>2, LoneMessage
  <2>3. InStep'
    <3>1. Connected' => Connected
      BY <1>2, <2>1 DEF Connected, ClientEnded
    <3> QED
      BY <1>2, <1>3, <1>4, <2>2, <3>1, RoundEnds
  <2>4. Genuine'
    <3>1. SUFFICES ASSUME ~Lost PROVE Genuine'
      BY <1>2, <2>1 DEF Genuine, Lost
    <3>2. /\ \A j \in Index : j > index => Known(j)
          /\ \A k \in 1 .. Len(wire["server"]) :
               \E w \in Answers(Query(Received + k - 1)) : wire["server"][k] = U8(w)
          /\ \A k \in 1 .. Len(responses) : responses[k] \in Answers(Payload(k - 1))
          /\ candidate <= RightCandidate /\ responses[candidate + 1] = 1
      BY <1>2, <3>1 DEF Genuine, ClientEnded
    <3>3. v \in Answers(Validator(candidate))
      <4>1. PICK w \in Answers(Query(Received + 1 - 1)) : wire["server"][1] = U8(w)
        BY <2>2, <3>2
      <4>2. w = v
        BY <2>1, <4>1 DEF U8
      <4> QED
        BY <1>2, <4>1, <4>2 DEF Query, Validating
    <3>4. 1 \in Answers(Payload(candidate))
      <4>1. candidate + 1 \in 1 .. Len(responses) /\ (candidate + 1) - 1 = candidate
        BY <1>2, SizesAssumption DEF Byte
      <4> QED
        BY <3>2, <4>1
    <3>5. CASE v # 0 /\ Found
      <4>1. candidate = RightCandidate
        BY <1>2, <3>3, <3>4, <3>5, WrongVerdict
      <4>2. cpc' \in {"count", "end"}
        BY <3>5 DEF Found
      <4> QED
        BY <1>2, <1>4, <3>2, <3>5, <4>1, <4>2, FoundIsRight DEF Genuine
    <3>6. CASE v = 0 /\ Reject
      <4>1. candidate # RightCandidate
        BY <1>2, <3>3, <3>6, RightVerdict
      <4>2. cpc' = "scan"
        BY <3>6 DEF Reject
      <4> QED
        BY <1>2, <1>4, <3>2, <3>6, <4>1, <4>2, RejectIsRight DEF Genuine
    <3> QED
      BY <1>1, <3>5, <3>6 DEF Verdict
  <2> QED
    BY <1>5, <2>3, <2>4
<1> QED
  BY <1>1, <1>6, <1>7

LEMMA ClientStopKeeps ==
  ASSUME Core, cpc' \in ClientEnded, UNCHANGED server
  PROVE  Bounded' /\ InStep' /\ Genuine'
BY DEF Core, Bounded, InStep, Connected, Genuine, server

-----------------------------------------------------------------------------
(* The theorems.                                                            *)

LEMMA ConnectingIsCore ==
  ASSUME Connecting, ciphertext \in Block, prev \in Block, m_key \in Block
  PROVE  IInv
<1>1. /\ ciphertext \in Block /\ prev \in Block /\ m_key \in Block
  OBVIOUS
<1>2. Zeros \in Block /\ Last \in Index /\ 0 \in 0 .. Radix /\ <<>> \in Seq({0, 1})
      /\ <<>> \in Seq(Messages)
  BY Sizes, SizesAssumption DEF Zeros, Block
<1>3. TypeOK
  BY <1>1, <1>2 DEF Connecting, TypeOK, ClientAt, ServerAt
<1>4. cpc = "ciphertext" /\ spc = "ciphertext" /\ link["client"] = "up"
      /\ link["server"] = "up" /\ wire["client"] = <<>> /\ wire["server"] = <<>>
  BY DEF Connecting, End
<1>5. UpIsConnected
  BY <1>4 DEF UpIsConnected, Connected, ClientEnded, ServerEnded
<1>6. Answered = 0
  BY <1>4 DEF Answered, Received
<1>7. Bounded
  BY <1>4, <1>6, SizesAssumption DEF Bounded, RoundSize, Validating, InRound
<1>8. InStep
  BY <1>4, <1>6 DEF InStep, Window, ServerLocals, Written, NextRead
<1>9. Genuine
  <2>1. \A j \in Index : ~(j > index)
    BY SizesAssumption DEF Connecting, Index, Last
  <2> QED
    BY <1>4, <2>1 DEF Genuine
<1> QED
  BY <1>3, <1>4, <1>5, <1>7, <1>8, <1>9 DEF IInv, RecoveredIsRight, NotFoundOnlyOnLoss

LEMMA InitIsCore ==
  ASSUME Init
  PROVE  IInv
BY InputsAssumption, ConnectingIsCore DEF Init

LEMMA StepKeepsCore ==
  ASSUME Core, [Next]_vars
  PROVE  Core'
<1>1. TypeOK' /\ UpIsConnected'
  BY StepKeepsTypes, StepKeepsConnection DEF Core
<1>2. CASE ClientNext
  <2>1. CASE Finish \/ ClientSigpipe \/ ClientThrows \/ NoneFound
    <3>1. cpc' \in ClientEnded /\ UNCHANGED server
      BY <2>1 DEF Finish, ClientSigpipe, ClientThrows, NoneFound, ClientStops, ClientEnded
    <3> QED
      BY <1>1, <3>1, ClientStopKeeps DEF Core
  <2> QED
    BY <1>2, <2>1, <1>1, WriteCiphertextKeeps, WriteCountKeeps, WriteCandidateKeeps,
       ReadResponseKeeps, ScanKeeps, WriteValidatorCountKeeps, WriteValidatorKeeps,
       ReadVerdictKeeps, WriteEndKeeps
    DEF ClientNext, Core
<1>3. CASE ServerNext
  <2>1. CASE ReadZero \/ ServerSigpipe \/ ServerThrows
    <3>1. PICK how \in ServerEnded : ServerStops(how) /\ Close("server")
      BY <2>1 DEF ReadZero, ServerSigpipe, ServerThrows, ServerEnded
    <3> QED
      BY <1>1, <3>1, ServerStopKeeps DEF Core
  <2> QED
    BY <1>1, <1>3, <2>1, ReadCiphertextKeeps, ReadCountKeeps, ReadQKeeps, ReplyKeeps
    DEF ServerNext, Core
<1>4. CASE Sever
  BY <1>1, <1>4, SeverKeeps DEF Core
<1>5. CASE KillClient
  BY <1>1, <1>5, ClientStopKeeps DEF Core, KillClient, ClientStops, ClientEnded
<1>6. CASE KillServer
  BY <1>1, <1>6, ServerStopKeeps DEF Core, KillServer, ServerEnded
<1>7. CASE Terminated \/ UNCHANGED vars
  <2>1. UNCHANGED vars
    BY <1>7 DEF Terminated
  <2>2. Bounded' /\ Genuine'
    <3>1. wire["server"] \in Prefixes(wire["server"])
      BY WireTypes DEF Core, Prefixes
    <3> QED
      BY <2>1, <3>1, FewerAnswers DEF Core, vars, server, Bounded
  <2>3. InStep'
    <3>1. Answered' = Answered /\ RoundSize' = RoundSize /\ Written' = Written
      BY <2>1 DEF vars, client, Answered, Received, RoundSize, Validating, Written
    <3>2. NextRead' = NextRead /\ (Connected' => Connected)
      BY <2>1, <3>1 DEF vars, client, server, NextRead, Connected
    <3>3. \A k \in Int : Query(k)' = Query(k) /\ Script(k)' = Script(k)
      BY <2>1, <3>1
      DEF vars, inputs, client, Script, Query, Validating, Payload, Validator, padding_byte
    <3>4. Window => Window'
      <4>1. wire' = wire /\ NextRead \in Int /\ Len(wire["client"]) \in Nat
        BY <2>1, CountsAreNaturals, WireTypes DEF Core, vars
      <4>2. SUFFICES ASSUME Window PROVE Window'
        OBVIOUS
      <4>3. ASSUME NEW k \in 1 .. Len(wire["client"])
            PROVE  wire["client"][k] = (Script(NextRead + k - 1))'
        BY <3>2, <3>3, <4>1, <4>2 DEF Window
      <4> QED
        BY <3>1, <3>2, <4>1, <4>2, <4>3 DEF Window
    <3>5. ServerLocals => ServerLocals'
      BY <2>1, <3>1, <3>3, CountsAreNaturals
      DEF Core, vars, inputs, client, server, ServerLocals, InRound
    <3> QED
      BY <3>2, <3>4, <3>5 DEF Core, InStep
  <2> QED
    BY <1>1, <2>2, <2>3 DEF Core
<1> QED
  BY <1>2, <1>3, <1>4, <1>5, <1>6, <1>7 DEF Next

\* A block is returned only from a client that knows every byte, and the
\* search fails only when the right candidate is above every candidate.
LEMMA StepKeepsResults ==
  ASSUME IInv, [Next]_vars
  PROVE  RecoveredIsRight' /\ NotFoundOnlyOnLoss'
<1> USE DEF IInv, inputs, server, client
<1>1. TypeOK /\ Bounded /\ Genuine /\ RecoveredIsRight /\ NotFoundOnlyOnLoss
  OBVIOUS
<1>2. Secret' = Secret /\ prev' = prev
  <2>1. UNCHANGED inputs
    BY ClientStepEffect, ServerStepEffect
    DEF Next, Sever, KillClient, KillServer, ClientStops, ServerStops, Terminated, vars
  <2> QED
    BY <2>1 DEF Secret
<1>3. CASE Finish
  <2>1. \A j \in Index : Known(j)
    BY <1>3 DEF Finish, Genuine, Lost, ClientEnded
  <2> QED
    BY <1>2, <1>3, <2>1 DEF Finish, RecoveredIsRight, NotFoundOnlyOnLoss, Known
<1>4. CASE NoneFound
  <2>1. Lost
    <3>1. ~(candidate <= RightCandidate)
      BY <1>4, RightCandidateIs, SizesAssumption DEF NoneFound, Byte
    <3> QED
      BY <1>4, <3>1 DEF NoneFound, Genuine, ClientEnded
  <2>2. link'["client"] = link["client"]
    BY <1>4, CloseEffect, WireTypes DEF NoneFound, ClientStops
  <2> QED
    BY <1>4, <2>1, <2>2
    DEF NoneFound, ClientStops, RecoveredIsRight, NotFoundOnlyOnLoss, Lost
<1>5. CASE cpc' = cpc /\ result' = result
           /\ (link["client"] = "dead" => link'["client"] = "dead")
  BY <1>2, <1>5 DEF RecoveredIsRight, NotFoundOnlyOnLoss
<1>6. CASE cpc' \notin {"done", "not_found"}
  BY <1>6 DEF RecoveredIsRight, NotFoundOnlyOnLoss
<1>7. CASE ClientNext /\ ~Finish /\ ~NoneFound
  BY <1>6, <1>7, ClientStepEffect
  DEF ClientNext, ClientSigpipe, ClientThrows, ClientStops, WriteCiphertext, WriteCount,
      WriteCandidate, ReadResponse, Response, Scan, Found, Reject, WriteValidatorCount,
      WriteValidator, ReadVerdict, Verdict, WriteEnd
<1>8. CASE ServerNext
  BY <1>5, <1>8, ServerStepEffect, CloseEffect, WireTypes
<1>9. CASE Sever
  BY <1>5, <1>9, WireTypes DEF Sever
<1>10. CASE KillClient
  BY <1>6, <1>10 DEF KillClient, ClientStops
<1>11. CASE KillServer
  BY <1>5, <1>11, CloseEffect, WireTypes DEF KillServer, ServerStops
<1>12. CASE Terminated \/ UNCHANGED vars
  BY <1>5, <1>12 DEF Terminated, vars
<1> QED
  BY <1>3, <1>4, <1>7, <1>8, <1>9, <1>10, <1>11, <1>12 DEF Next

LEMMA StepKeepsInv ==
  ASSUME IInv, [Next]_vars
  PROVE  IInv'
BY StepKeepsCore, StepKeepsResults DEF IInv, Core

\* The invariant holds in every reachable state, for every block size, byte
\* width, exclusive-or, capacity, input and set of faults.
THEOREM Invariance == Spec => []IInv
<1>1. Init => IInv
  BY InitIsCore
<1>2. IInv /\ [Next]_vars => IInv'
  BY StepKeepsInv
<1> QED
  BY <1>1, <1>2, PTL DEF Spec

\* The variables keep their types: what attack.cpp and server.cpp put on the
\* wire is what the other side's arrays and integers can hold.
THEOREM TypeCorrect == Spec => []TypeOK
<1>1. IInv => TypeOK
  BY DEF IInv
<1> QED
  BY <1>1, Invariance, PTL

\* A block that recover_block returns is right, whatever is lost, closed or
\* killed meanwhile, and whatever validate_padding reads in front of a block.
THEOREM ResultsAreRight == Spec => []RecoveredIsRight
<1>1. IInv => RecoveredIsRight
  BY DEF IInv
<1> QED
  BY <1>1, Invariance, PTL

\* recover_byte's "Failed to find any valid byte" is never thrown over
\* answers that were all received.
THEOREM SearchSucceeds == Spec => []NotFoundOnlyOnLoss
<1>1. IInv => NotFoundOnlyOnLoss
  BY DEF IInv
<1> QED
  BY <1>1, Invariance, PTL

\* The server never waits for room for an answer while it is connected, so
\* the client's habit of reading only after 256 writes cannot block both.
THEOREM NoMutualWait == Spec => []NeverWaitsForRoom
<1>1. IInv => NeverWaitsForRoom
  <2>1. SUFFICES ASSUME IInv, spc = "reply", link["server"] = "up"
                 PROVE  Len(wire["server"]) < ReplyCap
    BY DEF NeverWaitsForRoom
  <2>2. TypeOK /\ Connected
    BY <2>1 DEF IInv, UpIsConnected, ServerEnded
  <2>3. served < count /\ served = Answered /\ count \in 0 .. Radix
    BY <2>1, <2>2 DEF IInv, InStep, ServerLocals, Bounded, TypeOK
  <2> QED
    BY <2>2, <2>3, CountsAreNaturals, WireTypes, CapsAssumption DEF Answered
<1> QED
  BY <1>1, Invariance, PTL

-----------------------------------------------------------------------------
(* The framing of what the client has written.                              *)

\* The place on the wire of the next count, 0 if it cannot be there yet.
CountAt == IF spc = "ciphertext" THEN 2 ELSE IF spc = "count" THEN 1 ELSE 0

\* The blocks of the round that the server has still to read.
Expected == IF spc = "q" THEN count - served ELSE count - served - 1

\* A count among blocks, and never more blocks than were announced.  Unlike
\* Window it speaks only of what the server knows, and so stays true of what
\* is left on the wire of a client that is gone.
Framed ==
  spc \notin ServerEnded =>
    /\ \A k \in 1 .. Len(wire["client"]) :
         wire["client"][k].size = IF k = CountAt THEN "u16" ELSE "block"
    /\ CountAt \in 1 .. Len(wire["client"]) =>
         Len(wire["client"]) - CountAt <= wire["client"][CountAt].value
    /\ CountAt = 0 => Len(wire["client"]) <= Expected

\* While both are connected the script has that form.
LEMMA ScriptIsFramed ==
  ASSUME IInv, Connected
  PROVE  Framed
<1> DEFINE w == wire["client"]
<1>1. TypeOK /\ Bounded /\ Window /\ ServerLocals
  BY DEF IInv, InStep
<1>2. Written \in Int /\ NextRead \in Int /\ RoundSize \in Nat /\ Answered \in Nat
  BY <1>1, CountsAreNaturals
<1>3. cpc \notin ClientEnded /\ spc \in {"ciphertext", "count", "q", "reply"}
  BY <1>1 DEF Connected, TypeOK, ServerAt
<1>4. Written <= RoundSize + 1
  BY <1>1, <1>3, SizesAssumption DEF Written, RoundSize, Validating, Bounded, TypeOK
<1>5. Len(w) \in Nat /\ Len(w) = Written - NextRead
  BY <1>1, WireTypes DEF Window
<1>6. \A k \in 1 .. Len(w) :
        /\ NextRead + k - 1 = 0 => w[k] = U16(RoundSize)
        /\ NextRead + k - 1 # 0 => w[k].size = "block"
  <2>1. \A p \in Int : (p = 0 => Script(p) = U16(RoundSize))
                         /\ (p # 0 => Script(p).size = "block")
    BY DEF Script, QBlock
  <2>2. \A k \in 1 .. Len(w) : w[k] = Script(NextRead + k - 1) /\ NextRead + k - 1 \in Int
    BY <1>1, <1>2 DEF Window
  <2> QED
    BY <2>1, <2>2
<1>7. CASE spc = "ciphertext"
  <2>1. NextRead = -1 /\ CountAt = 2
    BY <1>7 DEF NextRead, CountAt
  <2> QED
    BY <1>2, <1>4, <1>5, <1>6, <2>1 DEF Framed, U16
<1>8. CASE spc = "count" /\ Answered = 0
  <2>1. NextRead = 0 /\ CountAt = 1
    BY <1>8 DEF NextRead, CountAt
  <2> QED
    BY <1>2, <1>4, <1>5, <1>6, <2>1 DEF Framed, U16
<1>9. CASE spc = "count" /\ Answered # 0
  <2>1. NextRead = RoundSize + 1
    BY <1>9 DEF NextRead
  <2>2. Len(w) = 0
    BY <1>2, <1>4, <1>5, <2>1
  <2> QED
    BY <1>9, <2>2 DEF Framed, CountAt
<1>10. CASE spc \in {"q", "reply"}
  <2>1. count = RoundSize /\ served \in Nat
    BY <1>1, <1>10 DEF ServerLocals, TypeOK
  <2>2. NextRead = IF spc = "q" THEN served + 1 ELSE served + 2
    BY <1>10 DEF NextRead
  <2>3. CountAt = 0 /\ Len(w) <= Expected
    BY <1>2, <1>4, <1>5, <1>10, <2>1, <2>2 DEF CountAt, Expected
  <2> QED
    BY <1>2, <1>5, <1>6, <1>10, <2>1, <2>2, <2>3 DEF Framed
<1> QED
  BY <1>3, <1>7, <1>8, <1>9, <1>10

\* Whatever cuts the connection leaves the first messages, in their order.
LEMMA PrefixIsFramed ==
  ASSUME TypeOK, Framed, UNCHANGED <<spc, count, served>>,
         wire'["client"] \in Prefixes(wire["client"])
  PROVE  Framed'
<1>1. /\ Len(wire'["client"]) \in Nat /\ Len(wire["client"]) \in Nat
      /\ Len(wire'["client"]) <= Len(wire["client"])
      /\ \A k \in 1 .. Len(wire'["client"]) : wire'["client"][k] = wire["client"][k]
  BY PrefixFacts, WireTypes
<1>2. CountAt' = CountAt /\ Expected' = Expected /\ CountAt \in {0, 1, 2}
  BY DEF CountAt, Expected
<1>3. CASE spc \in ServerEnded
  BY <1>3 DEF Framed
<1>4. CASE spc \notin ServerEnded
  <2>1. CountAt \in 1 .. Len(wire'["client"]) =>
          /\ CountAt \in 1 .. Len(wire["client"])
          /\ wire'["client"][CountAt] = wire["client"][CountAt]
    BY <1>1
  <2>2. wire["client"] \in Seq(Messages) /\ count \in Nat /\ served \in Nat
    BY WireTypes, SizesAssumption DEF TypeOK
  <2>3. CountAt \in 1 .. Len(wire["client"]) => wire["client"][CountAt].value \in Nat
    <3>1. SUFFICES ASSUME CountAt \in 1 .. Len(wire["client"])
                   PROVE  wire["client"][CountAt].value \in Nat
      OBVIOUS
    <3>2. wire["client"][CountAt] \in Messages /\ wire["client"][CountAt].size = "u16"
      BY <1>4, <2>2, <3>1 DEF Framed
    <3> QED
      BY <3>2, SizesAssumption DEF Messages, QBlocks, Counts, Verdicts, QBlock, U16, U8
  <2>4. Expected \in Int
    BY <2>2 DEF Expected
  <2>5. \A k \in 1 .. Len(wire'["client"]) :
          wire'["client"][k].size = IF k = CountAt' THEN "u16" ELSE "block"
    BY <1>1, <1>2, <1>4 DEF Framed
  <2>6. CountAt \in 1 .. Len(wire'["client"]) =>
          Len(wire'["client"]) - CountAt <= wire'["client"][CountAt].value
    <3> SUFFICES ASSUME CountAt \in 1 .. Len(wire'["client"])
                 PROVE  Len(wire'["client"]) - CountAt <= wire'["client"][CountAt].value
      OBVIOUS
    <3>1. CountAt \in 1 .. Len(wire["client"]) /\ wire'["client"][CountAt] = wire["client"][CountAt]
      BY <2>1
    <3>2. PICK v \in Nat : v = wire["client"][CountAt].value
      BY <2>3, <3>1
    <3>3. Len(wire["client"]) - CountAt <= v
      BY <1>4, <3>1, <3>2 DEF Framed
    <3>4. CountAt \in Int /\ wire'["client"][CountAt].value = v
      BY <1>2, <3>1, <3>2
    <3>5. Len(wire'["client"]) - CountAt <= v
      BY <1>1, <3>3, <3>4
    <3> QED
      BY <3>4, <3>5
  <2>7. CountAt = 0 => Len(wire'["client"]) <= Expected
    BY <1>1, <1>4, <2>4 DEF Framed
  <2> QED
    BY <1>2, <2>5, <2>6, <2>7 DEF Framed
<1> QED
  BY <1>3, <1>4

\* The server goes on to the next message as the count says.
LEMMA ServerKeepsFrames ==
  ASSUME IInv, Framed, ServerNext
  PROVE  Framed'
<1> DEFINE w == wire["client"]
<1>1. TypeOK /\ Bounded
  BY DEF IInv
<1>2. /\ w \in Seq(Messages) /\ Len(w) \in Nat /\ count \in Nat /\ served \in Nat
      /\ Peer("server") = "client" /\ "server" \in End
  BY <1>1, WireTypes, SizesAssumption DEF TypeOK
<1>3. \A m : Read("server", m) =>
        /\ m = w[1] /\ Len(w) >= 1 /\ Len(wire'["client"]) = Len(w) - 1
        /\ \A k \in 1 .. Len(w) - 1 : wire'["client"][k] = w[k + 1]
  <2>1. SUFFICES ASSUME NEW m, Read("server", m)
                 PROVE  /\ m = w[1] /\ Len(w) >= 1 /\ Len(wire'["client"]) = Len(w) - 1
                        /\ \A k \in 1 .. Len(w) - 1 : wire'["client"][k] = w[k + 1]
    OBVIOUS
  <2>2. w # <<>> /\ wire'["client"] = Tail(w) /\ m = w[1]
    BY <1>1, <1>2, <2>1, ReadEffect
  <2> QED
    BY <1>2, <2>2, TailFacts
<1>4. ReadGarbage("server") => Len(wire'["client"]) = 0
  BY <1>1, <1>2, ReadEffect
<1>5. CASE ReadCiphertext
  <2>1. spc = "ciphertext" /\ spc' = "count" /\ CountAt = 2 /\ CountAt' = 1
    BY <1>5 DEF ReadCiphertext, CountAt
  <2>2. CASE \E m \in QBlocks : Read("server", m)
    <3>1. /\ \A k \in 1 .. Len(w) : w[k].size = IF k = 2 THEN "u16" ELSE "block"
          /\ 2 \in 1 .. Len(w) => Len(w) - 2 <= w[2].value
      BY <2>1 DEF Framed, ServerEnded
    <3>2. /\ \A k \in 1 .. Len(w) - 1 : wire'["client"][k] = w[k + 1] /\ k + 1 \in 1 .. Len(w)
          /\ Len(wire'["client"]) = Len(w) - 1
      BY <1>2, <1>3, <2>2
    <3>3. \A k \in 1 .. Len(w) - 1 :
            wire'["client"][k].size = IF k = 1 THEN "u16" ELSE "block"
      BY <1>2, <3>1, <3>2
    <3>4. 1 \in 1 .. Len(w) - 1 => Len(w) - 1 - 1 <= wire'["client"][1].value
      BY <1>2, <3>1, <3>2
    <3> QED
      BY <2>1, <3>2, <3>3, <3>4 DEF Framed
  <2>3. CASE ReadGarbage("server")
    BY <1>4, <2>1, <2>3 DEF Framed
  <2> QED
    BY <1>5, <2>2, <2>3 DEF ReadCiphertext
<1>6. CASE ReadCount
  <2>1. /\ spc = "count" /\ spc' = "q" /\ CountAt = 1 /\ CountAt' = 0
        /\ Expected' = count' /\ count' \in Nat
    BY <1>6, SizesAssumption DEF ReadCount, StartRound, CountAt, Expected, Counts, U16
  <2>2. CASE \E m \in Counts : Read("server", m) /\ StartRound(m.value)
    BY <1>2, <1>3, <2>1, <2>2 DEF Framed, ServerEnded, StartRound
  <2>3. CASE ReadGarbage("server")
    BY <1>4, <2>1, <2>3 DEF Framed
  <2> QED
    BY <1>6, <2>2, <2>3 DEF ReadCount
<1>7. CASE ReadQ
  <2>1. /\ spc = "q" /\ spc' = "reply" /\ CountAt = 0 /\ CountAt' = 0
        /\ Expected' = Expected - 1 /\ Expected >= 1 /\ Expected \in Int
    BY <1>1, <1>2, <1>7 DEF ReadQ, CountAt, Expected, Bounded
  <2>2. CASE \E m \in QBlocks : Read("server", m)
    BY <1>2, <1>3, <2>1, <2>2 DEF Framed, ServerEnded
  <2>3. CASE ReadGarbage("server")
    BY <1>4, <2>1, <2>3 DEF Framed
  <2> QED
    BY <1>7, <2>2, <2>3 DEF ReadQ
<1>8. CASE Reply
  <2>1. spc = "reply" /\ served' = served + 1 /\ count' = count /\ served < count
    BY <1>1, <1>8 DEF Reply, Bounded
  <2>2. wire'["client"] = w
    <3>1. PICK v \in {0, 1} : Write("server", U8(v))
      BY <1>8 DEF Reply, ValidatePadding
    <3> QED
      BY <1>1, <1>2, <3>1, WriteEffect, MessageTypes
  <2>3. /\ CountAt = 0 /\ Expected = count - served - 1 /\ Len(w) <= Expected
        /\ \A k \in 1 .. Len(w) : w[k].size = "block"
    BY <1>2, <2>1 DEF CountAt, Expected, Framed, ServerEnded
  <2>4. CASE served' < count
    <3>1. spc' = "q" /\ CountAt' = 0 /\ Expected' = Expected
      BY <1>2, <1>8, <2>1, <2>3, <2>4 DEF Reply, CountAt, Expected
    <3> QED
      BY <1>2, <2>2, <2>3, <3>1 DEF Framed
  <2>5. CASE ~(served' < count)
    <3>1. spc' = "count" /\ Len(wire'["client"]) = 0
      BY <1>2, <1>8, <2>1, <2>2, <2>3, <2>5 DEF Reply
    <3> QED
      BY <3>1 DEF Framed, CountAt
  <2> QED
    BY <2>4, <2>5
<1>9. CASE ReadZero \/ ServerSigpipe \/ ServerThrows
  BY <1>9 DEF ReadZero, ServerSigpipe, ServerThrows, ServerStops, Framed, ServerEnded
<1> QED
  BY <1>5, <1>6, <1>7, <1>8, <1>9 DEF ServerNext

\* A client that is not connected writes nothing the server could read.
LEMMA ClientKeepsFrames ==
  ASSUME IInv, Framed, ClientNext, UpIsConnected', ~Connected'
  PROVE  Framed'
<1>1. TypeOK /\ Bounded /\ UNCHANGED <<spc, count, served>>
  BY ClientStepEffect DEF IInv, server
<1>2. CASE cpc' \in ClientEnded /\ Close("client")
  BY <1>1, <1>2, CloseEffect, PrefixIsFramed DEF End
<1>3. CASE cpc' \notin ClientEnded
  <2>1. link["client"] # "up"
    BY <1>1, <1>3, ClientStepEffect DEF UpIsConnected, IInv
  <2>2. \A m \in Messages : Write("client", m) => wire' = wire
    BY <1>1, <2>1, WriteEffect DEF End
  <2>3. candidate \in Nat /\ (cpc \in {"send", "vsend"} => candidate \in Byte)
    BY <1>1, SizesAssumption DEF Bounded, TypeOK, Byte, ClientEnded
  <2>4. \A c \in Byte : Payload(c) \in Block /\ Validator(c) \in Block
    BY <1>1, QueriesAreBlocks DEF TypeOK
  <2>5. wire'["client"] = wire["client"]
    <3>1. CASE WriteCiphertext \/ WriteCount \/ WriteValidatorCount \/ WriteEnd
      BY <1>1, <2>2, <3>1, MessageTypes, SizesAssumption
         DEF WriteCiphertext, WriteCount, WriteValidatorCount, WriteEnd, TypeOK
    <3>2. CASE WriteCandidate \/ WriteValidator
      BY <2>2, <2>3, <2>4, <3>2, MessageTypes DEF WriteCandidate, WriteValidator
    <3>3. CASE ReadResponse \/ ReadVerdict
      BY <1>1, <3>3, ReadEffect DEF ReadResponse, ReadVerdict, End
    <3>4. CASE Scan
      BY <3>4 DEF Scan
    <3>5. CASE Finish \/ ClientSigpipe \/ ClientThrows \/ NoneFound
      BY <1>3, <3>5
         DEF Finish, ClientSigpipe, ClientThrows, NoneFound, ClientStops, ClientEnded
    <3> QED
      BY <3>1, <3>2, <3>3, <3>4, <3>5 DEF ClientNext
  <2>6. wire'["client"] \in Prefixes(wire["client"])
    BY <1>1, <2>5, WireTypes DEF Prefixes
  <2> QED
    BY <1>1, <2>6, PrefixIsFramed
<1> QED
  BY <1>1, <1>2, <1>3, ClientStepEffect

LEMMA StepKeepsFrames ==
  ASSUME IInv, Framed, [Next]_vars, UpIsConnected', ~Connected'
  PROVE  Framed'
<1>1. TypeOK /\ wire["client"] \in Prefixes(wire["client"])
  BY WireTypes DEF IInv, Prefixes
<1>2. CASE UNCHANGED vars \/ Terminated
  BY <1>1, <1>2, PrefixIsFramed DEF vars, server, Terminated
<1>3. CASE ClientNext
  BY <1>3, ClientKeepsFrames
<1>4. CASE ServerNext
  BY <1>4, ServerKeepsFrames
<1>5. CASE Sever
  BY <1>1, <1>5, PrefixIsFramed DEF Sever, server, End
<1>6. CASE KillClient
  BY <1>1, <1>6, CloseEffect, PrefixIsFramed DEF KillClient, ClientStops, server, End, Peer
<1>7. CASE KillServer
  BY <1>7 DEF KillServer, ServerStops, Framed, ServerEnded
<1> QED
  BY <1>2, <1>3, <1>4, <1>5, <1>6, <1>7 DEF Next

\* Neither server.cpp nor attack.cpp ever takes a count for a block or finds
\* an answer it did not ask for, also in what a lost connection leaves.
THEOREM FramesMatch == Spec => []FramesAgree
<1>1. Init => Framed
  BY DEF Init, Connecting, Framed, CountAt, End
<1>2. IInv /\ Connected => Framed
  BY ScriptIsFramed
<1>3. IInv => UpIsConnected
  BY DEF IInv
<1>4. IInv /\ Framed /\ [Next]_vars /\ UpIsConnected' /\ ~Connected' => Framed'
  BY StepKeepsFrames
<1>5. IInv /\ Framed => FramesAgree
  <2>1. SUFFICES ASSUME IInv, Framed PROVE FramesAgree
    OBVIOUS
  <2>2. TypeOK /\ Bounded
    BY <2>1 DEF IInv
  <2>3. ASSUME wire["client"] # <<>>, spc \notin ServerEnded \cup {"reply"}
        PROVE  Head(wire["client"]).size = IF spc = "count" THEN "u16" ELSE "block"
    <3>1. Head(wire["client"]) = wire["client"][1] /\ 1 \in 1 .. Len(wire["client"])
      BY <2>2, <2>3, WireTypes, TailFacts
    <3>2. wire["client"][1].size = IF 1 = CountAt THEN "u16" ELSE "block"
      BY <2>1, <2>3, <3>1 DEF Framed
    <3> QED
      BY <3>1, <3>2 DEF CountAt
  <2>4. wire["server"] # <<>> => InRound \/ cpc \in ClientEnded
    BY <2>2 DEF Bounded
  <2> QED
    BY <2>3, <2>4 DEF FramesAgree, InRound
<1> QED
  BY <1>1, <1>2, <1>3, <1>4, <1>5, Invariance, PTL DEF Spec

-----------------------------------------------------------------------------
(* The connection implements BlockRecovery.                                 *)

LEMMA InitIsRecoveryInit ==
  ASSUME Init
  PROVE  Recovery!Init
<1>1. TypeOK
  BY InitIsCore DEF IInv
<1>2. Secret \in Block /\ prev \in Block
  <2>1. q \in Block
    BY <1>1 DEF TypeOK
  <2> QED
    BY <1>1, <2>1, DecryptIsXor DEF TypeOK
<1>3. ~Aborted /\ cpc = "ciphertext" /\ index + 1 = BlockSize
  BY SizesAssumption DEF Init, Connecting, Aborted, Lost, ClientEnded, End, Last
<1> QED
  BY <1>2, <1>3
  DEF Init, Connecting, Recovery!Init, Left, Raw, Status, Recovery!Block, Recovery!Index, Recovery!Byte,
      Recovery!Zeros, Block, Index, Byte, Zeros

\* Only the return of recover_block sets the result; the inputs never change.
LEMMA InputsStay ==
  ASSUME IInv, [Next]_vars
  PROVE  /\ Secret' = Secret /\ prev' = prev
         /\ Finish \/ result' = result
<1>1. UNCHANGED inputs
  BY ClientStepEffect, ServerStepEffect
  DEF IInv, Next, Sever, KillClient, KillServer, ClientStops, ServerStops, Terminated, vars
<1>2. Secret' = Secret /\ prev' = prev
  BY <1>1 DEF Secret, inputs
<1>3. CASE ClientNext
  BY <1>2, <1>3
  DEF ClientNext, ClientSigpipe, ClientThrows, NoneFound, ClientStops, WriteCiphertext,
      WriteCount, WriteCandidate, ReadResponse, Response, Scan, Found, Reject,
      WriteValidatorCount, WriteValidator, ReadVerdict, Verdict, WriteEnd
<1>4. CASE ~ClientNext
  BY <1>2, <1>4, ServerStepEffect
  DEF IInv, Next, Sever, KillClient, KillServer, ClientStops, ServerStops, Terminated, vars,
      client
<1> QED
  BY <1>3, <1>4

\* A call that is lost stays lost.
LEMMA AbortedStays ==
  ASSUME IInv, [Next]_vars, Aborted
  PROVE  Aborted' /\ ~Finish
<1> USE WireTypes DEF IInv, Aborted, Lost
<1>1. CASE cpc \in ClientEnded \ {"done"}
  <2>1. ~ClientNext /\ ~KillClient
    BY <1>1, ClientStepEffect DEF KillClient
  <2>2. UNCHANGED client
    BY <2>1, ServerStepEffect DEF Next, Sever, KillServer, ServerStops, Terminated, vars
  <2> QED
    BY <1>1, <2>1, <2>2 DEF client, ClientNext
<1>2. CASE Lost
  <2>1. CASE ClientNext
    <3>1. link'["client"] = "dead" /\ cpc' \notin {"close", "done"} /\ ~Finish
      <4>1. CASE Scan
        BY <1>2, <4>1 DEF Scan, Found, Reject, Finish
      <4>2. CASE ReadResponse \/ ReadVerdict
        BY <1>2, <4>2, ReadEffect
        DEF ReadResponse, Response, ReadVerdict, Verdict, Found, Reject, Finish
      <4>3. CASE ClientSigpipe \/ ClientThrows \/ NoneFound
        BY <1>2, <4>3, CloseEffect
        DEF ClientSigpipe, ClientThrows, NoneFound, ClientStops, Finish
      <4> QED
        BY <1>2, <2>1, <4>1, <4>2, <4>3
        DEF ClientNext, Write, WriteCiphertext, WriteCount, WriteCandidate, WriteEnd,
            WriteValidatorCount, WriteValidator, Finish
    <3> QED
      BY <3>1
  <2>2. CASE KillClient
    BY <1>2, <2>2 DEF KillClient, ClientStops, ClientEnded, Finish
  <2>3. CASE ServerNext \/ KillServer
    BY <1>2, <2>3, ServerStepEffect, CloseEffect DEF KillServer, ServerStops, client, Finish
  <2>4. CASE Sever
    BY <1>2, <2>4 DEF Sever, End
  <2>5. CASE Terminated \/ UNCHANGED vars
    BY <1>2, <2>5 DEF Terminated, vars, client, Finish
  <2> QED
    BY <2>1, <2>2, <2>3, <2>4, <2>5 DEF Next
<1> QED
  BY <1>1, <1>2

\* A step that takes a byte and loses nothing is RecoverByte.
LEMMA FoundRecoversByte ==
  ASSUME IInv, [Next]_vars, Found, ~Aborted, ~Aborted', cpc \in {"scan", "vrecv"},
         Genuine', Secret' = Secret, prev' = prev
  PROVE  Recovery!RecoverByte
<1>1. index \in Index /\ raw_recovered \in Block
  BY DEF IInv, TypeOK
<1>2. cpc' \in {"count", "end"} /\ (cpc' = "end" <=> index = 0)
      /\ (cpc' = "count" => index' = index - 1) /\ (cpc' = "end" => index' = index)
      /\ result' = result
  BY DEF Found
<1>3. \A j \in Index : j > index' \/ cpc' = "end" => raw_recovered'[j] = Secret[j]
  BY <1>2 DEF Genuine, Known, Aborted, ClientEnded
<1>4. raw_recovered'[index] = Secret[index]
  BY <1>1, <1>2, <1>3, SizesAssumption DEF Index
<1>5. raw_recovered' = [raw_recovered EXCEPT ![index] = Secret[index]]
  BY <1>1, <1>4 DEF Found, Block
<1>6. /\ Left = index + 1 /\ Left' = index /\ Status = "running" /\ Status' = "running"
      /\ Raw = raw_recovered /\ Raw' = raw_recovered'
  BY <1>1, <1>2, SizesAssumption DEF Left, Status, Raw, Index
<1>7. Left > 0 /\ Left' = Left - 1 /\ Left - 1 = index
  BY <1>1, <1>6, SizesAssumption DEF Index
<1> QED
  BY <1>2, <1>5, <1>6, <1>7 DEF Recovery!RecoverByte

LEMMA StepImplementsRecovery ==
  ASSUME IInv, [Next]_vars
  PROVE  [Recovery!Next]_(Recovery!vars)
<1> SUFFICES Recovery!RecoverByte \/ Recovery!Return \/ Recovery!Abort
             \/ UNCHANGED Recovery!vars
  BY DEF Recovery!Next
<1>1. Secret' = Secret /\ prev' = prev /\ (Finish \/ result' = result)
  BY InputsStay
<1>2. TypeOK /\ IInv'
  BY StepKeepsCore, StepKeepsResults DEF IInv, Core
<1>3. CASE Aborted
  BY <1>1, <1>3, AbortedStays DEF Recovery!vars, Left, Raw, Status
<1>4. CASE ~Aborted /\ Aborted'
  <2>1. ~Finish
    BY <1>4 DEF Aborted, Lost, Finish, ClientEnded
  <2>2. cpc # "done"
    <3>1. SUFFICES ASSUME cpc = "done" PROVE ~Aborted'
      BY <1>4
    <3>2. ~ClientNext /\ ~KillClient
      BY <1>2, <3>1, ClientStepEffect DEF KillClient, ClientEnded, IInv
    <3>3. UNCHANGED client
      BY <1>2, <3>2, ServerStepEffect
      DEF Next, Sever, KillServer, ServerStops, Terminated, vars
    <3> QED
      BY <3>1, <3>3 DEF client, Aborted, Lost
  <2> QED
    BY <1>1, <1>4, <2>1, <2>2 DEF Recovery!Abort, Left, Raw, Status, Recovery!Zeros, Zeros,
       Recovery!Index, Index
<1>5. CASE ~Aborted /\ ~Aborted'
  <2>1. CASE Finish
    <3>1. /\ Left = 0 /\ Left' = 0 /\ Status = "running" /\ Status' = "returned"
          /\ Raw = raw_recovered /\ Raw' = raw_recovered
      BY <1>5, <2>1 DEF Finish, Left, Raw, Status
    <3> QED
      BY <1>1, <2>1, <3>1 DEF Finish, Recovery!Return, Recovery!Index, Index
  <2>2. CASE Found /\ (Scan \/ ReadVerdict)
    BY <1>1, <1>2, <1>5, <2>2, FoundRecoversByte DEF Scan, ReadVerdict, IInv
  <2>3. CASE /\ UNCHANGED <<index, raw_recovered, result>>
             /\ (cpc = "done") <=> (cpc' = "done")
             /\ (cpc \in {"end", "close", "done"}) <=> (cpc' \in {"end", "close", "done"})
    BY <1>1, <1>5, <2>3 DEF Recovery!vars, Left, Raw, Status
  <2>4. CASE ClientNext /\ ~Finish
    <3>1. CASE Found /\ (Scan \/ ReadVerdict)
      BY <2>2, <3>1
    <3>2. CASE ~(Found /\ (Scan \/ ReadVerdict))
      BY <1>5, <2>3, <2>4, <3>2
      DEF ClientNext, ClientSigpipe, ClientThrows, NoneFound, ClientStops, WriteCiphertext,
          WriteCount, WriteCandidate, ReadResponse, Response, Scan, Reject, Aborted,
          WriteValidatorCount, WriteValidator, ReadVerdict, Verdict, WriteEnd, ClientEnded
    <3> QED
      BY <3>1, <3>2
  <2>5. CASE ServerNext \/ Sever \/ KillServer \/ Terminated \/ UNCHANGED vars
    <3>1. UNCHANGED client
      BY <1>2, <2>5, ServerStepEffect DEF Sever, KillServer, ServerStops, Terminated, vars
    <3> QED
      BY <2>3, <3>1 DEF client
  <2>6. CASE KillClient
    BY <1>5, <2>6 DEF KillClient, ClientStops, Aborted, ClientEnded
  <2> QED
    BY <2>1, <2>4, <2>5, <2>6 DEF Next
<1> QED
  BY <1>3, <1>4, <1>5

\* Every execution of a connection is one of recover_block's contract: bytes
\* become known from the last to the first, each right, and a block is
\* returned when all are known or the call is aborted.
THEOREM Refinement == Spec => ImplementsRecovery
<1>1. Init => Recovery!Init
  BY InitIsRecoveryInit
<1>2. IInv /\ [Next]_vars => [Recovery!Next]_(Recovery!vars)
  BY StepImplementsRecovery
<1> QED
  BY <1>1, <1>2, Invariance, PTL DEF Spec, ImplementsRecovery, Recovery!Spec

-----------------------------------------------------------------------------
(* The whole text.  Every connection of the attack keeps the invariant of a *)
(* connection, so that every block is recovered rightly, and the text of    *)
(* all of them.                                                             *)


\* The state of the attack between the blocks: the connection is to the block
\* at i, and what was recovered is what lies in front of it.
Position ==
  /\ text \in Seq(Byte) /\ iv \in Block /\ m_key \in Block
  /\ i \in Nat /\ i % BlockSize = 0 /\ i <= Len(text)
  /\ at \in {"start", "block", "returned", "threw"}
  /\ at = "start" => i = 0
  /\ cleartext \in Seq(Byte)
  /\ at = "block" =>
       /\ i + BlockSize <= Len(text) /\ Len(text) % BlockSize = 0
       /\ ciphertext = BlockAt(i)
       /\ prev = IF i = 0 THEN iv ELSE BlockAt(i - BlockSize)

AttackInv == IInv /\ Position /\ ClearIsRight

\* A connection that has just been made.
NewConnection == Connecting /\ ciphertext \in Block /\ prev \in Block /\ m_key \in Block

LEMMA NewIsInv == NewConnection => IInv
BY ConnectingIsCore DEF NewConnection

LEMMA ConnectionKeepsInputs ==
  ASSUME [Next]_vars
  PROVE  UNCHANGED inputs
BY DEF Next, ClientNext, ServerNext, WriteCiphertext, WriteCount, WriteCandidate,
       ReadResponse, Response, Scan, Reject, Found, WriteValidatorCount, WriteValidator,
       ReadVerdict, Verdict, WriteEnd, Finish, ClientSigpipe, ClientThrows, NoneFound,
       ClientStops, ReadCiphertext, ReadCount, StartRound, ReadZero, ServerStops, ReadQ,
       Reply, ServerSigpipe, ServerThrows, Sever, KillClient, KillServer, Terminated, vars

LEMMA BlockIsBlock ==
  ASSUME text \in Seq(Byte), NEW k \in Nat, k + BlockSize <= Len(text)
  PROVE  BlockAt(k) \in Block
BY SizesAssumption DEF BlockAt, Block, Index

LEMMA BeginIsMultiple ==
  ASSUME NEW a \in Nat, a % BlockSize = 0
  PROVE  \E x \in Nat : a = BlockSize * x
<1>1. a \div BlockSize \in Nat /\ a = BlockSize * (a \div BlockSize)
  BY SizesAssumption, SMT
<1> QED
  BY <1>1

\* Two beginnings of blocks are the same or a block apart.
LEMMA BlocksApart ==
  ASSUME NEW a \in Nat, NEW b \in Nat, a % BlockSize = 0, b % BlockSize = 0, a < b
  PROVE  a + BlockSize <= b
<1>1. PICK x \in Nat : a = BlockSize * x
  BY BeginIsMultiple
<1>2. PICK y \in Nat : b = BlockSize * y
  BY BeginIsMultiple
<1>3. x + 1 <= y
  BY <1>1, <1>2, SizesAssumption
<1>4. BlockSize * (x + 1) <= BlockSize * y
  BY <1>3, SizesAssumption
<1> QED
  BY <1>1, <1>2, <1>4, SizesAssumption

LEMMA NextBegins ==
  ASSUME NEW a \in Nat, a % BlockSize = 0
  PROVE  (a + BlockSize) % BlockSize = 0
<1>1. PICK x \in Nat : a = BlockSize * x
  BY BeginIsMultiple
<1>2. a + BlockSize = BlockSize * (x + 1)
  BY <1>1, SizesAssumption
<1>3. ASSUME NEW z \in Nat PROVE (BlockSize * z) % BlockSize = 0
  BY SizesAssumption, SMT
<1> QED
  BY <1>2, <1>3

\* A block that is recovered is the one that was encrypted.
LEMMA ResultIsClear ==
  ASSUME AttackInv, BlockRecovered, NEW j \in Index
  PROVE  result[j] = Cleartext(i, j) /\ result \in Block
<1>1. /\ RecoveredIsRight /\ cpc = "done" /\ at = "block"
      /\ result \in Block
      /\ ciphertext = BlockAt(i)
      /\ prev = IF i = 0 THEN iv ELSE BlockAt(i - BlockSize)
  BY DEF AttackInv, IInv, Position, BlockRecovered, TypeOK
<1> QED
  BY <1>1 DEF RecoveredIsRight, Secret, Cleartext

\* What a finished block adds to the text.
LEMMA BlockExtends ==
  ASSUME AttackInv, BlockRecovered,
         cleartext' = cleartext \o Bytes(result), i' = i + BlockSize,
         UNCHANGED <<m_key, text, iv>>
  PROVE  /\ cleartext' \in Seq(Byte) /\ Len(cleartext') = i'
         /\ \A k \in 0 .. i', j \in Index :
              k % BlockSize = 0 /\ k + j < i' => cleartext'[k + j + 1] = Cleartext(k, j)'
<1>1. /\ Len(cleartext) = i /\ i \in Nat /\ BlockSize \in Nat /\ i % BlockSize = 0
      /\ BlockSize > 0 /\ cleartext \in Seq(Byte)
  BY SizesAssumption DEF AttackInv, ClearIsRight, Position
<1>2. /\ Bytes(result) \in Seq(Byte) /\ Len(Bytes(result)) = BlockSize
      /\ \A j \in Index : Bytes(result)[j + 1] = result[j]
  <2>1. 0 \in Index
    BY Sizes
  <2>2. result \in Block
    BY <2>1, ResultIsClear
  <2> QED
    BY <1>1, <2>2 DEF Bytes, Block, Index
<1>3. /\ cleartext' \in Seq(Byte) /\ Len(cleartext') = i'
      /\ \A n \in 1 .. i + BlockSize :
           cleartext'[n] = IF n <= i THEN cleartext[n] ELSE Bytes(result)[n - i]
  <2> DEFINE more == Bytes(result)
  <2>1. cleartext \in Seq(Byte) /\ more \in Seq(Byte) /\ Len(more) = BlockSize
    BY <1>1, <1>2
  <2>2. cleartext' = cleartext \o more /\ i' = i + BlockSize
    OBVIOUS
  <2> HIDE DEF more
  <2>3. /\ cleartext \o more \in Seq(Byte)
        /\ Len(cleartext \o more) = Len(cleartext) + Len(more)
        /\ \A n \in 1 .. Len(cleartext) + Len(more) :
             (cleartext \o more)[n] =
               IF n <= Len(cleartext) THEN cleartext[n] ELSE more[n - Len(cleartext)]
    BY <2>1, ConcatProperties
  <2>4. /\ cleartext' \in Seq(Byte) /\ Len(cleartext') = i'
        /\ \A n \in 1 .. i + BlockSize :
             cleartext'[n] = IF n <= i THEN cleartext[n] ELSE more[n - i]
    BY <1>1, <2>1, <2>2, <2>3
  <2> QED
    BY <2>4 DEF more
<1>4. ASSUME NEW k \in 0 .. i', NEW j \in Index, k % BlockSize = 0, k + j < i'
      PROVE  cleartext'[k + j + 1] = Cleartext(k, j)'
  <2>1. k \in Nat /\ j \in Nat /\ j < BlockSize
    BY <1>1, <1>4 DEF Index
  <2>2. Cleartext(k, j)' = Cleartext(k, j)
    BY DEF Cleartext, BlockAt
  <2>3. CASE k < i
    <3>1. k + BlockSize <= i
      BY <1>1, <1>4, <2>1, <2>3, BlocksApart
    <3>2. k \in 0 .. i /\ k + j < i /\ k + j + 1 \in 1 .. Len(cleartext)
      BY <1>1, <2>1, <3>1
    <3>3. cleartext'[k + j + 1] = cleartext[k + j + 1]
      BY <1>1, <1>3, <3>2
    <3> QED
      BY <1>4, <2>2, <3>2, <3>3 DEF AttackInv, ClearIsRight
  <2>4. CASE k = i
    <3>1. /\ i + j + 1 \in 1 .. i + BlockSize /\ ~(i + j + 1 <= i)
          /\ (i + j + 1) - i = j + 1
      BY <1>1, <2>1
    <3>2. cleartext'[i + j + 1] = Bytes(result)[j + 1]
      BY <1>3, <3>1
    <3> QED
      BY <1>2, <2>2, <2>4, <3>2, ResultIsClear
  <2>5. ~(k > i)
    <3>1. SUFFICES ASSUME k > i PROVE FALSE
      OBVIOUS
    <3>2. i + BlockSize <= k
      BY <1>1, <1>4, <2>1, <3>1, BlocksApart
    <3> QED
      BY <1>1, <1>4, <2>1, <3>2
  <2>6. k < i \/ k = i
    BY <1>1, <2>1, <2>5
  <2> QED
    BY <2>3, <2>4, <2>6
<1> QED
  BY <1>3, <1>4

\* A block of the text that recover_block is called with.
LEMMA CallIsNew ==
  ASSUME text \in Seq(Byte), m_key \in Block, NEW previous \in Block,
         NEW k \in Nat, k + BlockSize <= Len(text), RecoverBlock(previous, k)
  PROVE  NewConnection'
<1>1. ciphertext' \in Block
  BY BlockIsBlock DEF RecoverBlock
<1> QED
  BY <1>1 DEF RecoverBlock, NewConnection, Connecting

-----------------------------------------------------------------------------
\* Each step of the attack makes a connection or leaves it as it is.
LEMMA AttackStepKeeps ==
  ASSUME AttackInv, AttackStep
  PROVE  NewConnection' \/ UNCHANGED vars
<1>1. text \in Seq(Byte) /\ m_key \in Block /\ iv \in Block /\ i \in Nat /\ i % BlockSize = 0
      /\ BlockSize \in Nat /\ BlockSize > 0
  BY SizesAssumption DEF AttackInv, Position
<1>2. CASE Start
  <2>1. 0 + BlockSize <= Len(text)
    <3>1. Len(text) \in Nat /\ Len(text) > 0 /\ Len(text) % BlockSize = 0
      BY <1>1, <1>2 DEF Start, ValidLength
    <3>2. 0 % BlockSize = 0
      BY <1>1
    <3> QED
      BY <3>1, <3>2, BlocksApart
  <2> QED
    BY <1>1, <1>2, <2>1, CallIsNew DEF Start
<1>3. CASE NextBlock
  <2>1. (i + BlockSize) + BlockSize <= Len(text)
    <3>1. Len(text) \in Nat /\ i + BlockSize < Len(text) /\ Len(text) % BlockSize = 0
      BY <1>1, <1>3 DEF NextBlock, BlockRecovered, AttackInv, Position
    <3>2. (i + BlockSize) % BlockSize = 0
      BY <1>1, NextBegins
    <3> QED
      BY <1>1, <3>1, <3>2, BlocksApart
  <2>2. ciphertext \in Block
    BY DEF AttackInv, IInv, TypeOK
  <2>3. i + BlockSize \in Nat /\ RecoverBlock(ciphertext, i + BlockSize)
    BY <1>1, <1>3 DEF NextBlock
  <2> QED
    BY <1>1, <2>1, <2>2, <2>3, CallIsNew
<1>4. CASE InvalidLength \/ Return \/ Abandon
  BY <1>4 DEF InvalidLength, Return, Abandon
<1> QED
  BY <1>2, <1>3, <1>4 DEF AttackStep

LEMMA StepKeepsPosition ==
  ASSUME AttackInv, [AttackNext]_attackVars
  PROVE  Position' /\ ClearIsRight'
<1>1. text \in Seq(Byte) /\ m_key \in Block /\ iv \in Block /\ i \in Nat /\ i % BlockSize = 0
      /\ BlockSize \in Nat /\ BlockSize > 0 /\ Len(text) \in Nat /\ i <= Len(text)
  BY SizesAssumption DEF AttackInv, Position
<1>2. CASE Start
  <2>1. /\ at = "start" /\ i = 0 /\ i' = 0 /\ at' = "block" /\ ciphertext' = BlockAt(0)
        /\ prev' = iv /\ UNCHANGED <<m_key, text, iv, cleartext>>
    BY <1>2 DEF Start, RecoverBlock, AttackInv, Position
  <2>2. Len(text) > 0 /\ Len(text) % BlockSize = 0
    BY <1>1, <1>2 DEF Start, ValidLength
  <2>3. 0 + BlockSize <= Len(text)
    BY <1>1, <2>1, <2>2, BlocksApart
  <2>4. BlockAt(0)' = BlockAt(0)
    BY <2>1 DEF BlockAt
  <2>5. Position'
    <3>1. cleartext' \in Seq(Byte) /\ Len(text) % BlockSize = 0
      BY <2>1, <2>2 DEF AttackInv, Position
    <3> QED
      BY <1>1, <2>1, <2>3, <2>4, <3>1 DEF Position
  <2>6. \A k, j : Cleartext(k, j)' = Cleartext(k, j)
    BY <2>1 DEF Cleartext, BlockAt
  <2> QED
    BY <2>1, <2>5, <2>6 DEF AttackInv, ClearIsRight
<1>3. CASE NextBlock
  <2>1. /\ BlockRecovered /\ at = "block" /\ at' = "block" /\ i' = i + BlockSize
        /\ ciphertext' = BlockAt(i + BlockSize) /\ prev' = ciphertext
        /\ ciphertext = BlockAt(i)
        /\ cleartext' = cleartext \o Bytes(result)
        /\ UNCHANGED <<m_key, text, iv>> /\ i + BlockSize < Len(text)
        /\ Len(text) % BlockSize = 0 /\ i + BlockSize \in Nat
    BY <1>1, <1>3 DEF NextBlock, BlockRecovered, RecoverBlock, AttackInv, Position
  <2>2. (i + BlockSize) % BlockSize = 0
    BY <1>1, NextBegins
  <2>3. (i + BlockSize) + BlockSize <= Len(text)
    <3>1. Len(text) \in Nat /\ i + BlockSize < Len(text) /\ Len(text) % BlockSize = 0
          /\ i + BlockSize \in Nat
      BY <1>1, <2>1
    <3> QED
      BY <2>2, <3>1, BlocksApart
  <2>4. \A k : BlockAt(k)' = BlockAt(k)
    BY <2>1 DEF BlockAt
  <2>5. i' - BlockSize = i /\ i' # 0
    BY <1>1, <2>1
  <2>6. Position'
    BY <1>1, <2>1, <2>2, <2>3, <2>4, <2>5, BlockExtends DEF Position
  <2> QED
    BY <2>1, <2>6, BlockExtends DEF ClearIsRight
<1>4. CASE Return
  <2>1. /\ BlockRecovered /\ at' = "returned" /\ i' = i + BlockSize
        /\ cleartext' = cleartext \o Bytes(result)
        /\ UNCHANGED <<m_key, text, iv>> /\ i + BlockSize = Len(text)
    BY <1>4 DEF Return, vars, inputs
  <2>2. (i + BlockSize) % BlockSize = 0
    BY <1>1, NextBegins
  <2>3. Position'
    BY <1>1, <2>1, <2>2, BlockExtends DEF Position
  <2> QED
    BY <2>1, <2>3, BlockExtends DEF ClearIsRight
<1>5. CASE InvalidLength \/ Abandon
  <2>1. at' = "threw" /\ UNCHANGED <<m_key, text, iv, i, cleartext>>
    BY <1>5 DEF InvalidLength, Abandon, vars, inputs
  <2>2. \A k, j : Cleartext(k, j)' = Cleartext(k, j)
    BY <2>1 DEF Cleartext, BlockAt
  <2> QED
    BY <1>1, <2>1, <2>2 DEF AttackInv, Position, ClearIsRight
<1>6. CASE Client \/ Server \/ Disturb \/ AttackEnded \/ UNCHANGED attackVars
  <2>1. UNCHANGED attack /\ [Next]_vars
    BY <1>6 DEF Client, Server, Disturb, AttackEnded, attackVars, Next
  <2>2. UNCHANGED <<m_key, ciphertext, prev, text, iv, at, i, cleartext>>
    BY <2>1, ConnectionKeepsInputs DEF inputs, attack
  <2>3. /\ \A k : BlockAt(k)' = BlockAt(k)
        /\ \A k, j : Cleartext(k, j)' = Cleartext(k, j)
    BY <2>2 DEF Cleartext, BlockAt
  <2> QED
    BY <1>1, <2>2, <2>3 DEF AttackInv, Position, ClearIsRight
<1> QED
  BY <1>2, <1>3, <1>4, <1>5, <1>6 DEF AttackNext, AttackStep

LEMMA StepKeepsConnections ==
  ASSUME AttackInv, [AttackNext]_attackVars
  PROVE  NewConnection' \/ [Next]_vars
<1>1. CASE AttackStep
  BY <1>1, AttackStepKeeps
<1>2. CASE Client \/ Server \/ Disturb \/ AttackEnded \/ UNCHANGED attackVars
  BY <1>2 DEF Client, Server, Disturb, AttackEnded, attackVars, Next
<1> QED
  BY <1>1, <1>2 DEF AttackNext

\* Whatever the connections go through, what was recovered of a text is the
\* text, and it is returned only when it is complete (attack.cpp
\* recover_plaintext), for all texts of any number of blocks.
THEOREM TextIsRight == AttackSpec => []ClearIsRight
<1>1. AttackInit => AttackInv
  <2>1. SUFFICES ASSUME AttackInit PROVE AttackInv
    OBVIOUS
  <2>2. IInv
    BY <2>1, InitIsCore DEF AttackInit
  <2>3. m_key \in Block /\ iv \in Block /\ text \in Seq(Byte)
    BY <2>1, InputsAssumption, TextsAssumption DEF AttackInit, Init
  <2>4. Position
    BY <2>1, <2>3, SizesAssumption DEF AttackInit, Position
  <2>5. ClearIsRight
    BY <2>1, SizesAssumption DEF AttackInit, ClearIsRight, Index
  <2> QED
    BY <2>2, <2>4, <2>5 DEF AttackInv
<1>2. IInv /\ [Next]_vars => IInv'
  BY StepKeepsInv
<1>3. AttackInv /\ [AttackNext]_attackVars =>
        (NewConnection' \/ [Next]_vars) /\ Position' /\ ClearIsRight'
  BY StepKeepsPosition, StepKeepsConnections
<1>4. AttackInv <=> IInv /\ Position /\ ClearIsRight
  BY DEF AttackInv
<1> QED
  BY <1>1, <1>2, <1>3, <1>4, NewIsInv, PTL DEF AttackSpec

=============================================================================
