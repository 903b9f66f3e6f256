--------------------------- MODULE Encryptor_proofs ---------------------------
(***************************************************************************)
(* GCM::Encryptor is counter mode, and its tag is the one-shot hash of what *)
(* it returned, for every size of a block, of a word and of the counter,   *)
(* and however the plaintext is cut.  The first half is about the hash:    *)
(* what GCM::GHASH has absorbed is as_ghash_polys of what it was given.    *)
(* The second half relates the bytes in the variables of the Encryptor to  *)
(* their place in the plaintext.                                           *)
(***************************************************************************)
EXTENDS Encryptor, TLAPS

\* The blocks that n bytes take.
Up(n) == (n + BlockSize - 1) \div BlockSize

\* The bytes of the blocks of the data, of the text, and of those absorbed.
AadBytes  == Up(Len(aad)) * BlockSize
TextBytes == Up(Len(text)) * BlockSize
TagBytes  == Len(tag) * BlockSize

\* The byte p of all that is to be absorbed, padding and lengths included.
Stream(p) ==
  IF p <= AadBytes THEN IF p <= Len(aad) THEN aad[p] ELSE Zero
  ELSE IF p <= AadBytes + TextBytes
  THEN IF p - AadBytes <= Len(text) THEN text[p - AadBytes] ELSE Zero
  ELSE LengthField(Bits(Len(aad)), Bits(Len(text)))[p - (AadBytes + TextBytes)]

\* How much of it has been handed to update.
Total ==
  IF finalized \/ pc = "length" THEN AadBytes + TextBytes + BlockSize
  ELSE IF pc \in {"new", "aad"} THEN Len(aad)
  ELSE IF pc = "aadpad" THEN AadBytes
  ELSE IF pc \in {"ready", "text"} THEN AadBytes + Len(text)
  ELSE AadBytes + TextBytes

Octet ==
  {Zero} \cup ({"aad"} \X Nat) \cup ({"length"} \X Nat \X Nat)
    \cup ({"text"} \X Nat \X (Nat \X Nat))

Sequences ==
  /\ aad \in Seq(Octet) /\ text \in Seq(Octet) /\ buffer \in Seq(Octet)
  /\ tag \in Seq(Seq(Octet))

\* The stream is in the tag and in the buffer, without a gap.
Absorbing ==
  /\ TagBytes + Len(buffer) = Total
  /\ \A k \in 1 .. Len(tag), j \in 1 .. BlockSize : tag[k][j] = Stream((k - 1) * BlockSize + j)
  /\ \A j \in 1 .. Len(buffer) : buffer[j] = Stream(TagBytes + j)

\* The lengths are those of what was handed over, whatever the padding did.
Counted ==
  /\ pc # "new" => aadbits = Bits(Len(aad))
  /\ pc \in {"ready", "text", "textpad"} /\ ~finalized => ctbits = Bits(TagBytes - AadBytes)
  /\ pc = "textpad" => TextBytes = Len(text) + padding
  /\ pc = "lengths" /\ ~finalized => ctbits = Bits(Len(text))

Phases ==
  /\ pc = "new" => aad = <<>> /\ tag = <<>> /\ buffer = <<>>
  /\ pc \in {"new", "aad", "aadpad"} => text = <<>>
  /\ pc = "lengths" => buffer = <<>>
  /\ IF finalized THEN pc \in {"ready", "lengths"} /\ buffer = <<>> /\ result = tag
     ELSE result = NoTag

GhashInv ==
  /\ GhashTypeOK
  /\ Sequences
  /\ Absorbing
  /\ Counted
  /\ Phases

-----------------------------------------------------------------------------
(* Arithmetic.                                                              *)

LEMMA Scale ==
  ASSUME NEW x \in Int, NEW z \in Int, NEW d \in Nat \ {0}
  PROVE  /\ x <= z => x * d <= z * d
         /\ x < z => (x + 1) * d <= z * d
         /\ (x + 1) * d = x * d + d /\ (x - 1) * d = x * d - d
         /\ (x + z) * d = x * d + z * d
         /\ x * d \in Int
OBVIOUS

LEMMA Quotient ==
  ASSUME NEW d \in Nat \ {0}, NEW n \in Int
  PROVE  /\ n \div d \in Int /\ n % d \in 0 .. d - 1
         /\ n = ((n \div d) * d) + (n % d)
OBVIOUS

LEMMA QuotientIs ==
  ASSUME NEW d \in Nat \ {0}, NEW t \in Int, NEW r \in 0 .. d - 1
  PROVE  /\ (t * d + r) \div d = t /\ (t * d + r) % d = r
OBVIOUS

LEMMA ModShift ==
  ASSUME NEW d \in Nat \ {0}, NEW x \in Int, NEW n \in Int
  PROVE  (x + n * d) % d = x % d
<1>1. PICK p \in Int, t \in 0 .. d - 1 : x = p * d + t /\ x % d = t
  BY Quotient
<1>2. x + n * d = (p + n) * d + t /\ p + n \in Int
  BY <1>1
<1> QED
  BY <1>1, <1>2, QuotientIs

LEMMA ModSum ==
  ASSUME NEW d \in Nat \ {0}, NEW a \in Int, NEW b \in Int
  PROVE  /\ ((a % d) + (b % d)) % d = (a + b) % d
         /\ ((a % d) - (b % d)) % d = (a - b) % d
         /\ (a + (b % d)) % d = (a + b) % d
<1>1. PICK k \in Int, r \in 0 .. d - 1 : a = k * d + r /\ a % d = r
  BY Quotient
<1>2. PICK m \in Int, s \in 0 .. d - 1 : b = m * d + s /\ b % d = s
  BY Quotient
<1> USE ModShift
<1>3. ((r + s) + (k + m) * d) % d = (r + s) % d
  <2>1. r + s \in Int /\ k + m \in Int
    OBVIOUS
  <2> QED
    BY <2>1
<1>4. ((r - s) + (k - m) * d) % d = (r - s) % d
  <2>1. r - s \in Int /\ k - m \in Int
    OBVIOUS
  <2> QED
    BY <2>1
<1>5. ((a + s) + m * d) % d = (a + s) % d
  <2>1. a + s \in Int
    OBVIOUS
  <2> QED
    BY <2>1
<1>6. a + b = (r + s) + (k + m) * d /\ a - b = (r - s) + (k - m) * d /\ a + b = (a + s) + m * d
  BY <1>1, <1>2
<1>7. ((a % d) + (b % d)) % d = (a + b) % d
  BY <1>1, <1>2, <1>3, <1>6
<1>8. ((a % d) - (b % d)) % d = (a - b) % d
  BY <1>1, <1>2, <1>4, <1>6
<1>9. (a + (b % d)) % d = (a + b) % d
  BY <1>2, <1>5, <1>6
<1> QED
  BY <1>7, <1>8, <1>9

\* The blocks of n bytes are as many as hold them, and no more.
LEMMA UpFacts ==
  ASSUME NEW n \in Nat
  PROVE  Up(n) \in Nat /\ n <= Up(n) * BlockSize /\ Up(n) * BlockSize < n + BlockSize
<1> DEFINE m == n + BlockSize - 1
<1>1. BlockSize \in Nat \ {0} /\ m \in Nat
  BY GhashAssumption
<1>2. m \div BlockSize \in Int /\ m % BlockSize \in 0 .. BlockSize - 1
      /\ m = ((m \div BlockSize) * BlockSize) + (m % BlockSize)
  BY <1>1, Quotient
<1>3. m \div BlockSize \in Nat
  BY <1>1
<1> QED
  BY <1>1, <1>2, <1>3 DEF Up

\* t blocks and some bytes of the next take t or t + 1 blocks.
LEMMA UpIs ==
  ASSUME NEW t \in Int, NEW b \in 0 .. BlockSize
  PROVE  Up(t * BlockSize + b) = IF b = 0 THEN t ELSE t + 1
<1>1. BlockSize \in Nat \ {0}
  BY GhashAssumption
<1>2. CASE b = 0
  <2>1. t * BlockSize + b + BlockSize - 1 = t * BlockSize + (BlockSize - 1)
        /\ BlockSize - 1 \in 0 .. BlockSize - 1
    BY <1>1, <1>2
  <2> QED
    BY <1>1, <1>2, <2>1, QuotientIs DEF Up
<1>3. CASE b # 0
  <2>1. t * BlockSize + b + BlockSize - 1 = (t + 1) * BlockSize + (b - 1)
        /\ b - 1 \in 0 .. BlockSize - 1 /\ t + 1 \in Int
    BY <1>1, <1>3
  <2> QED
    BY <1>1, <1>3, <2>1, QuotientIs DEF Up
<1> QED
  BY <1>2, <1>3

\* Whole blocks and a part of one are whole blocks only if the part is empty.
LEMMA WholeBlocks ==
  ASSUME NEW t \in Int, NEW m \in Int, NEW b \in 0 .. BlockSize - 1,
         t * BlockSize + b = m * BlockSize
  PROVE  b = 0
<1>1. BlockSize \in Nat \ {0}
  BY GhashAssumption
<1>2. (t * BlockSize + b) % BlockSize = b
  BY <1>1, QuotientIs
<1>3. (m * BlockSize + 0) % BlockSize = 0
  BY <1>1, QuotientIs
<1> QED
  BY <1>1, <1>2, <1>3

LEMMA BitsAdd ==
  ASSUME NEW a \in Int, NEW b \in Int
  PROVE  /\ (Bits(a) + Bits(b)) % WordSize = Bits(a + b)
         /\ (Bits(a) - Bits(b)) % WordSize = Bits(a - b)
         /\ Bits(a) \in 0 .. WordSize - 1
<1>1. WordSize \in Nat \ {0} /\ a * 8 \in Int /\ b * 8 \in Int
  BY GhashAssumption
<1>2. (a + b) * 8 = a * 8 + b * 8 /\ (a - b) * 8 = a * 8 - b * 8
  OBVIOUS
<1>3. (((a * 8) % WordSize) + ((b * 8) % WordSize)) % WordSize = (a * 8 + b * 8) % WordSize
  BY <1>1, ModSum
<1>4. (((a * 8) % WordSize) - ((b * 8) % WordSize)) % WordSize = (a * 8 - b * 8) % WordSize
  BY <1>1, ModSum
<1>5. (a * 8) % WordSize \in 0 .. WordSize - 1
  BY <1>1, Quotient
<1> QED
  BY <1>2, <1>3, <1>4, <1>5 DEF Bits

-----------------------------------------------------------------------------
(* Sequences.                                                               *)

LEMMA Concatenated ==
  ASSUME NEW S, NEW s \in Seq(S), NEW t \in Seq(S)
  PROVE  /\ s \o t \in Seq(S) /\ Len(s \o t) = Len(s) + Len(t)
         /\ Len(s) \in Nat /\ Len(t) \in Nat
         /\ \A j \in 1 .. Len(s) : (s \o t)[j] = s[j]
         /\ \A j \in 1 .. Len(t) : (s \o t)[Len(s) + j] = t[j]
OBVIOUS

LEMMA Chained ==
  ASSUME NEW S, NEW s \in Seq(S), NEW t \in Seq(S), NEW n, NEW m, Len(s) = n, Len(t) = m
  PROVE  /\ s \o t \in Seq(S) /\ Len(s \o t) = n + m
         /\ \A j \in 1 .. n : (s \o t)[j] = s[j]
         /\ \A j \in 1 .. m : (s \o t)[n + j] = t[j]
<1>1. s \o t \in Seq(S) /\ Len(s \o t) = n + m /\ n \in Nat /\ m \in Nat
  OBVIOUS
<1>2. \A j \in 1 .. n : (s \o t)[j] = s[j]
  OBVIOUS
<1>3. \A j \in 1 .. m : (s \o t)[n + j] = t[j]
  OBVIOUS
<1> QED
  BY <1>1, <1>2, <1>3

LEMMA Split ==
  ASSUME NEW S, NEW s \in Seq(S), NEW n \in 0 .. Len(s)
  PROVE  /\ SubSeq(s, 1, n) \in Seq(S) /\ Len(SubSeq(s, 1, n)) = n
         /\ \A j \in 1 .. n : SubSeq(s, 1, n)[j] = s[j]
         /\ SubSeq(s, n + 1, Len(s)) \in Seq(S)
         /\ Len(SubSeq(s, n + 1, Len(s))) = Len(s) - n
         /\ \A j \in 1 .. Len(s) - n : SubSeq(s, n + 1, Len(s))[j] = s[n + j]
<1>1. Len(s) \in Nat /\ \A j \in 1 .. Len(s) : s[j] \in S
  OBVIOUS
<1>2. SubSeq(s, 1, n) = [j \in 1 .. n |-> s[j]]
  BY <1>1
<1>3. SubSeq(s, n + 1, Len(s)) = [j \in 1 .. Len(s) - n |-> s[n + j]]
  BY <1>1
<1> QED
  BY <1>1, <1>2, <1>3

LEMMA EmptyIsShort ==
  ASSUME NEW S, NEW s \in Seq(S)
  PROVE  Len(s) \in Nat /\ (s = <<>> <=> Len(s) = 0)
OBVIOUS

LEMMA Spelled ==
  ASSUME NEW S, NEW s \in Seq(S), NEW n, Len(s) = n
  PROVE  s = [j \in 1 .. n |-> s[j]]
OBVIOUS

LEMMA Fillers ==
  ASSUME NEW n \in Nat
  PROVE  /\ Zeros(n) \in Seq(Octet) /\ Len(Zeros(n)) = n
         /\ \A j \in 1 .. n : Zeros(n)[j] = Zero
BY DEF Zeros, Octet

LEMMA Lengths ==
  ASSUME NEW a \in Nat, NEW c \in Nat
  PROVE  LengthField(a, c) \in Seq(Octet) /\ Len(LengthField(a, c)) = BlockSize
<1>1. BlockSize \in Nat \ {0}
  BY GhashAssumption
<1> DEFINE word(j) == IF j <= BlockSize \div 2 THEN a ELSE c
           byte(j) == <<"length", word(j), j>>
<1>2. \A j \in 1 .. BlockSize : word(j) \in Nat /\ j \in Nat
  BY <1>1
<1> HIDE DEF word
<1>3. \A j \in 1 .. BlockSize : byte(j) \in Octet
  BY <1>2 DEF Octet
<1>4. LengthField(a, c) = [j \in 1 .. BlockSize |-> byte(j)]
  BY DEF LengthField, word
<1> HIDE DEF byte
<1> QED
  BY <1>1, <1>3, <1>4

-----------------------------------------------------------------------------
(* The stream.                                                              *)

LEMMA Numbers ==
  ASSUME Sequences
  PROVE  /\ BlockSize \in Nat \ {0}
         /\ Len(aad) \in Nat /\ Len(text) \in Nat /\ Len(tag) \in Nat /\ Len(buffer) \in Nat
         /\ AadBytes \in Nat /\ TextBytes \in Nat /\ TagBytes \in Nat
         /\ Len(aad) <= AadBytes /\ Len(text) <= TextBytes
<1>1. Len(aad) \in Nat /\ Len(text) \in Nat /\ Len(tag) \in Nat /\ Len(buffer) \in Nat
  BY DEF Sequences
<1>2. BlockSize \in Nat \ {0}
  BY GhashAssumption
<1>3. \A n \in Nat : n * BlockSize \in Nat
  BY <1>2
<1> QED
  BY <1>1, <1>2, <1>3, UpFacts DEF AadBytes, TextBytes, TagBytes

\* The blocks of as many bytes as have been handed over, with one that has
\* been begun.
LEMMA RoundedUp ==
  ASSUME Sequences, NEW b \in 0 .. BlockSize - 1
  PROVE  Up(TagBytes + b) * BlockSize = TagBytes + (IF b = 0 THEN 0 ELSE BlockSize)
<1>0. Len(tag) \in Nat /\ BlockSize \in Nat \ {0}
  BY Numbers
<1>1. Len(tag) \in Int /\ b \in 0 .. BlockSize
  BY <1>0
<1>2. Up(TagBytes + b) = IF b = 0 THEN Len(tag) ELSE Len(tag) + 1
  BY <1>0, <1>1, UpIs DEF TagBytes
<1>3. (Len(tag) + 1) * BlockSize = TagBytes + BlockSize
  <2>1. 1 \in Int
    OBVIOUS
  <2> QED
    BY <1>0, <1>1, <2>1, Scale DEF TagBytes
<1> QED
  BY <1>0, <1>1, <1>2, <1>3 DEF TagBytes

\* A loop over whole blocks leaves nothing.
LEMMA NothingLeft ==
  ASSUME Sequences, Len(buffer) < BlockSize,
         \/ TagBytes + Len(buffer) = AadBytes
         \/ TagBytes + Len(buffer) = AadBytes + TextBytes
         \/ TagBytes + Len(buffer) = AadBytes + TextBytes + BlockSize
  PROVE  Len(buffer) = 0 /\ buffer = <<>>
<1> DEFINE n == Up(Len(aad))
           m == Up(Len(text))
<1>0. /\ Len(aad) \in Nat /\ Len(text) \in Nat /\ Len(tag) \in Nat /\ Len(buffer) \in Nat
      /\ BlockSize \in Nat \ {0}
  BY Numbers
<1>a. n \in Nat /\ m \in Nat
  BY <1>0, UpFacts
<1> HIDE DEF n, m
<1>1. /\ n \in Int /\ m \in Int /\ n + m \in Int /\ n + m + 1 \in Int /\ BlockSize \in Nat \ {0}
      /\ Len(tag) \in Int /\ Len(buffer) \in 0 .. BlockSize - 1
  BY <1>0, <1>a
<1>2. /\ (n + m) * BlockSize = n * BlockSize + m * BlockSize
      /\ (n + m + 1) * BlockSize = n * BlockSize + m * BlockSize + BlockSize
  BY <1>1, Scale
<1>b. n * BlockSize \in Int /\ m * BlockSize \in Int
  BY <1>1, Scale
<1>3. \E k \in Int : Len(tag) * BlockSize + Len(buffer) = k * BlockSize
  BY <1>1, <1>2 DEF TagBytes, AadBytes, TextBytes, n, m
<1>4. Len(buffer) = 0
  BY <1>1, <1>3, WholeBlocks
<1> QED
  BY <1>4, EmptyIsShort DEF Sequences

\* What the stream is depends on nothing but what was given.
LEMMA StreamStays ==
  ASSUME UNCHANGED hashed
  PROVE  /\ \A p : Stream(p)' = Stream(p)
         /\ AadBytes' = AadBytes /\ TextBytes' = TextBytes
         /\ Len(aad') = Len(aad) /\ Len(text') = Len(text)
         /\ aad' = aad /\ text' = text
BY DEF hashed, Stream, AadBytes, TextBytes, Up

LEMMA TagStays ==
  ASSUME UNCHANGED tag
  PROVE  TagBytes' = TagBytes /\ Len(tag') = Len(tag)
BY DEF TagBytes

\* A step that absorbs nothing and appends the next n bytes of the stream.
LEMMA Appends ==
  ASSUME Sequences, Absorbing, UNCHANGED <<tag, hashed>>,
         NEW s \in Seq(Octet), buffer' = buffer \o s, Total' = Total + Len(s),
         \A j \in 1 .. Len(s) : s[j] = Stream(Total + j)
  PROVE  Sequences' /\ Absorbing'
<1>1. /\ buffer' \in Seq(Octet) /\ Len(buffer') = Len(buffer) + Len(s)
      /\ Len(buffer) \in Nat /\ Len(s) \in Nat
      /\ \A j \in 1 .. Len(buffer) : buffer'[j] = buffer[j]
      /\ \A j \in 1 .. Len(s) : buffer'[Len(buffer) + j] = s[j]
  BY Concatenated DEF Sequences
<1>2. Sequences'
  BY <1>1 DEF Sequences, hashed
<1>3. TagBytes \in Nat
  BY Numbers
<1>4. Total = TagBytes + Len(buffer) /\ Total' = TagBytes + Len(buffer')
  BY <1>1, <1>3 DEF Absorbing
<1>5. ASSUME NEW j \in 1 .. Len(buffer')
      PROVE  buffer'[j] = Stream(TagBytes + j)
  <2>1. CASE j <= Len(buffer)
    BY <1>1, <2>1 DEF Absorbing
  <2>2. CASE j > Len(buffer)
    <3>1. PICK i \in 1 .. Len(s) : j = Len(buffer) + i
      <4>1. j - Len(buffer) \in 1 .. Len(s) /\ j = Len(buffer) + (j - Len(buffer))
        BY <1>1, <2>2
      <4> QED
        BY <4>1
    <3>2. TagBytes + j = Total + i
      BY <1>1, <1>3, <1>4, <3>1
    <3> QED
      BY <1>1, <3>1, <3>2
  <2> QED
    BY <1>1, <2>1, <2>2
<1> QED
  BY <1>2, <1>4, <1>5, StreamStays, TagStays DEF Absorbing

\* A step that leaves what was absorbed and what waits.
LEMMA Keeps ==
  ASSUME Sequences, Absorbing, UNCHANGED <<tag, buffer, hashed>>, Total' = Total
  PROVE  Sequences' /\ Absorbing'
BY StreamStays, TagStays DEF Sequences, Absorbing, hashed

-----------------------------------------------------------------------------
(* The steps.                                                               *)

LEMMA InitIsGhashInv ==
  ASSUME GhashInit
  PROVE  GhashInv
<1>1. BlockSize \in Nat \ {0} /\ WordSize \in Nat \ {0}
  BY GhashAssumption
<1>2. Len(<<>>) = 0 /\ <<>> \in Seq(Octet) /\ <<>> \in Seq(Seq(Octet))
  OBVIOUS
<1>3. GhashTypeOK
  <2>1. finalized \in BOOLEAN /\ threw \in BOOLEAN
    BY DEF GhashInit
  <2>2. \A k \in 1 .. Len(tag) : Len(tag[k]) = BlockSize
    BY <1>2 DEF GhashInit
  <2>3. pc = "new" /\ aadbits = 0 /\ ctbits = 0 /\ padding = 0 /\ Len(buffer) = 0
    BY <1>2 DEF GhashInit
  <2> QED
    BY <1>1, <2>1, <2>2, <2>3 DEF GhashTypeOK
<1>4. Sequences
  BY <1>2 DEF GhashInit, Sequences
<1>5. Absorbing
  BY <1>1, <1>2 DEF GhashInit, Absorbing, Total, TagBytes
<1> QED
  BY <1>3, <1>4, <1>5 DEF GhashInit, GhashInv, Counted, Phases, NoTag

LEMMA ConstructKeeps ==
  ASSUME GhashInv, NEW data \in Seq(Octet), GhashConstruct(data)
  PROVE  GhashInv'
<1>1. /\ pc = "new" /\ tag = <<>> /\ buffer = <<>> /\ aad = <<>> /\ text = <<>> /\ ~finalized
      /\ pc' = "aad" /\ aad' = data /\ buffer' = data /\ aadbits' = Bits(Len(data))
      /\ UNCHANGED <<tag, ctbits, finalized, padding, threw, text, result>>
  BY DEF GhashConstruct, GhashInv, Phases
<1>2. Len(data) \in Nat /\ Len(tag) = 0 /\ BlockSize \in Nat \ {0}
  BY <1>1, GhashAssumption
<1>3. GhashTypeOK'
  BY <1>1, <1>2, BitsAdd DEF GhashInv, GhashTypeOK, Loops
<1>4. Sequences'
  BY <1>1 DEF GhashInv, Sequences
<1>5. \A j \in 1 .. Len(data) : Stream(j)' = data[j]
  <2>1. Len(data) <= AadBytes' /\ AadBytes' \in Int
    BY <1>1, <1>2, UpFacts DEF AadBytes, Up
  <2> SUFFICES ASSUME NEW j \in 1 .. Len(data)
               PROVE  Stream(j)' = data[j]
    OBVIOUS
  <2>2. j <= AadBytes' /\ j <= Len(aad')
    BY <1>1, <1>2, <2>1
  <2>3. Stream(j)' = aad'[j]
    BY <2>2 DEF Stream
  <2> QED
    BY <1>1, <2>3
<1>6. Absorbing'
  <2>1. TagBytes' = 0 /\ Total' = Len(data)
    BY <1>1, <1>2 DEF TagBytes, Total
  <2> QED
    BY <1>1, <1>2, <1>5, <2>1 DEF Absorbing
<1>7. Counted' /\ Phases'
  BY <1>1 DEF GhashInv, Counted, Phases
<1> QED
  BY <1>3, <1>4, <1>6, <1>7 DEF GhashInv

LEMMA AbsorbBlockKeeps ==
  ASSUME GhashInv, AbsorbBlock
  PROVE  GhashInv'
<1> DEFINE t == Len(tag)
           b == Len(buffer)
           block == SubSeq(buffer, 1, BlockSize)
<1>1. /\ pc \in Loops /\ b >= BlockSize /\ tag' = Append(tag, block)
      /\ buffer' = SubSeq(buffer, BlockSize + 1, b)
      /\ ctbits' = (ctbits + Bits(BlockSize)) % WordSize
      /\ UNCHANGED <<aadbits, finalized, pc, padding, threw, hashed, result>>
  BY DEF AbsorbBlock
<1>2. /\ t \in Nat /\ b \in Nat /\ BlockSize \in Nat \ {0} /\ BlockSize \in 0 .. b
      /\ AadBytes \in Nat /\ TagBytes \in Nat /\ Sequences /\ WordSize \in Nat \ {0}
  BY <1>1, Numbers, GhashAssumption DEF GhashInv
<1>3. /\ block \in Seq(Octet) /\ Len(block) = BlockSize
      /\ \A j \in 1 .. BlockSize : block[j] = buffer[j]
      /\ buffer' \in Seq(Octet) /\ Len(buffer') = b - BlockSize
      /\ \A j \in 1 .. b - BlockSize : buffer'[j] = buffer[BlockSize + j]
  <2>1. buffer \in Seq(Octet) /\ BlockSize \in 0 .. Len(buffer)
    BY <1>2 DEF Sequences
  <2> QED
    BY <1>1, <2>1, Split
<1> HIDE DEF block
<1>4. /\ tag' \in Seq(Seq(Octet)) /\ Len(tag') = t + 1 /\ tag'[t + 1] = block
      /\ \A k \in 1 .. t : tag'[k] = tag[k]
  BY <1>1, <1>2, <1>3 DEF Sequences
<1>5. GhashTypeOK'
  <2>1. \A k \in 1 .. Len(tag') : Len(tag'[k]) = BlockSize
    <3>1. \A k \in 1 .. t : Len(tag'[k]) = BlockSize
      BY <1>4 DEF GhashInv, GhashTypeOK
    <3> QED
      BY <1>2, <1>3, <1>4, <3>1
  <2>2. ctbits' \in 0 .. WordSize - 1
    <3>1. ctbits \in Int /\ Bits(BlockSize) \in Int
      BY <1>2, BitsAdd DEF GhashInv, GhashTypeOK
    <3>2. ctbits + Bits(BlockSize) \in Int
      BY <3>1
    <3> QED
      BY <1>1, <1>2, <3>2, Quotient
  <2> QED
    BY <1>1, <2>1, <2>2 DEF GhashInv, GhashTypeOK
<1>6. Sequences'
  BY <1>1, <1>2, <1>3, <1>4 DEF Sequences, hashed
<1>7. TagBytes' = TagBytes + BlockSize
  BY <1>2, <1>4, Scale DEF TagBytes
<1>8. Absorbing'
  <2>1. Total' = Total /\ TagBytes + b = Total
    BY <1>1, StreamStays DEF Total, GhashInv, Absorbing
  <2>2. TagBytes' + Len(buffer') = Total'
    BY <1>2, <1>3, <1>7, <2>1
  <2>3. ASSUME NEW k \in 1 .. Len(tag'), NEW j \in 1 .. BlockSize
        PROVE  tag'[k][j] = Stream((k - 1) * BlockSize + j)
    <3>1. CASE k \in 1 .. t
      BY <1>4, <3>1 DEF GhashInv, Absorbing
    <3>2. CASE k = t + 1
      <4>1. (k - 1) * BlockSize = TagBytes /\ j \in 1 .. b
        BY <1>2, <3>2 DEF TagBytes
      <4> QED
        BY <1>3, <1>4, <3>2, <4>1 DEF GhashInv, Absorbing
    <3> QED
      BY <1>2, <1>4, <3>1, <3>2
  <2>4. ASSUME NEW j \in 1 .. Len(buffer')
        PROVE  buffer'[j] = Stream(TagBytes' + j)
    <3>1. BlockSize + j \in 1 .. b
      BY <1>2, <1>3
    <3>2. TagBytes + (BlockSize + j) = TagBytes' + j
      BY <1>2, <1>7
    <3> QED
      BY <1>2, <1>3, <3>1, <3>2 DEF GhashInv, Absorbing
  <2> QED
    BY <1>1, <2>2, <2>3, <2>4, StreamStays DEF Absorbing
<1>9. Counted'
  <2>1. pc = "text" \/ pc = "textpad" => ctbits' = Bits(TagBytes' - AadBytes) \/ finalized
    <3>1. PICK x \in Int : x = TagBytes - AadBytes
      BY <1>2
    <3>2. (Bits(x) + Bits(BlockSize)) % WordSize = Bits(x + BlockSize)
      BY <1>2, BitsAdd
    <3>3. TagBytes' - AadBytes = x + BlockSize
      BY <1>2, <1>7, <3>1
    <3> QED
      BY <1>1, <3>1, <3>2, <3>3 DEF GhashInv, Counted
  <2> QED
    BY <1>1, <2>1, StreamStays DEF GhashInv, Counted, Loops
<1>10. Phases'
  BY <1>1 DEF GhashInv, Phases, Loops, hashed
<1> QED
  BY <1>5, <1>6, <1>8, <1>9, <1>10 DEF GhashInv

\* Padding a block that has been begun appends zeros up to its end.
LEMMA FillUpFacts ==
  ASSUME Sequences, Len(buffer) < BlockSize, NEW loop, FillUp(loop)
  PROVE  /\ Len(buffer) \in 1 .. BlockSize - 1 /\ padding' = BlockSize - Len(buffer)
         /\ padding' \in 1 .. BlockSize - 1
         /\ Zeros(padding') \in Seq(Octet) /\ Len(Zeros(padding')) = padding'
         /\ \A j \in 1 .. padding' : Zeros(padding')[j] = Zero
         /\ buffer' = buffer \o Zeros(padding') /\ pc' = loop
<1>1. Len(buffer) \in Nat /\ BlockSize \in Nat \ {0}
  BY Numbers
<1>2. buffer # <<>> /\ padding' = BlockSize - Len(buffer)
      /\ buffer' = buffer \o Zeros(padding') /\ pc' = loop
  BY DEF FillUp
<1>3. Len(buffer) # 0
  BY <1>2, EmptyIsShort DEF Sequences
<1>4. padding' \in 1 .. BlockSize - 1 /\ padding' \in Nat
  BY <1>1, <1>2, <1>3
<1>5. PICK n \in Nat : n = padding'
  BY <1>4
<1>6. /\ Zeros(n) \in Seq(Octet) /\ Len(Zeros(n)) = n
      /\ \A j \in 1 .. n : Zeros(n)[j] = Zero
  BY Fillers
<1>7. Len(buffer) \in 1 .. BlockSize - 1
  BY <1>1, <1>3
<1> QED
  BY <1>2, <1>4, <1>5, <1>6, <1>7

\* The bytes of the blocks of the text, when b bytes of the last one wait.
LEMMA TextRoundedUp ==
  ASSUME Sequences, NEW b \in 0 .. BlockSize - 1, TagBytes + b = AadBytes + Len(text)
  PROVE  TextBytes = Len(text) - b + (IF b = 0 THEN 0 ELSE BlockSize)
<1> DEFINE n == Up(Len(aad))
           t == Len(tag) - n
<1>0. BlockSize \in Nat \ {0} /\ Len(aad) \in Nat /\ Len(tag) \in Nat /\ Len(text) \in Nat
  BY Numbers
<1>1. n \in Nat
  BY <1>0, UpFacts
<1> HIDE DEF n
<1>2. t \in Int /\ n \in Int /\ b \in 0 .. BlockSize /\ 1 \in Int
  BY <1>0, <1>1
<1>3. t * BlockSize + n * BlockSize = Len(tag) * BlockSize
  <2>1. t + n = Len(tag)
    BY <1>0, <1>1
  <2> HIDE DEF t
  <2> QED
    BY <1>0, <1>2, <2>1, Scale
<1> HIDE DEF t
<1>4. t * BlockSize \in Int /\ n * BlockSize \in Int /\ (t + 1) * BlockSize = t * BlockSize + BlockSize
  BY <1>0, <1>2, Scale
<1>5. Len(text) = t * BlockSize + b
  BY <1>0, <1>2, <1>3, <1>4 DEF TagBytes, AadBytes, n
<1>6. Up(Len(text)) = IF b = 0 THEN t ELSE t + 1
  BY <1>2, <1>5, UpIs
<1> QED
  BY <1>0, <1>2, <1>4, <1>5, <1>6 DEF TextBytes

LEMMA PadAadKeeps ==
  ASSUME GhashInv, PadAad
  PROVE  GhashInv'
<1>1. /\ pc = "aad" /\ Len(buffer) < BlockSize /\ FillUp("aadpad")
      /\ UNCHANGED <<tag, aadbits, ctbits, finalized, threw, hashed, result>>
      /\ Sequences /\ Absorbing /\ Phases
  BY DEF PadAad, Absorbed, GhashInv
<1>2. /\ Len(buffer) \in 1 .. BlockSize - 1 /\ padding' = BlockSize - Len(buffer)
      /\ padding' \in 1 .. BlockSize - 1 /\ pc' = "aadpad"
      /\ Zeros(padding') \in Seq(Octet) /\ Len(Zeros(padding')) = padding'
      /\ \A j \in 1 .. padding' : Zeros(padding')[j] = Zero
      /\ buffer' = buffer \o Zeros(padding')
  BY <1>1, FillUpFacts
<1>3. BlockSize \in Nat \ {0} /\ Len(aad) \in Nat /\ TagBytes \in Nat
  BY <1>1, Numbers
<1>4. ~finalized /\ text = <<>>
  BY <1>1 DEF Phases
<1>5. Total = Len(aad) /\ TagBytes + Len(buffer) = Len(aad)
  BY <1>1, <1>4 DEF Total, Absorbing
<1>6. AadBytes = Len(aad) + padding'
  <2>1. Len(buffer) \in 0 .. BlockSize - 1 /\ Len(buffer) # 0
    BY <1>2
  <2>2. AadBytes = TagBytes + BlockSize
    BY <1>1, <1>5, <2>1, RoundedUp DEF AadBytes
  <2>3. Len(buffer) \in Int /\ padding' = BlockSize - Len(buffer)
    BY <1>2
  <2> QED
    BY <1>3, <1>5, <2>2, <2>3
<1>7. Total' = Total + padding'
  BY <1>1, <1>2, <1>4, <1>5, <1>6, StreamStays DEF Total
<1>8. \A j \in 1 .. padding' : Stream(Total + j) = Zero
  BY <1>2, <1>3, <1>5, <1>6 DEF Stream
<1>9. Sequences' /\ Absorbing'
  <2> DEFINE s == Zeros(padding')
  <2>1. s \in Seq(Octet) /\ buffer' = buffer \o s /\ Total' = Total + Len(s)
        /\ \A j \in 1 .. Len(s) : s[j] = Stream(Total + j)
    BY <1>2, <1>7, <1>8
  <2>2. UNCHANGED <<tag, hashed>>
    BY <1>1
  <2> HIDE DEF s
  <2> QED
    BY <1>1, <2>1, <2>2, Appends
<1>10. GhashTypeOK'
  BY <1>1, <1>2 DEF GhashInv, GhashTypeOK, Loops
<1>11. Counted' /\ Phases'
  BY <1>1, <1>2, <1>4 DEF GhashInv, Counted, Phases, hashed
<1> QED
  BY <1>9, <1>10, <1>11 DEF GhashInv

LEMMA ConstructedKeeps ==
  ASSUME GhashInv, Constructed
  PROVE  GhashInv'
<1>1. /\ Absorbed("aadpad") \/ (Absorbed("aad") /\ buffer = <<>>)
      /\ ctbits' = 0 /\ pc' = "ready"
      /\ UNCHANGED <<tag, aadbits, buffer, finalized, padding, threw, hashed, result>>
      /\ Sequences /\ Absorbing /\ Phases
  BY DEF Constructed, GhashInv
<1>2. /\ BlockSize \in Nat \ {0} /\ Len(aad) \in Nat /\ TagBytes \in Nat
      /\ AadBytes \in Nat /\ WordSize \in Nat \ {0} /\ Len(buffer) \in Nat
  BY <1>1, Numbers, GhashAssumption
<1>3. ~finalized /\ text = <<>> /\ Len(text) = 0
  BY <1>1 DEF Phases, Absorbed
<1>4. Len(buffer) = 0 /\ Len(buffer) < BlockSize /\ Total = AadBytes /\ TagBytes = AadBytes
  <2>1. CASE Absorbed("aadpad")
    <3>1. Total = AadBytes /\ TagBytes + Len(buffer) = AadBytes /\ Len(buffer) < BlockSize
      BY <1>1, <1>3, <2>1 DEF Total, Absorbing, Absorbed
    <3>2. Len(buffer) = 0
      BY <1>1, <3>1, NothingLeft
    <3> QED
      BY <1>2, <3>1, <3>2
  <2>2. CASE Absorbed("aad") /\ buffer = <<>>
    <3>1. Total = Len(aad) /\ TagBytes + Len(buffer) = Len(aad) /\ Len(buffer) = 0
      BY <1>1, <1>3, <2>2 DEF Total, Absorbing, Absorbed
    <3>2. Len(aad) = TagBytes + 0 /\ 0 \in 0 .. BlockSize - 1
      BY <1>2, <3>1
    <3>3. AadBytes = TagBytes
      BY <1>1, <1>2, <3>2, RoundedUp DEF AadBytes
    <3> QED
      BY <1>2, <3>1, <3>3
  <2> QED
    BY <1>1, <2>1, <2>2
<1>5. Total' = Total
  <2>1. AadBytes' = AadBytes /\ Len(text') = 0
    BY <1>1, <1>3, StreamStays
  <2>2. Total' = AadBytes' + Len(text')
    BY <1>1, <1>3 DEF Total
  <2> QED
    BY <1>2, <1>4, <2>1, <2>2
<1>6. Sequences' /\ Absorbing'
  BY <1>1, <1>5, Keeps
<1>7. ctbits' = Bits(TagBytes' - AadBytes')
  <2>1. TagBytes' - AadBytes' = 0
    BY <1>1, <1>2, <1>4, StreamStays, TagStays
  <2>2. Bits(0) = 0
    BY <1>2 DEF Bits
  <2> QED
    BY <1>1, <2>1, <2>2
<1>8. GhashTypeOK'
  BY <1>1, <1>2, <1>4 DEF GhashInv, GhashTypeOK
<1>9. Counted'
  <2>1. pc # "new"
    BY <1>1 DEF Absorbed
  <2> QED
    BY <1>1, <1>7, <2>1, StreamStays DEF GhashInv, Counted
<1>10. Phases'
  BY <1>1, <1>3 DEF Phases
<1> QED
  BY <1>6, <1>8, <1>9, <1>10 DEF GhashInv

\* What was to be absorbed already stays when text is added.
LEMMA StreamGrows ==
  ASSUME Sequences, NEW chunk \in Seq(Octet), text' = text \o chunk, aad' = aad
  PROVE  /\ text' \in Seq(Octet) /\ Len(text') = Len(text) + Len(chunk) /\ Len(chunk) \in Nat
         /\ AadBytes' = AadBytes /\ Len(aad') = Len(aad)
         /\ \A p \in Int : p <= AadBytes + Len(text) => Stream(p)' = Stream(p)
         /\ \A p \in Int, j \in 1 .. Len(chunk) :
               p = AadBytes + Len(text) + j => Stream(p)' = chunk[j]
<1>1. /\ text' \in Seq(Octet) /\ Len(text') = Len(text) + Len(chunk)
      /\ Len(chunk) \in Nat
      /\ \A j \in 1 .. Len(text) : text'[j] = text[j]
      /\ \A j \in 1 .. Len(chunk) : text'[Len(text) + j] = chunk[j]
  BY Concatenated DEF Sequences
<1>2. AadBytes' = AadBytes /\ Len(aad') = Len(aad)
  BY DEF AadBytes, Up
<1>3. AadBytes \in Nat /\ Len(text) \in Nat /\ Len(text) <= TextBytes /\ TextBytes \in Int
  BY Numbers
<1>4. TextBytes' \in Int /\ Len(text') <= TextBytes'
  <2>1. Len(text') \in Nat
    BY <1>1, <1>3
  <2>2. BlockSize \in Nat \ {0}
    BY GhashAssumption
  <2>3. Up(Len(text')) \in Nat /\ Len(text') <= Up(Len(text')) * BlockSize
    BY <2>1, UpFacts
  <2>4. Up(Len(text')) * BlockSize \in Int
    BY <2>2, <2>3
  <2> QED
    BY <2>3, <2>4 DEF TextBytes, Up
<1>5. ASSUME NEW p \in Int, p <= AadBytes + Len(text)
      PROVE  Stream(p)' = Stream(p)
  <2>1. CASE p <= AadBytes
    BY <1>2, <2>1 DEF Stream
  <2>2. CASE p > AadBytes
    <3>1. /\ ~(p <= AadBytes) /\ p <= AadBytes + TextBytes /\ p <= AadBytes' + TextBytes'
          /\ p - AadBytes <= Len(text) /\ p - AadBytes <= Len(text')
          /\ p - AadBytes \in 1 .. Len(text)
      BY <1>1, <1>2, <1>3, <1>4, <1>5, <2>2
    <3>2. Stream(p) = text[p - AadBytes]
      BY <3>1 DEF Stream
    <3>3. Stream(p)' = text'[p - AadBytes]
      BY <1>2, <3>1 DEF Stream
    <3> QED
      BY <1>1, <3>1, <3>2, <3>3
  <2> QED
    BY <1>3, <2>1, <2>2
<1>6. ASSUME NEW p \in Int, NEW j \in 1 .. Len(chunk), p = AadBytes + Len(text) + j
      PROVE  Stream(p)' = chunk[j]
  <2>1. Len(text') = Len(text) + Len(chunk) /\ Len(chunk) \in Nat /\ j <= Len(chunk) /\ 1 <= j
        /\ j \in Int
    BY <1>1
  <2>2. ~(p <= AadBytes) /\ p <= AadBytes' + TextBytes' /\ p - AadBytes <= Len(text')
        /\ p - AadBytes = Len(text) + j
    BY <1>2, <1>3, <1>4, <1>6, <2>1
  <2>3. Stream(p)' = text'[Len(text) + j]
    BY <1>2, <2>2 DEF Stream
  <2>4. text'[Len(text) + j] = chunk[j]
    BY <1>1
  <2> QED
    BY <2>3, <2>4
<1> QED
  BY <1>1, <1>2, <1>5, <1>6

LEMMA UpdateKeeps ==
  ASSUME GhashInv, NEW chunk \in Seq(Octet), GhashUpdate(chunk)
  PROVE  GhashInv'
<1>1. /\ pc = "ready" /\ threw' = finalized /\ finalized \in BOOLEAN
      /\ UNCHANGED <<tag, aadbits, ctbits, finalized, padding, aad, result>>
      /\ Sequences /\ Absorbing /\ Phases
  BY DEF GhashUpdate, GhashInv, GhashTypeOK
<1>2. CASE finalized
  <2>1. UNCHANGED <<buffer, text, pc>> /\ UNCHANGED hashed
    BY <1>1, <1>2 DEF GhashUpdate, hashed
  <2>2. Total' = Total
    BY <1>1, <1>2, <2>1, StreamStays DEF Total
  <2>3. Sequences' /\ Absorbing'
    BY <1>1, <2>1, <2>2, Keeps
  <2>4. GhashTypeOK' /\ Phases'
    BY <1>1, <1>2, <2>1 DEF GhashInv, GhashTypeOK, Phases
  <2>5. Counted'
    BY <1>1, <1>2, <2>1, StreamStays, TagStays DEF GhashInv, Counted
  <2> QED
    BY <2>3, <2>4, <2>5 DEF GhashInv
<1>3. CASE ~finalized
  <2>1. buffer' = buffer \o chunk /\ text' = text \o chunk /\ pc' = "text" /\ aad' = aad
    BY <1>1, <1>3 DEF GhashUpdate
  <2>2. /\ text' \in Seq(Octet) /\ Len(text') = Len(text) + Len(chunk) /\ Len(chunk) \in Nat
        /\ AadBytes' = AadBytes /\ Len(aad') = Len(aad)
        /\ \A p \in Int : p <= AadBytes + Len(text) => Stream(p)' = Stream(p)
        /\ \A p \in Int, j \in 1 .. Len(chunk) :
              p = AadBytes + Len(text) + j => Stream(p)' = chunk[j]
    BY <1>1, <2>1, StreamGrows
  <2>3. /\ buffer' \in Seq(Octet) /\ Len(buffer') = Len(buffer) + Len(chunk)
        /\ \A j \in 1 .. Len(buffer) : buffer'[j] = buffer[j]
        /\ \A j \in 1 .. Len(chunk) : buffer'[Len(buffer) + j] = chunk[j]
    BY <1>1, <2>1, Concatenated DEF Sequences
  <2>4. /\ BlockSize \in Nat \ {0} /\ Len(text) \in Nat /\ Len(buffer) \in Nat
        /\ AadBytes \in Nat /\ TagBytes \in Nat /\ Len(tag) \in Nat
    BY <1>1, Numbers
  <2>5. TagBytes + Len(buffer) = AadBytes + Len(text)
    BY <1>1, <1>3 DEF Absorbing, Total
  <2>6. Sequences'
    BY <1>1, <2>1, <2>2, <2>3 DEF Sequences
  <2>7. TagBytes' = TagBytes /\ Len(tag') = Len(tag) /\ tag' = tag
    BY <1>1, TagStays
  <2>8. TagBytes' + Len(buffer') = Total'
    <3>1. Total' = AadBytes + Len(text')
      BY <1>1, <1>3, <2>1, <2>2 DEF Total
    <3>2. Len(text') = Len(text) + Len(chunk) /\ Len(chunk) \in Nat
          /\ Len(buffer') = Len(buffer) + Len(chunk)
      BY <2>2, <2>3
    <3> QED
      BY <2>4, <2>5, <2>7, <3>1, <3>2
  <2>9. ASSUME NEW k \in 1 .. Len(tag), NEW j \in 1 .. BlockSize
        PROVE  tag[k][j] = Stream((k - 1) * BlockSize + j)'
    <3>1. PICK p \in Int : p = (k - 1) * BlockSize + j
      BY <2>4
    <3>2. (k - 1) * BlockSize + BlockSize <= TagBytes
      <4>1. k \in Int /\ k <= Len(tag) /\ Len(tag) \in Int
        BY <2>4
      <4>2. k * BlockSize <= Len(tag) * BlockSize /\ (k - 1) * BlockSize = k * BlockSize - BlockSize
            /\ k * BlockSize \in Int
        BY <2>4, <4>1, Scale
      <4> QED
        BY <2>4, <4>2 DEF TagBytes
    <3>3. p <= AadBytes + Len(text)
      <4>1. (k - 1) * BlockSize \in Int
        BY <2>4
      <4> QED
        BY <2>4, <2>5, <3>1, <3>2, <4>1
    <3>4. tag[k][j] = Stream(p)
      BY <1>1, <3>1 DEF Absorbing
    <3>5. Stream(p)' = Stream(p)
      BY <2>2, <3>3
    <3>6. Stream((k - 1) * BlockSize + j)' = Stream(p)'
      BY <3>1
    <3> QED
      BY <3>4, <3>5, <3>6
  <2>10. ASSUME NEW j \in 1 .. Len(buffer')
         PROVE  \A p \in Int : p = TagBytes + j => buffer'[j] = Stream(p)'
    <3> SUFFICES ASSUME NEW p \in Int, p = TagBytes + j
                 PROVE  buffer'[j] = Stream(p)'
      OBVIOUS
    <3>1. CASE j <= Len(buffer)
      <4>1. p <= AadBytes + Len(text) /\ j \in 1 .. Len(buffer)
        BY <2>3, <2>4, <2>5, <3>1
      <4>2. buffer[j] = Stream(p)
        BY <1>1, <4>1 DEF Absorbing
      <4> QED
        BY <2>2, <2>3, <4>1, <4>2
    <3>2. CASE j > Len(buffer)
      <4>1. PICK i \in 1 .. Len(chunk) : j = Len(buffer) + i
        <5>1. j - Len(buffer) \in 1 .. Len(chunk) /\ j = Len(buffer) + (j - Len(buffer))
          BY <2>2, <2>3, <2>4, <3>2
        <5> QED
          BY <5>1
      <4>2. p = AadBytes + Len(text) + i
        <5>1. i \in Int /\ p = TagBytes + (Len(buffer) + i)
          BY <2>2, <4>1
        <5> QED
          BY <2>4, <2>5, <5>1
      <4> QED
        BY <2>2, <2>3, <4>1, <4>2
    <3> QED
      BY <2>3, <2>4, <3>1, <3>2
  <2>11. Absorbing'
    <3>1. \A k \in 1 .. Len(tag'), j \in 1 .. BlockSize :
             tag'[k][j] = Stream((k - 1) * BlockSize + j)'
      BY <2>7, <2>9
    <3>2. ASSUME NEW j \in 1 .. Len(buffer')
          PROVE  buffer'[j] = Stream(TagBytes + j)'
      <4>1. PICK p \in Int : p = TagBytes + j
        BY <2>4
      <4>2. Stream(p)' = Stream(TagBytes + j)'
        BY <2>7, <4>1
      <4> QED
        BY <2>10, <4>1, <4>2
    <3> QED
      BY <2>8, <3>1, <3>2 DEF Absorbing
  <2>12. GhashTypeOK'
    BY <1>1, <1>3, <2>1 DEF GhashInv, GhashTypeOK, Loops
  <2>13. Counted'
    BY <1>1, <1>3, <2>1, <2>2, <2>7 DEF GhashInv, Counted
  <2>14. Phases'
    BY <1>1, <1>3, <2>1 DEF Phases
  <2> QED
    BY <2>6, <2>11, <2>12, <2>13, <2>14 DEF GhashInv
<1> QED
  BY <1>2, <1>3

LEMMA UpdatedKeeps ==
  ASSUME GhashInv, Updated
  PROVE  GhashInv'
<1>1. /\ pc = "text" /\ Len(buffer) < BlockSize /\ pc' = "ready"
      /\ UNCHANGED <<tag, aadbits, ctbits, buffer, finalized, padding, threw, hashed, result>>
      /\ Sequences /\ Absorbing /\ Phases
  BY DEF Updated, Absorbed, GhashInv
<1>2. ~finalized
  BY <1>1 DEF Phases
<1>3. Total' = Total
  BY <1>1, <1>2, StreamStays DEF Total
<1>4. Sequences' /\ Absorbing'
  BY <1>1, <1>3, Keeps
<1>5. GhashTypeOK'
  BY <1>1 DEF GhashInv, GhashTypeOK
<1>6. Counted'
  BY <1>1, <1>2, StreamStays, TagStays DEF GhashInv, Counted
<1>7. Phases'
  BY <1>1, <1>2 DEF Phases
<1> QED
  BY <1>4, <1>5, <1>6, <1>7 DEF GhashInv

LEMMA FinalizeKeeps ==
  ASSUME GhashInv, GhashFinalize
  PROVE  GhashInv'
<1>1. /\ pc = "ready" /\ threw' = FALSE /\ Len(buffer) < BlockSize
      /\ UNCHANGED <<tag, aadbits, ctbits, finalized, hashed, result>>
      /\ Sequences /\ Absorbing /\ Phases /\ Counted
  BY DEF GhashFinalize, GhashInv, GhashTypeOK, Loops
<1>2. /\ BlockSize \in Nat \ {0} /\ Len(text) \in Nat /\ Len(buffer) \in Nat
      /\ AadBytes \in Nat /\ TagBytes \in Nat
  BY <1>1, Numbers
<1>3. ~finalized => /\ Total = AadBytes + Len(text) /\ TagBytes + Len(buffer) = AadBytes + Len(text)
                    /\ ctbits = Bits(TagBytes - AadBytes)
  BY <1>1 DEF Total, Absorbing, Counted
<1>4. CASE FillUp("textpad")
  <2>1. /\ Len(buffer) \in 1 .. BlockSize - 1 /\ padding' = BlockSize - Len(buffer)
        /\ padding' \in 1 .. BlockSize - 1 /\ pc' = "textpad"
        /\ Zeros(padding') \in Seq(Octet) /\ Len(Zeros(padding')) = padding'
        /\ \A j \in 1 .. padding' : Zeros(padding')[j] = Zero
        /\ buffer' = buffer \o Zeros(padding') /\ buffer # <<>>
    BY <1>1, <1>4, FillUpFacts DEF FillUp
  <2>2. ~finalized
    BY <1>1, <2>1 DEF Phases
  <2>3. TextBytes = Len(text) + padding'
    <3>1. Len(buffer) \in 0 .. BlockSize - 1 /\ Len(buffer) # 0 /\ padding' = BlockSize - Len(buffer)
      BY <2>1
    <3>2. TextBytes = Len(text) - Len(buffer) + BlockSize
      BY <1>1, <1>3, <2>2, <3>1, TextRoundedUp
    <3> QED
      BY <1>2, <3>1, <3>2
  <2>4. Total' = Total + padding'
    <3>1. Total' = AadBytes + TextBytes
      BY <1>1, <2>1, <2>2, StreamStays DEF Total
    <3>2. padding' \in Int
      BY <2>1
    <3>3. Total = AadBytes + Len(text)
      BY <1>3, <2>2
    <3> QED
      BY <1>2, <2>3, <3>1, <3>2, <3>3
  <2>5. ASSUME NEW j \in 1 .. padding'
        PROVE  Stream(Total + j) = Zero
    <3>1. Total = AadBytes + Len(text) /\ j \in Int /\ 1 <= j /\ j <= padding' /\ padding' \in Int
      BY <1>3, <2>1, <2>2
    <3>2. PICK p \in Int : p = Total + j
      BY <1>2, <3>1
    <3>3. /\ ~(p <= AadBytes) /\ p <= AadBytes + TextBytes /\ ~(p - AadBytes <= Len(text))
      BY <1>2, <2>3, <3>1, <3>2
    <3>4. Stream(p) = Zero
      BY <3>3 DEF Stream
    <3> QED
      BY <3>2, <3>4
  <2>6. Sequences' /\ Absorbing'
    <3> DEFINE s == Zeros(padding')
    <3>1. s \in Seq(Octet) /\ buffer' = buffer \o s /\ Total' = Total + Len(s)
          /\ \A j \in 1 .. Len(s) : s[j] = Stream(Total + j)
      BY <2>1, <2>4, <2>5
    <3>2. UNCHANGED <<tag, hashed>>
      BY <1>1
    <3> HIDE DEF s
    <3> QED
      BY <1>1, <3>1, <3>2, Appends
  <2>7. GhashTypeOK'
    <3>1. padding' \in 0 .. BlockSize - 1 /\ pc' \in Loops
      BY <1>2, <2>1 DEF Loops
    <3> QED
      BY <1>1, <3>1 DEF GhashInv, GhashTypeOK
  <2>8. Counted'
    BY <1>1, <1>3, <2>1, <2>2, <2>3, StreamStays, TagStays DEF Counted
  <2>9. Phases'
    BY <1>1, <2>1, <2>2 DEF Phases
  <2> QED
    BY <2>6, <2>7, <2>8, <2>9 DEF GhashInv
<1>5. CASE buffer = <<>> /\ pc' = "lengths" /\ UNCHANGED <<buffer, padding>>
  <2>1. Len(buffer) = 0
    BY <1>5
  <2>2. ~finalized => TextBytes = Len(text) /\ TagBytes = AadBytes + TextBytes
    <3>1. 0 \in 0 .. BlockSize - 1 /\ TagBytes + 0 = TagBytes
      BY <1>2
    <3>2. ~finalized => TagBytes = AadBytes + Len(text)
      BY <1>2, <1>3, <2>1
    <3>3. ~finalized => TextBytes = Len(text) - 0 + 0
      BY <1>1, <3>1, <3>2, TextRoundedUp
    <3> QED
      BY <1>2, <3>2, <3>3
  <2>3. Total' = Total
    BY <1>1, <1>3, <1>5, <2>2, StreamStays DEF Total
  <2>4. Sequences' /\ Absorbing'
    BY <1>1, <1>5, <2>3, Keeps
  <2>5. GhashTypeOK'
    BY <1>1, <1>5 DEF GhashInv, GhashTypeOK
  <2>6. Counted'
    <3>1. ~finalized => TagBytes - AadBytes = Len(text)
      BY <1>2, <2>2
    <3> QED
      BY <1>1, <1>3, <1>5, <3>1, StreamStays DEF Counted
  <2>7. Phases'
    BY <1>1, <1>5 DEF Phases
  <2> QED
    BY <2>4, <2>5, <2>6, <2>7 DEF GhashInv
<1> QED
  BY <1>4, <1>5 DEF GhashFinalize

LEMMA TextPaddedKeeps ==
  ASSUME GhashInv, TextPadded
  PROVE  GhashInv'
<1>1. /\ pc = "textpad" /\ Len(buffer) < BlockSize /\ pc' = "lengths"
      /\ ctbits' = (ctbits - Bits(padding)) % WordSize
      /\ UNCHANGED <<tag, aadbits, buffer, finalized, padding, threw, hashed, result>>
      /\ Sequences /\ Absorbing /\ Phases /\ Counted
  BY DEF TextPadded, Absorbed, GhashInv
<1>2. /\ BlockSize \in Nat \ {0} /\ WordSize \in Nat \ {0} /\ Len(text) \in Nat /\ Len(buffer) \in Nat
      /\ AadBytes \in Nat /\ TagBytes \in Nat /\ TextBytes \in Nat
  BY <1>1, Numbers, GhashAssumption
<1>3. ~finalized /\ padding \in Int
  BY <1>1, <1>2 DEF Phases, GhashInv, GhashTypeOK
<1>4. /\ Total = AadBytes + TextBytes /\ TagBytes + Len(buffer) = AadBytes + TextBytes
      /\ ctbits = Bits(TagBytes - AadBytes) /\ TextBytes = Len(text) + padding
  BY <1>1, <1>3 DEF Total, Absorbing, Counted
<1>5. Len(buffer) = 0 /\ buffer = <<>>
  BY <1>1, <1>4, NothingLeft
<1>6. Total' = Total
  BY <1>1, <1>3, <1>4, StreamStays DEF Total
<1>7. Sequences' /\ Absorbing'
  BY <1>1, <1>6, Keeps
<1>8. ctbits' = Bits(Len(text))
  <2>1. PICK n \in Int : n = TagBytes - AadBytes
    BY <1>2
  <2>2. n - padding = Len(text)
    BY <1>2, <1>3, <1>4, <1>5, <2>1
  <2>3. (Bits(n) - Bits(padding)) % WordSize = Bits(n - padding)
    BY <1>3, BitsAdd
  <2> QED
    BY <1>1, <1>4, <2>1, <2>2, <2>3
<1>9. GhashTypeOK'
  <2>1. ctbits' \in 0 .. WordSize - 1
    <3>1. Len(text) \in Int
      BY <1>2
    <3> QED
      BY <1>8, <3>1, BitsAdd
  <2> QED
    BY <1>1, <2>1 DEF GhashInv, GhashTypeOK
<1>10. Counted'
  BY <1>1, <1>8, StreamStays DEF Counted
<1>11. Phases'
  BY <1>1, <1>3, <1>5 DEF Phases
<1> QED
  BY <1>7, <1>9, <1>10, <1>11 DEF GhashInv

LEMMA AddLengthsKeeps ==
  ASSUME GhashInv, AddLengths
  PROVE  GhashInv'
<1>1. /\ pc = "lengths" /\ threw' = finalized /\ finalized \in BOOLEAN
      /\ UNCHANGED <<tag, aadbits, ctbits, finalized, padding, hashed, result>>
      /\ Sequences /\ Absorbing /\ Phases /\ Counted
  BY DEF AddLengths, GhashInv, GhashTypeOK
<1>2. /\ BlockSize \in Nat \ {0} /\ WordSize \in Nat \ {0} /\ Len(text) \in Nat /\ Len(aad) \in Nat
      /\ AadBytes \in Nat /\ TextBytes \in Nat
  BY <1>1, Numbers, GhashAssumption
<1>3. CASE finalized
  <2>1. pc' = "ready" /\ UNCHANGED buffer /\ buffer = <<>>
    BY <1>1, <1>3 DEF AddLengths, Phases
  <2>2. Total' = Total
    BY <1>1, <1>3, StreamStays DEF Total
  <2>3. Sequences' /\ Absorbing'
    BY <1>1, <2>1, <2>2, Keeps
  <2>4. GhashTypeOK'
    BY <1>1, <1>2, <2>1 DEF GhashInv, GhashTypeOK
  <2>5. Counted' /\ Phases'
    BY <1>1, <1>3, <2>1, StreamStays DEF Counted, Phases
  <2> QED
    BY <2>3, <2>4, <2>5 DEF GhashInv
<1>4. CASE ~finalized
  <2> DEFINE s == LengthField(aadbits, ctbits)
  <2>1. pc' = "length" /\ buffer' = buffer \o s
    BY <1>1, <1>4 DEF AddLengths
  <2>2. aadbits = Bits(Len(aad)) /\ ctbits = Bits(Len(text))
    BY <1>1, <1>4 DEF Counted
  <2>3. s \in Seq(Octet) /\ Len(s) = BlockSize
    <3>1. aadbits \in Nat /\ ctbits \in Nat
      BY <1>2 DEF GhashInv, GhashTypeOK
    <3> QED
      BY <3>1, Lengths
  <2>4. Total = AadBytes + TextBytes /\ Total' = Total + Len(s)
    <3>1. Total = AadBytes + TextBytes
      BY <1>1, <1>4 DEF Total
    <3>2. Total' = AadBytes + TextBytes + BlockSize
      BY <1>1, <2>1, StreamStays DEF Total
    <3> QED
      BY <2>3, <3>1, <3>2
  <2>5. ASSUME NEW j \in 1 .. Len(s)
        PROVE  s[j] = Stream(Total + j)
    <3>1. PICK p \in Int : p = AadBytes + TextBytes + j
      BY <1>2, <2>3
    <3>2. ~(p <= AadBytes) /\ ~(p <= AadBytes + TextBytes) /\ p - (AadBytes + TextBytes) = j
      BY <1>2, <2>3, <3>1
    <3>3. Stream(p) = LengthField(Bits(Len(aad)), Bits(Len(text)))[j]
      BY <3>2 DEF Stream
    <3> QED
      BY <2>2, <2>4, <3>1, <3>3
  <2> HIDE DEF s
  <2>6. Sequences' /\ Absorbing'
    <3>1. UNCHANGED <<tag, hashed>>
      BY <1>1
    <3> QED
      BY <1>1, <2>1, <2>3, <2>4, <2>5, <3>1, Appends
  <2>7. GhashTypeOK'
    BY <1>1, <1>4, <2>1 DEF GhashInv, GhashTypeOK, Loops
  <2>8. Counted' /\ Phases'
    BY <1>1, <1>4, <2>1, <2>2, StreamStays DEF Counted, Phases
  <2> QED
    BY <2>6, <2>7, <2>8 DEF GhashInv
<1> QED
  BY <1>1, <1>3, <1>4

LEMMA GhashFinalizedKeeps ==
  ASSUME GhashInv, GhashFinalized
  PROVE  GhashInv'
<1>1. /\ pc = "length" /\ Len(buffer) < BlockSize /\ pc' = "ready"
      /\ finalized' = TRUE /\ result' = tag
      /\ UNCHANGED <<tag, aadbits, ctbits, buffer, padding, threw, hashed>>
      /\ Sequences /\ Absorbing /\ Phases /\ Counted
  BY DEF GhashFinalized, Absorbed, GhashInv
<1>2. Total = AadBytes + TextBytes + BlockSize
  BY <1>1 DEF Total
<1>3. TagBytes + Len(buffer) = AadBytes + TextBytes + BlockSize
  BY <1>1, <1>2 DEF Absorbing
<1>4. buffer = <<>>
  BY <1>1, <1>3, NothingLeft
<1>5. Total' = Total
  BY <1>1, <1>2, StreamStays DEF Total
<1>6. Sequences' /\ Absorbing'
  BY <1>1, <1>5, Keeps
<1>7. GhashTypeOK'
  BY <1>1 DEF GhashInv, GhashTypeOK
<1>8. Counted' /\ Phases'
  BY <1>1, <1>4, StreamStays DEF Counted, Phases
<1> QED
  BY <1>6, <1>7, <1>8 DEF GhashInv

\* What the hash does by itself keeps the invariant.
LEMMA GhashStepKeeps ==
  ASSUME GhashInv, GhashStep
  PROVE  GhashInv'
BY AbsorbBlockKeeps, PadAadKeeps, ConstructedKeeps, UpdatedKeeps, TextPaddedKeeps,
   AddLengthsKeeps, GhashFinalizedKeeps DEF GhashStep

LEMMA GhashStutterKeeps ==
  ASSUME GhashInv, UNCHANGED ghashVars
  PROVE  GhashInv'
<1>1. UNCHANGED <<tag, aadbits, ctbits, buffer, finalized, pc, padding, threw, hashed, result>>
  BY DEF ghashVars, ghashState
<1>2. Sequences /\ Absorbing /\ Total' = Total
  BY <1>1, StreamStays DEF GhashInv, Total
<1>3. Sequences' /\ Absorbing'
  BY <1>1, <1>2, Keeps
<1>4. GhashTypeOK'
  BY <1>1 DEF GhashInv, GhashTypeOK
<1>5. Counted' /\ Phases'
  BY <1>1, StreamStays, TagStays DEF GhashInv, Counted, Phases
<1> QED
  BY <1>3, <1>4, <1>5 DEF GhashInv

-----------------------------------------------------------------------------
(* What finalize returns.                                                   *)

LEMMA BlocksOf ==
  ASSUME NEW v \in Seq(Octet)
  PROVE  /\ Blocks(v) \in Seq(Seq(Octet)) /\ Len(Blocks(v)) = Up(Len(v))
         /\ \A k \in 1 .. Up(Len(v)) : Blocks(v)[k] =
               [j \in 1 .. BlockSize |-> IF (k - 1) * BlockSize + j <= Len(v)
                                         THEN v[(k - 1) * BlockSize + j] ELSE Zero]
<1>1. BlockSize \in Nat \ {0} /\ Len(v) \in Nat
  BY GhashAssumption
<1>2. Up(Len(v)) \in Nat
  BY <1>1, UpFacts
<1> DEFINE byte(k, j) == IF (k - 1) * BlockSize + j <= Len(v)
                         THEN v[(k - 1) * BlockSize + j] ELSE Zero
           block(k) == [j \in 1 .. BlockSize |-> byte(k, j)]
<1>3. ASSUME NEW k \in 1 .. Up(Len(v)), NEW j \in 1 .. BlockSize
      PROVE  byte(k, j) \in Octet
  <2>1. (k - 1) * BlockSize \in Nat
    <3>1. k - 1 \in Nat
      BY <1>2
    <3> QED
      BY <1>1, <3>1
  <2>2. PICK p \in Int : p = (k - 1) * BlockSize + j /\ p >= 1
    BY <1>1, <2>1
  <2>3. p <= Len(v) => v[p] \in Octet
    BY <1>1, <2>2
  <2> QED
    BY <2>2, <2>3 DEF Octet
<1>4. Blocks(v) = [k \in 1 .. Up(Len(v)) |-> block(k)]
  BY DEF Blocks, Up
<1> HIDE DEF byte
<1>5. \A k \in 1 .. Up(Len(v)) : block(k) \in Seq(Octet)
  BY <1>1, <1>3
<1>6. \A k \in 1 .. Up(Len(v)) : Blocks(v)[k] = block(k)
  BY <1>4
<1>7. Blocks(v) \in Seq(Seq(Octet)) /\ Len(Blocks(v)) = Up(Len(v))
  <2> HIDE DEF block
  <2> QED
    BY <1>2, <1>4, <1>5
<1> QED
  BY <1>6, <1>7 DEF byte

\* A finalized hash has absorbed the blocks of as_ghash_polys, and no others.
LEMMA FinalTag ==
  ASSUME GhashInv, finalized
  PROVE  result = as_ghash_polys(text, aad)
<1> DEFINE n == Up(Len(aad))
           m == Up(Len(text))
           A == Blocks(aad)
           T == Blocks(text)
           last == LengthField(Bits(Len(aad)), Bits(Len(text)))
           R == A \o T \o <<last>>
<1>1. /\ Sequences /\ Absorbing /\ buffer = <<>> /\ result = tag
      /\ \A k \in 1 .. Len(tag) : Len(tag[k]) = BlockSize
  BY DEF GhashInv, Phases, GhashTypeOK
<1>2. /\ BlockSize \in Nat \ {0} /\ WordSize \in Nat \ {0} /\ Len(aad) \in Nat /\ Len(text) \in Nat
      /\ Len(tag) \in Nat /\ AadBytes \in Nat /\ TextBytes \in Nat /\ TagBytes \in Nat
  BY <1>1, Numbers, GhashAssumption
<1>3. n \in Nat /\ m \in Nat
  BY <1>2, UpFacts
<1>4. /\ A \in Seq(Seq(Octet)) /\ Len(A) = n
      /\ \A k \in 1 .. n : A[k] =
            [j \in 1 .. BlockSize |-> IF (k - 1) * BlockSize + j <= Len(aad)
                                      THEN aad[(k - 1) * BlockSize + j] ELSE Zero]
      /\ T \in Seq(Seq(Octet)) /\ Len(T) = m
      /\ \A k \in 1 .. m : T[k] =
            [j \in 1 .. BlockSize |-> IF (k - 1) * BlockSize + j <= Len(text)
                                      THEN text[(k - 1) * BlockSize + j] ELSE Zero]
  <2>1. aad \in Seq(Octet) /\ text \in Seq(Octet)
    BY <1>1 DEF Sequences
  <2>2. /\ A \in Seq(Seq(Octet)) /\ Len(A) = n
        /\ \A k \in 1 .. n : A[k] =
              [j \in 1 .. BlockSize |-> IF (k - 1) * BlockSize + j <= Len(aad)
                                        THEN aad[(k - 1) * BlockSize + j] ELSE Zero]
    BY <2>1, BlocksOf, Zenon
  <2>3. /\ T \in Seq(Seq(Octet)) /\ Len(T) = m
        /\ \A k \in 1 .. m : T[k] =
              [j \in 1 .. BlockSize |-> IF (k - 1) * BlockSize + j <= Len(text)
                                        THEN text[(k - 1) * BlockSize + j] ELSE Zero]
    BY <2>1, BlocksOf, Zenon
  <2> QED
    BY <2>2, <2>3, Zenon
<1>5. last \in Seq(Octet) /\ last = [j \in 1 .. BlockSize |-> last[j]]
  <2>1. Bits(Len(aad)) \in Nat /\ Bits(Len(text)) \in Nat
    BY <1>2 DEF Bits
  <2>2. last \in Seq(Octet) /\ Len(last) = BlockSize
    BY <2>1, Lengths
  <2>3. last = [j \in 1 .. BlockSize |-> last[j]]
    BY <2>2, Spelled, Zenon
  <2> QED
    BY <2>2, <2>3
<1>6. AadBytes = n * BlockSize /\ TextBytes = m * BlockSize /\ TagBytes = Len(tag) * BlockSize
  BY DEF AadBytes, TextBytes, TagBytes
<1> HIDE DEF n, m, A, T, last
<1>7. Len(tag) = n + m + 1
  <2>1. TagBytes = AadBytes + TextBytes + BlockSize
    <3>1. Len(buffer) = 0
      BY <1>1
    <3>2. TagBytes + Len(buffer) = AadBytes + TextBytes + BlockSize
      BY <1>1 DEF Absorbing, Total
    <3> QED
      BY <1>2, <3>1, <3>2
  <2> DEFINE q == n + m
  <2>2. q \in Int /\ n \in Int /\ m \in Int /\ 1 \in Int /\ q + 1 \in Int /\ Len(tag) \in Int
    BY <1>2, <1>3
  <2>3. q * BlockSize = n * BlockSize + m * BlockSize
    BY <1>2, <2>2, Scale
  <2> HIDE DEF q
  <2>4. (q + 1) * BlockSize = q * BlockSize + BlockSize
    BY <1>2, <2>2, Scale
  <2>5. Len(tag) * BlockSize = (q + 1) * BlockSize
    BY <1>2, <1>6, <2>1, <2>3, <2>4
  <2>6. Len(tag) = q + 1
    <3>1. Len(tag) < q + 1 => (Len(tag) + 1) * BlockSize <= (q + 1) * BlockSize
      BY <1>2, <2>2, Scale
    <3>2. q + 1 < Len(tag) => (q + 1 + 1) * BlockSize <= Len(tag) * BlockSize
      BY <1>2, <2>2, Scale
    <3>3. /\ (Len(tag) + 1) * BlockSize = Len(tag) * BlockSize + BlockSize
          /\ (q + 1 + 1) * BlockSize = (q + 1) * BlockSize + BlockSize
          /\ Len(tag) * BlockSize \in Int /\ (q + 1) * BlockSize \in Int
      BY <1>2, <2>2, Scale
    <3> QED
      BY <1>2, <2>2, <2>5, <3>1, <3>2, <3>3
  <2> QED
    BY <2>6 DEF q
<1>8. /\ R \in Seq(Seq(Octet)) /\ Len(R) = n + m + 1 /\ R[n + m + 1] = last
      /\ \A k \in 1 .. n : R[k] = A[k]
      /\ \A k \in 1 .. m : R[n + k] = T[k]
  <2>0. /\ A \in Seq(Seq(Octet)) /\ T \in Seq(Seq(Octet)) /\ Len(A) = n /\ Len(T) = m
    BY <1>4
  <2>1. /\ A \o T \in Seq(Seq(Octet)) /\ Len(A \o T) = n + m
        /\ \A k \in 1 .. n : (A \o T)[k] = A[k]
        /\ \A k \in 1 .. m : (A \o T)[n + k] = T[k]
    BY <2>0, Chained
  <2>2. <<last>> \in Seq(Seq(Octet)) /\ Len(<<last>>) = 1 /\ <<last>>[1] = last
    BY <1>5
  <2> DEFINE AT == A \o T
             L  == <<last>>
  <2> HIDE DEF AT, L
  <2>3. /\ AT \in Seq(Seq(Octet)) /\ Len(AT) = n + m /\ L \in Seq(Seq(Octet)) /\ Len(L) = 1
        /\ L[1] = last
    BY <2>1, <2>2 DEF AT, L
  <2>4. /\ AT \o L \in Seq(Seq(Octet)) /\ Len(AT \o L) = n + m + 1
        /\ \A k \in 1 .. n + m : (AT \o L)[k] = AT[k]
        /\ (AT \o L)[n + m + 1] = last
    <3> DEFINE q == n + m
               u == 1
    <3>0. AT \in Seq(Seq(Octet)) /\ L \in Seq(Seq(Octet)) /\ Len(AT) = q /\ Len(L) = u
      BY <2>3
    <3> HIDE DEF q, u
    <3>a. /\ AT \o L \in Seq(Seq(Octet)) /\ Len(AT \o L) = q + u
          /\ \A k \in 1 .. q : (AT \o L)[k] = AT[k]
          /\ \A k \in 1 .. u : (AT \o L)[q + k] = L[k]
      BY <3>0, Chained
    <3>1. /\ AT \o L \in Seq(Seq(Octet)) /\ Len(AT \o L) = (n + m) + 1
          /\ \A k \in 1 .. n + m : (AT \o L)[k] = AT[k]
          /\ \A k \in 1 .. 1 : (AT \o L)[n + m + k] = L[k]
      BY <3>a, Zenon DEF q, u
    <3>2. 1 \in 1 .. 1
      OBVIOUS
    <3> QED
      BY <2>3, <3>1, <3>2, Zenon
  <2>5. R = AT \o L
    BY DEF AT, L
  <2>6. \A k \in 1 .. n : k \in 1 .. n + m
    BY <1>3
  <2>7. \A k \in 1 .. m : n + k \in 1 .. n + m
    BY <1>3
  <2> QED
    BY <2>1, <2>4, <2>5, <2>6, <2>7 DEF AT
<1> HIDE DEF R
<1>9. ASSUME NEW k \in 1 .. n + m + 1
      PROVE  tag[k] = R[k]
  <2> DEFINE base == (k - 1) * BlockSize
  <2>1. k \in Int /\ k - 1 \in Int /\ n \in Int /\ m \in Int /\ 1 \in Int /\ n + m \in Int
    BY <1>3
  <2>2. base \in Int /\ k * BlockSize \in Int /\ base = k * BlockSize - BlockSize
    BY <1>2, <2>1, Scale
  <2>3. tag[k] = [j \in 1 .. BlockSize |-> Stream(base + j)]
    <3>1. tag[k] \in Seq(Octet) /\ Len(tag[k]) = BlockSize
      BY <1>1, <1>7 DEF Sequences
    <3>2. tag[k] = [j \in 1 .. BlockSize |-> tag[k][j]]
      BY <3>1, Spelled, Zenon
    <3>3. \A j \in 1 .. BlockSize : tag[k][j] = Stream(base + j)
      BY <1>1, <1>7 DEF Absorbing
    <3> HIDE DEF base
    <3> QED
      BY <3>2, <3>3
  <2>4. CASE k \in 1 .. n
    <3>1. k * BlockSize <= n * BlockSize
      BY <1>2, <2>1, <2>4, Scale
    <3>2. \A j \in 1 .. BlockSize : base + j <= AadBytes
      <4> HIDE DEF base
      <4> QED
        BY <1>2, <1>6, <2>2, <3>1
    <3>3. \A j \in 1 .. BlockSize :
             Stream(base + j) = IF base + j <= Len(aad) THEN aad[base + j] ELSE Zero
      <4> HIDE DEF base
      <4> QED
        BY <3>2 DEF Stream
    <3>4. A[k] = [j \in 1 .. BlockSize |-> IF base + j <= Len(aad) THEN aad[base + j] ELSE Zero]
      BY <1>4, <2>4
    <3> HIDE DEF base
    <3> QED
      BY <1>8, <2>3, <2>4, <3>3, <3>4
  <2>5. CASE k \in n + 1 .. n + m
    <3>1. PICK i \in 1 .. m : k = n + i
      <4>1. k - n \in 1 .. m /\ k = n + (k - n)
        BY <2>1, <2>5
      <4> QED
        BY <4>1
    <3> DEFINE off == (i - 1) * BlockSize
    <3>2. i \in Int /\ i - 1 \in Int
      BY <3>1
    <3>3. base = AadBytes + off /\ off \in Int
      <4>1. (n + (i - 1)) * BlockSize = n * BlockSize + off /\ off \in Int
        BY <1>2, <2>1, <3>2, Scale
      <4>2. k - 1 = n + (i - 1)
        BY <2>1, <3>1, <3>2
      <4> QED
        BY <1>6, <4>1, <4>2
    <3>4. 0 <= off /\ off + BlockSize <= TextBytes
      <4>1. 0 \in Int /\ 0 <= i - 1 /\ i <= m /\ 0 * BlockSize = 0
        BY <1>2, <3>1
      <4>2. 0 * BlockSize <= off
        BY <1>2, <3>2, <4>1, Scale
      <4>3. i * BlockSize <= m * BlockSize /\ off = i * BlockSize - BlockSize /\ i * BlockSize \in Int
        BY <1>2, <2>1, <3>2, <4>1, Scale
      <4> HIDE DEF off
      <4> QED
        BY <1>2, <1>6, <4>1, <4>2, <4>3
    <3>5. T[i] = [j \in 1 .. BlockSize |-> IF off + j <= Len(text) THEN text[off + j] ELSE Zero]
      BY <1>4
    <3> HIDE DEF base, off
    <3>6. ASSUME NEW j \in 1 .. BlockSize
          PROVE  Stream(base + j) = IF off + j <= Len(text) THEN text[off + j] ELSE Zero
      <4>1. PICK p \in Int : p = base + j
        BY <2>2
      <4>2. ~(p <= AadBytes) /\ p <= AadBytes + TextBytes /\ p - AadBytes = off + j
        BY <1>2, <3>3, <3>4, <4>1
      <4> QED
        BY <4>1, <4>2 DEF Stream
    <3> QED
      BY <1>8, <2>3, <3>1, <3>5, <3>6
  <2>6. CASE k = n + m + 1
    <3>1. base = AadBytes + TextBytes
      <4>1. k - 1 = n + m
        BY <2>1, <2>6
      <4>2. (n + m) * BlockSize = n * BlockSize + m * BlockSize
        BY <1>2, <2>1, Scale
      <4> QED
        BY <1>6, <4>1, <4>2
    <3> HIDE DEF base
    <3>2. ASSUME NEW j \in 1 .. BlockSize
          PROVE  Stream(base + j) = last[j]
      <4>1. PICK p \in Int : p = base + j
        BY <2>2
      <4>2. ~(p <= AadBytes) /\ ~(p <= AadBytes + TextBytes) /\ p - (AadBytes + TextBytes) = j
        BY <1>2, <3>1, <4>1
      <4>3. Stream(p) = LengthField(Bits(Len(aad)), Bits(Len(text)))[j]
        BY <4>2 DEF Stream
      <4> QED
        BY <4>1, <4>3 DEF last
    <3> QED
      BY <1>5, <1>8, <2>3, <2>6, <3>2
  <2> QED
    BY <2>1, <2>4, <2>5, <2>6
<1>10. tag \in Seq(Seq(Octet)) /\ R \in Seq(Seq(Octet)) /\ Len(tag) = Len(R)
  BY <1>1, <1>7, <1>8 DEF Sequences
<1>11. tag = [k \in 1 .. n + m + 1 |-> tag[k]] /\ R = [k \in 1 .. n + m + 1 |-> R[k]]
  BY <1>7, <1>8, <1>10
<1>12. tag = R
  BY <1>9, <1>11
<1> QED
  BY <1>1, <1>12 DEF R, A, T, last, as_ghash_polys

-----------------------------------------------------------------------------
(* The encryptor.                                                           *)


\* The bytes of the plaintext that have been encrypted.
Pos == taken - Len(plaintext)

\* The byte p of the keystream, and of the ciphertext.
KeyByte(p)    == <<(y0 + 1 + (p - 1) \div BlockSize) % CounterSize, 1 + ((p - 1) % BlockSize)>>
CipherByte(p) == <<"text", p, KeyByte(p)>>

EncTypes ==
  /\ y0 \in 0 .. CounterSize - 1 /\ y \in 0 .. CounterSize - 1
  /\ at \in {"new", "idle", "encrypting", "hashing", "finalizing"}
  /\ taken \in 0 .. MaxText
  /\ mask \in {NoMask} \cup (0 .. CounterSize - 1)
  /\ plaintext \in Seq(Nat) /\ keystream \in Seq(Nat \X Nat)
  /\ ciphertext \in Seq(Octet) /\ out \in Seq(Octet)

\* The rest of the keystream belongs to the rest of the plaintext, and ends
\* where the next block of it begins.
Aligned ==
  /\ \A j \in 1 .. Len(plaintext) : plaintext[j] = Pos + j
  /\ \A j \in 1 .. Len(keystream) : keystream[j] = KeyByte(Pos + j)
  /\ Len(keystream) <= BlockSize
  /\ Len(keystream) = BlockSize => plaintext # <<>>
  /\ \E m \in Nat : Pos + Len(keystream) = m * BlockSize /\ y = (1 + m) % CounterSize

\* What is encrypted and what was returned lie one behind the other.
Encrypted ==
  /\ Pos \in Nat /\ Len(ciphertext) <= Pos
  /\ \A j \in 1 .. Len(ciphertext) : ciphertext[j] = CipherByte(Pos - Len(ciphertext) + j)
  /\ \A j \in 1 .. Len(out) : out[j] = CipherByte(j)
  /\ ~finalized => Len(out) = Pos - Len(ciphertext)

\* What has been hashed is what was returned, or is about to be.
HashedIsOut ==
  IF at = "hashing" /\ ~threw THEN text = out \o ciphertext ELSE text = out

\* Where the Encryptor is and where its hash is.
Control ==
  /\ at = "new" <=> pc = "new"
  /\ at = "new" => keystream = <<>> /\ out = <<>> /\ ~finalized
  /\ at # "encrypting" => plaintext = <<>>
  /\ at \notin {"encrypting", "hashing"} => ciphertext = <<>>
  /\ at = "idle" => pc \in {"aad", "aadpad", "ready"}
  /\ at = "encrypting" => pc = "ready"
  /\ at = "hashing" => pc \in {"text", "ready"} /\ threw = finalized
  /\ at = "finalizing" => /\ pc \in {"textpad", "lengths", "length", "ready"}
                          /\ pc = "ready" => finalized
  /\ mask # NoMask => mask = y0 /\ finalized

IInv ==
  /\ GhashInv
  /\ EncTypes
  /\ Aligned
  /\ Encrypted
  /\ HashedIsOut
  /\ Control

-----------------------------------------------------------------------------
LEMMA EncNumbers ==
  ASSUME IInv
  PROVE  /\ BlockSize \in Nat \ {0} /\ CounterSize \in Nat \ {0, 1} /\ CounterSize \in Nat \ {0}
         /\ Len(plaintext) \in Nat /\ Len(keystream) \in Nat
         /\ Len(ciphertext) \in Nat /\ Len(out) \in Nat
         /\ taken \in Nat /\ Pos \in Nat /\ y0 \in Nat /\ y \in Nat
<1>1. BlockSize \in Nat \ {0} /\ CounterSize \in Nat \ {0, 1} /\ CounterSize \in Nat \ {0} /\ MaxText \in Nat
  BY GhashAssumption, EncryptorAssumption
<1>2. EncTypes /\ Pos \in Nat
  BY DEF IInv, Encrypted
<1>3. y0 \in Nat /\ y \in Nat /\ taken \in Nat
  BY <1>1, <1>2 DEF EncTypes
<1>4. Len(plaintext) \in Nat /\ Len(keystream) \in Nat /\ Len(ciphertext) \in Nat /\ Len(out) \in Nat
  BY <1>2 DEF EncTypes
<1> QED
  BY <1>1, <1>2, <1>3, <1>4

\* The bytes of the block m of the keystream.
LEMMA BlockOfKeystream ==
  ASSUME NEW m \in Nat, NEW j \in 1 .. BlockSize, y0 \in Nat
  PROVE  KeyByte(m * BlockSize + j) = <<(y0 + (1 + m)) % CounterSize, j>>
<1>1. BlockSize \in Nat \ {0} /\ j \in Nat /\ m \in Int /\ j - 1 \in 0 .. BlockSize - 1
  BY GhashAssumption
<1>2. m * BlockSize \in Int
  BY <1>1
<1>3. (m * BlockSize + (j - 1)) \div BlockSize = m /\ (m * BlockSize + (j - 1)) % BlockSize = j - 1
  BY <1>1, QuotientIs
<1>4. (m * BlockSize + j) - 1 = m * BlockSize + (j - 1)
  BY <1>1, <1>2
<1>5. ((m * BlockSize + j) - 1) \div BlockSize = m /\ ((m * BlockSize + j) - 1) % BlockSize = j - 1
  BY <1>3, <1>4
<1>6. y0 + 1 + m = y0 + (1 + m) /\ 1 + (j - 1) = j
  BY <1>1
<1>7. KeyByte(m * BlockSize + j) =
        <<(y0 + 1 + ((m * BlockSize + j) - 1) \div BlockSize) % CounterSize,
          1 + (((m * BlockSize + j) - 1) % BlockSize)>>
  BY Zenon DEF KeyByte
<1>8. KeyByte(m * BlockSize + j) = <<(y0 + 1 + m) % CounterSize, 1 + (j - 1)>>
  BY <1>5, <1>7, Zenon
<1> QED
  BY <1>6, <1>8, Zenon

\* A byte of the ciphertext is one the hash may be given.
LEMMA CipherByteIsOctet ==
  ASSUME NEW p \in Nat \ {0}, y0 \in Nat
  PROVE  CipherByte(p) \in Octet /\ KeyByte(p) \in Nat \X Nat
<1>1. BlockSize \in Nat \ {0} /\ CounterSize \in Nat \ {0}
  BY GhashAssumption, EncryptorAssumption
<1>2. (p - 1) \div BlockSize \in Nat /\ (p - 1) % BlockSize \in Nat
  BY <1>1
<1>3. (y0 + 1 + (p - 1) \div BlockSize) % CounterSize \in Nat /\ 1 + ((p - 1) % BlockSize) \in Nat
  BY <1>1, <1>2
<1>4. KeyByte(p) \in Nat \X Nat
  BY <1>3 DEF KeyByte
<1> QED
  BY <1>4 DEF CipherByte, Octet

LEMMA HeadAndTail ==
  ASSUME NEW S, NEW s \in Seq(S), s # <<>>
  PROVE  /\ Tail(s) \in Seq(S) /\ Len(Tail(s)) = Len(s) - 1 /\ Len(s) >= 1 /\ Head(s) = s[1]
         /\ \A j \in 1 .. Len(s) - 1 : Tail(s)[j] = s[j + 1]
OBVIOUS

\* A step that touches no data of the Encryptor.
LEMMA DataStays ==
  ASSUME Aligned, Encrypted, UNCHANGED <<y0, y, keystream, plaintext, ciphertext, taken, out>>,
         finalized => finalized'
  PROVE  Aligned' /\ Encrypted'
<1>1. Pos' = Pos /\ \A p : KeyByte(p)' = KeyByte(p) /\ CipherByte(p)' = CipherByte(p)
  BY DEF Pos, KeyByte, CipherByte
<1>2. Aligned'
  BY <1>1 DEF Aligned
<1>3. Encrypted'
  BY <1>1 DEF Encrypted
<1> QED
  BY <1>2, <1>3

-----------------------------------------------------------------------------
LEMMA InitIsInv ==
  ASSUME Init
  PROVE  IInv
<1>1. GhashInv
  BY InitIsGhashInv DEF Init
<1>2. /\ y0 = 0 /\ y = 1 /\ keystream = <<>> /\ at = "new" /\ plaintext = <<>> /\ ciphertext = <<>>
      /\ taken = 0 /\ out = <<>> /\ mask = NoMask /\ text = <<>> /\ pc = "new" /\ finalized = FALSE
  BY DEF Init, GhashInit
<1>3. BlockSize \in Nat \ {0} /\ CounterSize \in Nat \ {0, 1} /\ MaxText \in Nat
  BY GhashAssumption, EncryptorAssumption
<1>4. Len(<<>>) = 0 /\ <<>> \in Seq(Octet) /\ <<>> \in Seq(Nat) /\ <<>> \in Seq(Nat \X Nat)
  OBVIOUS
<1>5. EncTypes
  BY <1>2, <1>3, <1>4 DEF EncTypes
<1>6. Pos = 0 /\ Len(ciphertext) = 0 /\ Len(out) = 0
  <2>1. taken = 0 /\ Len(plaintext) = 0 /\ Len(ciphertext) = 0 /\ Len(out) = 0
    BY <1>2, <1>4
  <2> QED
    BY <2>1 DEF Pos
<1>7. Aligned
  <2>1. 0 \in Nat /\ Pos + Len(keystream) = 0 * BlockSize /\ y = (1 + 0) % CounterSize
    BY <1>2, <1>3, <1>4, <1>6
  <2>2. \E m \in Nat : Pos + Len(keystream) = m * BlockSize /\ y = (1 + m) % CounterSize
    BY <2>1, Zenon
  <2> QED
    BY <1>2, <1>3, <1>4, <2>2 DEF Aligned
<1>8. Encrypted
  BY <1>6 DEF Encrypted
<1>9. HashedIsOut /\ Control
  BY <1>2 DEF HashedIsOut, Control
<1> QED
  BY <1>1, <1>5, <1>7, <1>8, <1>9 DEF IInv

LEMMA ConstructKeepsInv ==
  ASSUME IInv, NEW n \in 0 .. MaxAad, Construct(Named("aad", 0, n))
  PROVE  IInv'
<1> DEFINE data == Named("aad", 0, n)
<1>1. /\ at = "new" /\ GhashConstruct(data) /\ at' = "idle"
      /\ y0' = 1 \/ y0' \in 0 .. CounterSize - 1
      /\ UNCHANGED <<y, keystream, plaintext, ciphertext, taken, out, mask>>
  BY DEF Construct
<1>2. data \in Seq(Octet)
  <2>1. n \in Nat /\ MaxAad \in Nat
    BY GhashAssumption
  <2>2. \A j \in 1 .. n : <<"aad", 0 + j>> \in Octet
    BY <2>1 DEF Octet
  <2> QED
    BY <2>1, <2>2 DEF Named
<1> HIDE DEF data
<1>3. GhashInv'
  BY <1>1, <1>2, ConstructKeeps DEF IInv
<1>4. CounterSize \in Nat \ {0, 1}
  BY EncryptorAssumption
<1>5. EncTypes'
  BY <1>1, <1>4 DEF IInv, EncTypes
<1>6. /\ keystream = <<>> /\ out = <<>> /\ ciphertext = <<>> /\ plaintext = <<>>
      /\ ~finalized /\ mask = NoMask /\ text = <<>>
  <2>1. mask = NoMask \/ finalized
    BY DEF IInv, Control
  <2> QED
    BY <1>1, <2>1 DEF IInv, Control, HashedIsOut
<1>7. pc' = "aad" /\ UNCHANGED <<finalized, text, threw>>
  BY <1>1 DEF GhashConstruct
<1>8. Pos' = Pos /\ Len(<<>>) = 0
  BY <1>1 DEF Pos
<1>9. Aligned'
  BY <1>1, <1>6, <1>8 DEF IInv, Aligned
<1>10. Encrypted'
  BY <1>1, <1>6, <1>7, <1>8 DEF IInv, Encrypted
<1>11. HashedIsOut' /\ Control'
  BY <1>1, <1>6, <1>7 DEF HashedIsOut, Control
<1> QED
  BY <1>3, <1>5, <1>9, <1>10, <1>11 DEF IInv

LEMMA UpdateKeepsInv ==
  ASSUME IInv, NEW n \in 0 .. MaxChunk, taken + n <= MaxText, Update(n)
  PROVE  IInv'
<1>1. /\ at = "idle" /\ pc = "ready" /\ at' = "encrypting" /\ taken' = taken + n
      /\ plaintext' = [j \in 1 .. n |-> taken + j] /\ ciphertext' = <<>>
      /\ UNCHANGED <<y0, y, keystream, out, mask>> /\ UNCHANGED ghashVars
  BY DEF Update
<1>2. /\ BlockSize \in Nat \ {0} /\ taken \in Nat /\ n \in Nat /\ MaxText \in Nat /\ Len(keystream) \in Nat
      /\ Pos \in Nat
  BY EncNumbers, GhashAssumption
<1>3. plaintext = <<>> /\ ciphertext = <<>> /\ Len(plaintext) = 0
  BY <1>1 DEF IInv, Control
<1>4. plaintext' \in Seq(Nat) /\ Len(plaintext') = n /\ \A j \in 1 .. n : plaintext'[j] = taken + j
  BY <1>1, <1>2
<1>5. Pos = taken /\ Pos' = Pos
  BY <1>1, <1>2, <1>3, <1>4 DEF Pos
<1>6. GhashInv'
  BY <1>1, GhashStutterKeeps DEF IInv
<1>7. UNCHANGED <<pc, finalized, threw, text>>
  BY <1>1 DEF ghashVars, ghashState, hashed
<1>8. EncTypes'
  <2>1. taken' \in 0 .. MaxText
    BY <1>1, <1>2
  <2> QED
    BY <1>1, <1>4, <2>1 DEF IInv, EncTypes
<1>9. \A p : KeyByte(p)' = KeyByte(p) /\ CipherByte(p)' = CipherByte(p)
  BY <1>1 DEF KeyByte, CipherByte
<1>10. Aligned'
  <2>1. Len(keystream) # BlockSize
    BY <1>3 DEF IInv, Aligned
  <2> QED
    BY <1>1, <1>4, <1>5, <1>9, <2>1 DEF IInv, Aligned
<1>11. Encrypted'
  BY <1>1, <1>3, <1>5, <1>7, <1>9 DEF IInv, Encrypted
<1>12. HashedIsOut'
  BY <1>1, <1>7 DEF IInv, HashedIsOut
<1>13. Control'
  BY <1>1, <1>7 DEF IInv, Control
<1> QED
  BY <1>6, <1>8, <1>10, <1>11, <1>12, <1>13 DEF IInv

LEMMA NextBlockKeepsInv ==
  ASSUME IInv, NextBlock
  PROVE  IInv'
<1>1. /\ at = "encrypting" /\ plaintext # <<>> /\ keystream = <<>>
      /\ keystream' = [j \in 1 .. BlockSize |-> <<y_block(y), j>>]
      /\ y' = (y + 1) % CounterSize
      /\ UNCHANGED <<y0, at, plaintext, ciphertext, taken, out, mask>> /\ UNCHANGED ghashVars
  BY DEF NextBlock
<1>2. /\ BlockSize \in Nat \ {0} /\ CounterSize \in Nat \ {0} /\ Pos \in Nat
      /\ y0 \in Nat /\ y \in Nat /\ Len(keystream) = 0
  BY <1>1, EncNumbers
<1>3. GhashInv'
  BY <1>1, GhashStutterKeeps DEF IInv
<1>4. UNCHANGED <<pc, finalized, threw, text>>
  BY <1>1 DEF ghashVars, ghashState, hashed
<1>5. y_block(y) \in Nat /\ y' \in 0 .. CounterSize - 1
  BY <1>1, <1>2 DEF y_block
<1>6. /\ keystream' \in Seq(Nat \X Nat) /\ Len(keystream') = BlockSize
      /\ \A j \in 1 .. BlockSize : keystream'[j] = <<y_block(y), j>>
  <2>1. \A j \in 1 .. BlockSize : <<y_block(y), j>> \in Nat \X Nat
    BY <1>2, <1>5
  <2> QED
    BY <1>1, <1>2, <2>1
<1>7. EncTypes'
  BY <1>1, <1>5, <1>6 DEF IInv, EncTypes
<1>8. Pos' = Pos /\ \A p : KeyByte(p)' = KeyByte(p) /\ CipherByte(p)' = CipherByte(p)
  BY <1>1 DEF Pos, KeyByte, CipherByte
<1>9. PICK m \in Nat : Pos + Len(keystream) = m * BlockSize /\ y = (1 + m) % CounterSize
  BY DEF IInv, Aligned
<1>10. Pos = m * BlockSize
  BY <1>2, <1>9
<1>11. y_block(y) = (y0 + (1 + m)) % CounterSize
  <2>1. y0 \in Int /\ 1 + m \in Int
    BY <1>2
  <2>2. (y0 + ((1 + m) % CounterSize)) % CounterSize = (y0 + (1 + m)) % CounterSize
    BY <1>2, <2>1, ModSum
  <2> QED
    BY <1>9, <2>2 DEF y_block
<1>12. y' = (1 + (m + 1)) % CounterSize
  <2>1. 1 \in Int /\ 1 + m \in Int
    OBVIOUS
  <2>2. (1 + ((1 + m) % CounterSize)) % CounterSize = (1 + (1 + m)) % CounterSize
    BY <1>2, <2>1, ModSum
  <2>3. y + 1 = 1 + y /\ 1 + (1 + m) = 1 + (m + 1)
    BY <1>2
  <2> QED
    BY <1>1, <1>9, <2>2, <2>3
<1>13. Aligned'
  <2>1. ASSUME NEW j \in 1 .. Len(keystream')
        PROVE  keystream'[j] = KeyByte(Pos + j)
    <3>1. j \in 1 .. BlockSize /\ Pos + j = m * BlockSize + j
      BY <1>6, <1>10
    <3>2. KeyByte(m * BlockSize + j) = <<(y0 + (1 + m)) % CounterSize, j>>
      BY <1>2, <3>1, BlockOfKeystream
    <3> QED
      BY <1>6, <1>11, <3>1, <3>2
  <2>2. m + 1 \in Nat /\ Pos + BlockSize = (m + 1) * BlockSize
    <3>1. m \in Int /\ 1 \in Int
      OBVIOUS
    <3> QED
      BY <1>2, <1>10, <3>1, Scale
  <2>3. \E i \in Nat : Pos' + Len(keystream') = i * BlockSize /\ y' = (1 + i) % CounterSize
    BY <1>6, <1>8, <1>12, <2>2, Zenon
  <2>4. Len(keystream') <= BlockSize
    BY <1>2, <1>6
  <2> QED
    BY <1>1, <1>8, <2>1, <2>3, <2>4 DEF IInv, Aligned
<1>14. Encrypted'
  BY <1>1, <1>4, <1>8 DEF IInv, Encrypted
<1>15. HashedIsOut'
  BY <1>1, <1>4 DEF IInv, HashedIsOut
<1>16. Control'
  BY <1>1, <1>4 DEF IInv, Control
<1> QED
  BY <1>3, <1>7, <1>13, <1>14, <1>15, <1>16 DEF IInv

LEMMA EncryptByteKeepsInv ==
  ASSUME IInv, EncryptByte
  PROVE  IInv'
<1>1. /\ at = "encrypting" /\ plaintext # <<>> /\ keystream # <<>>
      /\ ciphertext' = Append(ciphertext, <<"text", Head(plaintext), Head(keystream)>>)
      /\ plaintext' = Tail(plaintext) /\ keystream' = Tail(keystream)
      /\ UNCHANGED <<y0, y, at, taken, out, mask>> /\ UNCHANGED ghashVars
  BY DEF EncryptByte
<1>2. /\ BlockSize \in Nat \ {0} /\ CounterSize \in Nat \ {0} /\ Pos \in Nat
      /\ y0 \in Nat /\ Len(plaintext) \in Nat /\ Len(keystream) \in Nat
      /\ Len(ciphertext) \in Nat /\ taken \in Nat /\ Len(out) \in Nat
  BY EncNumbers
<1>3. GhashInv'
  BY <1>1, GhashStutterKeeps DEF IInv
<1>4. UNCHANGED <<pc, finalized, threw, text>>
  BY <1>1 DEF ghashVars, ghashState, hashed
<1>5. /\ plaintext' \in Seq(Nat) /\ Len(plaintext') = Len(plaintext) - 1 /\ Len(plaintext) >= 1
      /\ Head(plaintext) = plaintext[1]
      /\ \A j \in 1 .. Len(plaintext) - 1 : plaintext'[j] = plaintext[j + 1]
  <2>1. plaintext \in Seq(Nat)
    BY DEF IInv, EncTypes
  <2> QED
    BY <1>1, <2>1
<1>6. /\ keystream' \in Seq(Nat \X Nat) /\ Len(keystream') = Len(keystream) - 1 /\ Len(keystream) >= 1
      /\ Head(keystream) = keystream[1]
      /\ \A j \in 1 .. Len(keystream) - 1 : keystream'[j] = keystream[j + 1]
  <2>1. keystream \in Seq(Nat \X Nat)
    BY DEF IInv, EncTypes
  <2> QED
    BY <1>1, <2>1, HeadAndTail
<1>7. Pos' = Pos + 1
  BY <1>1, <1>2, <1>5 DEF Pos
<1>8. \A p : KeyByte(p)' = KeyByte(p) /\ CipherByte(p)' = CipherByte(p)
  BY <1>1 DEF KeyByte, CipherByte
<1>9. <<"text", Head(plaintext), Head(keystream)>> = CipherByte(Pos + 1)
  <2>1. Head(plaintext) = Pos + 1 /\ Head(keystream) = KeyByte(Pos + 1)
    BY <1>2, <1>5, <1>6 DEF IInv, Aligned
  <2> QED
    BY <2>1 DEF CipherByte
<1>10. /\ ciphertext' \in Seq(Octet) /\ Len(ciphertext') = Len(ciphertext) + 1
       /\ \A j \in 1 .. Len(ciphertext) : ciphertext'[j] = ciphertext[j]
       /\ ciphertext'[Len(ciphertext) + 1] = CipherByte(Pos + 1)
  <2>1. CipherByte(Pos + 1) \in Octet
    BY <1>2, CipherByteIsOctet
  <2>2. ciphertext \in Seq(Octet) /\ ciphertext' = Append(ciphertext, CipherByte(Pos + 1))
    BY <1>1, <1>9 DEF IInv, EncTypes
  <2> QED
    BY <2>1, <2>2
<1>11. EncTypes'
  BY <1>1, <1>5, <1>6, <1>10 DEF IInv, EncTypes
<1>12. Aligned'
  <2>1. ASSUME NEW j \in 1 .. Len(plaintext')
        PROVE  plaintext'[j] = Pos' + j
    <3>1. j \in 1 .. Len(plaintext) - 1 /\ j + 1 \in 1 .. Len(plaintext) /\ Pos + (j + 1) = Pos' + j
      BY <1>2, <1>5, <1>7
    <3> QED
      BY <1>5, <3>1 DEF IInv, Aligned
  <2>2. ASSUME NEW j \in 1 .. Len(keystream')
        PROVE  keystream'[j] = KeyByte(Pos + 1 + j)
    <3>1. j \in 1 .. Len(keystream) - 1
      BY <1>6
    <3>2. j + 1 \in 1 .. Len(keystream) /\ Pos + (j + 1) = Pos + 1 + j
      BY <1>2, <3>1
    <3> QED
      BY <1>6, <3>1, <3>2 DEF IInv, Aligned
  <2>3. Len(keystream') < BlockSize
    BY <1>2, <1>6 DEF IInv, Aligned
  <2>4. Pos' + Len(keystream') = Pos + Len(keystream)
    BY <1>2, <1>6, <1>7
  <2>5. \E m \in Nat : Pos' + Len(keystream') = m * BlockSize /\ y' = (1 + m) % CounterSize
    BY <1>1, <2>4 DEF IInv, Aligned
  <2>6. Len(keystream') <= BlockSize /\ Len(keystream') # BlockSize
    BY <1>2, <1>6, <2>3
  <2>7. \A j \in 1 .. Len(keystream') : keystream'[j] = KeyByte(Pos + j)'
    <3> SUFFICES ASSUME NEW j \in 1 .. Len(keystream')
                 PROVE  keystream'[j] = KeyByte(Pos + j)'
      OBVIOUS
    <3>2. PICK p \in Int : p = Pos + 1 + j
      BY <1>2
    <3>3. KeyByte(Pos + j)' = KeyByte(p)'
      BY <1>7, <3>2
    <3> QED
      BY <1>8, <2>2, <3>2, <3>3
  <2> QED
    BY <2>1, <2>5, <2>6, <2>7 DEF Aligned
<1>13. Encrypted'
  <2>1. Pos' \in Nat /\ Len(ciphertext') <= Pos' /\ Pos' - Len(ciphertext') = Pos - Len(ciphertext)
    BY <1>2, <1>7, <1>10 DEF IInv, Encrypted
  <2>2. ASSUME NEW j \in 1 .. Len(ciphertext'), NEW p \in Int, p = Pos - Len(ciphertext) + j
        PROVE  ciphertext'[j] = CipherByte(p)
    <3>1. CASE j \in 1 .. Len(ciphertext)
      BY <1>10, <2>2, <3>1 DEF IInv, Encrypted
    <3>2. CASE j = Len(ciphertext) + 1
      <4>1. p = Pos + 1
        BY <1>2, <2>2, <3>2
      <4> QED
        BY <1>10, <3>2, <4>1
    <3> QED
      BY <1>2, <1>10, <3>1, <3>2
  <2>3. ASSUME NEW j \in 1 .. Len(ciphertext')
        PROVE  ciphertext'[j] = CipherByte(Pos - Len(ciphertext) + j)'
    <3>0. j \in Int /\ Pos - Len(ciphertext) \in Int
      BY <1>2
    <3>1. PICK p \in Int : p = Pos - Len(ciphertext) + j
      BY <3>0
    <3>2. CipherByte(Pos - Len(ciphertext) + j)' = CipherByte(p)'
      BY <2>1, <3>1
    <3> QED
      BY <1>8, <2>2, <3>1, <3>2
  <2>4. \A j \in 1 .. Len(out') : out'[j] = CipherByte(j)'
    BY <1>1, <1>8 DEF IInv, Encrypted
  <2>5. ~finalized' => Len(out') = Pos' - Len(ciphertext')
    BY <1>1, <1>4, <2>1 DEF IInv, Encrypted
  <2> QED
    BY <2>1, <2>3, <2>4, <2>5 DEF Encrypted
<1>14. HashedIsOut'
  BY <1>1, <1>4 DEF IInv, HashedIsOut
<1>15. Control'
  BY <1>1, <1>4 DEF IInv, Control
<1> QED
  BY <1>3, <1>11, <1>12, <1>13, <1>14, <1>15 DEF IInv

LEMMA HashCiphertextKeepsInv ==
  ASSUME IInv, HashCiphertext
  PROVE  IInv'
<1>1. /\ at = "encrypting" /\ plaintext = <<>> /\ GhashUpdate(ciphertext) /\ at' = "hashing"
      /\ UNCHANGED <<y0, y, keystream, plaintext, ciphertext, taken, out, mask>>
  BY DEF HashCiphertext
<1>2. ciphertext \in Seq(Octet)
  BY DEF IInv, EncTypes
<1>3. GhashInv'
  BY <1>1, <1>2, UpdateKeeps DEF IInv
<1>4. /\ pc = "ready" /\ threw' = finalized /\ finalized' = finalized
      /\ finalized => pc' = "ready" /\ text' = text
      /\ ~finalized => pc' = "text" /\ text' = text \o ciphertext
  BY <1>1 DEF GhashUpdate
<1>5. EncTypes'
  BY <1>1 DEF IInv, EncTypes
<1>6. Aligned' /\ Encrypted'
  BY <1>1, <1>4, DataStays DEF IInv
<1>7. HashedIsOut'
  BY <1>1, <1>4 DEF IInv, HashedIsOut
<1>8. Control'
  BY <1>1, <1>4 DEF IInv, Control
<1> QED
  BY <1>3, <1>5, <1>6, <1>7, <1>8 DEF IInv

LEMMA ReturnCiphertextKeepsInv ==
  ASSUME IInv, ReturnCiphertext
  PROVE  IInv'
<1>1. /\ at = "hashing" /\ pc = "ready" /\ at' = "idle" /\ ciphertext' = <<>>
      /\ out' = IF threw THEN out ELSE out \o ciphertext
      /\ UNCHANGED <<y0, y, keystream, plaintext, taken, mask>> /\ UNCHANGED ghashVars
  BY DEF ReturnCiphertext
<1>2. /\ Pos \in Nat /\ Len(ciphertext) \in Nat /\ Len(out) \in Nat
  BY EncNumbers
<1>3. GhashInv'
  BY <1>1, GhashStutterKeeps DEF IInv
<1>4. UNCHANGED <<pc, finalized, threw, text>> /\ threw = finalized /\ plaintext = <<>>
  BY <1>1 DEF ghashVars, ghashState, hashed, IInv, Control
<1>5. Pos' = Pos /\ \A p : KeyByte(p)' = KeyByte(p) /\ CipherByte(p)' = CipherByte(p)
  BY <1>1 DEF Pos, KeyByte, CipherByte
<1>6. /\ out' \in Seq(Octet)
      /\ \A j \in 1 .. Len(out') : out'[j] = CipherByte(j)
      /\ ~finalized => Len(out') = Pos
  <2>1. CASE threw
    BY <1>1, <1>4, <2>1 DEF IInv, EncTypes, Encrypted
  <2>2. CASE ~threw
    <3>1. out' = out \o ciphertext /\ out \in Seq(Octet) /\ ciphertext \in Seq(Octet)
      BY <1>1, <2>2 DEF IInv, EncTypes
    <3>2. /\ out' \in Seq(Octet) /\ Len(out') = Len(out) + Len(ciphertext)
          /\ \A j \in 1 .. Len(out) : out'[j] = out[j]
          /\ \A j \in 1 .. Len(ciphertext) : out'[Len(out) + j] = ciphertext[j]
      BY <3>1, Concatenated
    <3>3. Len(out) = Pos - Len(ciphertext)
      BY <1>4, <2>2 DEF IInv, Encrypted
    <3>4. ASSUME NEW j \in 1 .. Len(out')
          PROVE  out'[j] = CipherByte(j)
      <4>1. CASE j <= Len(out)
        BY <1>2, <3>2, <4>1 DEF IInv, Encrypted
      <4>2. CASE j > Len(out)
        <5>1. PICK i \in 1 .. Len(ciphertext) : j = Len(out) + i
          <6>1. j - Len(out) \in 1 .. Len(ciphertext) /\ j = Len(out) + (j - Len(out))
            BY <1>2, <3>2, <4>2
          <6> QED
            BY <6>1
        <5>2. j = Pos - Len(ciphertext) + i
          BY <3>3, <5>1
        <5>3. ciphertext[i] = CipherByte(j)
          BY <5>2 DEF IInv, Encrypted
        <5> QED
          BY <3>2, <5>1, <5>3
      <4> QED
        BY <1>2, <3>2, <4>1, <4>2
    <3> QED
      BY <1>2, <3>2, <3>3, <3>4
  <2> QED
    BY <1>4, <2>1, <2>2 DEF IInv, GhashInv, GhashTypeOK
<1>7. EncTypes'
  <2>1. ciphertext' \in Seq(Octet)
    BY <1>1
  <2> QED
    BY <1>1, <1>6, <2>1 DEF IInv, EncTypes
<1>8. Aligned'
  BY <1>1, <1>5 DEF IInv, Aligned
<1>9. Encrypted'
  <2>1. Len(ciphertext') = 0
    BY <1>1
  <2> QED
    BY <1>2, <1>4, <1>5, <1>6, <2>1 DEF Encrypted
<1>10. HashedIsOut'
  BY <1>1, <1>4 DEF IInv, HashedIsOut
<1>11. Control'
  BY <1>1, <1>4 DEF IInv, Control
<1> QED
  BY <1>3, <1>7, <1>8, <1>9, <1>10, <1>11 DEF IInv

LEMMA FinalizeKeepsInv ==
  ASSUME IInv, Finalize
  PROVE  IInv'
<1>1. /\ at = "idle" /\ GhashFinalize /\ at' = "finalizing"
      /\ UNCHANGED <<y0, y, keystream, plaintext, ciphertext, taken, out, mask>>
  BY DEF Finalize
<1>2. GhashInv'
  BY <1>1, FinalizeKeeps DEF IInv
<1>3. /\ pc = "ready" /\ pc' \in {"textpad", "lengths"} /\ finalized' = finalized /\ text' = text
  BY <1>1 DEF GhashFinalize, FillUp, hashed
<1>4. EncTypes'
  BY <1>1 DEF IInv, EncTypes
<1>5. Aligned' /\ Encrypted'
  BY <1>1, <1>3, DataStays DEF IInv
<1>6. HashedIsOut'
  BY <1>1, <1>3 DEF IInv, HashedIsOut
<1>7. Control'
  BY <1>1, <1>3 DEF IInv, Control
<1> QED
  BY <1>2, <1>4, <1>5, <1>6, <1>7 DEF IInv

LEMMA ReturnTagKeepsInv ==
  ASSUME IInv, ReturnTag
  PROVE  IInv'
<1>1. /\ at = "finalizing" /\ pc = "ready" /\ at' = "idle"
      /\ mask' = IF threw THEN mask ELSE y0
      /\ UNCHANGED <<y0, y, keystream, plaintext, ciphertext, taken, out>> /\ UNCHANGED ghashVars
  BY DEF ReturnTag
<1>2. GhashInv'
  BY <1>1, GhashStutterKeeps DEF IInv
<1>3. UNCHANGED <<pc, finalized, threw, text>> /\ finalized
  BY <1>1 DEF ghashVars, ghashState, hashed, IInv, Control
<1>4. EncTypes'
  <2>1. mask' \in {NoMask} \cup (0 .. CounterSize - 1)
    BY <1>1 DEF IInv, EncTypes
  <2> QED
    BY <1>1, <2>1 DEF IInv, EncTypes
<1>5. Aligned' /\ Encrypted'
  BY <1>1, <1>3, DataStays DEF IInv
<1>6. HashedIsOut'
  BY <1>1, <1>3 DEF IInv, HashedIsOut
<1>7. Control'
  BY <1>1, <1>3 DEF IInv, Control
<1> QED
  BY <1>2, <1>4, <1>5, <1>6, <1>7 DEF IInv

\* What the hash does by itself takes its call, and no other, to its end.
LEMMA GhashStepControl ==
  ASSUME GhashInv, GhashStep
  PROVE  /\ pc # "new" /\ pc' # "new" /\ pc # "ready" /\ UNCHANGED hashed
         /\ finalized => finalized'
         /\ pc \in {"aad", "aadpad"} => pc' \in {"aad", "aadpad", "ready"}
         /\ pc = "text" => pc' \in {"text", "ready"} /\ UNCHANGED <<threw, finalized>>
         /\ pc \in {"textpad", "lengths", "length"} =>
              /\ pc' \in {"textpad", "lengths", "length", "ready"}
              /\ pc' = "ready" => finalized'
<1>0. finalized \in BOOLEAN
  BY DEF GhashInv, GhashTypeOK
<1>1. CASE AbsorbBlock
  BY <1>1 DEF AbsorbBlock, Loops
<1>2. CASE PadAad
  BY <1>2 DEF PadAad, Absorbed, FillUp
<1>3. CASE Constructed
  BY <1>3 DEF Constructed, Absorbed
<1>4. CASE Updated
  BY <1>4 DEF Updated, Absorbed
<1>5. CASE TextPadded
  BY <1>5 DEF TextPadded, Absorbed
<1>6. CASE AddLengths
  BY <1>0, <1>6 DEF AddLengths
<1>7. CASE GhashFinalized
  BY <1>7 DEF GhashFinalized, Absorbed
<1> QED
  BY <1>1, <1>2, <1>3, <1>4, <1>5, <1>6, <1>7 DEF GhashStep

LEMMA HashingKeepsInv ==
  ASSUME IInv, Hashing
  PROVE  IInv'
<1>1. /\ GhashStep
      /\ UNCHANGED <<y0, y, keystream, at, plaintext, ciphertext, taken, out, mask>>
  BY DEF Hashing, encryptorVars
<1>2. GhashInv'
  BY <1>1, GhashStepKeeps DEF IInv
<1>3. /\ pc # "new" /\ pc' # "new" /\ pc # "ready" /\ text' = text
      /\ finalized => finalized'
      /\ pc \in {"aad", "aadpad"} => pc' \in {"aad", "aadpad", "ready"}
      /\ pc = "text" => pc' \in {"text", "ready"} /\ UNCHANGED <<threw, finalized>>
      /\ pc \in {"textpad", "lengths", "length"} =>
           /\ pc' \in {"textpad", "lengths", "length", "ready"}
           /\ pc' = "ready" => finalized'
  BY <1>1, GhashStepControl DEF IInv, hashed
<1>4. EncTypes'
  BY <1>1 DEF IInv, EncTypes
<1>5. Aligned' /\ Encrypted'
  BY <1>1, <1>3, DataStays DEF IInv
<1>6. at # "new" /\ at # "encrypting" /\ (at = "hashing" => pc = "text")
  BY <1>3 DEF IInv, Control
<1>7. HashedIsOut'
  BY <1>1, <1>3, <1>6 DEF IInv, HashedIsOut
<1>8. Control'
  BY <1>1, <1>3, <1>6 DEF IInv, Control, EncTypes
<1> QED
  BY <1>2, <1>4, <1>5, <1>7, <1>8 DEF IInv

LEMMA NextKeepsInv ==
  ASSUME IInv, [Next]_vars
  PROVE  IInv'
<1>1. ASSUME NEW n \in 0 .. MaxAad, Construct(Named("aad", 0, n))
      PROVE  IInv'
  BY <1>1, ConstructKeepsInv
<1>2. ASSUME NEW n \in 0 .. MaxChunk, taken + n <= MaxText, Update(n)
      PROVE  IInv'
  BY <1>2, UpdateKeepsInv
<1>3. CASE NextBlock
  BY <1>3, NextBlockKeepsInv
<1>4. CASE EncryptByte
  BY <1>4, EncryptByteKeepsInv
<1>5. CASE HashCiphertext
  BY <1>5, HashCiphertextKeepsInv
<1>6. CASE ReturnCiphertext
  BY <1>6, ReturnCiphertextKeepsInv
<1>7. CASE Finalize
  BY <1>7, FinalizeKeepsInv
<1>8. CASE ReturnTag
  BY <1>8, ReturnTagKeepsInv
<1>9. CASE Hashing
  BY <1>9, HashingKeepsInv
<1>10. CASE UNCHANGED vars
  <2>1. UNCHANGED ghashVars
        /\ UNCHANGED <<y0, y, keystream, at, plaintext, ciphertext, taken, out, mask>>
    BY <1>10 DEF vars, encryptorVars
  <2>2. UNCHANGED <<pc, finalized, threw, text>>
    BY <2>1 DEF ghashVars, ghashState, hashed
  <2>3. GhashInv'
    BY <2>1, GhashStutterKeeps DEF IInv
  <2>4. EncTypes'
    BY <2>1 DEF IInv, EncTypes
  <2>5. Aligned' /\ Encrypted'
    BY <2>1, <2>2, DataStays DEF IInv
  <2>6. HashedIsOut' /\ Control'
    BY <2>1, <2>2 DEF IInv, HashedIsOut, Control
  <2> QED
    BY <2>3, <2>4, <2>5, <2>6 DEF IInv
<1> QED
  BY <1>1, <1>2, <1>3, <1>4, <1>5, <1>6, <1>7, <1>8, <1>9, <1>10 DEF Next

\* Encryptor and hash together keep the inductive invariant, in every order
\* of calls, those that throw included.
THEOREM Invariance == Spec => []IInv
<1>1. Init => IInv
  BY InitIsInv
<1>2. IInv /\ [Next]_vars => IInv'
  BY NextKeepsInv
<1> QED
  BY <1>1, <1>2, PTL DEF Spec

-----------------------------------------------------------------------------
\* The variables of the Encryptor and of its hash keep their types; between
\* two calls neither buffer holds a whole block.
THEOREM TypeCorrect == Spec => []TypeOK
<1>1. IInv => TypeOK
  <2> SUFFICES ASSUME IInv
               PROVE  TypeOK
    OBVIOUS
  <2>1. Len(keystream) \in Nat /\ BlockSize \in Nat
    BY EncNumbers
  <2>2. Len(keystream) <= BlockSize /\ (Len(keystream) = BlockSize => at = "encrypting")
    BY DEF IInv, Aligned, Control
  <2>3. Len(keystream) < BlockSize \/ (at = "encrypting" /\ Len(keystream) = BlockSize)
    BY <2>1, <2>2
  <2> QED
    BY <2>3 DEF IInv, GhashInv, EncTypes, TypeOK
<1> QED
  BY <1>1, Invariance, PTL

\* However the plaintext was cut, what update returns is counter mode.
THEOREM CounterMode == Spec => []OutIsCounterMode
<1>1. IInv => OutIsCounterMode
  BY DEF IInv, Encrypted, CipherByte, KeyByte, OutIsCounterMode
<1> QED
  BY <1>1, Invariance, PTL

\* Two counters of fewer than CounterSize steps after Y0 are different, and
\* neither is that of Y0.
LEMMA CountersDiffer ==
  ASSUME NEW C \in Nat \ {0, 1}, NEW s \in 0 .. C - 1, NEW q \in 0 .. C - 2, NEW r \in 0 .. C - 2
  PROVE  /\ (s + 1 + q) % C = (s + 1 + r) % C => q = r
         /\ (s + 1 + q) % C # s
<1>1. ASSUME NEW u \in 0 .. C - 2
      PROVE  (s + 1 + u) % C = IF s + 1 + u < C THEN s + 1 + u ELSE s + 1 + u - C
  <2>1. CASE s + 1 + u < C
    <3>1. s + 1 + u \in 0 .. C - 1
      BY <2>1
    <3> QED
      BY <2>1, <3>1
  <2>2. CASE s + 1 + u >= C
    <3>1. s + 1 + u - C \in 0 .. C - 1 /\ s + 1 + u - C \in Int
      BY <2>2
    <3>2. s + 1 + u = (s + 1 + u - C) + 1 * C
      OBVIOUS
    <3>3. ((s + 1 + u - C) + 1 * C) % C = (s + 1 + u - C) % C
      <4>1. C \in Nat \ {0} /\ 1 \in Int
        OBVIOUS
      <4> QED
        BY <3>1, <4>1, ModShift
    <3> QED
      BY <2>2, <3>1, <3>2, <3>3
  <2> QED
    BY <2>1, <2>2
<1>2. (s + 1 + q) % C = (s + 1 + r) % C => q = r
  BY <1>1
<1>3. (s + 1 + q) % C # s
  BY <1>1
<1> QED
  BY <1>2, <1>3

\* Until the counter has been through its values no byte of the keystream is
\* used for two bytes of what was returned, or for the tag as well.
THEOREM FreshKeystream == Spec => []KeystreamIsFresh
<1>1. IInv => KeystreamIsFresh
  <2> SUFFICES ASSUME IInv, Len(out) <= (CounterSize - 1) * BlockSize
               PROVE  /\ \A i, j \in 1 .. Len(out) : out[i][3] = out[j][3] => i = j
                      /\ \A i \in 1 .. Len(out) : out[i][3][1] # y0
    BY DEF KeystreamIsFresh
  <2> DEFINE q(i) == (i - 1) \div BlockSize
             r(i) == (i - 1) % BlockSize
  <2>1. /\ BlockSize \in Nat \ {0} /\ CounterSize \in Nat \ {0, 1} /\ y0 \in 0 .. CounterSize - 1
        /\ Len(out) \in Nat
    BY EncNumbers DEF IInv, EncTypes
  <2>2. ASSUME NEW i \in 1 .. Len(out)
        PROVE  /\ out[i][3] = <<(y0 + 1 + q(i)) % CounterSize, 1 + r(i)>>
               /\ q(i) \in 0 .. CounterSize - 2 /\ r(i) \in Int
               /\ i = (q(i) * BlockSize) + r(i) + 1
    <3>1. out[i] = <<"text", i, <<(y0 + 1 + q(i)) % CounterSize, 1 + r(i)>>>>
      BY DEF IInv, Encrypted, CipherByte, KeyByte
    <3>2. i - 1 \in Nat /\ i - 1 \in Int
      BY <2>1
    <3>3. q(i) \in Int /\ r(i) \in 0 .. BlockSize - 1 /\ i - 1 = (q(i) * BlockSize) + r(i)
      BY <2>1, <3>2, Quotient
    <3>4. q(i) \in Nat
      BY <2>1, <3>2
    <3> HIDE DEF q, r
    <3>5. q(i) * BlockSize \in Int /\ (CounterSize - 1) * BlockSize \in Int
      BY <2>1, <3>3
    <3>6. q(i) <= CounterSize - 2
      <4> SUFFICES ASSUME CounterSize - 1 <= q(i)
                   PROVE  FALSE
        BY <2>1, <3>3
      <4>1. (CounterSize - 1) * BlockSize <= q(i) * BlockSize
        <5>1. CounterSize - 1 \in Int
          BY <2>1
        <5> QED
          BY <2>1, <3>3, <5>1, Scale
      <4>2. q(i) * BlockSize < i /\ i <= (CounterSize - 1) * BlockSize
        <5>1. i \in Int /\ i <= Len(out) /\ 0 <= r(i) /\ r(i) \in Int
          BY <2>1, <3>3
        <5>2. PICK x \in Int : x = q(i) * BlockSize
          BY <3>5
        <5>3. PICK z \in Int : z = (CounterSize - 1) * BlockSize
          BY <3>5
        <5>4. i - 1 = x + r(i)
          BY <3>3, <5>2
        <5>5. x < i
          BY <5>1, <5>4
        <5>6. i <= z
          BY <2>1, <5>1, <5>3
        <5> QED
          BY <5>2, <5>3, <5>5, <5>6
      <4> QED
        BY <2>1, <3>5, <4>1, <4>2
    <3>7. i = (q(i) * BlockSize) + r(i) + 1
      BY <3>3, <3>5
    <3> QED
      BY <2>1, <3>1, <3>3, <3>4, <3>6, <3>7
  <2> HIDE DEF q, r
  <2>3. ASSUME NEW i \in 1 .. Len(out), NEW j \in 1 .. Len(out), out[i][3] = out[j][3]
        PROVE  i = j
    <3>1. (y0 + 1 + q(i)) % CounterSize = (y0 + 1 + q(j)) % CounterSize /\ 1 + r(i) = 1 + r(j)
      BY <2>2, <2>3
    <3>2. q(i) = q(j)
      BY <2>1, <2>2, <3>1, CountersDiffer
    <3>3. r(i) = r(j)
      BY <2>2, <3>1
    <3> QED
      BY <2>2, <3>2, <3>3
  <2>4. ASSUME NEW i \in 1 .. Len(out)
        PROVE  out[i][3][1] # y0
    <3>1. out[i][3][1] = (y0 + 1 + q(i)) % CounterSize
      BY <2>2
    <3> QED
      BY <2>1, <2>2, <3>1, CountersDiffer
  <2> QED
    BY <2>3, <2>4
<1> QED
  BY <1>1, Invariance, PTL

\* The tag authenticates the associated data and exactly the bytes returned.
THEOREM TagIsRight == Spec => []TagCoversOut
<1>1. IInv => TagCoversOut
  <2> SUFFICES ASSUME IInv, mask # NoMask
               PROVE  mask = y0 /\ result = as_ghash_polys(out, aad)
    BY DEF TagCoversOut
  <2>1. mask = y0 /\ finalized
    BY DEF IInv, Control
  <2>a. at = "hashing" => threw
    BY <2>1, Zenon DEF IInv, Control
  <2>b. text = out
    BY <2>a DEF IInv, HashedIsOut
  <2>2. result = as_ghash_polys(text, aad)
    BY <2>1, FinalTag DEF IInv
  <2> QED
    BY <2>1, <2>2, <2>b
<1> QED
  BY <1>1, Invariance, PTL

\* After the tag no call returns anything or changes what was hashed.
THEOREM TagIsLast == Spec => NothingAfterTag
<1>1. IInv /\ [Next]_vars => [result # NoTag => UNCHANGED <<out, tag, buffer, hashed, result>>]_vars
  <2> SUFFICES ASSUME IInv, Next, result # NoTag
               PROVE  UNCHANGED <<out, tag, buffer, hashed, result>>
    OBVIOUS
  <2>1. finalized /\ pc \in {"ready", "lengths"} /\ buffer = <<>>
    BY DEF IInv, GhashInv, Phases
  <2>2. at = "hashing" => threw
    BY <2>1 DEF IInv, Control
  <2>3. CASE \E n \in 0 .. MaxAad : Construct(Named("aad", 0, n))
    BY <2>1, <2>3 DEF Construct, GhashConstruct
  <2>4. CASE \E n \in 0 .. MaxChunk : taken + n <= MaxText /\ Update(n)
    BY <2>4 DEF Update, ghashVars, ghashState
  <2>5. CASE NextBlock
    BY <2>5 DEF NextBlock, ghashVars, ghashState
  <2>6. CASE EncryptByte
    BY <2>6 DEF EncryptByte, ghashVars, ghashState
  <2>7. CASE HashCiphertext
    BY <2>1, <2>7 DEF HashCiphertext, GhashUpdate, hashed
  <2>8. CASE ReturnCiphertext
    BY <2>2, <2>8 DEF ReturnCiphertext, ghashVars, ghashState
  <2>9. CASE Finalize
    BY <2>1, <2>9 DEF Finalize, GhashFinalize, FillUp
  <2>10. CASE ReturnTag
    BY <2>10 DEF ReturnTag, ghashVars, ghashState
  <2>11. CASE Hashing
    <3>1. CASE AddLengths
      BY <2>1, <2>11, <3>1 DEF Hashing, encryptorVars, AddLengths
    <3>2. CASE ~AddLengths
      BY <2>1, <2>11, <3>2 DEF Hashing, GhashStep, AbsorbBlock, PadAad, Constructed, Updated,
         TextPadded, GhashFinalized, Absorbed, Loops
    <3> QED
      BY <3>1, <3>2
  <2> QED
    BY <2>3, <2>4, <2>5, <2>6, <2>7, <2>8, <2>9, <2>10, <2>11 DEF Next
<1> QED
  BY <1>1, Invariance, PTL DEF Spec, NothingAfterTag

===============================================================================
