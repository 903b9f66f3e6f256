-------------------------------- MODULE Ghash --------------------------------
(***************************************************************************)
(* GCM::GHASH (src/gcm/ghash.cpp): the streaming hash that authenticates   *)
(* associated data and a ciphertext given in chunks of any lengths.  The   *)
(* reference is the one-shot as_ghash_polys (src/gcm/recover.cpp), with    *)
(* which Recovery computes the blocks of a message again.                  *)
(*                                                                         *)
(* Bytes are opaque: each is named by the data it belongs to and its place *)
(* there.  m_auth_tag is represented by the blocks it was computed from,   *)
(* ((b1 * H) + b2) * H ..., which the code only adds to.                   *)
(***************************************************************************)
EXTENDS Integers, Sequences

CONSTANTS
  BlockSize,  \* BLOCK_SIZE, and the bytes of two std::uint64_t
  WordSize,   \* 2^64, the number of values of a std::uint64_t
  MaxAad,     \* bounds of the model: bytes of associated data,
  MaxText,    \* bytes of text,
  MaxChunk    \* bytes handed over by one call

ASSUME GhashAssumption ==
  /\ BlockSize \in Nat \ {0} /\ BlockSize % 2 = 0
  /\ WordSize \in Nat \ {0}
  /\ MaxAad \in Nat /\ MaxText \in Nat /\ MaxChunk \in Nat

VARIABLES
  tag,        \* m_auth_tag, as the blocks added to it
  aadbits,    \* m_associated_data_bitlength
  ctbits,     \* m_ciphertext_bitlength
  buffer,     \* m_ciphertext_buffer
  finalized,  \* m_finalized
  pc,         \* the loop of update that runs and for whom, or "ready"
  padding,    \* padding_length of pad_current_block
  threw,      \* the last call ended by an exception
  aad, text,  \* what was hashed, remembered for the properties
  result      \* what finalize returned

hashed     == <<aad, text>>
ghashState == <<tag, aadbits, ctbits, buffer, finalized, pc, padding, threw>>
ghashVars  == <<ghashState, hashed, result>>

NoTag == <<>>

Zero          == <<"zero">>
Zeros(n)      == [j \in 1 .. n |-> Zero]
Named(d, k, n) == [j \in 1 .. n |-> <<d, k + j>>]

\* The bits of n bytes in a std::uint64_t.
Bits(n) == (n * 8) % WordSize

\* append_as_bytes of two std::uint64_t: a byte is named by its word.
LengthField(a, c) ==
  [j \in 1 .. BlockSize |-> <<"length", IF j <= BlockSize \div 2 THEN a ELSE c, j>>]

\* The blocks of v, the last one filled up with zeros.
Blocks(v) ==
  [k \in 1 .. (Len(v) + BlockSize - 1) \div BlockSize |->
     [j \in 1 .. BlockSize |->
        IF (k - 1) * BlockSize + j <= Len(v) THEN v[(k - 1) * BlockSize + j] ELSE Zero]]

as_ghash_polys(ciphertext, associated_data) ==
  Blocks(associated_data) \o Blocks(ciphertext)
    \o <<LengthField(Bits(Len(associated_data)), Bits(Len(ciphertext)))>>

-----------------------------------------------------------------------------
GhashInit ==
  /\ tag = <<>> /\ aadbits = 0 /\ ctbits = 0 /\ buffer = <<>>
  /\ finalized = FALSE /\ pc = "new" /\ padding = 0 /\ threw = FALSE
  /\ aad = <<>> /\ text = <<>> /\ result = NoTag

\* The constructor calls update with the associated data.
GhashConstruct(data) ==
  /\ pc = "new"
  /\ aad' = data
  /\ aadbits' = Bits(Len(data))
  /\ buffer' = data
  /\ pc' = "aad"
  /\ UNCHANGED <<tag, ctbits, finalized, padding, threw, text, result>>

Loops == {"aad", "aadpad", "text", "textpad", "length"}

\* One round of the loop of update.
AbsorbBlock ==
  /\ pc \in Loops
  /\ Len(buffer) >= BlockSize
  /\ tag' = Append(tag, SubSeq(buffer, 1, BlockSize))
  /\ buffer' = SubSeq(buffer, BlockSize + 1, Len(buffer))
  /\ ctbits' = (ctbits + Bits(BlockSize)) % WordSize
  /\ UNCHANGED <<aadbits, finalized, pc, padding, threw, hashed, result>>

\* The loop of update, run for p, is over.
Absorbed(p) == pc = p /\ Len(buffer) < BlockSize

\* pad_current_block fills up a block that has been begun.
FillUp(loop) ==
  /\ buffer # <<>>
  /\ padding' = BlockSize - Len(buffer)
  /\ buffer' = buffer \o Zeros(padding')
  /\ pc' = loop

\* The constructor, after update, calls pad_current_block ...
PadAad ==
  /\ Absorbed("aad")
  /\ FillUp("aadpad")
  /\ UNCHANGED <<tag, aadbits, ctbits, finalized, threw, hashed, result>>

\* ... and sets the length, which both have changed, back to 0.
Constructed ==
  /\ Absorbed("aadpad") \/ (Absorbed("aad") /\ buffer = <<>>)
  /\ ctbits' = 0
  /\ pc' = "ready"
  /\ UNCHANGED <<tag, aadbits, buffer, finalized, padding, threw, hashed, result>>

\* update, called from outside; it throws once the hash is finalized.
GhashUpdate(chunk) ==
  /\ pc = "ready"
  /\ threw' = finalized
  /\ IF finalized
     THEN UNCHANGED <<buffer, text, pc>>
     ELSE buffer' = buffer \o chunk /\ text' = text \o chunk /\ pc' = "text"
  /\ UNCHANGED <<tag, aadbits, ctbits, finalized, padding, aad, result>>

Updated ==
  /\ Absorbed("text")
  /\ pc' = "ready"
  /\ UNCHANGED <<tag, aadbits, ctbits, buffer, finalized, padding, threw, hashed, result>>

\* finalize calls pad_current_block; of a finalized hash the buffer is empty.
GhashFinalize ==
  /\ pc = "ready"
  /\ threw' = FALSE
  /\ \/ FillUp("textpad")
     \/ buffer = <<>> /\ pc' = "lengths" /\ UNCHANGED <<buffer, padding>>
  /\ UNCHANGED <<tag, aadbits, ctbits, finalized, hashed, result>>

\* Mutant of TextPadded: the padding counts as text.
TextPaddedCounting ==
  /\ Absorbed("textpad")
  /\ pc' = "lengths"
  /\ UNCHANGED <<tag, aadbits, ctbits, buffer, finalized, padding, threw, hashed, result>>

TextPadded ==
  /\ Absorbed("textpad")
  /\ ctbits' = (ctbits - Bits(padding)) % WordSize
  /\ pc' = "lengths"
  /\ UNCHANGED <<tag, aadbits, buffer, finalized, padding, threw, hashed, result>>

\* finalize calls update with the lengths, which throws the second time.
AddLengths ==
  /\ pc = "lengths"
  /\ threw' = finalized
  /\ IF finalized
     THEN pc' = "ready" /\ UNCHANGED buffer
     ELSE pc' = "length" /\ buffer' = buffer \o LengthField(aadbits, ctbits)
  /\ UNCHANGED <<tag, aadbits, ctbits, finalized, padding, hashed, result>>

GhashFinalized ==
  /\ Absorbed("length")
  /\ finalized' = TRUE
  /\ result' = tag
  /\ pc' = "ready"
  /\ UNCHANGED <<tag, aadbits, ctbits, buffer, padding, threw, hashed>>

\* What the hash does by itself until a call returns.
GhashStep ==
  \/ AbsorbBlock \/ PadAad \/ Constructed \/ Updated
  \/ TextPadded \/ AddLengths \/ GhashFinalized

-----------------------------------------------------------------------------
(* Properties.                                                              *)

\* Every variable stays within its type, above all the buffer: while no call
\* runs it holds less than a block (ghash.hpp:42).
GhashTypeOK ==
  /\ aadbits \in 0 .. WordSize - 1 /\ ctbits \in 0 .. WordSize - 1
  /\ pc \in Loops \cup {"new", "ready", "lengths"}
  /\ padding \in 0 .. BlockSize - 1
  /\ finalized \in BOOLEAN /\ threw \in BOOLEAN
  /\ Len(buffer) < BlockSize \/ pc \in Loops
  /\ \A k \in 1 .. Len(tag) : Len(tag[k]) = BlockSize

=============================================================================
