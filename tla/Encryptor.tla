------------------------------ MODULE Encryptor ------------------------------
(***************************************************************************)
(* GCM::Encryptor (src/gcm/encryptor.cpp): counter mode over a stream of   *)
(* chunks, composed with the hash that authenticates what it returns.      *)
(* update keeps the unused rest of a keystream block for the next chunk;   *)
(* the counter is a std::uint32_t that nothing keeps from wrapping.        *)
(*                                                                         *)
(* The cipher is a permutation: the bytes of E(block) are named by the     *)
(* counter of the block and their place, and the byte i of the plaintext   *)
(* under the keystream byte k is <<"text", i, k>>.                         *)
(***************************************************************************)
EXTENDS Ghash

CONSTANT CounterSize  \* 2^32, the number of values of a std::uint32_t

ASSUME EncryptorAssumption == CounterSize \in Nat \ {0, 1}

VARIABLES
  y0,          \* the last 4 bytes of m_y0; the others never change
  y,           \* m_y
  keystream,   \* m_keystream
  at,          \* where the call of the Encryptor is
  plaintext,   \* what update has still to encrypt
  ciphertext,  \* what it has encrypted
  taken,       \* bytes of plaintext given so far
  out,         \* all that update has returned
  mask         \* the block that masks the tag finalize returned

encryptorVars == <<y0, y, keystream, at, plaintext, ciphertext, taken, out, mask>>
vars == <<ghashVars, encryptorVars>>

NoMask == -1

\* Mutant of y_block: an off-by-one starts the keystream at Y0.
y_block_before(n) == (y0 + n - 1) % CounterSize

\* The counter of y_block, a sum of two std::uint32_t.
y_block(n) == (y0 + n) % CounterSize

-----------------------------------------------------------------------------
Init ==
  /\ GhashInit
  /\ y0 = 0 /\ y = 1 /\ keystream = <<>> /\ at = "new"
  /\ plaintext = <<>> /\ ciphertext = <<>> /\ taken = 0
  /\ out = <<>> /\ mask = NoMask

\* The constructor; a nonce of 12 bytes gets the counter 1, of another one
\* GHASH makes a block with any last bytes.
Construct(data) ==
  /\ at = "new"
  /\ GhashConstruct(data)
  /\ \/ y0' = 1
     \/ y0' \in 0 .. CounterSize - 1
  /\ at' = "idle"
  /\ UNCHANGED <<y, keystream, plaintext, ciphertext, taken, out, mask>>

\* Mutant of Update: every call begins a keystream block of its own.
UpdateAfresh(n) ==
  /\ at = "idle" /\ pc = "ready"
  /\ plaintext' = [j \in 1 .. n |-> taken + j]
  /\ ciphertext' = <<>>
  /\ taken' = taken + n
  /\ at' = "encrypting"
  /\ keystream' = <<>>
  /\ UNCHANGED <<ghashVars, y0, y, out, mask>>

\* update is called with n bytes.
Update(n) ==
  /\ at = "idle" /\ pc = "ready"
  /\ plaintext' = [j \in 1 .. n |-> taken + j]
  /\ ciphertext' = <<>>
  /\ taken' = taken + n
  /\ at' = "encrypting"
  /\ UNCHANGED <<ghashVars, y0, y, keystream, out, mask>>

\* No byte of the keystream is left: the next block is encrypted.
NextBlock ==
  /\ at = "encrypting" /\ plaintext # <<>> /\ keystream = <<>>
  /\ keystream' = [j \in 1 .. BlockSize |-> <<y_block(y), j>>]
  /\ y' = (y + 1) % CounterSize
  /\ UNCHANGED <<ghashVars, y0, at, plaintext, ciphertext, taken, out, mask>>

\* One round of the loop of update.
EncryptByte ==
  /\ at = "encrypting" /\ plaintext # <<>> /\ keystream # <<>>
  /\ ciphertext' = Append(ciphertext, <<"text", Head(plaintext), Head(keystream)>>)
  /\ plaintext' = Tail(plaintext)
  /\ keystream' = Tail(keystream)
  /\ UNCHANGED <<ghashVars, y0, y, at, taken, out, mask>>

\* update hands the ciphertext to the hash ...
HashCiphertext ==
  /\ at = "encrypting" /\ plaintext = <<>>
  /\ GhashUpdate(ciphertext)
  /\ at' = "hashing"
  /\ UNCHANGED <<y0, y, keystream, plaintext, ciphertext, taken, out, mask>>

\* Mutant of ReturnCiphertext: the exception of the hash is swallowed.
ReturnAnyway ==
  /\ at = "hashing" /\ pc = "ready"
  /\ out' = out \o ciphertext
  /\ ciphertext' = <<>>
  /\ at' = "idle"
  /\ UNCHANGED <<ghashVars, y0, y, keystream, plaintext, taken, mask>>

\* ... and returns it, unless the hash has thrown: then the ciphertext is
\* lost, and the keystream it took with it.
ReturnCiphertext ==
  /\ at = "hashing" /\ pc = "ready"
  /\ out' = IF threw THEN out ELSE out \o ciphertext
  /\ ciphertext' = <<>>
  /\ at' = "idle"
  /\ UNCHANGED <<ghashVars, y0, y, keystream, plaintext, taken, mask>>

Finalize ==
  /\ at = "idle"
  /\ GhashFinalize
  /\ at' = "finalizing"
  /\ UNCHANGED <<y0, y, keystream, plaintext, ciphertext, taken, out, mask>>

\* finalize masks the tag with E(Y0), unless the hash has thrown.
ReturnTag ==
  /\ at = "finalizing" /\ pc = "ready"
  /\ mask' = IF threw THEN mask ELSE y0
  /\ at' = "idle"
  /\ UNCHANGED <<ghashVars, y0, y, keystream, plaintext, ciphertext, taken, out>>

Hashing == GhashStep /\ UNCHANGED encryptorVars

Next ==
  \/ \E n \in 0 .. MaxAad : Construct(Named("aad", 0, n))
  \/ \E n \in 0 .. MaxChunk : taken + n <= MaxText /\ Update(n)
  \/ NextBlock \/ EncryptByte \/ HashCiphertext \/ ReturnCiphertext
  \/ Finalize \/ ReturnTag \/ Hashing

Spec == Init /\ [][Next]_vars

-----------------------------------------------------------------------------
(* Properties.                                                              *)

\* Every variable stays within its type; a block of keystream at most is kept.
TypeOK ==
  /\ GhashTypeOK
  /\ y0 \in 0 .. CounterSize - 1 /\ y \in 0 .. CounterSize - 1
  /\ at \in {"new", "idle", "encrypting", "hashing", "finalizing"}
  /\ Len(keystream) < BlockSize \/ (at = "encrypting" /\ Len(keystream) = BlockSize)
  /\ taken \in 0 .. MaxText
  /\ mask \in {NoMask} \cup (0 .. CounterSize - 1)

\* However the plaintext was cut into chunks, its byte i is encrypted with
\* byte i of the keystream that begins after Y0.
OutIsCounterMode ==
  \A i \in 1 .. Len(out) :
    out[i] = <<"text", i, <<(y0 + 1 + (i - 1) \div BlockSize) % CounterSize,
                            1 + ((i - 1) % BlockSize)>>>>

\* The keystream of all returned bytes: no byte of it is used twice, or is
\* one of those that mask the tag, until the counter has been through all
\* its values, which is the limit of GCM.  A call that throws and the calls
\* after it are no exception.
KeystreamIsFresh ==
  Len(out) <= (CounterSize - 1) * BlockSize =>
    /\ \A i, j \in 1 .. Len(out) : out[i][3] = out[j][3] => i = j
    /\ \A i \in 1 .. Len(out) : out[i][3][1] # y0

\* The tag that finalize returns authenticates the associated data and
\* exactly the bytes that update returned.
TagCoversOut == mask # NoMask => mask = y0 /\ result = as_ghash_polys(out, aad)

\* Nothing is returned any more once there is a tag, neither ciphertext,
\* which no tag would cover, nor a second tag: no call changes the hash, or
\* what was hashed, although finalize itself hashes the lengths.
NothingAfterTag ==
  [][result # NoTag => UNCHANGED <<out, tag, buffer, hashed, result>>]_vars

=============================================================================
