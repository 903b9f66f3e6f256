------------------------------ MODULE Plaintext ------------------------------
(***************************************************************************)
(* PaddingOracle::Attack::recover_plaintext                                *)
(* (src/padding_oracle/attack.cpp): the blocks of a text are recovered one *)
(* after the other, each over a connection of its own and from a process   *)
(* of the server of its own; PaddingOracle is one of them.  The process of *)
(* an earlier connection has a count of 0 to read and is not followed any  *)
(* further once the next connection is made.                               *)
(***************************************************************************)
EXTENDS PaddingOracle

CONSTANT Texts  \* the ciphertexts, as sequences of bytes

ASSUME TextsAssumption == Texts \subseteq Seq(Byte)

VARIABLES
  text,       \* argument ciphertext
  iv,
  at,         \* of recover_plaintext: "start", "block", "returned", "threw"
  i,          \* where the block begins
  cleartext,  \* recovered so far
  disturbed   \* a fault has happened, remembered for the properties

attack     == <<text, iv, at, i, cleartext>>
attackVars == <<vars, attack, disturbed>>

BlockAt(k) == [j \in Index |-> text[k + j + 1]]

Bytes(b) == [n \in 1 .. BlockSize |-> b[n - 1]]

AttackInit ==
  /\ Init
  /\ text \in Texts /\ iv \in Previous
  /\ at = "start" /\ i = 0 /\ cleartext = <<>>
  /\ disturbed = FALSE

\* recover_block is called with the block at k, and connects.
RecoverBlock(previous, k) ==
  /\ i' = k
  /\ ciphertext' = BlockAt(k)
  /\ prev' = previous
  /\ cpc' = "ciphertext" /\ index' = Last /\ candidate' = 0 /\ responses' = <<>>
  /\ raw_recovered' = Zeros /\ result' = Zeros
  /\ spc' = "ciphertext" /\ s_ciphertext' = Zeros /\ count' = 0 /\ served' = 0
  /\ q' = Zeros
  /\ wire' = [e \in End |-> <<>>] /\ link' = [e \in End |-> "up"]
  /\ UNCHANGED <<m_key, text, iv, disturbed>>

ValidLength == text # <<>> /\ Len(text) % BlockSize = 0

Start ==
  /\ at = "start"
  /\ ValidLength
  /\ RecoverBlock(iv, 0)
  /\ at' = "block"
  /\ UNCHANGED cleartext

InvalidLength ==
  /\ at = "start"
  /\ ~ValidLength
  /\ at' = "threw"
  /\ UNCHANGED <<vars, text, iv, i, cleartext, disturbed>>

Client == at # "start" /\ ClientNext /\ UNCHANGED <<attack, disturbed>>
Server == at # "start" /\ ServerNext /\ UNCHANGED <<attack, disturbed>>

Disturb ==
  /\ at # "start"
  /\ Sever \/ KillClient \/ KillServer
  /\ disturbed' = TRUE
  /\ UNCHANGED attack

BlockRecovered == at = "block" /\ cpc = "done"

\* Mutant of NextBlock: the block that was recovered is taken for the previous.
NextBlockChained ==
  /\ BlockRecovered /\ i + BlockSize < Len(text)
  /\ cleartext' = cleartext \o Bytes(result)
  /\ RecoverBlock(result, i + BlockSize)
  /\ UNCHANGED at

NextBlock ==
  /\ BlockRecovered /\ i + BlockSize < Len(text)
  /\ cleartext' = cleartext \o Bytes(result)
  /\ RecoverBlock(ciphertext, i + BlockSize)
  /\ UNCHANGED at

Return ==
  /\ BlockRecovered /\ i + BlockSize = Len(text)
  /\ cleartext' = cleartext \o Bytes(result)
  /\ i' = i + BlockSize
  /\ at' = "returned"
  /\ UNCHANGED <<vars, text, iv, disturbed>>

\* What ends recover_block otherwise ends the attack.
Abandon ==
  /\ at = "block" /\ cpc \in ClientEnded \ {"done"}
  /\ at' = "threw"
  /\ UNCHANGED <<vars, text, iv, i, cleartext, disturbed>>

AttackStep == Start \/ InvalidLength \/ NextBlock \/ Return \/ Abandon

AttackEnded ==
  /\ at \in {"returned", "threw"}
  /\ cpc \in ClientEnded => spc \in ServerEnded
  /\ UNCHANGED attackVars

AttackNext == AttackStep \/ Client \/ Server \/ Disturb \/ AttackEnded

AttackSpec ==
  /\ AttackInit /\ [][AttackNext]_attackVars
  /\ WF_attackVars(AttackStep) /\ WF_attackVars(Client) /\ WF_attackVars(Server)

-----------------------------------------------------------------------------
(* Properties.                                                              *)

\* The byte j of the block at k as whoever encrypted it in CBC mode meant it.
Cleartext(k, j) ==
  Xor(Xor(BlockAt(k)[j], m_key[j]), IF k = 0 THEN iv[j] ELSE BlockAt(k - BlockSize)[j])

\* Every byte recovered, those of a text that is never finished included, is
\* the one that was encrypted, whatever happens to the connections; and only
\* a text recovered to its end is returned.
ClearIsRight ==
  /\ Len(cleartext) = i
  /\ \A k \in 0 .. i, j \in Index :
       k % BlockSize = 0 /\ k + j < i => cleartext[k + j + 1] = Cleartext(k, j)
  /\ at = "returned" => i = Len(text)

\* Unless a fault happens a text of whole blocks is recovered and the last
\* process of the server exits with 0; any other text is refused.
RecoversText ==
  <>(\/ at = "returned" /\ ClearIsRight /\ (spc = "exit0" \/ disturbed)
     \/ at = "threw" /\ (disturbed \/ ~ValidLength))

=============================================================================
