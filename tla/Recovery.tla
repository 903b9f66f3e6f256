------------------------------ MODULE Recovery ------------------------------
(***************************************************************************)
(* GCM::Recovery::recover_auth_tag (src/gcm/recover.cpp): of two messages  *)
(* encrypted under one key and one nonce a polynomial is made that has the *)
(* key of the hash among its zeros, Factorize finds the zeros, and a third *)
(* message of that nonce tells which one to forge the tag of a fourth with.*)
(* The action cantor-zassenhaus gives Factorize a polynomial of any kind.  *)
(*                                                                         *)
(* A message is made of whole blocks, the coefficients of the hash; how    *)
(* bytes become blocks is as_ghash_polys of module Ghash.                  *)
(***************************************************************************)
EXTENDS Factorize, SequencesExt

CONSTANTS
  Polynomials,       \* what the action cantor-zassenhaus is given
  Texts,             \* <<associated data, ciphertext>> of the messages
  Keys, Masks,       \* values of H and of the mask of the nonce
  Third, Fourth      \* the texts the third and the fourth message may have

ASSUME RecoveryAssumption ==
  /\ Width % 2 = 0
  /\ Polynomials \subseteq Seq(Element)
  /\ Texts \cup Third \cup Fourth \subseteq Seq(Element) \X Seq(Element)
  /\ Keys \subseteq Element /\ Masks \subseteq Element

VARIABLES
  action,                  \* of the input
  key, mask,               \* secrets of whoever sent the messages
  msg1, msg2, msg3, msg4,
  h_candidates,
  result                   \* the tag returned

inputs == <<action, key, mask, msg1, msg2>>
vars   == <<zerosVars, inputs, msg3, msg4, h_candidates, result>>

\* The last block: two numbers, each in the bits of half an element, the
\* lowest one at the highest exponent.  Here they count blocks, not bits.
Bits(n)      == {e \in 0 .. Width \div 2 - 1 : (n \div 2 ^ (Width \div 2 - 1 - e)) % 2 = 1}
LengthOf(text) == Bits(Len(text[1])) \cup {Width \div 2 + e : e \in Bits(Len(text[2]))}

as_ghash_polys(text) == text[1] \o text[2] \o <<LengthOf(text)>>

ghash(text, h) ==
  LET blocks == as_ghash_polys(text)
      tag[k \in 0 .. Len(blocks)] ==
        IF k = 0 THEN zero ELSE Times(Plus(tag[k - 1], blocks[k]), h)
  IN tag[Len(blocks)]

Message(text, tag) == [text |-> text, tag |-> tag]

\* Of a text that no message has.
NoMessage == Message(<<>>, zero)

\* What a sender who has the key writes under a message.
Tag(text) == Plus(ghash(text, key), mask)

\* Mutant of gen_poly: the blocks of both are aligned at the first ones.
gen_poly_aligned(m1, m2) ==
  LET u == as_ghash_polys(m1.text)
      v == as_ghash_polys(m2.text)
  IN <<Plus(m1.tag, m2.tag)>>
       \o Reverse([k \in 1 .. Max({Len(u), Len(v)}) |-> Plus(Coefficient(u, k), Coefficient(v, k))])

\* Both tags are a polynomial in H plus the mask, which their difference
\* does not have; a block's power of H counts from the last block.
gen_poly(m1, m2) ==
  LET u == Reverse(as_ghash_polys(m1.text))
      v == Reverse(as_ghash_polys(m2.text))
  IN <<Plus(m1.tag, m2.tag)>>
       \o [k \in 1 .. Max({Len(u), Len(v)}) |-> Plus(Coefficient(u, k), Coefficient(v, k))]

gen_auth_tag_mask(m, h) == Plus(ghash(m.text, h), m.tag)

gen_auth_tag(m1, m2, h) == Plus(ghash(m2.text, h), gen_auth_tag_mask(m1, h))

-----------------------------------------------------------------------------
FactorizeInit ==
  /\ action = "cantor-zassenhaus"
  /\ key = zero /\ mask = zero /\ msg1 = NoMessage /\ msg2 = NoMessage
  /\ \E p \in Polynomials : ZerosOf(p)

RecoverInit ==
  /\ action = "gcm-recover"
  /\ key \in Keys /\ mask \in Masks
  /\ \E t1, t2 \in Texts :
       msg1 = Message(t1, Tag(t1)) /\ msg2 = Message(t2, Tag(t2))
  /\ ZerosOf(gen_poly(msg1, msg2))

Init ==
  /\ FactorizeInit \/ RecoverInit
  /\ msg3 = NoMessage /\ msg4 = NoMessage
  /\ h_candidates = <<>>
  /\ result = zero

Factoring == ZerosStep /\ UNCHANGED <<inputs, msg3, msg4, h_candidates, result>>

\* The other messages are given from the start but not used before this.
\* The third one's tag is what it should be or, of another nonce, not.
BeginSearch ==
  /\ action = "gcm-recover" /\ pc = "done"
  /\ \E t \in Third, tag \in Element : msg3' = Message(t, tag)
  /\ \E t \in Fourth : msg4' = Message(t, zero)
  /\ h_candidates' = Zeros
  /\ pc' = "search"
  /\ UNCHANGED <<f, factors, new_factors, final_factors, i, inputs, result>>

Reproduces(h) == gen_auth_tag(msg1, msg3, h) = msg3.tag

Searching == pc = "search" /\ h_candidates # <<>>

DropCandidate ==
  /\ Searching /\ ~Reproduces(Last(h_candidates))
  /\ h_candidates' = Front(h_candidates)
  /\ UNCHANGED <<zerosVars, inputs, msg3, msg4, result>>

\* Mutant of Forge: the tag is made with another end of the list.
ForgeFirst ==
  /\ Searching /\ Reproduces(Last(h_candidates))
  /\ result' = gen_auth_tag(msg1, msg4, h_candidates[1])
  /\ pc' = "returned"
  /\ UNCHANGED <<f, factors, new_factors, final_factors, i, inputs, msg3, msg4, h_candidates>>

Forge ==
  /\ Searching /\ Reproduces(Last(h_candidates))
  /\ result' = gen_auth_tag(msg1, msg4, Last(h_candidates))
  /\ pc' = "returned"
  /\ UNCHANGED <<f, factors, new_factors, final_factors, i, inputs, msg3, msg4, h_candidates>>

\* The assertion "No candidates for H found."
NoCandidate ==
  /\ pc = "search" /\ h_candidates = <<>>
  /\ pc' = "aborted"
  /\ UNCHANGED <<f, factors, new_factors, final_factors, i, inputs, msg3, msg4, h_candidates, result>>

\* The process has ended.
Ended ==
  /\ pc \in {"threw", "aborted", "returned"} \/ (pc = "done" /\ action = "cantor-zassenhaus")
  /\ UNCHANGED vars

Next == Factoring \/ BeginSearch \/ DropCandidate \/ Forge \/ NoCandidate \/ Ended

Spec == Init /\ [][Next]_vars

-----------------------------------------------------------------------------
(* Properties.                                                              *)

Authentic(m) == m.tag = Tag(m.text)

\* No assertion ever fails, neither of the split nor of the search, unless
\* the third message is not of the nonce of the others: the key is among the
\* candidates although the polynomial is not normal, has multiple zeros, or
\* other zeros than the key.
AbortsOnForgeryOnly ==
  pc = "aborted" => msg3 # NoMessage /\ ~Authentic(msg3)

\* The forged tag is the one the sender would write, unless another zero of
\* the polynomial reproduces the tag of the third message, as the key does:
\* then the order of the zeros decides.
TagIsAuthentic ==
  pc = "returned" =>
    \/ result = Tag(msg4.text)
    \/ \E h \in {Zeros[k] : k \in 1 .. Len(Zeros)} : h # key /\ Reproduces(h)

=============================================================================
