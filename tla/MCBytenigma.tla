----------------------------- MODULE MCBytenigma -----------------------------
(* Instances of Bytenigma for TLC, with bytes of two bits.                  *)
EXTENDS Bytenigma_proofs

Rotors == {r \in [1 .. ByteSize -> Byte] : IsRotor(r)}

Identity == [j \in 1 .. ByteSize |-> j - 1]
Shifted  == [j \in 1 .. ByteSize |-> j % ByteSize]

\* All machines of one rotor, and of two of which the second is any.
PairsOfRotors ==
  {<<r>> : r \in Rotors} \cup
  {<<r, s>> : r \in {Identity, Shifted, <<2, 0, 3, 1>>}, s \in Rotors}

\* Three rotors: one that turns its neighbour first and last.
ThreeRotors == {<<Shifted, Identity, Shifted>>, <<Identity, <<2, 0, 3, 1>>, Identity>>}

\* Input that is not as documented: no rotor, an empty one, short ones, ones
\* with an output that is no index, one that is no permutation, a long one.
OtherRotors ==
  {<<>>, <<<<>>>>, <<<<1, 0>>, Identity>>, <<Identity, <<0>>>>, <<<<1, 0, 2>>>>, <<<<0, 2>>>>,
   <<Identity, <<0, 1, 1, 3>>, Shifted>>, <<<<0, 1, 3, 3, 2, 1>>, Shifted>>}

AllRotors == PairsOfRotors \cup ThreeRotors \cup OtherRotors

=============================================================================
