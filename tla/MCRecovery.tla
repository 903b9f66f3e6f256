----------------------------- MODULE MCRecovery -----------------------------
(* Recovery for TLC, over the field of four elements.                       *)
EXTENDS Recovery

UpTo(n) == UNION {[1 .. k -> Element] : k \in 0 .. n}

\* Polynomials of degree 3 and less, monic or to be made so, with a leading
\* zero or empty.
Cubics == {p \in UpTo(4) : p = <<>> \/ p[Len(p)] \in {zero, one, {1}}}

\* Messages of up to two blocks besides the lengths.
MCTexts == {<<a, c>> : a \in {<<>>, <<{1}>>}, c \in UpTo(1)}
             \cup {<<<<>>, <<one, {1}>>>>, <<<<>>, <<{0, 1}, {0, 1}>>>>}

AKey  == {{1}}
AMask == {{0, 1}}

AThird  == {<<<<>>, <<{0}>>>>, <<<<{1}>>, <<{0}, {1}>>>>}
AFourth == {<<<<{0}>>, <<{1}, {0, 1}>>>>}
=============================================================================
