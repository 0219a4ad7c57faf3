--------------------------- MODULE MCAesdSocket ---------------------------
(***************************************************************************)
(* Small instances of AesdSocket for TLC.                                  *)
(***************************************************************************)
EXTENDS AesdSocket

CONSTANTS c1, c2, n1, n2, A, ONE

MCByte == {A, NEWLINE, NUL, SEEKTO, ONE}

\* SEEKTO ends in "0"; with another digit behind it the offset is 1
MCNumber == (<< >> :> 0) @@ (<<ONE>> :> 1)

\* lines, a newline behind a NUL, and a seek command; recv may cut or join
\* them anywhere.  A single line.
MCSeeking == {<<NEWLINE>>, <<A, NEWLINE>>, <<NUL, NEWLINE>>, <<SEEKTO, ONE>>}
MCOneLine == {<<NEWLINE>>}

MCGarbage == <<A, A>>

\* connections and elements are interchangeable
ServerSymmetry == Permutations(Conns) \union Permutations(Nodes)

=============================================================================
