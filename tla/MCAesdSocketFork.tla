------------------------- MODULE MCAesdSocketFork -------------------------
(***************************************************************************)
(* Small instances of AesdSocketFork for TLC.                              *)
(***************************************************************************)
EXTENDS AesdSocketFork

CONSTANTS c1, c2, A

MCByte == {A, NEWLINE, NUL, SEEKTO}

\* nothing comes of the number a client seeks to: no digits are needed
MCNumber == << >> :> 0

\* lines, a NUL with text behind it, and a seek command; recv may cut them
MCLines == {<<NEWLINE>>, <<A, NEWLINE>>, <<NUL, A>>, <<SEEKTO>>}

\* connections are interchangeable
ConnSymmetry == Permutations(Conns)

MCGarbage == <<A, A, NUL>>

=============================================================================
