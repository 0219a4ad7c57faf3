-------------------------- MODULE MCSystemCalls ---------------------------
(***************************************************************************)
(* Small instances of SystemCalls for TLC.                                 *)
(***************************************************************************)
EXTENDS SystemCalls

CONSTANTS c1, c2, OLD

\* no file or an empty one, and one that is longer than what is written
MCOldContents == {<< >>, <<OLD, OLD, OLD>>}

=============================================================================
