---------------------------- MODULE BoundedLog ----------------------------
(***************************************************************************)
(* What /dev/aesdchar promises about the commands it stores: a first-in    *)
(* first-out log of at most Capacity entries.  A committed entry goes to   *)
(* the young end; once the log is full every commit drops the oldest       *)
(* entry, and nothing else ever changes a stored entry.  Loading the       *)
(* module starts from an empty log.                                        *)
(*                                                                         *)
(* AesdChar implements this specification with the ring of                 *)
(* aesd-circular-buffer.c; the mapping is AesdChar!Log.                    *)
(***************************************************************************)
EXTENDS Naturals, Sequences

CONSTANT Capacity   \* number of entries kept

VARIABLE log        \* the entries kept, oldest first

Init == log = << >>

\* What is left of the log when room is made for one more entry.
Kept == IF Len(log) < Capacity THEN log ELSE Tail(log)

\* One entry is committed.  Which one is not restricted here: it is the
\* entry found at the young end afterwards.
Commit ==
  /\ log' # << >>
  /\ log' = Append(Kept, log'[Len(log')])

\* The device is set up again: rmmod, then insmod.
Clear == log' = << >>

Next == Commit \/ Clear

Spec == Init /\ [][Next]_log

=============================================================================
