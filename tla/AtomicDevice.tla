--------------------------- MODULE AtomicDevice ---------------------------
(***************************************************************************)
(* What /dev/aesdchar promises to programs that do not share their open    *)
(* files: a log of the last Capacity commands, with an unfinished command  *)
(* behind it, on which every write, read and seek takes effect in a single *)
(* step or not at all.                                                     *)
(*                                                                         *)
(* One thing is not promised.  When memory runs out, the bytes of the      *)
(* unfinished command may be lost; their number is not.                    *)
(*                                                                         *)
(* AesdChar implements this specification.  The device of the socket       *)
(* servers, in ServerWorld, allows the writes it allows.                   *)
(***************************************************************************)
EXTENDS Integers, Sequences, SequencesExt

CONSTANTS
  Capacity,      \* number of commands kept
  Files,         \* the open files, each used by one thread
  Texts,         \* what a write may store
  MayEnd(_),     \* the bytes of a command may be taken for a finished one
  MayGoOn(_)     \* ... or for an unfinished one

VARIABLES
  log,           \* the commands kept, oldest first
  pending,       \* the unfinished command
  spoiled,       \* its bytes were lost once
  pos,           \* position of each file in the bytes of the log
  got            \* what each file is being handed

vars == <<log, pending, spoiled, pos, got>>

Init ==
  /\ log = << >> /\ pending = << >> /\ spoiled = FALSE
  /\ pos = [f \in Files |-> 0]
  /\ got = [f \in Files |-> << >>]

Stream == FlattenSeq(log)

\* What is left of the log when room is made for one more command.
Kept == IF Len(log) < Capacity THEN log ELSE Tail(log)

Write(text) ==
  LET command == pending \o text
  IN  /\ \/ /\ MayEnd(command) /\ (text # << >> \/ spoiled)
            /\ log' = Append(Kept, command)
            /\ pending' = << >>
         \/ /\ MayGoOn(command)
            /\ pending' = command
            /\ UNCHANGED log
      /\ UNCHANGED <<spoiled, pos, got>>

Spoil ==
  /\ pending # << >> /\ Len(pending') = Len(pending)
  /\ spoiled' = TRUE
  /\ UNCHANGED <<log, pos, got>>

\* The module is loaded again.
Load ==
  /\ log' = << >> /\ pending' = << >> /\ spoiled' = FALSE
  /\ UNCHANGED <<pos, got>>

\* A file is handed the bytes at its position, and moves behind them.
Read(f) ==
  /\ \E n \in 1 .. Len(Stream) - pos[f] :
       /\ got' = [got EXCEPT ![f] = SubSeq(Stream, pos[f] + 1, pos[f] + n)]
       /\ pos' = [pos EXCEPT ![f] = @ + n]
  /\ UNCHANGED <<log, pending, spoiled>>

\* ... and has them.
Done(f) ==
  /\ got' = [got EXCEPT ![f] = << >>]
  /\ UNCHANGED <<log, pending, spoiled, pos>>

\* To a place in what is stored, or its end; closing a file rewinds it.
Seek(f) ==
  /\ \E p \in 0 .. Len(Stream) : pos' = [pos EXCEPT ![f] = p]
  /\ UNCHANGED <<log, pending, spoiled, got>>

\* To some offset from the start of command k.  The offset is one that a
\* stored command has, not necessarily that one.
SeekTo(f) ==
  /\ \E k, j \in 1 .. Len(log) : \E offset \in 0 .. Len(log[j]) - 1 :
       pos' = [pos EXCEPT ![f] = Len(FlattenSeq(SubSeq(log, 1, k - 1))) + offset]
  /\ UNCHANGED <<log, pending, spoiled, got>>

Next ==
  \/ \E text \in Texts : Write(text)
  \/ Spoil
  \/ Load
  \/ \E f \in Files : Read(f) \/ Done(f) \/ Seek(f) \/ SeekTo(f)

Spec == Init /\ [][Next]_vars

=============================================================================
