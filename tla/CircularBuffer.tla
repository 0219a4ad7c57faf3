-------------------------- MODULE CircularBuffer --------------------------
(***************************************************************************)
(* The ring of aesd-char-driver/aesd-circular-buffer.c, as operators on    *)
(* the value of a struct aesd_circular_buffer, together with the loops     *)
(* that main.c runs over the same struct.                                  *)
(*                                                                         *)
(* An entry is a struct aesd_buffer_entry: buffptr is the memory block it  *)
(* points to, as the sequence of its bytes, and size the number of bytes   *)
(* in use.  Every block the driver allocates has at least one byte, so the *)
(* empty sequence stands for the NULL pointer.                             *)
(***************************************************************************)
EXTENDS Integers, Sequences, SequencesExt

CONSTANTS
  MAX_WRITE_OPERATIONS,  \* AESDCHAR_MAX_WRITE_OPERATIONS_SUPPORTED (10)
  Byte                   \* what a byte of a memory block may hold

ASSUME MaxWriteOperationsAssumption == MAX_WRITE_OPERATIONS \in Nat \ {0}

Slots == 0 .. MAX_WRITE_OPERATIONS - 1

NULL == << >>

Entry == [buffptr : Seq(Byte), size : Nat]

NoEntry == [buffptr |-> NULL, size |-> 0]

Buffer ==
  [entry : [Slots -> Entry], in_offs : Slots, out_offs : Slots, full : BOOLEAN]

-----------------------------------------------------------------------------
(***************************************************************************)
(* Mutated forms of the definitions below, each one a slip the code could  *)
(* easily contain.  They are used only to show that the properties notice. *)
(***************************************************************************)

\* in_offs moves on without the modulo
MutNextSlotPastEnd(i) == i + 1

\* out_offs left alone when an entry is overwritten
MutAddKeepsOldest(b, e) ==
  LET in_offs == (b.in_offs + 1) % MAX_WRITE_OPERATIONS
  IN  [b EXCEPT !.entry[b.in_offs] = e, !.in_offs = in_offs,
                !.full = b.full \/ in_offs = b.out_offs]

\* the scan starts at slot 0 instead of out_offs
MutVisitedFromZero(b, count) == count % MAX_WRITE_OPERATIONS

\* the offset may point just behind the command
MutSeektoOneBehind(b, write_cmd, write_cmd_offset) ==
  /\ write_cmd \in Slots /\ (b.full \/ write_cmd < b.in_offs)
  /\ b.entry[write_cmd].size >= write_cmd_offset

-----------------------------------------------------------------------------
\* (x + 1) % AESDCHAR_MAX_WRITE_OPERATIONS_SUPPORTED
NextSlot(i) == (i + 1) % MAX_WRITE_OPERATIONS

\* memset(buffer, 0, sizeof *buffer)
aesd_circular_buffer_init ==
  [entry |-> [i \in Slots |-> NoEntry],
   in_offs |-> 0, out_offs |-> 0, full |-> FALSE]

\* The new entry goes to in_offs; when the ring was already full that slot
\* held the oldest entry, so out_offs moves on with in_offs.
aesd_circular_buffer_add_entry(b, e) ==
  LET in_offs  == NextSlot(b.in_offs)
      out_offs == IF b.full THEN NextSlot(b.out_offs) ELSE b.out_offs
  IN  [entry    |-> [b.entry EXCEPT ![b.in_offs] = e],
       in_offs  |-> in_offs,
       out_offs |-> out_offs,
       full     |-> in_offs = out_offs]

-----------------------------------------------------------------------------
(***************************************************************************)
(* The loops.  All of them run i from out_offs, modulo the array length,   *)
(* and count from 0.                                                       *)
(***************************************************************************)

\* the value of i in iteration count
Visited(b, count) == (b.out_offs + count) % MAX_WRITE_OPERATIONS

\* the sum of the sizes of the entries visited before iteration count
SizeBefore(b) ==
  LET sum[count \in 0 .. MAX_WRITE_OPERATIONS] ==
        IF count = 0 THEN 0
        ELSE sum[count - 1] + b.entry[Visited(b, count - 1)].size
  IN  sum

\* The entry that holds byte char_offset, and the offset of that byte in it:
\* the loop stops at the first entry that ends beyond char_offset.  It does
\* not look at in_offs or full, so it relies on unused slots having size 0.
aesd_circular_buffer_find_entry_offset_for_fpos(b, char_offset) ==
  LET sum  == SizeBefore(b)
      hits == {count \in Slots : char_offset < sum[count + 1]}
  IN  IF hits = {}
      THEN [found |-> FALSE, slot |-> 0, offset |-> 0]
      ELSE [found  |-> TRUE,
            slot   |-> Visited(b, Min(hits)),
            offset |-> char_offset - sum[Min(hits)]]

\* The iteration in which a loop of main.c breaks (i == in_offs && !full),
\* or the number of iterations when it never does.
BreakAt(b) ==
  LET stops == {count \in Slots : Visited(b, count) = b.in_offs /\ ~b.full}
  IN  IF stops = {} THEN MAX_WRITE_OPERATIONS ELSE Min(stops)

\* aesd_llseek adds the size of the slot before it tests for the break
TotalSize(b) == SizeBefore(b)[Min({BreakAt(b) + 1, MAX_WRITE_OPERATIONS})]

\* the second loop of aesd_ioctl: the bytes before command write_cmd
CommandStart(b, write_cmd) == SizeBefore(b)[Min({write_cmd, BreakAt(b) + 1})]

\* the size compared with the offset is that of slot write_cmd of the array,
\* wherever out_offs points
SeektoValid(b, write_cmd, write_cmd_offset) ==
  /\ write_cmd < BreakAt(b)
  /\ b.entry[write_cmd].size > write_cmd_offset

-----------------------------------------------------------------------------
(***************************************************************************)
(* Reference definitions: the stored commands oldest first, and their      *)
(* bytes as one stream.                                                    *)
(***************************************************************************)

Occupied(b) ==
  IF b.full THEN MAX_WRITE_OPERATIONS ELSE b.in_offs - b.out_offs

Log(b) ==
  [k \in 1 .. Occupied(b) |->
     b.entry[(b.out_offs + k - 1) % MAX_WRITE_OPERATIONS]]

\* The ring is in step with itself: it is full exactly when in_offs has come
\* round to out_offs, out_offs leaves slot 0 only once the ring is full, the
\* slots in use are those with a positive size, and no block is too short.
Consistent(b) ==
  /\ b.full => b.in_offs = b.out_offs
  /\ ~b.full => b.out_offs = 0
  /\ \A i \in Slots :
       /\ b.entry[i].size > 0 <=> b.full \/ i < b.in_offs
       /\ b.entry[i].size <= Len(b.entry[i].buffptr)

Bytes(e) == SubSeq(e.buffptr, 1, e.size)

Commands(b) == [k \in 1 .. Occupied(b) |-> Bytes(Log(b)[k])]

Content(b) == FlattenSeq(Commands(b))

=============================================================================
