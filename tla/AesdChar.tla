----------------------------- MODULE AesdChar -----------------------------
(***************************************************************************)
(* The character driver aesd-char-driver/main.c: one device, the open      *)
(* files on it, and threads inside its handlers.                           *)
(*                                                                         *)
(* A system call is several steps of its thread.  Begin... enters the      *)
(* handler with the arguments.  Every handler then takes dev->mtx and      *)
(* works on the device; a handler that may sleep with the mutex held (in   *)
(* kmalloc or in a copy from or to user memory), or that uses the file     *)
(* position twice, is cut there.  Return leaves the kernel.                *)
(*                                                                         *)
(* The virtual file system (not part of this repository) hands read and    *)
(* write a copy of the file position and stores the copy back when the     *)
(* handler returns a non-negative number.  For a character device nothing  *)
(* serialises that with other calls on the same open file.  llseek and     *)
(* ioctl assign f_pos themselves.                                          *)
(*                                                                         *)
(* Loading is one step: aesdchar_load creates the device node only after   *)
(* insmod has returned, so no handler runs during aesd_init_module.  A     *)
(* failed load unregisters what it registered and changes nothing here.    *)
(***************************************************************************)
EXTENDS CircularBuffer

CONSTANTS
  Threads, Files,
  NoThread, NoFile,
  MayUse,          \* MayUse[t]: the open files thread t has a descriptor of
  Readable,        \* the files opened for reading
  Writable,        \* the files opened for writing
  NEWLINE, NUL,    \* the two bytes strchr stops at
  UNINIT,          \* a byte of a block that was never written: any value
  Payloads,        \* what user space writes: non-empty sequences of bytes
  Counts,          \* the sizes user space reads with
  Seeks,           \* <<offset, whence>> arguments of llseek
  Seektos,         \* <<write_cmd, write_cmd_offset>> arguments of the ioctl
  MaxBytes         \* bound: bytes written between two loads of the module

ASSUME AesdCharAssumption ==
  /\ NoThread \notin Threads /\ NoFile \notin Files
  /\ MayUse \in [Threads -> SUBSET Files]
  /\ Readable \subseteq Files /\ Writable \subseteq Files
  /\ {NEWLINE, NUL, UNINIT} \subseteq Byte
  /\ NEWLINE # NUL /\ NEWLINE # UNINIT /\ NUL # UNINIT
  /\ \A d \in Payloads : d \in Seq(Byte \ {UNINIT}) /\ d # << >>
  /\ Counts \subseteq Nat
  /\ \A s \in Seeks : s[1] \in Int
  /\ \A s \in Seektos : s[1] \in Nat /\ s[2] \in Nat
  /\ MaxBytes \in Nat

ENOMEM == -12
EFAULT == -14
EINVAL == -22

VARIABLES
  loaded,           \* the module is in the kernel
  circular_buffer,  \* aesd_device.circular_buffer
  entry,            \* aesd_device.entry: the command not yet terminated
  mtx,              \* aesd_device.mtx: its holder or NoThread
  opened,           \* open files
  f_pos,            \* file position of every open file
  pc, call,         \* where each thread is, and its arguments and locals
  accepted,         \* history: bytes the driver took, in the order it did
  evicted,          \* history: how many of them left the ring again
  damaged,          \* history: krealloc failed under an unfinished command
  delivered         \* history: index in accepted up to which each file has
                    \*   read since it was opened or repositioned

device  == <<loaded, circular_buffer, entry>>
files   == <<opened, f_pos>>
history == <<accepted, evicted, damaged, delivered>>
vars    == <<device, mtx, files, pc, call, history>>

Ops == {"read", "write", "llseek", "ioctl"}

NoCall ==
  [op |-> "none", file |-> NoFile, pos |-> 0, data |-> << >>, count |-> 0,
   slot |-> 0, offset |-> 0, whence |-> "none", cmd |-> 0, retval |-> 0]

Init ==
  /\ loaded = FALSE
  /\ circular_buffer = aesd_circular_buffer_init
  /\ entry = NoEntry
  /\ mtx = NoThread
  /\ opened = {}
  /\ f_pos = [f \in Files |-> 0]
  /\ pc = [t \in Threads |-> "idle"]
  /\ call = [t \in Threads |-> NoCall]
  /\ accepted = << >>
  /\ evicted = 0
  /\ damaged = FALSE
  /\ delivered = [f \in Files |-> 0]

-----------------------------------------------------------------------------
(***************************************************************************)
(* Mutated forms of definitions below, used only to show that the          *)
(* properties notice.                                                      *)
(***************************************************************************)

\* the mutex is released before the copy
MutHoldNothing(t, label, locals) ==
  /\ mtx' = NoThread
  /\ pc' = [pc EXCEPT ![t] = label]
  /\ call' = [call EXCEPT ![t] = locals]

\* an error return without mutex_unlock
MutFailKeepsMutex(t, error) ==
  /\ mtx' = t
  /\ pc' = [pc EXCEPT ![t] = "ret"]
  /\ call' = [call EXCEPT ![t].retval = error]

\* copy_to_user from the start of the entry
MutCopyFromStart(c) ==
  SubSeq(circular_buffer.entry[c.slot].buffptr, 1, c.retval)

\* *f_pos is not moved
MutNotAdvanced(c) == c.pos

\* krealloc to count bytes instead of size + count
MutAllocateShort(count) == [i \in 1 .. count |-> NUL]

\* kzalloc of a larger block where krealloc keeps the old bytes
MutAllocateAnew(count) == [i \in 1 .. entry.size + count |-> NUL]

-----------------------------------------------------------------------------
(***************************************************************************)
(* The module and the open files.                                          *)
(***************************************************************************)

aesd_init_module ==
  /\ ~loaded
  /\ loaded' = TRUE
  /\ circular_buffer' = aesd_circular_buffer_init
  /\ entry' = NoEntry
  /\ mtx' = NoThread
  /\ accepted' = << >>
  /\ evicted' = 0
  /\ damaged' = FALSE
  /\ UNCHANGED <<files, pc, call, delivered>>

\* rmmod fails while a file is open (.owner = THIS_MODULE).
aesd_cleanup_module ==
  /\ loaded
  /\ opened = {}
  /\ loaded' = FALSE
  /\ UNCHANGED <<circular_buffer, entry, mtx, files, pc, call, history>>

aesd_open(f) ==
  /\ loaded
  /\ f \notin opened
  /\ opened' = opened \union {f}
  /\ UNCHANGED <<device, mtx, f_pos, pc, call, history>>

\* The last reference is gone: no thread is in a call on the file.  The
\* struct file dies; the next one starts at position 0.
aesd_release(f) ==
  /\ f \in opened
  /\ \A t \in Threads : call[t].file # f
  /\ opened' = opened \ {f}
  /\ f_pos' = [f_pos EXCEPT ![f] = 0]
  /\ delivered' = [delivered EXCEPT ![f] = 0]
  /\ UNCHANGED <<device, mtx, pc, call, accepted, evicted, damaged>>

-----------------------------------------------------------------------------
(***************************************************************************)
(* Steps shared by the handlers.                                           *)
(***************************************************************************)

Begin(t, f, args) ==
  /\ pc[t] = "idle"
  /\ f \in opened \cap MayUse[t]
  /\ pc' = [pc EXCEPT ![t] = args.op]
  /\ call' = [call EXCEPT ![t] = [args EXCEPT !.file = f]]
  /\ UNCHANGED <<device, mtx, files, history>>

\* the thread goes on at label with the mutex
Hold(t, label, locals) ==
  /\ mtx' = t
  /\ pc' = [pc EXCEPT ![t] = label]
  /\ call' = [call EXCEPT ![t] = locals]

\* *f_pos = pos; mutex_unlock(&dev->mtx); return retval, with data in the
\* caller's memory.  The other locals are gone.
UnlockAndReturn(t, pos, data, retval) ==
  /\ mtx' = NoThread
  /\ pc' = [pc EXCEPT ![t] = "ret"]
  /\ call' = [call EXCEPT ![t] =
                [NoCall EXCEPT !.op = call[t].op, !.file = call[t].file,
                               !.pos = pos, !.data = data, !.retval = retval]]

\* mutex_unlock(&dev->mtx); return error
UnlockAndFail(t, error) == UnlockAndReturn(t, 0, << >>, error)

\* ksys_read and ksys_write store the position back, the others do not.
Return(t) ==
  /\ pc[t] = "ret"
  /\ f_pos' = IF call[t].op \in {"read", "write"} /\ call[t].retval >= 0
              THEN [f_pos EXCEPT ![call[t].file] = call[t].pos]
              ELSE f_pos
  /\ pc' = [pc EXCEPT ![t] = "idle"]
  /\ call' = [call EXCEPT ![t] = NoCall]
  /\ UNCHANGED <<device, mtx, opened, history>>

-----------------------------------------------------------------------------
(***************************************************************************)
(* aesd_read                                                               *)
(***************************************************************************)

BeginRead(t, f, count) ==
  Begin(t, f, [NoCall EXCEPT !.op = "read", !.pos = f_pos[f], !.count = count])

aesd_read_find(t) ==
  /\ pc[t] = "read"
  /\ mtx = NoThread
  /\ LET hit == aesd_circular_buffer_find_entry_offset_for_fpos(
                  circular_buffer, call[t].pos)
         left == circular_buffer.entry[hit.slot].size - hit.offset
     IN  \/ /\ ~hit.found
            /\ UnlockAndReturn(t, call[t].pos, << >>, 0)
         \/ /\ hit.found
            /\ Hold(t, "read_copy",
                 [call[t] EXCEPT !.slot = hit.slot, !.offset = hit.offset,
                    !.retval = Min({call[t].count, left})])
  /\ UNCHANGED <<device, files, history>>

CopiedToUser(c) ==
  SubSeq(circular_buffer.entry[c.slot].buffptr,
         c.offset + 1, c.offset + c.retval)

\* *f_pos = *f_pos + retval
Advanced(c) == c.pos + c.retval

aesd_read_copy(t) ==
  /\ pc[t] = "read_copy"
  /\ LET c == call[t]
     IN  \/ \* copy_to_user fails
            /\ UnlockAndFail(t, EFAULT)
            /\ UNCHANGED delivered
         \/ /\ UnlockAndReturn(t, Advanced(c), CopiedToUser(c), c.retval)
            /\ delivered' = [delivered EXCEPT
                               ![c.file] = evicted + c.pos + c.retval]
  /\ UNCHANGED <<device, files, accepted, evicted, damaged>>

-----------------------------------------------------------------------------
(***************************************************************************)
(* aesd_write                                                              *)
(***************************************************************************)

Filled(n, byte) == [i \in 1 .. n |-> byte]

\* kzalloc for a new command; krealloc keeps the bytes of an unfinished one
\* and, when an earlier failure left buffptr NULL, is a plain kmalloc.
Allocated(count) ==
  IF entry.size = 0 THEN Filled(count, NUL)
  ELSE IF entry.buffptr = NULL THEN Filled(entry.size + count, UNINIT)
  ELSE SubSeq(entry.buffptr, 1, entry.size) \o Filled(count, UNINIT)

\* copy_from_user copies the first k bytes and zeroes the rest of the target
CopiedFromUser(data, k) == SubSeq(data, 1, k) \o Filled(Len(data) - k, NUL)

\* The bytes at which strchr(block, '\n') may stop.  No terminator is stored
\* behind the command, so the scan can run past the block and meet anything.
StrchrStops(block) ==
  {c \in {NEWLINE, NUL} :
     \E i \in 1 .. Len(block) + 1 :
       /\ \A j \in 1 .. i - 1 : block[j] \notin {NEWLINE, NUL}
       /\ i = Len(block) + 1 \/ block[i] \in {c, UNINIT}}

BeginWrite(t, f, data) ==
  /\ Len(accepted) + Len(data) <= MaxBytes
  /\ Begin(t, f, [NoCall EXCEPT !.op = "write", !.pos = f_pos[f],
                                !.data = data, !.count = Len(data)])

aesd_write_alloc(t) ==
  /\ pc[t] = "write"
  /\ mtx = NoThread
  /\ \/ /\ entry' = [entry EXCEPT !.buffptr = Allocated(call[t].count)]
        /\ Hold(t, "write_copy", call[t])
        /\ UNCHANGED damaged
     \/ \* the allocation fails
        /\ entry' = [entry EXCEPT !.buffptr = NULL]
        /\ UnlockAndFail(t, ENOMEM)
        /\ damaged' = (damaged \/ entry.size > 0)
  /\ UNCHANGED <<loaded, circular_buffer, files, accepted, evicted, delivered>>

\* k bytes arrive; the command is moved to the ring if a newline shows up
aesd_write_copy(t) ==
  /\ pc[t] = "write_copy"
  /\ \E k \in 0 .. call[t].count :
       LET written == [buffptr |-> SubSeq(entry.buffptr, 1, entry.size)
                                     \o CopiedFromUser(call[t].data, k),
                       size    |-> entry.size + k]
           dropped == circular_buffer.entry[circular_buffer.in_offs]
       IN  /\ \E c \in StrchrStops(written.buffptr) :
                \/ /\ c = NEWLINE
                   /\ circular_buffer' =
                        aesd_circular_buffer_add_entry(circular_buffer, written)
                   /\ entry' = NoEntry
                   /\ evicted' = evicted + dropped.size
                \/ /\ c = NUL
                   /\ entry' = written
                   /\ UNCHANGED <<circular_buffer, evicted>>
           /\ accepted' = accepted \o SubSeq(call[t].data, 1, k)
           /\ UnlockAndReturn(t, call[t].pos, << >>, k)
  /\ UNCHANGED <<loaded, files, damaged, delivered>>

-----------------------------------------------------------------------------
(***************************************************************************)
(* aesd_llseek                                                             *)
(***************************************************************************)

\* The position asked for.  Any other whence is refused before it is used.
SeekTarget(f, offset, whence) ==
  CASE whence = "SEEK_SET" -> offset
    [] whence = "SEEK_CUR" -> f_pos[f] + offset
    [] whence = "SEEK_END" -> TotalSize(circular_buffer) + offset
    [] OTHER               -> -1

BeginLlseek(t, f, offset, whence) ==
  Begin(t, f, [NoCall EXCEPT !.op = "llseek", !.offset = offset,
                             !.whence = whence])

aesd_llseek(t) ==
  /\ pc[t] = "llseek"
  /\ mtx = NoThread
  /\ LET new_pos == SeekTarget(call[t].file, call[t].offset, call[t].whence)
     IN  IF 0 <= new_pos /\ new_pos <= TotalSize(circular_buffer)
         THEN Hold(t, "llseek_set", [call[t] EXCEPT !.pos = new_pos])
         ELSE UnlockAndFail(t, EINVAL)
  /\ UNCHANGED <<device, files, history>>

aesd_llseek_set(t) ==
  /\ pc[t] = "llseek_set"
  /\ f_pos' = [f_pos EXCEPT ![call[t].file] = call[t].pos]
  /\ delivered' = [delivered EXCEPT ![call[t].file] = 0]
  /\ UnlockAndReturn(t, 0, << >>, call[t].pos)
  /\ UNCHANGED <<device, opened, accepted, evicted, damaged>>

-----------------------------------------------------------------------------
(***************************************************************************)
(* aesd_ioctl, for AESDCHAR_IOCSEEKTO: another command, or an argument     *)
(* that cannot be copied in, is refused before anything is touched.  The   *)
(* position is assigned without having been read, so this is one step.     *)
(***************************************************************************)

BeginIoctl(t, f, write_cmd, write_cmd_offset) ==
  Begin(t, f, [NoCall EXCEPT !.op = "ioctl", !.cmd = write_cmd,
                             !.offset = write_cmd_offset])

aesd_ioctl(t) ==
  /\ pc[t] = "ioctl"
  /\ mtx = NoThread
  /\ LET c == call[t]
     IN  \/ /\ ~SeektoValid(circular_buffer, c.cmd, c.offset)
            /\ UnlockAndFail(t, EINVAL)
            /\ UNCHANGED <<f_pos, delivered>>
         \/ /\ SeektoValid(circular_buffer, c.cmd, c.offset)
            /\ f_pos' = [f_pos EXCEPT ![c.file] =
                           CommandStart(circular_buffer, c.cmd) + c.offset]
            /\ delivered' = [delivered EXCEPT ![c.file] = 0]
            /\ UnlockAndReturn(t, 0, << >>, 0)
  /\ UNCHANGED <<device, opened, accepted, evicted, damaged>>

-----------------------------------------------------------------------------
Enter(t, f) ==
  \/ f \in Readable /\ \E count \in Counts : BeginRead(t, f, count)
  \/ f \in Writable /\ \E data \in Payloads : BeginWrite(t, f, data)
  \/ \E s \in Seeks : BeginLlseek(t, f, s[1], s[2])
  \/ \E s \in Seektos : BeginIoctl(t, f, s[1], s[2])

\* the first step of a handler waits for the mutex, the others have it
Lock(t) ==
  aesd_read_find(t) \/ aesd_write_alloc(t) \/ aesd_llseek(t) \/ aesd_ioctl(t)

Finish(t) ==
  aesd_read_copy(t) \/ aesd_write_copy(t) \/ aesd_llseek_set(t) \/ Return(t)

Next ==
  \/ aesd_init_module
  \/ aesd_cleanup_module
  \/ \E f \in Files : aesd_open(f) \/ aesd_release(f)
  \/ \E t \in Threads :
       Lock(t) \/ Finish(t) \/ \E f \in Files : Enter(t, f)

Spec == Init /\ [][Next]_vars

(***************************************************************************)
(* A thread inside a handler keeps running, and a struct mutex hands the   *)
(* lock over to a waiter that is passed by too often, so a waiting thread  *)
(* that finds the mutex free again and again gets it.                      *)
(***************************************************************************)
Fairness == \A t \in Threads : SF_vars(Lock(t)) /\ WF_vars(Finish(t))

FairSpec == Spec /\ Fairness

-----------------------------------------------------------------------------
(***************************************************************************)
(* Properties                                                              *)
(***************************************************************************)

Labels == Ops \union {"idle", "read_copy", "write_copy", "llseek_set", "ret"}

Call ==
  [op : Ops \union {"none"}, file : Files \union {NoFile}, pos : Nat,
   data : Seq(Byte), count : Nat, slot : Slots, offset : Int,
   whence : {"none"} \union {s[2] : s \in Seeks}, cmd : Nat, retval : Int]

\* Every variable keeps its type; the ring's offsets stay inside the array
\* and a stored file position is never negative.
TypeOK ==
  /\ loaded \in BOOLEAN
  /\ circular_buffer \in Buffer
  /\ entry \in Entry
  /\ mtx \in Threads \union {NoThread}
  /\ opened \subseteq Files
  /\ f_pos \in [Files -> Nat]
  /\ pc \in [Threads -> Labels]
  /\ call \in [Threads -> Call]
  /\ accepted \in Seq(Byte)
  /\ evicted \in Nat
  /\ damaged \in BOOLEAN
  /\ delivered \in [Files -> Nat]

\* What the scans of find_entry, llseek and ioctl rely on and only
\* aesd_circular_buffer_add_entry establishes, call after call and with what
\* short copies and failed allocations put into the entries: see Consistent.
RingConsistent == Consistent(circular_buffer)

Locked == {"read_copy", "write_copy", "llseek_set"}

\* mutex_lock and mutex_unlock are paired on every path of every handler: a
\* thread is between its lock and its unlock exactly when it is the holder.
MutexPaired == \A t \in Threads : mtx = t <=> pc[t] \in Locked

\* What copy_to_user reads: when it runs, find_entry would still return the
\* same entry and offset, and the bytes asked for are inside its block.
FoundEntryStaysValid ==
  \A t \in Threads : pc[t] = "read_copy" =>
    LET c   == call[t]
        e   == circular_buffer.entry[c.slot]
        hit == aesd_circular_buffer_find_entry_offset_for_fpos(
                 circular_buffer, c.pos)
    IN  /\ hit.found /\ hit.slot = c.slot /\ hit.offset = c.offset
        /\ c.offset + c.retval <= e.size
        /\ e.size <= Len(e.buffptr)

\* What copy_from_user writes: count bytes at &buffptr[size] fill the block
\* exactly, also when earlier writes were short or failed to allocate.
WriteFitsBlock ==
  \A t \in Threads : pc[t] = "write_copy" =>
    entry.size + call[t].count = Len(entry.buffptr)

\* aesd_circular_buffer_find_entry_offset_for_fpos against the byte stream
\* it indexes: NULL exactly past the end, otherwise the very byte asked for.
FindEntryAgrees ==
  LET b == circular_buffer
      content == Content(b)
  IN  \A pos \in 0 .. Len(content) + 1 :
        LET hit == aesd_circular_buffer_find_entry_offset_for_fpos(b, pos)
        IN  IF pos >= Len(content) THEN ~hit.found
            ELSE /\ hit.found
                 /\ hit.offset < b.entry[hit.slot].size
                 /\ b.entry[hit.slot].buffptr[hit.offset + 1] = content[pos + 1]

\* Writers do not lose, reorder or duplicate bytes: short copies, commands
\* cut into several writes and evictions included, what is stored, followed
\* by the unfinished command, is the tail of what aesd_write accepted.  A
\* failed krealloc under an unfinished command is the one exception.
NoByteLost ==
  ~damaged /\ (\A t \in Threads : pc[t] # "write_copy") =>
    /\ SubSeq(accepted, evicted + 1, Len(accepted))
         = Content(circular_buffer) \o Bytes(entry)
    /\ evicted <= Len(accepted)

\* aesd_read returns the bytes at the position it was called with.
ReadReturnsSlice ==
  [][\A t \in Threads :
       pc[t] = "read_copy" /\ pc'[t] = "ret" /\ call'[t].retval >= 0 =>
         LET c == call'[t]
         IN  /\ c.data = SubSeq(Content(circular_buffer),
                                call[t].pos + 1, call[t].pos + c.retval)
             /\ c.pos = call[t].pos + Len(c.data)]_vars

Private(f) == \A t, u \in Threads : f \in MayUse[t] \cap MayUse[u] => t = u

\* aesd_read never serves a byte twice to a file that one thread uses, although
\* evictions move the stream under its position: they make it skip ahead.
ReadsMoveForward ==
  [][\A t \in Threads :
       (pc[t] = "read_copy" /\ pc'[t] = "ret" /\ Private(call[t].file))
         => evicted + call[t].pos >= delivered[call[t].file]]_vars

\* A successful llseek leaves f_pos inside the content that is stored at
\* that moment, whatever was written while it waited.
SeekWithinContent ==
  [][\A t \in Threads :
       pc[t] = "llseek_set" /\ pc'[t] = "ret" =>
         f_pos'[call[t].file] <= Len(Content(circular_buffer))]_vars

\* A successful AESDCHAR_IOCSEEKTO adds the offset to the start of a command
\* that is stored; while nothing has been overwritten (out_offs = 0) it
\* succeeds exactly for the bytes that exist.
SeektoStartsAtCommand ==
  [][\A t \in Threads :
       pc[t] = "ioctl" /\ pc'[t] = "ret" =>
         LET log   == Log(circular_buffer)
             c     == call[t]
             bytes == [k \in 1 .. c.cmd |-> Bytes(log[k])]
         IN  /\ call'[t].retval = 0 =>
                  /\ c.cmd < Len(log)
                  /\ f_pos'[c.file] = Len(FlattenSeq(bytes)) + c.offset
             /\ circular_buffer.out_offs = 0 =>
                  (call'[t].retval = 0
                     <=> c.cmd < Len(log) /\ c.offset < log[c.cmd + 1].size)]_vars

Promise ==
  INSTANCE BoundedLog WITH log <- Log(circular_buffer),
                           Capacity <- MAX_WRITE_OPERATIONS

\* The device as user space sees it: aesd_write and add_entry make it a log
\* that commits one command at a time and drops the oldest when it is full.
ImplementsBoundedLog == Promise!Spec

\* The bytes of the unfinished command.  Without a block they can be anything.
Unfinished ==
  IF entry.buffptr = NULL THEN Filled(entry.size, UNINIT) ELSE Bytes(entry)

\* reads on f that are over, but not stored back and returned
HandingOver(f) ==
  {t \in Threads : /\ pc[t] = "ret" /\ call[t].file = f
                   /\ call[t].op = "read" /\ call[t].retval >= 0}

Position(f) ==
  IF HandingOver(f) = {} THEN f_pos[f]
  ELSE call[CHOOSE t \in HandingOver(f) : TRUE].pos

Handed(f) ==
  IF HandingOver(f) = {} THEN << >>
  ELSE call[CHOOSE t \in HandingOver(f) : TRUE].data

PrivateFiles == {f \in Files : Private(f)}

StopsAtNewline(block) == NEWLINE \in StrchrStops(block)
StopsAtNUL(block)     == NUL \in StrchrStops(block)

Atomic ==
  INSTANCE AtomicDevice WITH
    Capacity <- MAX_WRITE_OPERATIONS,
    Files    <- PrivateFiles,
    Texts    <- UNION {{SubSeq(d, 1, k) : k \in 0 .. Len(d)} : d \in Payloads},
    MayEnd   <- StopsAtNewline,
    MayGoOn  <- StopsAtNUL,
    log      <- Commands(circular_buffer),
    pending  <- Unfinished,
    spoiled  <- damaged,
    pos      <- [f \in PrivateFiles |-> Position(f)],
    got      <- [f \in PrivateFiles |-> Handed(f)]

\* To programs that do not share open files every system call is atomic,
\* although handlers sleep, work on a copy of the position that is stored back
\* after the unlock, and fail half-way.
ImplementsAtomicDevice == Atomic!Spec

\* Every call comes back: no handler keeps the mutex, and no thread starves.
CallsReturn == \A t \in Threads : pc[t] # "idle" ~> pc[t] = "idle"

-----------------------------------------------------------------------------
(***************************************************************************)
(* What the repository's comments say and the code does not do.            *)
(***************************************************************************)

\* aesd-circular-buffer.h on the member size of an entry: "Number of bytes
\* stored in buffptr".  Stated for the entry being assembled.
EntrySizeIsBytesStored == entry.size <= Len(entry.buffptr)

\* aesd_ioctl.h on write_cmd_offset: "The zero referenced offset within the
\* write".  A successful seek lands inside the write it names.
SeektoLandsInWrite ==
  [][\A t \in Threads :
       pc[t] = "ioctl" /\ pc'[t] = "ret" /\ call'[t].retval = 0 =>
         call[t].offset < Log(circular_buffer)[call[t].cmd + 1].size]_vars

=============================================================================
