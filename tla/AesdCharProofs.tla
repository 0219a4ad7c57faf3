-------------------------- MODULE AesdCharProofs --------------------------
(***************************************************************************)
(* Theorems about AesdChar for any number of threads, files, slots and     *)
(* bytes: type correctness, the safety of the mutex, of the two copies and *)
(* of the ring, that the driver implements BoundedLog, that no byte is     *)
(* lost, and where reads and seeks leave the position.                     *)
(***************************************************************************)
EXTENDS AesdChar, CircularBufferProofs

\* What a handler knows about its arguments and locals.
CallWellFormed(t) ==
  /\ pc[t] # "idle" => call[t].file \in opened
  /\ pc[t] \in {"write", "write_copy"} =>
       call[t].data # << >> /\ call[t].count = Len(call[t].data)
  /\ pc[t] \in {"read_copy", "ioctl"} => call[t].offset \in Nat
  /\ pc[t] = "read_copy" => call[t].retval \in Nat

\* Unless an allocation has failed, the unfinished command is all there.
EntryHasItsBytes == entry.buffptr # NULL => entry.size <= Len(entry.buffptr)

\* The inductive invariant.  Consistent needs to know that a committed entry
\* is not empty and has its bytes, hence the facts about the write under way;
\* mutex_init at load time is harmless because no handler runs then.
IInv ==
  /\ TypeOK
  /\ RingConsistent
  /\ MutexPaired
  /\ WriteFitsBlock
  /\ FoundEntryStaysValid
  /\ EntryHasItsBytes
  /\ \A t \in Threads : CallWellFormed(t)
  /\ ~loaded => opened = {}

-----------------------------------------------------------------------------
\* The call record of an idle thread has the type of a call.
LEMMA NoCallType == NoCall \in Call
  BY MaxWriteOperationsAssumption DEF NoCall, Call, Slots

\* Updating one member of a call keeps the type.
LEMMA CallUpdate ==
  ASSUME NEW c \in Call
  PROVE  /\ \A v \in Ops \union {"none"} : [c EXCEPT !.op = v] \in Call
         /\ \A v \in Files \union {NoFile} : [c EXCEPT !.file = v] \in Call
         /\ \A v \in Nat : [c EXCEPT !.pos = v] \in Call
         /\ \A v \in Seq(Byte) : [c EXCEPT !.data = v] \in Call
         /\ \A v \in Nat : [c EXCEPT !.count = v] \in Call
         /\ \A v \in Slots : [c EXCEPT !.slot = v] \in Call
         /\ \A v \in Int : [c EXCEPT !.offset = v] \in Call
         /\ \A v \in {"none"} \union {s[2] : s \in Seeks} :
              [c EXCEPT !.whence = v] \in Call
         /\ \A v \in Nat : [c EXCEPT !.cmd = v] \in Call
         /\ \A v \in Int : [c EXCEPT !.retval = v] \in Call
<1>1. \A v \in Ops \union {"none"} : [c EXCEPT !.op = v] \in Call
  BY DEF Call
<1>2. \A v \in Files \union {NoFile} : [c EXCEPT !.file = v] \in Call
  BY DEF Call
<1>3. \A v \in Nat : [c EXCEPT !.pos = v] \in Call
  BY DEF Call
<1>4. \A v \in Seq(Byte) : [c EXCEPT !.data = v] \in Call
  BY DEF Call
<1>5. \A v \in Nat : [c EXCEPT !.count = v] \in Call
  BY DEF Call
<1>6. \A v \in Slots : [c EXCEPT !.slot = v] \in Call
  BY DEF Call
<1>7. \A v \in Int : [c EXCEPT !.offset = v] \in Call
  BY DEF Call
<1>8. \A v \in {"none"} \union {s[2] : s \in Seeks} :
        [c EXCEPT !.whence = v] \in Call
  BY DEF Call
<1>9. \A v \in Nat : [c EXCEPT !.cmd = v] \in Call
  BY DEF Call
<1>10. \A v \in Int : [c EXCEPT !.retval = v] \in Call
  BY DEF Call
<1> QED
  BY <1>1, <1>2, <1>3, <1>4, <1>5, <1>6, <1>7, <1>8, <1>9, <1>10

\* The cleared dev->entry and the NULL pointer have their types.
LEMMA NoEntryType == NoEntry \in Entry /\ << >> \in Seq(Byte)
  BY DEF NoEntry, Entry, NULL

\* Init establishes the invariant.
LEMMA InitIInv == Init => IInv
<1> SUFFICES ASSUME Init PROVE IInv
  OBVIOUS
<1> USE DEF Init
<1>1. TypeOK
  BY NoCallType, NoEntryType, InitType DEF TypeOK, Labels
<1>2. RingConsistent
  BY InitConsistent DEF RingConsistent
<1>3. MutexPaired
  BY AesdCharAssumption DEF MutexPaired, Locked
<1> QED
  BY <1>1, <1>2, <1>3
  DEF IInv, WriteFitsBlock, FoundEntryStaysValid, CallWellFormed,
      EntryHasItsBytes, NoEntry

-----------------------------------------------------------------------------
(***************************************************************************)
(* Steps that leave the device alone                                       *)
(***************************************************************************)

\* Entering and leaving a handler happens without the mutex.
LEMMA OutsideStep ==
  ASSUME IInv, NEW t \in Threads, NEW label \in Labels \ Locked,
         NEW c \in Call, pc[t] \notin Locked,
         label # "idle" => c.file \in opened,
         label = "write" => c.data # << >> /\ c.count = Len(c.data),
         label = "ioctl" => c.offset \in Nat,
         pc' = [pc EXCEPT ![t] = label], call' = [call EXCEPT ![t] = c],
         f_pos' \in [Files -> Nat],
         UNCHANGED <<device, mtx, opened, history>>
  PROVE  IInv'
<1> USE DEF IInv
<1>1. TypeOK'
  BY DEF TypeOK, device, history
<1>2. RingConsistent'
  BY DEF RingConsistent, device
<1>3. MutexPaired'
  BY DEF MutexPaired, TypeOK
<1>4. ASSUME NEW u \in Threads, pc'[u] \in Locked
      PROVE  pc'[u] = pc[u] /\ call'[u] = call[u]
  BY <1>4 DEF TypeOK
<1>5. WriteFitsBlock'
  BY <1>4 DEF WriteFitsBlock, Locked, device
<1>6. FoundEntryStaysValid'
  BY <1>4 DEF FoundEntryStaysValid, Locked, device
<1>7. \A u \in Threads : CallWellFormed(u)'
  BY DEF CallWellFormed, TypeOK, Locked
<1> QED
  BY <1>1, <1>2, <1>3, <1>5, <1>6, <1>7 DEF device, EntryHasItsBytes

\* A handler that unlocks and returns leaves no thread inside the mutex.
LEMMA ReturnStep ==
  ASSUME IInv, NEW t \in Threads, pc[t] # "idle", mtx \in {t, NoThread},
         NEW pos \in Nat, NEW data \in Seq(Byte), NEW retval \in Int,
         UnlockAndReturn(t, pos, data, retval), UNCHANGED opened
  PROVE  /\ mtx' \in Threads \union {NoThread}
         /\ pc' \in [Threads -> Labels]
         /\ call' \in [Threads -> Call]
         /\ MutexPaired' /\ WriteFitsBlock' /\ FoundEntryStaysValid'
         /\ \A u \in Threads : CallWellFormed(u)'
<1> USE DEF IInv
<1> DEFINE c == [NoCall EXCEPT !.op = call[t].op, !.file = call[t].file,
                               !.pos = pos, !.data = data, !.retval = retval]
<1>1. call[t] \in Call /\ call[t].file \in opened /\ opened \subseteq Files
  BY DEF TypeOK, CallWellFormed
<1>2. c \in Call /\ c.file \in opened
  <2>1. call[t].op \in Ops \union {"none"}
    BY <1>1 DEF Call
  <2>2. c \in Call
    BY <1>1, <2>1, NoCallType, CallUpdate
  <2>3. c.file = call[t].file
    BY DEF NoCall
  <2> QED
    BY <1>1, <2>2, <2>3
<1> HIDE DEF c
<1>3. /\ mtx' = NoThread
      /\ pc' = [pc EXCEPT ![t] = "ret"]
      /\ call' = [call EXCEPT ![t] = c]
  BY DEF UnlockAndReturn, c
<1>4. /\ pc' \in [Threads -> Labels]
      /\ call' \in [Threads -> Call]
  BY <1>2, <1>3 DEF TypeOK, Labels
<1>5. \A u \in Threads : pc'[u] \notin Locked
  BY <1>3, AesdCharAssumption DEF TypeOK, MutexPaired, Locked
<1>6. MutexPaired'
  BY <1>3, <1>5, AesdCharAssumption DEF MutexPaired
<1>7. WriteFitsBlock' /\ FoundEntryStaysValid'
  BY <1>5 DEF WriteFitsBlock, FoundEntryStaysValid, Locked
<1>8. \A u \in Threads : CallWellFormed(u)'
  BY <1>2, <1>3 DEF TypeOK, CallWellFormed
<1> QED
  BY <1>3, <1>4, <1>6, <1>7, <1>8

\* A handler that goes on with the mutex is the only one inside.
LEMMA HoldStep ==
  ASSUME IInv, NEW t \in Threads, mtx = NoThread,
         NEW label \in Locked, NEW c \in Call, Hold(t, label, c),
         UNCHANGED opened, c.file \in opened,
         label = "write_copy" => c.data # << >> /\ c.count = Len(c.data),
         label = "read_copy" => c.offset \in Nat /\ c.retval \in Nat
  PROVE  /\ mtx' \in Threads \union {NoThread}
         /\ pc' \in [Threads -> Labels]
         /\ call' \in [Threads -> Call]
         /\ MutexPaired'
         /\ \A u \in Threads : CallWellFormed(u)'
         /\ \A u \in Threads : pc'[u] \in Locked => u = t
         /\ pc'[t] = label /\ call'[t] = c
<1> USE DEF IInv, Hold
<1>1. label \in Labels /\ label # "idle" /\ label \notin {"write", "ioctl"}
  BY DEF Labels, Locked
<1>2. pc' \in [Threads -> Labels] /\ call' \in [Threads -> Call]
      /\ mtx' = t /\ pc'[t] = label /\ call'[t] = c
  BY <1>1 DEF TypeOK
<1>3. \A u \in Threads : pc'[u] \in Locked => u = t
  BY AesdCharAssumption DEF TypeOK, MutexPaired
<1>4. MutexPaired'
  BY <1>2, <1>3 DEF MutexPaired
<1>5. \A u \in Threads : CallWellFormed(u)'
  BY <1>1 DEF TypeOK, CallWellFormed
<1> QED
  BY <1>2, <1>3, <1>4, <1>5

-----------------------------------------------------------------------------
(***************************************************************************)
(* The module and the open files                                           *)
(***************************************************************************)

\* Steps that change no pc and no call, and keep the ring.
LEMMA ModuleStep ==
  ASSUME IInv,
         \/ aesd_init_module
         \/ aesd_cleanup_module
         \/ \E f \in Files : aesd_open(f) \/ aesd_release(f)
  PROVE  IInv'
<1> USE DEF IInv
<1>1. CASE aesd_init_module
  <2> USE <1>1 DEF aesd_init_module, files
  <2>1. opened = {} /\ \A u \in Threads : pc'[u] = pc[u] /\ pc[u] = "idle"
    BY DEF CallWellFormed
  <2>2. TypeOK'
    BY InitType, NoEntryType DEF TypeOK
  <2>3. RingConsistent'
    BY InitConsistent DEF RingConsistent
  <2>4. MutexPaired'
    BY <2>1, AesdCharAssumption DEF MutexPaired, Locked
  <2>5. WriteFitsBlock' /\ FoundEntryStaysValid'
    BY <2>1 DEF WriteFitsBlock, FoundEntryStaysValid
  <2>6. \A u \in Threads : CallWellFormed(u)'
    BY <2>1 DEF CallWellFormed
  <2>7. EntryHasItsBytes'
    BY DEF EntryHasItsBytes, NoEntry
  <2> QED
    BY <2>2, <2>3, <2>4, <2>5, <2>6, <2>7
<1>2. CASE aesd_cleanup_module
  BY <1>2
  DEF aesd_cleanup_module, files, history, TypeOK, RingConsistent, MutexPaired,
      WriteFitsBlock, FoundEntryStaysValid, CallWellFormed, EntryHasItsBytes
<1>3. CASE \E f \in Files : aesd_open(f) \/ aesd_release(f)
  <2>1. PICK f \in Files : aesd_open(f) \/ aesd_release(f)
    BY <1>3
  <2>2. /\ UNCHANGED <<device, mtx, pc, call, accepted, evicted, damaged>>
        /\ opened' \in {opened \union {f}, opened \ {f}}
        /\ opened' = opened \ {f} => \A t \in Threads : call[t].file # f
    BY <2>1 DEF aesd_open, aesd_release, history
  <2>3. TypeOK'
    <3>1. f_pos' \in [Files -> Nat] /\ delivered' \in [Files -> Nat]
      <4>1. CASE aesd_open(f)
        BY <4>1 DEF aesd_open, history, TypeOK
      <4>2. CASE aesd_release(f)
        BY <4>2 DEF aesd_release, TypeOK
      <4> QED
        BY <2>1, <4>1, <4>2
    <3> QED
      BY <2>2, <3>1 DEF TypeOK, device
  <2>4. RingConsistent' /\ MutexPaired' /\ WriteFitsBlock' /\ FoundEntryStaysValid'
    BY <2>2 DEF RingConsistent, MutexPaired, WriteFitsBlock,
                FoundEntryStaysValid, device
  <2>5. \A u \in Threads : CallWellFormed(u)'
    BY <2>2 DEF CallWellFormed
  <2>6. ~loaded' => opened' = {}
    BY <2>1 DEF aesd_open, aesd_release, device
  <2> QED
    BY <2>2, <2>3, <2>4, <2>5, <2>6 DEF device, EntryHasItsBytes
<1> QED
  BY <1>1, <1>2, <1>3

-----------------------------------------------------------------------------
(***************************************************************************)
(* Entering and leaving a handler                                          *)
(***************************************************************************)

\* A system call that enters a handler keeps the invariant: it only fills in
\* the record of its own thread.
LEMMA BeginStep ==
  ASSUME IInv, NEW t \in Threads, NEW f \in Files, NEW args \in Call,
         args.op \in Ops,
         args.op = "write" => args.data # << >> /\ args.count = Len(args.data),
         args.op = "ioctl" => args.offset \in Nat,
         Begin(t, f, args)
  PROVE  IInv'
<1> DEFINE c == [args EXCEPT !.file = f]
<1>1. c \in Call
  BY CallUpdate
<1>2. /\ c.file = f /\ c.data = args.data /\ c.count = args.count
      /\ c.offset = args.offset
  BY DEF Call
<1> HIDE DEF c
<1>3. /\ pc' = [pc EXCEPT ![t] = args.op] /\ call' = [call EXCEPT ![t] = c]
      /\ UNCHANGED <<device, mtx, opened, history>> /\ f_pos' = f_pos
      /\ pc[t] = "idle" /\ f \in opened
  BY DEF Begin, files, c
<1>4. args.op \in Labels \ Locked /\ "idle" \notin Locked
  BY DEF Labels, Locked, Ops
<1>5. f_pos' \in [Files -> Nat]
  BY <1>3 DEF IInv, TypeOK
<1> QED
  BY <1>1, <1>2, <1>3, <1>4, <1>5, OutsideStep

\* The arguments that the four system calls hand to their handlers are
\* well-formed calls.
LEMMA EnterStep ==
  ASSUME IInv, NEW t \in Threads, NEW f \in Files, Enter(t, f)
  PROVE  IInv'
<1>1. f_pos[f] \in Nat
  BY DEF IInv, TypeOK
<1>2. ASSUME NEW count \in Counts, BeginRead(t, f, count)
      PROVE  IInv'
  <2> DEFINE args == [NoCall EXCEPT !.op = "read", !.pos = f_pos[f],
                                    !.count = count]
  <2>1. args \in Call
    <3>1. count \in Nat /\ "read" \in Ops \union {"none"}
      BY AesdCharAssumption DEF Ops
    <3> QED
      BY <1>1, <3>1, NoCallType, CallUpdate
  <2>2. args.op = "read"
    BY DEF NoCall
  <2>3. Begin(t, f, args)
    BY <1>2 DEF BeginRead
  <2> HIDE DEF args
  <2> QED
    BY <2>1, <2>2, <2>3, BeginStep DEF Ops
<1>3. ASSUME NEW data \in Payloads, BeginWrite(t, f, data)
      PROVE  IInv'
  <2> DEFINE args == [NoCall EXCEPT !.op = "write", !.pos = f_pos[f],
                                    !.data = data, !.count = Len(data)]
  <2>1. data \in Seq(Byte) /\ data # << >> /\ Len(data) \in Nat
    <3>1. data \in Seq(Byte \ {UNINIT}) /\ data # << >>
      BY AesdCharAssumption
    <3> QED
      BY <3>1
  <2>2. args \in Call
    BY <1>1, <2>1, NoCallType, CallUpdate DEF Ops
  <2>3. args.op = "write" /\ args.data = data /\ args.count = Len(data)
    BY DEF NoCall
  <2>4. Begin(t, f, args)
    BY <1>3 DEF BeginWrite
  <2> HIDE DEF args
  <2> QED
    BY <2>1, <2>2, <2>3, <2>4, BeginStep DEF Ops
<1>4. ASSUME NEW s \in Seeks, BeginLlseek(t, f, s[1], s[2])
      PROVE  IInv'
  <2> DEFINE args == [NoCall EXCEPT !.op = "llseek", !.offset = s[1],
                                    !.whence = s[2]]
  <2>1. s[1] \in Int /\ s[2] \in {"none"} \union {r[2] : r \in Seeks}
    BY AesdCharAssumption
  <2>2. args \in Call
    BY <2>1, NoCallType, CallUpdate DEF Ops
  <2>3. args.op = "llseek"
    BY DEF NoCall
  <2>4. Begin(t, f, args)
    BY <1>4 DEF BeginLlseek
  <2> HIDE DEF args
  <2> QED
    BY <2>2, <2>3, <2>4, BeginStep DEF Ops
<1>5. ASSUME NEW s \in Seektos, BeginIoctl(t, f, s[1], s[2])
      PROVE  IInv'
  <2> DEFINE args == [NoCall EXCEPT !.op = "ioctl", !.cmd = s[1],
                                    !.offset = s[2]]
  <2>1. s[1] \in Nat /\ s[2] \in Nat
    BY AesdCharAssumption
  <2>2. args \in Call
    <3>1. s[2] \in Int /\ "ioctl" \in Ops \union {"none"}
      BY <2>1 DEF Ops
    <3> QED
      BY <2>1, <3>1, NoCallType, CallUpdate
  <2>3. args.op = "ioctl" /\ args.offset = s[2]
    BY DEF NoCall
  <2>4. Begin(t, f, args)
    BY <1>5 DEF BeginIoctl
  <2> HIDE DEF args
  <2> QED
    BY <2>1, <2>2, <2>3, <2>4, BeginStep DEF Ops
<1> QED
  BY <1>2, <1>3, <1>4, <1>5 DEF Enter

\* Return stores a position that is a natural number and forgets the call.
LEMMA LeaveStep ==
  ASSUME IInv, NEW t \in Threads, Return(t)
  PROVE  IInv'
<1>1. f_pos' \in [Files -> Nat]
  <2>1. f_pos \in [Files -> Nat] /\ call[t].pos \in Nat
    BY DEF IInv, TypeOK, Call
  <2> QED
    BY <2>1 DEF Return
<1>2. "idle" \in Labels \ Locked /\ pc[t] \notin Locked
  BY DEF Return, Labels, Locked
<1> QED
  BY <1>1, <1>2, NoCallType, OutsideStep DEF Return

-----------------------------------------------------------------------------
(***************************************************************************)
(* aesd_read                                                               *)
(***************************************************************************)

\* aesd_read up to copy_to_user: the entry found is the one the copy will
\* use, and the minimum keeps the copy inside it.
LEMMA ReadFindStep ==
  ASSUME IInv, NEW t \in Threads, aesd_read_find(t)
  PROVE  IInv'
<1> USE DEF IInv
<1> DEFINE b == circular_buffer
           hit == aesd_circular_buffer_find_entry_offset_for_fpos(b, call[t].pos)
           left == b.entry[hit.slot].size - hit.offset
           c == [call[t] EXCEPT !.slot = hit.slot, !.offset = hit.offset,
                                !.retval = Min({call[t].count, left})]
<1>1. b \in Buffer /\ call[t] \in Call /\ call[t].pos \in Nat
      /\ call[t].count \in Nat /\ pc[t] = "read" /\ mtx = NoThread
      /\ call[t].file \in opened
  BY DEF TypeOK, Call, aesd_read_find, CallWellFormed
<1>2. hit.slot \in Slots /\ hit.offset \in Nat
      /\ (hit.found => hit.offset < b.entry[hit.slot].size)
  BY <1>1, FindEntryCorrect
<1>3. b.entry[hit.slot].size \in Nat
      /\ b.entry[hit.slot].size <= Len(b.entry[hit.slot].buffptr)
  BY <1>1, <1>2 DEF Buffer, Entry, RingConsistent, Consistent
<1>4. UNCHANGED <<device, files, history>>
  BY DEF aesd_read_find
<1>5. TypeOK /\ RingConsistent'
  BY <1>4 DEF device, RingConsistent
<1>6. CASE ~hit.found /\ UnlockAndReturn(t, call[t].pos, << >>, 0)
  <2>1. << >> \in Seq(Byte) /\ pc[t] # "idle" /\ opened' = opened
    BY <1>1, <1>4 DEF files
  <2>2. /\ mtx' \in Threads \union {NoThread}
        /\ pc' \in [Threads -> Labels]
        /\ call' \in [Threads -> Call]
        /\ MutexPaired' /\ WriteFitsBlock' /\ FoundEntryStaysValid'
        /\ \A u \in Threads : CallWellFormed(u)'
    <3> HIDE DEF hit
    <3>1. UnlockAndReturn(t, call[t].pos, << >>, 0) /\ 0 \in Int
      BY <1>6
    <3> QED
      BY <1>1, <2>1, <3>1, ReturnStep
  <2>3. TypeOK'
    BY <1>4, <2>2 DEF TypeOK, device, files, history
  <2> QED
    BY <1>4, <1>5, <2>2, <2>3 DEF device, files, EntryHasItsBytes
<1>7. CASE hit.found /\ Hold(t, "read_copy", c)
  <2>1. Min({call[t].count, left}) \in Nat /\ Min({call[t].count, left}) <= left
    <3>1. left \in Nat
      BY <1>2, <1>3, <1>7
    <3> HIDE DEF left
    <3>2. Min({call[t].count, left}) =
            IF call[t].count <= left THEN call[t].count ELSE left
      BY <1>1, <3>1, MinOfTwo
    <3> QED
      BY <1>1, <3>1, <3>2
  <2>2. c \in Call
    <3> DEFINE m == Min({call[t].count, left})
               c1 == [call[t] EXCEPT !.slot = hit.slot]
               c2 == [c1 EXCEPT !.offset = hit.offset]
    <3>1. m \in Int /\ hit.offset \in Int
      BY <1>2, <2>1
    <3>2. c = [c2 EXCEPT !.retval = m]
      OBVIOUS
    <3> HIDE DEF hit, m
    <3>3. c1 \in Call
      BY <1>1, <1>2, CallUpdate
    <3> HIDE DEF c1
    <3>4. c2 \in Call
      BY <3>1, <3>3, CallUpdate
    <3> HIDE DEF c2
    <3> QED
      BY <3>1, <3>2, <3>4, CallUpdate
  <2>3. /\ c.slot = hit.slot /\ c.offset = hit.offset
        /\ c.retval = Min({call[t].count, left})
        /\ c.pos = call[t].pos /\ c.file = call[t].file
    BY <1>1 DEF Call
  <2> HIDE DEF c
  <2>4. "read_copy" \in Locked /\ opened' = opened
    BY <1>4 DEF Locked, files
  <2>5. /\ mtx' \in Threads \union {NoThread}
        /\ pc' \in [Threads -> Labels]
        /\ call' \in [Threads -> Call]
        /\ MutexPaired'
        /\ \A u \in Threads : CallWellFormed(u)'
        /\ \A u \in Threads : pc'[u] \in Locked => u = t
        /\ pc'[t] = "read_copy" /\ call'[t] = c
    <3>1. c.offset \in Nat /\ c.retval \in Nat /\ c.file \in opened
      BY <1>1, <1>2, <2>1, <2>3
    <3> QED
      BY <1>1, <1>7, <2>2, <2>4, <3>1, HoldStep
  <2>6. TypeOK'
    BY <1>4, <2>5 DEF TypeOK, device, files, history
  <2>7. WriteFitsBlock'
    BY <2>5 DEF WriteFitsBlock, Locked
  <2>8. FoundEntryStaysValid'
    <3>1. circular_buffer' = b
      BY <1>4 DEF device
    <3>2. c.offset + c.retval <= b.entry[c.slot].size
      BY <1>2, <1>3, <2>1, <2>3
    <3> HIDE DEF b, hit, left
    <3>3. SUFFICES ASSUME NEW u \in Threads, pc'[u] = "read_copy"
                   PROVE  /\ hit.found /\ hit.slot = c.slot /\ hit.offset = c.offset
                          /\ c.offset + c.retval <= b.entry[c.slot].size
                          /\ b.entry[c.slot].size <= Len(b.entry[c.slot].buffptr)
      BY <2>3, <2>5, <3>1 DEF FoundEntryStaysValid, Locked, hit
    <3> QED
      BY <1>3, <1>7, <2>3, <3>2
  <2> QED
    BY <1>4, <1>5, <2>5, <2>6, <2>7, <2>8 DEF device, files, EntryHasItsBytes
<1> QED
  BY <1>6, <1>7 DEF aesd_read_find

\* copy_to_user and the rest of aesd_read keep the invariant.
LEMMA ReadCopyStep ==
  ASSUME IInv, NEW t \in Threads, aesd_read_copy(t)
  PROVE  IInv'
<1> USE DEF IInv
<1> DEFINE c == call[t]
           e == circular_buffer.entry[c.slot]
<1>1. /\ pc[t] = "read_copy" /\ mtx = t
      /\ c \in Call /\ c.pos \in Nat /\ c.offset \in Nat /\ c.retval \in Nat
      /\ c.file \in Files /\ c.slot \in Slots
  <2>1. pc[t] = "read_copy"
    BY DEF aesd_read_copy
  <2> QED
    BY <2>1 DEF TypeOK, Call, CallWellFormed, MutexPaired, Locked
<1>2. e \in Entry /\ c.offset + c.retval <= Len(e.buffptr)
  <2>1. e \in Entry
    BY <1>1 DEF TypeOK, Buffer
  <2>2. c.offset + c.retval <= e.size /\ e.size <= Len(e.buffptr)
    BY <1>1 DEF FoundEntryStaysValid
  <2>3. e.size \in Nat /\ Len(e.buffptr) \in Nat
    BY <2>1 DEF Entry
  <2> HIDE DEF c, e
  <2> QED
    BY <1>1, <2>1, <2>2, <2>3
<1>3. CopiedToUser(c) \in Seq(Byte)
  <2>1. e.buffptr \in Seq(Byte)
    BY <1>2 DEF Entry
  <2> DEFINE block == e.buffptr
             first == c.offset + 1
             last  == c.offset + c.retval
  <2>2. first \in 1 .. Len(block) + 1 /\ last \in 0 .. Len(block)
    <3> HIDE DEF c, e
    <3>1. Len(block) \in Nat
      BY <2>1
    <3> QED
      BY <1>1, <1>2, <3>1
  <2> HIDE DEF block, first, last
  <2>3. SubSeq(block, first, last) \in Seq(Byte)
    BY <2>1, <2>2 DEF block
  <2> QED
    BY <2>3 DEF CopiedToUser, block, first, last
<1>4. /\ UNCHANGED <<device, files, accepted, evicted, damaged>>
      /\ delivered' \in [Files -> Nat]
      /\ \/ UnlockAndReturn(t, 0, << >>, EFAULT)
         \/ UnlockAndReturn(t, Advanced(c), CopiedToUser(c), c.retval)
  <2>1. evicted \in Nat /\ delivered \in [Files -> Nat]
    BY DEF TypeOK
  <2>2. evicted + c.pos + c.retval \in Nat
    BY <1>1, <2>1
  <2> QED
    BY <1>1, <2>1, <2>2 DEF aesd_read_copy, UnlockAndFail
<1>5. /\ mtx' \in Threads \union {NoThread}
      /\ pc' \in [Threads -> Labels]
      /\ call' \in [Threads -> Call]
      /\ MutexPaired' /\ WriteFitsBlock' /\ FoundEntryStaysValid'
      /\ \A u \in Threads : CallWellFormed(u)'
  <2>1. /\ << >> \in Seq(Byte) /\ EFAULT \in Int /\ Advanced(c) \in Nat
        /\ pc[t] # "idle" /\ opened' = opened /\ c.retval \in Int
    BY <1>1, <1>4 DEF EFAULT, Advanced, files
  <2> HIDE DEF c
  <2> QED
    BY <1>1, <1>3, <1>4, <2>1, ReturnStep
<1>6. TypeOK'
  BY <1>4, <1>5 DEF TypeOK, device, files
<1> QED
  BY <1>4, <1>5, <1>6 DEF device, files, RingConsistent, EntryHasItsBytes

-----------------------------------------------------------------------------
(***************************************************************************)
(* aesd_write                                                              *)
(***************************************************************************)

\* A block filled with one byte value.
LEMMA FilledType ==
  ASSUME NEW n \in Nat, NEW x \in Byte
  PROVE  /\ Filled(n, x) \in Seq(Byte)
         /\ Len(Filled(n, x)) = n
         /\ \A i \in 1 .. n : Filled(n, x)[i] = x
  BY DEF Filled

\* The first n bytes of a block.
LEMMA PrefixType ==
  ASSUME NEW block \in Seq(Byte), NEW n \in 0 .. Len(block)
  PROVE  /\ SubSeq(block, 1, n) \in Seq(Byte)
         /\ Len(SubSeq(block, 1, n)) = n
  OBVIOUS

\* The bytes of two pieces put behind one another.
LEMMA ConcatBytes ==
  \A x, y \in Seq(Byte) :
    /\ x \o y \in Seq(Byte) /\ Len(x \o y) = Len(x) + Len(y)
    /\ \A i \in 1 .. Len(x) + Len(y) :
         (x \o y)[i] = IF i <= Len(x) THEN x[i] ELSE y[i - Len(x)]
  BY ConcatProperties

\* A block and a size make a struct aesd_buffer_entry.
LEMMA EntryIntro ==
  \A block \in Seq(Byte), n \in Nat : [buffptr |-> block, size |-> n] \in Entry
  BY DEF Entry

\* kzalloc and krealloc make room for count bytes behind the command.
LEMMA AllocatedType ==
  ASSUME entry \in Entry, NEW count \in Nat,
         entry.buffptr # NULL => entry.size <= Len(entry.buffptr)
  PROVE  /\ Allocated(count) \in Seq(Byte)
         /\ Len(Allocated(count)) = entry.size + count
<1>1. NUL \in Byte /\ UNINIT \in Byte
  BY AesdCharAssumption
<1>2. entry.size \in Nat /\ entry.buffptr \in Seq(Byte) /\ Len(entry.buffptr) \in Nat
  BY DEF Entry
<1>3. CASE entry.size = 0
  <2>1. Allocated(count) = Filled(count, NUL) /\ entry.size + count = count
    BY <1>3 DEF Allocated
  <2> QED
    BY <1>1, <2>1, FilledType
<1>4. CASE entry.size # 0 /\ entry.buffptr = NULL
  <2>1. entry.size + count \in Nat
    BY <1>2
  <2> QED
    BY <1>1, <1>4, <2>1, FilledType DEF Allocated
<1>5. CASE entry.size # 0 /\ entry.buffptr # NULL
  <2> DEFINE old == SubSeq(entry.buffptr, 1, entry.size)
             new == Filled(count, UNINIT)
  <2>1. old \in Seq(Byte) /\ Len(old) = entry.size
    BY <1>2, <1>5, PrefixType
  <2>2. new \in Seq(Byte) /\ Len(new) = count
    BY <1>1, FilledType
  <2>3. Allocated(count) = old \o new
    BY <1>5 DEF Allocated
  <2> HIDE DEF old, new
  <2>4. old \o new \in Seq(Byte) /\ Len(old \o new) = Len(old) + Len(new)
    BY <2>1, <2>2, ConcatProperties
  <2> QED
    BY <2>1, <2>2, <2>3, <2>4
<1> QED
  BY <1>3, <1>4, <1>5

\* copy_from_user fills count bytes, whatever part of them it could read.
LEMMA CopiedFromUserType ==
  ASSUME NEW data \in Seq(Byte), NEW k \in 0 .. Len(data)
  PROVE  /\ CopiedFromUser(data, k) \in Seq(Byte)
         /\ Len(CopiedFromUser(data, k)) = Len(data)
         /\ k = 0 /\ data # << >> => CopiedFromUser(data, k)[1] = NUL
<1> DEFINE got == SubSeq(data, 1, k)
           rest == Filled(Len(data) - k, NUL)
<1>1. got \in Seq(Byte) /\ Len(got) = k
  BY PrefixType
<1>2. Len(data) - k \in Nat /\ NUL \in Byte /\ Len(data) \in Nat
  BY AesdCharAssumption
<1>3. rest \in Seq(Byte) /\ Len(rest) = Len(data) - k
      /\ \A i \in 1 .. Len(data) - k : rest[i] = NUL
  BY <1>2, FilledType
<1>4. CopiedFromUser(data, k) = got \o rest
  BY DEF CopiedFromUser
<1> HIDE DEF got, rest
<1>5. /\ got \o rest \in Seq(Byte) /\ Len(got \o rest) = Len(got) + Len(rest)
      /\ \A i \in 1 .. Len(got) + Len(rest) :
           (got \o rest)[i] = IF i <= Len(got) THEN got[i] ELSE rest[i - Len(got)]
  BY <1>1, <1>3, ConcatProperties
<1>6. ASSUME k = 0, data # << >> PROVE (got \o rest)[1] = NUL
  <2>1. Len(data) >= 1
    BY <1>6
  <2>2. 1 \in 1 .. Len(got) + Len(rest) /\ ~(1 <= Len(got)) /\ 1 - Len(got) = 1
    BY <1>1, <1>2, <1>3, <1>6, <2>1
  <2>3. rest[1] = NUL
    BY <1>2, <1>3, <1>6, <2>1
  <2> QED
    BY <1>5, <2>2, <2>3
<1> QED
  BY <1>1, <1>2, <1>3, <1>4, <1>5, <1>6

\* strchr does not get past a NUL in the first byte.
LEMMA StrchrAtNul ==
  ASSUME NEW block \in Seq(Byte), block # << >>, block[1] = NUL
  PROVE  NEWLINE \notin StrchrStops(block)
<1>1. NUL # NEWLINE /\ NUL # UNINIT
  BY AesdCharAssumption
<1>2. Len(block) \in Nat /\ Len(block) # 0
  OBVIOUS
<1>3. ASSUME NEW i \in 1 .. Len(block) + 1,
             \A j \in 1 .. i - 1 : block[j] \notin {NEWLINE, NUL},
             i = Len(block) + 1 \/ block[i] \in {NEWLINE, UNINIT}
      PROVE  FALSE
  <2>1. CASE i = 1
    BY <1>1, <1>2, <1>3, <2>1
  <2>2. CASE i # 1
    <3>1. 1 \in 1 .. i - 1
      BY <1>2, <2>2
    <3> QED
      BY <1>3, <3>1
  <2> QED
    BY <2>1, <2>2
<1> QED
  BY <1>3 DEF StrchrStops

\* aesd_write up to copy_from_user: the block has room for exactly count
\* bytes behind the command, or the call has failed and let go of the mutex.
LEMMA WriteAllocStep ==
  ASSUME IInv, NEW t \in Threads, aesd_write_alloc(t)
  PROVE  IInv'
<1> USE DEF IInv
<1>1. /\ pc[t] = "write" /\ mtx = NoThread
      /\ UNCHANGED <<loaded, circular_buffer, files, accepted, evicted, delivered>>
  BY DEF aesd_write_alloc
<1>2. /\ entry \in Entry /\ call[t] \in Call /\ call[t].file \in opened
      /\ call[t].count \in Nat /\ call[t].data # << >>
      /\ call[t].count = Len(call[t].data)
  BY <1>1 DEF TypeOK, Call, CallWellFormed
<1>3. RingConsistent' /\ opened' = opened /\ (~loaded' => opened' = {})
  BY <1>1 DEF RingConsistent, files
<1>4. CASE /\ entry' = [entry EXCEPT !.buffptr = Allocated(call[t].count)]
           /\ Hold(t, "write_copy", call[t])
           /\ UNCHANGED damaged
  <2>1. /\ Allocated(call[t].count) \in Seq(Byte)
        /\ Len(Allocated(call[t].count)) = entry.size + call[t].count
    BY <1>2, AllocatedType DEF EntryHasItsBytes
  <2>2. /\ entry' \in Entry /\ entry'.size = entry.size
        /\ entry'.buffptr = Allocated(call[t].count)
    BY <1>2, <1>4, <2>1 DEF Entry
  <2>3. "write_copy" \in Locked
    BY DEF Locked
  <2>4. /\ mtx' \in Threads \union {NoThread}
        /\ pc' \in [Threads -> Labels]
        /\ call' \in [Threads -> Call]
        /\ MutexPaired'
        /\ \A u \in Threads : CallWellFormed(u)'
        /\ \A u \in Threads : pc'[u] \in Locked => u = t
        /\ pc'[t] = "write_copy" /\ call'[t] = call[t]
    BY <1>1, <1>2, <1>3, <1>4, <2>3, HoldStep
  <2>5. TypeOK'
    BY <1>1, <1>4, <2>2, <2>4 DEF TypeOK, files
  <2>6. WriteFitsBlock'
    BY <2>1, <2>2, <2>4 DEF WriteFitsBlock, Locked
  <2>7. FoundEntryStaysValid'
    BY <2>4 DEF FoundEntryStaysValid, Locked
  <2>8. EntryHasItsBytes'
    <3>1. entry.size \in Nat /\ call[t].count \in Nat
      BY <1>2 DEF Entry
    <3> QED
      BY <2>1, <2>2, <3>1 DEF EntryHasItsBytes
  <2> QED
    BY <1>3, <2>4, <2>5, <2>6, <2>7, <2>8
<1>5. CASE /\ entry' = [entry EXCEPT !.buffptr = NULL]
           /\ UnlockAndFail(t, ENOMEM)
           /\ damaged' = (damaged \/ entry.size > 0)
  <2>1. entry' \in Entry /\ damaged' \in BOOLEAN
    BY <1>2, <1>5, NoEntryType DEF Entry, NULL, TypeOK
  <2>2. << >> \in Seq(Byte) /\ ENOMEM \in Int /\ 0 \in Nat /\ pc[t] # "idle"
        /\ UnlockAndReturn(t, 0, << >>, ENOMEM)
    BY <1>1, <1>5, NoEntryType DEF ENOMEM, UnlockAndFail
  <2>3. /\ mtx' \in Threads \union {NoThread}
        /\ pc' \in [Threads -> Labels]
        /\ call' \in [Threads -> Call]
        /\ MutexPaired' /\ WriteFitsBlock' /\ FoundEntryStaysValid'
        /\ \A u \in Threads : CallWellFormed(u)'
    BY <1>1, <1>3, <2>2, ReturnStep
  <2>4. TypeOK'
    BY <1>1, <2>1, <2>3 DEF TypeOK, files
  <2>5. EntryHasItsBytes'
    BY <1>2, <1>5 DEF EntryHasItsBytes, Entry
  <2> QED
    BY <1>3, <2>3, <2>4, <2>5
<1> QED
  BY <1>4, <1>5 DEF aesd_write_alloc

\* What copy_from_user leaves behind: a block that holds the command, and a
\* command that is not empty if strchr finds a newline in it.
LEMMA WrittenEntry ==
  ASSUME entry \in Entry, entry.size <= Len(entry.buffptr),
         NEW data \in Seq(Byte), data # << >>, NEW k \in 0 .. Len(data),
         NEW w, w = [buffptr |-> SubSeq(entry.buffptr, 1, entry.size)
                                   \o CopiedFromUser(data, k),
                     size    |-> entry.size + k]
  PROVE  /\ w \in Entry
         /\ w.size <= Len(w.buffptr)
         /\ NEWLINE \in StrchrStops(w.buffptr) => w.size > 0
<1> DEFINE old == SubSeq(entry.buffptr, 1, entry.size)
           new == CopiedFromUser(data, k)
<1>1. entry.size \in 0 .. Len(entry.buffptr) /\ entry.buffptr \in Seq(Byte)
      /\ entry.size \in Nat /\ Len(data) \in Nat /\ k \in Nat
  BY DEF Entry
<1>2. old \in Seq(Byte) /\ Len(old) = entry.size
  BY <1>1, PrefixType
<1>3. new \in Seq(Byte) /\ Len(new) = Len(data)
      /\ (k = 0 => new[1] = NUL)
  BY CopiedFromUserType
<1>4. w.buffptr = old \o new /\ w.size = entry.size + k
      /\ w = [buffptr |-> old \o new, size |-> entry.size + k]
  OBVIOUS
<1> HIDE DEF old, new
<1>5. /\ old \o new \in Seq(Byte) /\ Len(old \o new) = Len(old) + Len(new)
      /\ \A i \in 1 .. Len(old) + Len(new) :
           (old \o new)[i] = IF i <= Len(old) THEN old[i] ELSE new[i - Len(old)]
  BY <1>2, <1>3, ConcatBytes, Zenon
<1>6. w \in Entry
  <2>1. entry.size + k \in Nat
    BY <1>1
  <2>2. [buffptr |-> old \o new, size |-> entry.size + k] \in Entry
    BY <1>5, <2>1, EntryIntro, Zenon
  <2> QED
    BY <1>4, <2>2, Zenon
<1>7. w.size <= Len(w.buffptr)
  BY <1>1, <1>2, <1>3, <1>4, <1>5
<1>8. ASSUME NEWLINE \in StrchrStops(w.buffptr), ~(w.size > 0)
      PROVE  FALSE
  <2>1. entry.size = 0 /\ k = 0 /\ Len(data) >= 1
    BY <1>1, <1>4, <1>8
  <2>2. 1 \in 1 .. Len(old) + Len(new) /\ ~(1 <= Len(old)) /\ 1 - Len(old) = 1
    BY <1>1, <1>2, <1>3, <2>1
  <2>3. (old \o new)[1] = NUL /\ old \o new # << >>
    BY <1>1, <1>3, <1>5, <2>1, <2>2
  <2> QED
    BY <1>4, <1>5, <1>8, <2>3, StrchrAtNul
<1> QED
  BY <1>6, <1>7, <1>8

\* copy_from_user, strchr and add_entry keep the invariant: what goes into
\* the ring is not empty and has all its bytes.
LEMMA WriteCopyStep ==
  ASSUME IInv, NEW t \in Threads, aesd_write_copy(t)
  PROVE  IInv'
<1> USE DEF IInv
<1>1. /\ pc[t] = "write_copy" /\ UNCHANGED <<loaded, files, damaged, delivered>>
  BY DEF aesd_write_copy
<1>2. /\ entry \in Entry /\ circular_buffer \in Buffer
      /\ call[t] \in Call /\ call[t].pos \in Nat
      /\ call[t].data \in Seq(Byte) /\ call[t].data # << >>
      /\ call[t].count = Len(call[t].data)
      /\ mtx = t
  BY <1>1 DEF TypeOK, Call, CallWellFormed, MutexPaired, Locked
<1>3. entry.size <= Len(entry.buffptr)
  <2>1. entry.size + call[t].count = Len(entry.buffptr)
    BY <1>1 DEF WriteFitsBlock
  <2>2. entry.size \in Nat /\ call[t].count \in Nat
    BY <1>2 DEF Entry
  <2> QED
    BY <2>1, <2>2
<1> DEFINE W(k) == [buffptr |-> SubSeq(entry.buffptr, 1, entry.size)
                                  \o CopiedFromUser(call[t].data, k),
                    size    |-> entry.size + k]
           dropped == circular_buffer.entry[circular_buffer.in_offs]
<1>4. PICK k \in 0 .. call[t].count :
        /\ \E c \in StrchrStops(W(k).buffptr) :
             \/ /\ c = NEWLINE
                /\ circular_buffer' =
                     aesd_circular_buffer_add_entry(circular_buffer, W(k))
                /\ entry' = NoEntry
                /\ evicted' = evicted + dropped.size
             \/ /\ c = NUL
                /\ entry' = W(k)
                /\ UNCHANGED <<circular_buffer, evicted>>
        /\ accepted' = accepted \o SubSeq(call[t].data, 1, k)
        /\ UnlockAndReturn(t, call[t].pos, << >>, k)
  BY DEF aesd_write_copy
<1> DEFINE w == W(k)
<1>5. k \in 0 .. Len(call[t].data) /\ k \in Nat
  BY <1>2
<1>6. /\ w \in Entry /\ w.size <= Len(w.buffptr)
      /\ (NEWLINE \in StrchrStops(w.buffptr) => w.size > 0)
  BY <1>2, <1>3, <1>5, WrittenEntry
<1> HIDE DEF w
<1>7. /\ circular_buffer' \in Buffer /\ Consistent(circular_buffer')
      /\ entry' \in Entry
      /\ (entry'.buffptr # NULL => entry'.size <= Len(entry'.buffptr))
      /\ evicted' \in Nat
  <2>1. CASE /\ NEWLINE \in StrchrStops(w.buffptr)
             /\ circular_buffer' =
                  aesd_circular_buffer_add_entry(circular_buffer, w)
             /\ entry' = NoEntry
             /\ evicted' = evicted + dropped.size
    <3>1. Consistent(circular_buffer)
      BY DEF RingConsistent
    <3>2. circular_buffer' \in Buffer /\ Consistent(circular_buffer')
      BY <1>2, <1>6, <2>1, <3>1, AddEntryType, AddEntryConsistent
    <3>3. dropped.size \in Nat /\ evicted \in Nat
      BY <1>2 DEF TypeOK, Buffer, Entry
    <3>4. evicted' \in Nat
      BY <2>1, <3>3
    <3>5. entry' \in Entry /\ entry'.buffptr = NULL
      BY <2>1, NoEntryType DEF NoEntry
    <3> QED
      BY <3>2, <3>4, <3>5
  <2>2. CASE entry' = w /\ UNCHANGED <<circular_buffer, evicted>>
    BY <1>2, <1>6, <2>2 DEF RingConsistent, TypeOK
  <2> QED
    BY <1>4, <2>1, <2>2 DEF w
<1>8. accepted' \in Seq(Byte)
  <2>1. accepted \in Seq(Byte) /\ SubSeq(call[t].data, 1, k) \in Seq(Byte)
    BY <1>2, <1>5, PrefixType DEF TypeOK
  <2> QED
    BY <1>4, <2>1, ConcatProperties
<1>9. /\ mtx' \in Threads \union {NoThread}
      /\ pc' \in [Threads -> Labels]
      /\ call' \in [Threads -> Call]
      /\ MutexPaired' /\ WriteFitsBlock' /\ FoundEntryStaysValid'
      /\ \A u \in Threads : CallWellFormed(u)'
  <2>1. /\ << >> \in Seq(Byte) /\ k \in Int /\ pc[t] # "idle"
        /\ opened' = opened /\ UnlockAndReturn(t, call[t].pos, << >>, k)
    BY <1>1, <1>4, <1>5, NoEntryType DEF files
  <2> QED
    BY <1>2, <2>1, ReturnStep
<1>10. TypeOK'
  BY <1>1, <1>7, <1>8, <1>9 DEF TypeOK, files
<1> QED
  BY <1>1, <1>7, <1>9, <1>10 DEF RingConsistent, EntryHasItsBytes, files

-----------------------------------------------------------------------------
(***************************************************************************)
(* aesd_llseek and aesd_ioctl                                              *)
(***************************************************************************)

\* aesd_llseek up to the assignment: a position it accepts is not negative.
LEMMA LlseekStep ==
  ASSUME IInv, NEW t \in Threads, aesd_llseek(t)
  PROVE  IInv'
<1> USE DEF IInv
<1> DEFINE new_pos == SeekTarget(call[t].file, call[t].offset, call[t].whence)
           c == [call[t] EXCEPT !.pos = new_pos]
<1>1. /\ pc[t] = "llseek" /\ mtx = NoThread
      /\ UNCHANGED <<device, files, history>>
  BY DEF aesd_llseek
<1>2. /\ call[t] \in Call /\ call[t].file \in opened /\ call[t].file \in Files
      /\ call[t].offset \in Int /\ circular_buffer \in Buffer
      /\ f_pos \in [Files -> Nat]
  BY <1>1 DEF TypeOK, Call, CallWellFormed
<1>3. TotalSize(circular_buffer) \in Nat
  BY <1>2, TotalSizeType
<1>4. new_pos \in Int
  BY <1>2, <1>3 DEF SeekTarget
<1>5. RingConsistent' /\ opened' = opened /\ (~loaded' => opened' = {})
      /\ EntryHasItsBytes'
  BY <1>1 DEF RingConsistent, files, device, EntryHasItsBytes
<1>6. CASE 0 <= new_pos /\ Hold(t, "llseek_set", c)
  <2>1. new_pos \in Nat
    BY <1>4, <1>6
  <2> HIDE DEF new_pos
  <2>2. c \in Call /\ c.file \in opened
    <3>1. c.file = call[t].file
      BY <1>2 DEF Call
    <3> QED
      BY <1>2, <2>1, <3>1, CallUpdate
  <2> HIDE DEF c
  <2>3. /\ "llseek_set" \in Locked /\ Hold(t, "llseek_set", c)
        /\ "llseek_set" # "write_copy" /\ "llseek_set" # "read_copy"
    BY <1>6 DEF Locked
  <2>4. /\ mtx' \in Threads \union {NoThread}
        /\ pc' \in [Threads -> Labels]
        /\ call' \in [Threads -> Call]
        /\ MutexPaired'
        /\ \A u \in Threads : CallWellFormed(u)'
        /\ \A u \in Threads : pc'[u] \in Locked => u = t
        /\ pc'[t] = "llseek_set" /\ call'[t] = c
    BY <1>1, <1>5, <2>2, <2>3, HoldStep
  <2>5. TypeOK'
    BY <1>1, <2>4 DEF TypeOK, device, files, history
  <2>6. WriteFitsBlock' /\ FoundEntryStaysValid'
    BY <2>4 DEF WriteFitsBlock, FoundEntryStaysValid, Locked
  <2> QED
    BY <1>5, <2>4, <2>5, <2>6
<1>7. CASE UnlockAndFail(t, EINVAL)
  <2>1. /\ << >> \in Seq(Byte) /\ EINVAL \in Int /\ 0 \in Nat /\ pc[t] # "idle"
        /\ UnlockAndReturn(t, 0, << >>, EINVAL)
    BY <1>1, <1>7, NoEntryType DEF EINVAL, UnlockAndFail
  <2>2. /\ mtx' \in Threads \union {NoThread}
        /\ pc' \in [Threads -> Labels]
        /\ call' \in [Threads -> Call]
        /\ MutexPaired' /\ WriteFitsBlock' /\ FoundEntryStaysValid'
        /\ \A u \in Threads : CallWellFormed(u)'
    BY <1>1, <1>5, <2>1, ReturnStep
  <2>3. TypeOK'
    BY <1>1, <2>2 DEF TypeOK, device, files, history
  <2> QED
    BY <1>5, <2>2, <2>3
<1> QED
  BY <1>6, <1>7 DEF aesd_llseek

\* The steps that assign f_pos and return.
LEMMA PositionStep ==
  ASSUME IInv, NEW t \in Threads, aesd_llseek_set(t) \/ aesd_ioctl(t)
  PROVE  IInv'
<1> USE DEF IInv
<1>1. /\ pc[t] \in {"llseek_set", "ioctl"} /\ mtx \in {t, NoThread}
      /\ UNCHANGED <<device, opened, accepted, evicted, damaged>>
  BY DEF aesd_llseek_set, aesd_ioctl, MutexPaired, Locked
<1>2. /\ call[t] \in Call /\ call[t].file \in Files /\ call[t].pos \in Nat
      /\ call[t].cmd \in Nat /\ circular_buffer \in Buffer
      /\ f_pos \in [Files -> Nat] /\ delivered \in [Files -> Nat]
  BY <1>1 DEF TypeOK, Call, CallWellFormed
<1>3. /\ f_pos' \in [Files -> Nat] /\ delivered' \in [Files -> Nat]
      /\ \E retval \in Int : UnlockAndReturn(t, 0, << >>, retval)
  <2>1. CASE aesd_llseek_set(t)
    BY <1>2, <2>1 DEF aesd_llseek_set
  <2>2. CASE aesd_ioctl(t) /\ ~SeektoValid(circular_buffer, call[t].cmd, call[t].offset)
    <3>1. EINVAL \in Int
      BY DEF EINVAL
    <3> QED
      BY <1>2, <2>2, <3>1 DEF aesd_ioctl, UnlockAndFail
  <2>3. CASE aesd_ioctl(t) /\ SeektoValid(circular_buffer, call[t].cmd, call[t].offset)
    <3>1. call[t].offset \in Nat
      BY <2>3 DEF CallWellFormed, aesd_ioctl
    <3>2. CommandStart(circular_buffer, call[t].cmd) \in Nat
      BY <1>2, <2>3, CommandStartType DEF SeektoValid
    <3>3. CommandStart(circular_buffer, call[t].cmd) + call[t].offset \in Nat
      BY <3>1, <3>2
    <3> QED
      BY <1>2, <2>3, <3>3, SMTT(30) DEF aesd_ioctl
  <2> QED
    BY <2>1, <2>2, <2>3
<1>4. /\ mtx' \in Threads \union {NoThread}
      /\ pc' \in [Threads -> Labels]
      /\ call' \in [Threads -> Call]
      /\ MutexPaired' /\ WriteFitsBlock' /\ FoundEntryStaysValid'
      /\ \A u \in Threads : CallWellFormed(u)'
  <2>1. PICK retval \in Int : UnlockAndReturn(t, 0, << >>, retval)
    BY <1>3
  <2>2. << >> \in Seq(Byte) /\ 0 \in Nat /\ pc[t] # "idle" /\ opened' = opened
    BY <1>1, NoEntryType
  <2> QED
    BY <1>1, <2>1, <2>2, ReturnStep
<1>5. TypeOK'
  BY <1>1, <1>3, <1>4 DEF TypeOK, device
<1> QED
  BY <1>1, <1>4, <1>5 DEF RingConsistent, EntryHasItsBytes, device

-----------------------------------------------------------------------------
(***************************************************************************)
(* The theorems                                                            *)
(***************************************************************************)

\* Every step of the driver keeps the invariant.
LEMMA NextIInv == IInv /\ [Next]_vars => IInv'
<1> SUFFICES ASSUME IInv, [Next]_vars PROVE IInv'
  OBVIOUS
<1>1. CASE \/ aesd_init_module
           \/ aesd_cleanup_module
           \/ \E f \in Files : aesd_open(f) \/ aesd_release(f)
  BY <1>1, ModuleStep
<1>2. CASE \E t \in Threads : Lock(t)
  BY <1>2, ReadFindStep, WriteAllocStep, LlseekStep, PositionStep DEF Lock
<1>3. CASE \E t \in Threads : Finish(t)
  BY <1>3, ReadCopyStep, WriteCopyStep, PositionStep, LeaveStep DEF Finish
<1>4. CASE \E t \in Threads : \E f \in Files : Enter(t, f)
  BY <1>4, EnterStep
<1>5. CASE UNCHANGED vars
  BY <1>5
  DEF vars, device, files, history, IInv, TypeOK, RingConsistent, MutexPaired,
      WriteFitsBlock, FoundEntryStaysValid, EntryHasItsBytes, CallWellFormed
<1> QED
  BY <1>1, <1>2, <1>3, <1>4, <1>5 DEF Next

\* The invariant holds in every reachable state.
THEOREM Invariance == Spec => []IInv
  BY InitIInv, NextIInv, PTL DEF Spec

\* Every variable keeps its type: no handler moves an offset of the ring out
\* of the array or a file position below zero.
THEOREM TypeCorrect == Spec => []TypeOK
<1>1. IInv => TypeOK
  BY DEF IInv
<1> QED
  BY <1>1, Invariance, PTL

\* The bookkeeping of the ring never goes wrong, whatever the writers do and
\* whichever allocation or copy fails.
THEOREM RingAlwaysConsistent == Spec => []RingConsistent
<1>1. IInv => RingConsistent
  BY DEF IInv
<1> QED
  BY <1>1, Invariance, PTL

\* Every path of every handler pairs mutex_lock with mutex_unlock.
THEOREM MutexAlwaysPaired == Spec => []MutexPaired
<1>1. IInv => MutexPaired
  BY DEF IInv
<1> QED
  BY <1>1, Invariance, PTL

\* copy_from_user stays inside the block of the unfinished command, also when
\* earlier writes were short or failed to allocate.
THEOREM WriteStaysInBlock == Spec => []WriteFitsBlock
<1>1. IInv => WriteFitsBlock
  BY DEF IInv
<1> QED
  BY <1>1, Invariance, PTL

\* copy_to_user stays inside the entry that find_entry returned, and that
\* entry is still the one at the position when the copy runs.
THEOREM ReadStaysInEntry == Spec => []FoundEntryStaysValid
<1>1. IInv => FoundEntryStaysValid
  BY DEF IInv
<1> QED
  BY <1>1, Invariance, PTL

\* In every reachable state find_entry_offset_for_fpos indexes the bytes that
\* are stored: NULL exactly past the end, otherwise the very byte asked for.
THEOREM LookupsAgree == Spec => []FindEntryAgrees
<1>1. IInv => FindEntryAgrees
  <2> SUFFICES ASSUME IInv PROVE FindEntryAgrees
    OBVIOUS
  <2> DEFINE b == circular_buffer
             content == Content(b)
             hit(pos) == aesd_circular_buffer_find_entry_offset_for_fpos(b, pos)
  <2>1. b \in Buffer /\ Consistent(b)
    BY DEF IInv, TypeOK, RingConsistent
  <2>2. content \in Seq(Byte) /\ Len(content) \in Nat
    BY <2>1, ContentType
  <2>3. ASSUME NEW pos \in 0 .. Len(content) + 1
        PROVE  IF pos >= Len(content) THEN ~hit(pos).found
               ELSE /\ hit(pos).found
                    /\ hit(pos).offset < b.entry[hit(pos).slot].size
                    /\ b.entry[hit(pos).slot].buffptr[hit(pos).offset + 1]
                         = content[pos + 1]
    <3> DEFINE h == hit(pos)
               e == b.entry[h.slot]
    <3>1. pos \in Nat
      BY <2>2
    <3>2. /\ h.found <=> pos < Len(content)
          /\ h.found =>
               /\ h.slot \in Slots /\ h.offset \in Nat /\ h.offset < e.size
               /\ \A i \in 0 .. e.size - h.offset - 1 :
                    content[pos + i + 1] = e.buffptr[h.offset + i + 1]
      BY <2>1, <3>1, FindEntryReadsContent
    <3>3. h.found => e.size \in Nat
      <4>1. h.found => b.entry[h.slot] \in Entry
        BY <2>1, <3>2 DEF Buffer
      <4> QED
        BY <4>1 DEF Entry
    <3> HIDE DEF h, e, content, b
    <3>4. h.found => content[pos + 1] = e.buffptr[h.offset + 1]
      <4> SUFFICES ASSUME h.found
                   PROVE  content[pos + 1] = e.buffptr[h.offset + 1]
        OBVIOUS
      <4>1. /\ 0 \in 0 .. e.size - h.offset - 1
            /\ pos + 0 + 1 = pos + 1 /\ h.offset + 0 + 1 = h.offset + 1
        BY <3>1, <3>2, <3>3
      <4>2. content[pos + 0 + 1] = e.buffptr[h.offset + 0 + 1]
        BY <3>2, <4>1, Zenon
      <4> QED
        BY <4>1, <4>2, Zenon
    <3>5. pos >= Len(content) <=> ~(pos < Len(content))
      BY <2>2, <3>1
    <3> QED
      BY <3>2, <3>4, <3>5, Zenon DEF h, e
  <2> HIDE DEF b, content
  <2> QED
    BY <2>3 DEF FindEntryAgrees, b, content
<1> QED
  BY <1>1, Invariance, PTL

-----------------------------------------------------------------------------
(***************************************************************************)
(* The driver implements BoundedLog                                        *)
(***************************************************************************)

\* The ring that aesd_circular_buffer_init leaves holds no command.
LEMMA EmptyLog == Log(aesd_circular_buffer_init) = << >>
<1>1. Occupied(aesd_circular_buffer_init) = 0
  BY DEF Occupied, aesd_circular_buffer_init
<1> QED
  BY <1>1 DEF Log

\* Only aesd_write_copy and aesd_init_module touch the ring.
LEMMA RingSteps ==
  ASSUME [Next]_vars
  PROVE  \/ circular_buffer' = circular_buffer
         \/ circular_buffer' = aesd_circular_buffer_init
         \/ \E t \in Threads : aesd_write_copy(t)
<1>1. CASE \/ aesd_init_module
           \/ aesd_cleanup_module
           \/ \E f \in Files : aesd_open(f) \/ aesd_release(f)
  BY <1>1
  DEF aesd_init_module, aesd_cleanup_module, aesd_open, aesd_release, device
<1>2. CASE \E t \in Threads : Lock(t)
  BY <1>2 DEF Lock, aesd_read_find, aesd_write_alloc, aesd_llseek, aesd_ioctl, device
<1>3. CASE \E t \in Threads : Finish(t)
  BY <1>3 DEF Finish, aesd_read_copy, aesd_llseek_set, Return, device
<1>4. CASE \E t \in Threads : \E f \in Files : Enter(t, f)
  BY <1>4, ZenonT(30) DEF Enter, BeginRead, BeginWrite, BeginLlseek, BeginIoctl, Begin, device
<1>5. CASE UNCHANGED vars
  BY <1>5 DEF vars, device
<1> QED
  BY <1>1, <1>2, <1>3, <1>4, <1>5 DEF Next

\* A write step keeps the ring or adds an entry to it.
LEMMA WriteAdds ==
  ASSUME IInv, NEW t \in Threads, aesd_write_copy(t)
  PROVE  \/ circular_buffer' = circular_buffer
         \/ \E e \in Entry :
              circular_buffer' = aesd_circular_buffer_add_entry(circular_buffer, e)
<1> USE DEF IInv
<1>1. /\ pc[t] = "write_copy" /\ entry \in Entry
      /\ call[t].data \in Seq(Byte) /\ call[t].data # << >>
      /\ call[t].count = Len(call[t].data)
  BY DEF TypeOK, Call, CallWellFormed, aesd_write_copy
<1>2. entry.size <= Len(entry.buffptr)
  <2>1. entry.size + call[t].count = Len(entry.buffptr)
    BY <1>1 DEF WriteFitsBlock
  <2>2. entry.size \in Nat /\ call[t].count \in Nat
    BY <1>1 DEF Entry
  <2> QED
    BY <2>1, <2>2
<1> DEFINE W(k) == [buffptr |-> SubSeq(entry.buffptr, 1, entry.size)
                                  \o CopiedFromUser(call[t].data, k),
                    size    |-> entry.size + k]
<1>3. PICK k \in 0 .. call[t].count :
        \/ circular_buffer' = aesd_circular_buffer_add_entry(circular_buffer, W(k))
        \/ circular_buffer' = circular_buffer
  BY DEF aesd_write_copy
<1>4. W(k) \in Entry
  BY <1>1, <1>2, WrittenEntry
<1> QED
  BY <1>3, <1>4

\* Every step of the driver is a step of the log or leaves it alone.
LEMMA LogStep ==
  IInv /\ [Next]_vars => [Promise!Next]_(Log(circular_buffer))
<1> SUFFICES ASSUME IInv, [Next]_vars
             PROVE  Promise!Next \/ Log(circular_buffer)' = Log(circular_buffer)
  OBVIOUS
<1>1. CASE circular_buffer' = circular_buffer
  BY <1>1
<1>2. CASE circular_buffer' = aesd_circular_buffer_init
  BY <1>2, EmptyLog DEF Promise!Next, Promise!Clear
<1>3. ASSUME NEW e \in Entry,
             circular_buffer' = aesd_circular_buffer_add_entry(circular_buffer, e)
      PROVE  Promise!Next
  <2> DEFINE log == Log(circular_buffer)
             kept == IF Len(log) < MAX_WRITE_OPERATIONS THEN log ELSE Tail(log)
  <2>1. circular_buffer \in Buffer /\ Consistent(circular_buffer)
    BY DEF IInv, TypeOK, RingConsistent
  <2>2. log \in Seq(Entry) /\ Log(circular_buffer') = Append(kept, e)
    BY <1>3, <2>1, AddEntryCommits
  <2> HIDE DEF log
  <2>3. kept \in Seq(Entry)
    <3>1. CASE Len(log) < MAX_WRITE_OPERATIONS
      BY <2>2, <3>1
    <3>2. CASE ~(Len(log) < MAX_WRITE_OPERATIONS)
      <4>1. log # << >>
        BY <3>2, MaxWriteOperationsAssumption
      <4> QED
        BY <2>2, <3>2, <4>1
    <3> QED
      BY <3>1, <3>2
  <2>4. Promise!Kept = kept
    BY DEF Promise!Kept, log
  <2> HIDE DEF kept
  <2>5. /\ Append(kept, e) # << >>
        /\ Append(kept, e)[Len(Append(kept, e))] = e
    BY <2>3
  <2> QED
    BY <2>2, <2>4, <2>5 DEF Promise!Next, Promise!Commit
<1> QED
  BY <1>1, <1>2, <1>3, RingSteps, WriteAdds

\* The ring, seen through Log, is a first-in first-out log of at most
\* MAX_WRITE_OPERATIONS commands: the detailed driver implements BoundedLog.
THEOREM Refinement == Spec => ImplementsBoundedLog
<1>1. Init => Promise!Init
  BY EmptyLog DEF Init, Promise!Init
<1> QED
  BY <1>1, LogStep, Invariance, PTL DEF Spec, ImplementsBoundedLog, Promise!Spec

-----------------------------------------------------------------------------
(***************************************************************************)
(* No byte is lost                                                         *)
(***************************************************************************)

\* Until a krealloc fails under an unfinished command, what aesd_write took
\* is what was evicted, then what is stored, then the unfinished command.
\* This holds during the copy as well: kzalloc and krealloc keep the bytes.
Stream ==
  ~damaged =>
    /\ entry.size <= Len(entry.buffptr)
    /\ \E gone \in Seq(Byte) :
         /\ Len(gone) = evicted
         /\ accepted = gone \o (Content(circular_buffer) \o Bytes(entry))

\* The steps that touch what Stream is about.
LEMMA StreamSteps ==
  ASSUME [Next]_vars
  PROVE  \/ /\ circular_buffer' = circular_buffer /\ entry' = entry
            /\ accepted' = accepted /\ evicted' = evicted /\ damaged' = damaged
         \/ aesd_init_module
         \/ \E t \in Threads : aesd_write_alloc(t) \/ aesd_write_copy(t)
<1>1. CASE \/ aesd_init_module
           \/ aesd_cleanup_module
           \/ \E f \in Files : aesd_open(f) \/ aesd_release(f)
  BY <1>1 DEF aesd_cleanup_module, aesd_open, aesd_release, device, history
<1>2. CASE \E t \in Threads : Lock(t)
  BY <1>2 DEF Lock, aesd_read_find, aesd_llseek, aesd_ioctl, device, history
<1>3. CASE \E t \in Threads : Finish(t)
  BY <1>3 DEF Finish, aesd_read_copy, aesd_llseek_set, Return, device, history
<1>4. CASE \E t \in Threads : \E f \in Files : Enter(t, f)
  <2>1. PICK t \in Threads, f \in Files : Enter(t, f)
    BY <1>4
  <2>2. \E args : Begin(t, f, args)
    BY <2>1 DEF Enter, BeginRead, BeginWrite, BeginLlseek, BeginIoctl
  <2> QED
    BY <2>2 DEF Begin, device, history
<1>5. CASE UNCHANGED vars
  BY <1>5 DEF vars, device, history
<1> QED
  BY <1>1, <1>2, <1>3, <1>4, <1>5 DEF Next

\* A cleared device has taken no byte: Init and aesd_init_module start the
\* stream.
LEMMA FreshStream ==
  \E gone \in Seq(Byte) :
    /\ Len(gone) = 0
    /\ << >> = gone \o (Content(aesd_circular_buffer_init) \o Bytes(NoEntry))
    /\ NoEntry.size <= Len(NoEntry.buffptr)
<1>1. Bytes(NoEntry) = << >> /\ NoEntry.size <= Len(NoEntry.buffptr)
  BY DEF Bytes, NoEntry, NULL
<1> DEFINE none == << >>
<1>2. none \in Seq(Byte) /\ Len(none) = 0 /\ none \o none = none
  OBVIOUS
<1> HIDE DEF none
<1> QED
  BY <1>1, <1>2, ContentInit DEF none

\* kzalloc and krealloc keep the bytes of the unfinished command.
LEMMA AllocatedKeeps ==
  ASSUME entry \in Entry, NEW count \in Nat, entry.size <= Len(entry.buffptr)
  PROVE  SubSeq(Allocated(count), 1, entry.size) = Bytes(entry)
<1>1. entry.size \in Nat /\ entry.buffptr \in Seq(Byte)
  BY DEF Entry
<1>2. CASE entry.size = 0
  BY <1>2 DEF Bytes
<1>3. CASE entry.size # 0
  <2> DEFINE old == Bytes(entry)
             new == Filled(count, UNINIT)
             n == entry.size
  <2>1. old \in Seq(Byte) /\ Len(old) = n
    BY BytesType
  <2>2. new \in Seq(Byte) /\ Len(new) = count
    BY AesdCharAssumption, FilledType
  <2>3. Allocated(count) = old \o new
    <3>1. entry.buffptr # NULL
      BY <1>1, <1>3 DEF NULL
    <3> QED
      BY <1>3, <3>1 DEF Allocated, Bytes
  <2> HIDE DEF old, new, n
  <2>4. SubSeq(old \o new, 1, Len(old)) = old
    BY <2>1, <2>2, PrefixOfConcat
  <2> QED
    BY <2>1, <2>3, <2>4 DEF old, n
<1> QED
  BY <1>2, <1>3

\* Runs of bytes can be put together in either order of the pairs.
LEMMA BytesAssociative ==
  ASSUME NEW p \in Seq(Byte), NEW q \in Seq(Byte), NEW r \in Seq(Byte)
  PROVE  (p \o q) \o r = p \o (q \o r)
  BY ConcatAssociative, SMTT(30)

\* four runs, grouped in the ways the stream is
Regrouped(p, q, r, s) ==
  /\ (p \o (q \o r)) \o s = p \o (q \o (r \o s))
  /\ p \o ((q \o r) \o s) = (p \o q) \o (r \o s)

\* The same for four runs.
LEMMA BytesRegrouped ==
  ASSUME NEW p \in Seq(Byte), NEW q \in Seq(Byte), NEW r \in Seq(Byte),
         NEW s \in Seq(Byte)
  PROVE  Regrouped(p, q, r, s)
<1> DEFINE x == q \o r
           y == r \o s
<1>1. x \in Seq(Byte) /\ y \in Seq(Byte)
  BY ConcatProperties
<1>2. x \o s = q \o y
  BY BytesAssociative, ZenonT(30)
<1> HIDE DEF x, y
<1>3. \A v \in Seq(Byte) : (p \o v) \o s = p \o (v \o s)
  BY BytesAssociative, ZenonT(30)
<1>4. \A v \in Seq(Byte) : (p \o q) \o v = p \o (q \o v)
  BY BytesAssociative, ZenonT(30)
<1>5. (p \o x) \o s = p \o (x \o s)
  BY <1>1, <1>3, Zenon
<1>6. (p \o q) \o y = p \o (q \o y)
  BY <1>1, <1>4, Zenon
<1> QED
  BY <1>2, <1>5, <1>6, Zenon DEF x, y, Regrouped

\* What a write that copied k bytes adds to the unfinished command.
LEMMA WrittenBytes ==
  ASSUME entry \in Entry, entry.size <= Len(entry.buffptr),
         NEW data \in Seq(Byte), NEW k \in 0 .. Len(data),
         NEW w, w = [buffptr |-> SubSeq(entry.buffptr, 1, entry.size)
                                   \o CopiedFromUser(data, k),
                     size    |-> entry.size + k]
  PROVE  Bytes(w) = Bytes(entry) \o SubSeq(data, 1, k)
<1> DEFINE old == Bytes(entry)
           got == SubSeq(data, 1, k)
           pad == Filled(Len(data) - k, NUL)
           m == entry.size + k
<1>1. entry.size \in Nat /\ k \in Nat /\ Len(data) - k \in Nat
  BY DEF Entry
<1>2. old \in Seq(Byte) /\ Len(old) = entry.size /\ got \in Seq(Byte) /\ Len(got) = k
  BY BytesType, PrefixType
<1>3. pad \in Seq(Byte)
  BY <1>1, AesdCharAssumption, FilledType
<1>4. Bytes(w) = SubSeq(old \o (got \o pad), 1, m)
  BY DEF Bytes, CopiedFromUser
<1> HIDE DEF old, got, pad, m
<1>5. old \o (got \o pad) = (old \o got) \o pad
  BY <1>2, <1>3, BytesAssociative, ZenonT(30)
<1> DEFINE x == old \o got
<1>6. x \in Seq(Byte) /\ Len(x) = m
  <2>1. x \in Seq(Byte) /\ Len(x) = Len(old) + Len(got)
    BY <1>2, ConcatProperties, Zenon
  <2> QED
    BY <1>2, <2>1 DEF m
<1> HIDE DEF x
<1>7. SubSeq(x \o pad, 1, Len(x)) = x
  BY <1>3, <1>6, PrefixOfConcat, Zenon
<1> QED
  BY <1>4, <1>5, <1>6, <1>7, Zenon DEF x, old, got

\* aesd_write keeps the stream, whatever fails and wherever it is cut.
LEMMA StreamNext ==
  ASSUME IInv, Stream, [Next]_vars
  PROVE  Stream'
<1>1. CASE /\ circular_buffer' = circular_buffer /\ entry' = entry
           /\ accepted' = accepted /\ evicted' = evicted /\ damaged' = damaged
  BY <1>1 DEF Stream
<1>2. CASE aesd_init_module
  BY <1>2, FreshStream DEF aesd_init_module, Stream
<1>3. ASSUME NEW t \in Threads, aesd_write_alloc(t)
      PROVE  Stream'
  <2>1. /\ circular_buffer' = circular_buffer
        /\ accepted' = accepted /\ evicted' = evicted
        /\ entry \in Entry /\ call[t].count \in Nat
    BY <1>3 DEF aesd_write_alloc, IInv, TypeOK, Call
  <2>2. entry.size \in Nat /\ entry.buffptr \in Seq(Byte)
    BY <2>1 DEF Entry
  <2> SUFFICES ASSUME ~damaged'
               PROVE  entry'.size <= Len(entry'.buffptr) /\ Bytes(entry') = Bytes(entry)
                      /\ ~damaged
    BY <2>1 DEF Stream
  <2>3. CASE /\ entry' = [entry EXCEPT !.buffptr = Allocated(call[t].count)]
             /\ UNCHANGED damaged
    <3>1. entry.size <= Len(entry.buffptr)
      BY <2>3 DEF Stream
    <3>2. /\ entry'.buffptr = Allocated(call[t].count) /\ entry'.size = entry.size
      BY <2>1, <2>3 DEF Entry
    <3>3. Len(Allocated(call[t].count)) = entry.size + call[t].count
      BY <2>1, <3>1, AllocatedType
    <3>4. SubSeq(Allocated(call[t].count), 1, entry.size) = Bytes(entry)
      BY <2>1, <3>1, AllocatedKeeps
    <3> QED
      BY <2>1, <2>2, <2>3, <3>2, <3>3, <3>4 DEF Bytes
  <2>4. CASE /\ entry' = [entry EXCEPT !.buffptr = NULL]
             /\ damaged' = (damaged \/ entry.size > 0)
    <3>0. ~(damaged \/ entry.size > 0)
      BY <2>4, Zenon
    <3>1. entry.size = 0 /\ ~damaged
      BY <2>2, <3>0
    <3>2. entry'.size = 0 /\ entry'.buffptr = NULL
      BY <2>1, <2>4, <3>1 DEF Entry
    <3> QED
      BY <3>1, <3>2 DEF Bytes, NULL
  <2> QED
    BY <1>3, <2>3, <2>4 DEF aesd_write_alloc
<1>4. ASSUME NEW t \in Threads, aesd_write_copy(t)
      PROVE  Stream'
  <2> DEFINE data == call[t].data
             W(k) == [buffptr |-> SubSeq(entry.buffptr, 1, entry.size)
                                    \o CopiedFromUser(data, k),
                      size    |-> entry.size + k]
             b == circular_buffer
             dropped == b.entry[b.in_offs]
  <2>1. SUFFICES ASSUME ~damaged' PROVE Stream'
    BY DEF Stream
  <2>2. /\ ~damaged /\ pc[t] = "write_copy" /\ entry \in Entry
        /\ data \in Seq(Byte) /\ data # << >> /\ call[t].count = Len(data)
        /\ b \in Buffer /\ Consistent(b) /\ evicted \in Nat
    BY <1>4, <2>1
    DEF aesd_write_copy, IInv, TypeOK, Call, CallWellFormed, RingConsistent
  <2>3. entry.size <= Len(entry.buffptr)
    BY <2>2 DEF Stream
  <2>4. PICK gone \in Seq(Byte) :
          /\ Len(gone) = evicted
          /\ accepted = gone \o (Content(b) \o Bytes(entry))
    BY <2>2 DEF Stream
  <2>5. PICK k \in 0 .. call[t].count :
          /\ \/ /\ NEWLINE \in StrchrStops(W(k).buffptr)
                /\ circular_buffer' = aesd_circular_buffer_add_entry(b, W(k))
                /\ entry' = NoEntry
                /\ evicted' = evicted + dropped.size
             \/ /\ entry' = W(k)
                /\ circular_buffer' = b /\ evicted' = evicted
          /\ accepted' = accepted \o SubSeq(data, 1, k)
    BY <1>4 DEF aesd_write_copy
  <2> DEFINE w == W(k)
             got == SubSeq(data, 1, k)
             old == Bytes(entry)
             c == Content(b)
  <2>6. /\ w \in Entry /\ w.size <= Len(w.buffptr)
        /\ (NEWLINE \in StrchrStops(w.buffptr) => w.size > 0)
    BY <2>2, <2>3, WrittenEntry
  <2>7. Bytes(w) = old \o got
    BY <2>2, <2>3, WrittenBytes
  <2>8. /\ old \in Seq(Byte) /\ got \in Seq(Byte) /\ c \in Seq(Byte)
        /\ Bytes(w) \in Seq(Byte)
    BY <2>2, <2>3, <2>6, BytesType, PrefixType, ContentType
  <2>9. CASE /\ NEWLINE \in StrchrStops(w.buffptr)
             /\ circular_buffer' = aesd_circular_buffer_add_entry(b, w)
             /\ entry' = NoEntry
             /\ evicted' = evicted + dropped.size
    <3> DEFINE d == Bytes(dropped)
               bw == Bytes(w)
    <3> HIDE DEF w
    <3>1. PICK rest \in Seq(Byte) :
            /\ c = d \o rest
            /\ Content(circular_buffer') = rest \o bw
            /\ d \in Seq(Byte) /\ Len(d) = dropped.size
      BY <2>2, <2>6, <2>9, ContentAdd
    <3> HIDE DEF d, c, old, got, bw
    <3>2. bw \in Seq(Byte) /\ bw = old \o got
      BY <2>7, <2>8 DEF bw
    <3>3. accepted' = (gone \o d) \o (rest \o bw)
      <4>1. Regrouped(gone, c, old, got)
        BY <2>8, BytesRegrouped
      <4>2. accepted' = gone \o (c \o bw)
        BY <2>4, <2>5, <3>2, <4>1, Zenon DEF Regrouped, c, old, got
      <4>3. Regrouped(gone, d, rest, bw)
        BY <3>1, <3>2, BytesRegrouped
      <4> QED
        BY <3>1, <4>2, <4>3, Zenon DEF Regrouped
    <3>4. gone \o d \in Seq(Byte) /\ Len(gone \o d) = evicted'
      <4>1. gone \o d \in Seq(Byte) /\ Len(gone \o d) = Len(gone) + Len(d)
        BY <3>1, ConcatProperties, Zenon
      <4> QED
        BY <2>4, <2>9, <3>1, <4>1
    <3>5. Bytes(NoEntry) = << >> /\ NoEntry.size <= Len(NoEntry.buffptr)
      BY DEF Bytes, NoEntry, NULL
    <3>6. Content(circular_buffer') \o Bytes(entry') = rest \o bw
      <4> DEFINE x == rest \o bw
      <4>1. x \in Seq(Byte)
        BY <3>1, <3>2, ConcatProperties, Zenon
      <4> HIDE DEF x
      <4>2. x \o << >> = x
        BY <4>1
      <4> QED
        BY <2>9, <3>1, <3>5, <4>2, Zenon DEF x
    <3>7. entry'.size <= Len(entry'.buffptr)
      BY <2>9, <3>5
    <3>8. accepted' = (gone \o d) \o (Content(circular_buffer') \o Bytes(entry'))
      BY <3>3, <3>6, Zenon
    <3> QED
      BY <3>4, <3>7, <3>8, Zenon DEF Stream
  <2>10. CASE entry' = w /\ circular_buffer' = b /\ evicted' = evicted
    <3> HIDE DEF w, old, got, c
    <3>1. Regrouped(gone, c, old, got)
      BY <2>8, BytesRegrouped
    <3>2. accepted' = gone \o (c \o Bytes(w))
      BY <2>4, <2>5, <2>7, <3>1, Zenon DEF Regrouped, c, old, got
    <3>3. accepted' = gone \o (Content(circular_buffer') \o Bytes(entry'))
          /\ Len(gone) = evicted' /\ entry'.size <= Len(entry'.buffptr)
      BY <2>4, <2>6, <2>10, <3>2, Zenon DEF c
    <3> QED
      BY <3>3, Zenon DEF Stream
  <2> QED
    BY <2>5, <2>9, <2>10
<1> QED
  BY <1>1, <1>2, <1>3, <1>4, StreamSteps

\* Writers do not lose, reorder or duplicate bytes: with short copies, with
\* commands cut into several writes and with evictions, what is stored,
\* followed by the unfinished command, is the tail of what was accepted.
THEOREM NoByteIsLost == Spec => []NoByteLost
<1>1. Init => Stream
  BY FreshStream DEF Init, Stream
<1>2. IInv /\ Stream /\ [Next]_vars => Stream'
  BY StreamNext
<1>3. IInv /\ Stream => NoByteLost
  <2> SUFFICES ASSUME IInv, Stream, ~damaged
               PROVE  /\ SubSeq(accepted, evicted + 1, Len(accepted))
                           = Content(circular_buffer) \o Bytes(entry)
                      /\ evicted <= Len(accepted)
    BY DEF NoByteLost
  <2> DEFINE x == Content(circular_buffer) \o Bytes(entry)
  <2>1. PICK gone \in Seq(Byte) : Len(gone) = evicted /\ accepted = gone \o x
    BY DEF Stream
  <2>2. x \in Seq(Byte)
    <3>1. Content(circular_buffer) \in Seq(Byte)
      BY ContentType DEF IInv, TypeOK, RingConsistent
    <3>2. Bytes(entry) \in Seq(Byte)
      BY BytesType DEF IInv, TypeOK, Stream
    <3> QED
      BY <3>1, <3>2, ConcatProperties, Zenon
  <2> HIDE DEF x
  <2>3. /\ SubSeq(gone \o x, Len(gone) + 1, Len(gone \o x)) = x
        /\ Len(gone) <= Len(gone \o x)
    BY <2>2, SuffixOfConcat
  <2> QED
    BY <2>1, <2>3 DEF x
<1> QED
  BY <1>1, <1>2, <1>3, Invariance, PTL DEF Spec

-----------------------------------------------------------------------------
(***************************************************************************)
(* What a single step returns                                              *)
(***************************************************************************)

\* A step of thread u moves nobody else.
LEMMA OwnMove ==
  ASSUME NEW u \in Threads,
         Lock(u) \/ Finish(u) \/ \E f \in Files : Enter(u, f)
  PROVE  \E label, c : /\ pc' = [pc EXCEPT ![u] = label]
                       /\ call' = [call EXCEPT ![u] = c]
<1> DEFINE Goal == \E label, c : /\ pc' = [pc EXCEPT ![u] = label]
                                 /\ call' = [call EXCEPT ![u] = c]
<1> SUFFICES Goal
  OBVIOUS
<1>1. ASSUME NEW pos, NEW data, NEW retval, UnlockAndReturn(u, pos, data, retval)
      PROVE  Goal
  BY <1>1 DEF UnlockAndReturn
<1>2. ASSUME NEW label, NEW c, Hold(u, label, c)
      PROVE  Goal
  BY <1>2 DEF Hold
<1>3. ASSUME NEW f, NEW args, Begin(u, f, args)
      PROVE  Goal
  BY <1>3 DEF Begin
<1> HIDE DEF Goal
<1>4. CASE Lock(u)
  <2>1. CASE aesd_read_find(u)
    BY <2>1, <1>1, <1>2 DEF aesd_read_find
  <2>2. CASE aesd_write_alloc(u)
    BY <2>2, <1>1, <1>2 DEF aesd_write_alloc, UnlockAndFail
  <2>3. CASE aesd_llseek(u)
    BY <2>3, <1>1, <1>2 DEF aesd_llseek, UnlockAndFail
  <2>4. CASE aesd_ioctl(u)
    BY <2>4, <1>1 DEF aesd_ioctl, UnlockAndFail
  <2> QED
    BY <1>4, <2>1, <2>2, <2>3, <2>4 DEF Lock
<1>5. CASE Finish(u)
  <2>1. CASE aesd_read_copy(u)
    BY <2>1, <1>1 DEF aesd_read_copy, UnlockAndFail
  <2>2. CASE aesd_write_copy(u)
    BY <2>2, <1>1 DEF aesd_write_copy
  <2>3. CASE aesd_llseek_set(u)
    BY <2>3, <1>1 DEF aesd_llseek_set
  <2>4. CASE Return(u)
    BY <2>4 DEF Return, Goal
  <2> QED
    BY <1>5, <2>1, <2>2, <2>3, <2>4 DEF Finish
<1>6. CASE \E f \in Files : Enter(u, f)
  BY <1>6, <1>3 DEF Enter, BeginRead, BeginWrite, BeginLlseek, BeginIoctl
<1> QED
  BY <1>4, <1>5, <1>6

\* Only a step of the thread itself moves it or changes its call.
LEMMA WhoMoves ==
  ASSUME IInv, [Next]_vars, NEW t \in Threads, pc'[t] # pc[t] \/ call'[t] # call[t]
  PROVE  Lock(t) \/ Finish(t) \/ \E f \in Files : Enter(t, f)
<1>1. CASE \/ aesd_init_module
           \/ aesd_cleanup_module
           \/ \E f \in Files : aesd_open(f) \/ aesd_release(f)
           \/ UNCHANGED vars
  BY <1>1 DEF aesd_init_module, aesd_cleanup_module, aesd_open, aesd_release, vars
<1>2. ASSUME NEW u \in Threads,
             Lock(u) \/ Finish(u) \/ \E f \in Files : Enter(u, f)
      PROVE  u = t
  <2>1. PICK label, c : /\ pc' = [pc EXCEPT ![u] = label]
                        /\ call' = [call EXCEPT ![u] = c]
    BY <1>2, OwnMove
  <2>2. pc \in [Threads -> Labels] /\ call \in [Threads -> Call]
    BY SMTT(30) DEF IInv, TypeOK
  <2> QED
    BY <2>1, <2>2
<1> QED
  BY <1>1, <1>2 DEF Next

\* A thread that comes to the end of a handler has taken its last step.
LEMMA LastStep ==
  ASSUME IInv, [Next]_vars, NEW t \in Threads, pc[t] # "ret", pc'[t] = "ret"
  PROVE  /\ pc[t] = "read_copy" => aesd_read_copy(t)
         /\ pc[t] = "llseek_set" => aesd_llseek_set(t)
         /\ pc[t] = "ioctl" => aesd_ioctl(t)
<1>1. Lock(t) \/ Finish(t) \/ \E f \in Files : Enter(t, f)
  BY WhoMoves
<1>2. \A f \in Files : Enter(t, f) => pc[t] = "idle"
  BY DEF Enter, BeginRead, BeginWrite, BeginLlseek, BeginIoctl, Begin
<1> QED
  BY <1>1, <1>2
  DEF Lock, Finish, aesd_read_find, aesd_write_alloc, aesd_llseek, aesd_ioctl,
      aesd_read_copy, aesd_write_copy, aesd_llseek_set, Return

\* What copy_to_user copies is a stretch of the content.
LEMMA CopiedIsSlice ==
  ASSUME IInv, NEW t \in Threads, pc[t] = "read_copy"
  PROVE  LET c == call[t]
         IN  /\ CopiedToUser(c) =
                  SubSeq(Content(circular_buffer), c.pos + 1, c.pos + c.retval)
             /\ Len(CopiedToUser(c)) = c.retval
             /\ c.pos \in Nat /\ c.retval \in Nat
             /\ c.pos + c.retval <= Len(Content(circular_buffer))
<1> DEFINE c == call[t]
           b == circular_buffer
           e == b.entry[c.slot]
           hit == aesd_circular_buffer_find_entry_offset_for_fpos(b, c.pos)
<1>1. /\ b \in Buffer /\ Consistent(b) /\ c \in Call /\ c.pos \in Nat
      /\ c.retval \in Nat /\ c.offset \in Nat /\ call \in [Threads -> Call]
  BY DEF IInv, TypeOK, RingConsistent, CallWellFormed, Call
<1>2. /\ hit.found /\ hit.slot = c.slot /\ hit.offset = c.offset
      /\ c.offset + c.retval <= e.size /\ e.size <= Len(e.buffptr)
  BY DEF IInv, FoundEntryStaysValid
<1>3. /\ c.slot \in Slots /\ c.offset < e.size
      /\ c.pos + (e.size - c.offset) <= Len(Content(b))
      /\ \A i \in 0 .. e.size - c.offset - 1 :
           Content(b)[c.pos + i + 1] = e.buffptr[c.offset + i + 1]
  <2> DEFINE f == b.entry[hit.slot]
  <2>1. /\ hit.slot \in Slots /\ hit.offset < f.size
        /\ c.pos + (f.size - hit.offset) <= Len(Content(b))
        /\ \A i \in 0 .. f.size - hit.offset - 1 :
             Content(b)[c.pos + i + 1] = f.buffptr[hit.offset + i + 1]
    BY <1>1, <1>2, FindEntryReadsContent
  <2>2. f = e
    BY <1>2
  <2> HIDE DEF hit, f, e, c, b
  <2> QED
    BY <1>2, <2>1, <2>2
<1>4. e \in Entry /\ e.size \in Nat /\ e.buffptr \in Seq(Byte)
  <2>1. e \in Entry
    BY <1>1, <1>3 DEF Buffer
  <2> QED
    BY <2>1 DEF Entry
<1> DEFINE C == Content(b)
           block == e.buffptr
           n == c.retval
           p == c.pos
           o == c.offset
           x == SubSeq(C, p + 1, p + n)
           y == SubSeq(block, o + 1, o + n)
<1>5. C \in Seq(Byte)
  BY <1>1, ContentType
<1>6. /\ \A i \in 1 .. n : C[p + i] = block[o + i]
      /\ p + n <= Len(C) /\ o + n <= Len(block)
      /\ p \in Nat /\ o \in Nat /\ n \in Nat /\ block \in Seq(Byte)
  <2>1. ASSUME NEW i \in 1 .. n PROVE C[p + i] = block[o + i]
    <3> HIDE DEF c, e, b
    <3>1. /\ i - 1 \in 0 .. e.size - c.offset - 1
          /\ c.pos + (i - 1) + 1 = p + i /\ c.offset + (i - 1) + 1 = o + i
      BY <1>1, <1>2, <1>4, SMTT(30)
    <3>2. Content(b)[c.pos + (i - 1) + 1] = e.buffptr[c.offset + (i - 1) + 1]
      BY <1>3, <3>1
    <3> QED
      BY <3>1, <3>2
  <2> HIDE DEF c, e, b
  <2>2. Len(C) \in Nat /\ Len(block) \in Nat
    <3> HIDE DEF C, block
    <3>1. block \in Seq(Byte)
      BY <1>4 DEF block
    <3> QED
      BY <1>5, <3>1
  <2>3. p + n <= Len(C) /\ o + n <= Len(block)
    BY <1>1, <1>2, <1>3, <1>4, <2>2
  <2> QED
    BY <1>1, <1>4, <2>1, <2>3
<1> HIDE DEF C, block, n, p, o
<1>7. x = y /\ Len(y) = n
  <2>1. /\ x \in Seq(Byte) /\ Len(x) = n
        /\ \A i \in 1 .. n : x[i] = C[p + i]
    BY <1>5, <1>6, StretchOf
  <2>2. /\ y \in Seq(Byte) /\ Len(y) = n
        /\ \A i \in 1 .. n : y[i] = block[o + i]
    BY <1>6, StretchOf
  <2> HIDE DEF x, y
  <2>3. \A i \in 1 .. Len(x) : x[i] = y[i]
    BY <1>6, <2>1, <2>2
  <2> QED
    BY <2>1, <2>2, <2>3, SeqEqual
<1> QED
  BY <1>1, <1>6, <1>7 DEF CopiedToUser, C, block, n, p, o

\* aesd_read returns the bytes at the position it was called with, and moves
\* the position by as many as it returns.
THEOREM ReadsAreSlices == Spec => ReadReturnsSlice
<1> DEFINE A == \A t \in Threads :
                  pc[t] = "read_copy" /\ pc'[t] = "ret" /\ call'[t].retval >= 0 =>
                    /\ call'[t].data =
                         SubSeq(Content(circular_buffer),
                                call[t].pos + 1, call[t].pos + call'[t].retval)
                    /\ call'[t].pos = call[t].pos + Len(call'[t].data)
<1>1. IInv /\ [Next]_vars => A
  <2> SUFFICES ASSUME IInv, [Next]_vars, NEW t \in Threads,
                      pc[t] = "read_copy", pc'[t] = "ret", call'[t].retval >= 0
               PROVE  /\ call'[t].data =
                           SubSeq(Content(circular_buffer),
                                  call[t].pos + 1, call[t].pos + call'[t].retval)
                      /\ call'[t].pos = call[t].pos + Len(call'[t].data)
    OBVIOUS
  <2> DEFINE c == call[t]
             b == circular_buffer
  <2>1. aesd_read_copy(t)
    BY LastStep
  <2>2. /\ b \in Buffer /\ Consistent(b) /\ c \in Call /\ c.pos \in Nat
        /\ c.retval \in Nat /\ c.offset \in Nat /\ call \in [Threads -> Call]
    BY DEF IInv, TypeOK, RingConsistent, CallWellFormed, Call
  <2>3. /\ call'[t].data = CopiedToUser(c) /\ call'[t].pos = Advanced(c)
        /\ call'[t].retval = c.retval
    <3>1. CASE UnlockAndFail(t, EFAULT)
      <4>1. call'[t].retval = EFAULT
        BY <2>2, <3>1 DEF UnlockAndFail, UnlockAndReturn, NoCall
      <4> QED
        BY <4>1 DEF EFAULT
    <3>2. CASE UnlockAndReturn(t, Advanced(c), CopiedToUser(c), c.retval)
      BY <2>2, <3>2 DEF UnlockAndReturn, NoCall
    <3> QED
      BY <2>1, <3>1, <3>2 DEF aesd_read_copy
  <2>4. /\ CopiedToUser(c) = SubSeq(Content(b), c.pos + 1, c.pos + c.retval)
        /\ Len(CopiedToUser(c)) = c.retval
    BY CopiedIsSlice
  <2> QED
    BY <2>3, <2>4 DEF Advanced
<1>2. IInv /\ [Next]_vars => [A]_vars
  BY <1>1
<1> QED
  BY <1>2, Invariance, PTL DEF Spec, ReadReturnsSlice

\* A position that aesd_llseek has checked and not yet stored.
SeekChecked ==
  \A t \in Threads :
    pc[t] = "llseek_set" => call[t].pos <= TotalSize(circular_buffer)

\* The check is still good when the position is stored: the ring does not
\* change while the mutex is held.
LEMMA SeekCheckedNext ==
  ASSUME IInv, SeekChecked, [Next]_vars
  PROVE  SeekChecked'
<1> SUFFICES ASSUME NEW t \in Threads, pc'[t] = "llseek_set"
             PROVE  call'[t].pos <= TotalSize(circular_buffer')
  BY DEF SeekChecked
<1>1. pc \in [Threads -> Labels] /\ call \in [Threads -> Call]
  BY DEF IInv, TypeOK
<1>2. CASE pc'[t] # pc[t] \/ call'[t] # call[t]
  <2>1. Lock(t) \/ Finish(t) \/ \E f \in Files : Enter(t, f)
    BY <1>2, WhoMoves
  <2>2. ~ \E pos, data, retval : UnlockAndReturn(t, pos, data, retval)
    BY <1>1 DEF UnlockAndReturn
  <2>3. \A label, c : Hold(t, label, c) => label = "llseek_set" /\ call'[t] = c
    BY <1>1 DEF Hold
  <2>4. ASSUME NEW f \in Files PROVE ~Enter(t, f)
    <3>1. ASSUME NEW args, args.op \in Ops PROVE ~Begin(t, f, args)
      BY <1>1, <3>1 DEF Begin, Ops
    <3> QED
      <4>1. \A count : ~BeginRead(t, f, count)
        <5> TAKE count
        <5> DEFINE args == [NoCall EXCEPT !.op = "read", !.pos = f_pos[f],
                                          !.count = count]
        <5>1. args.op = "read" /\ "read" \in Ops
          BY DEF NoCall, Ops
        <5> HIDE DEF args
        <5> QED
          BY <3>1, <5>1 DEF BeginRead, args
      <4>2. \A data : ~BeginWrite(t, f, data)
        <5> TAKE data
        <5> DEFINE args == [NoCall EXCEPT !.op = "write", !.pos = f_pos[f],
                                          !.data = data, !.count = Len(data)]
        <5>1. args.op = "write" /\ "write" \in Ops
          BY DEF NoCall, Ops
        <5> HIDE DEF args
        <5> QED
          BY <3>1, <5>1 DEF BeginWrite, args
      <4>3. \A offset, whence : ~BeginLlseek(t, f, offset, whence)
        <5> TAKE offset, whence
        <5> DEFINE args == [NoCall EXCEPT !.op = "llseek", !.offset = offset,
                                          !.whence = whence]
        <5>1. args.op = "llseek" /\ "llseek" \in Ops
          BY DEF NoCall, Ops
        <5> HIDE DEF args
        <5> QED
          BY <3>1, <5>1 DEF BeginLlseek, args
      <4>4. \A cmd, offset : ~BeginIoctl(t, f, cmd, offset)
        <5> TAKE cmd, offset
        <5> DEFINE args == [NoCall EXCEPT !.op = "ioctl", !.cmd = cmd,
                                          !.offset = offset]
        <5>1. args.op = "ioctl" /\ "ioctl" \in Ops
          BY DEF NoCall, Ops
        <5> HIDE DEF args
        <5> QED
          BY <3>1, <5>1 DEF BeginIoctl, args
      <4> QED
        BY <4>1, <4>2, <4>3, <4>4 DEF Enter
  <2>5. aesd_llseek(t)
    <3>1. ~aesd_read_find(t) /\ ~aesd_write_alloc(t) /\ ~aesd_ioctl(t)
      BY <2>2, <2>3 DEF aesd_read_find, aesd_write_alloc, aesd_ioctl, UnlockAndFail
    <3>2. ~aesd_read_copy(t) /\ ~aesd_write_copy(t) /\ ~aesd_llseek_set(t)
      BY <2>2 DEF aesd_read_copy, aesd_write_copy, aesd_llseek_set, UnlockAndFail
    <3>3. ~Return(t)
      BY <1>1 DEF Return
    <3> QED
      BY <2>1, <2>4, <3>1, <3>2, <3>3 DEF Lock, Finish
  <2> DEFINE new_pos == SeekTarget(call[t].file, call[t].offset, call[t].whence)
  <2>6. /\ circular_buffer' = circular_buffer
        /\ new_pos <= TotalSize(circular_buffer)
        /\ call'[t] = [call[t] EXCEPT !.pos = new_pos]
    BY <2>2, <2>3, <2>5 DEF aesd_llseek, UnlockAndFail, device
  <2>7. call'[t].pos = new_pos
    BY <1>1, <2>6 DEF Call
  <2> QED
    BY <2>6, <2>7
<1>3. CASE pc'[t] = pc[t] /\ call'[t] = call[t]
  <2>1. /\ mtx = t /\ call[t].file \in opened /\ opened # {}
    BY <1>3 DEF IInv, MutexPaired, Locked, CallWellFormed
  <2>2. ~aesd_init_module
    BY <2>1 DEF aesd_init_module, IInv
  <2>3. ASSUME NEW u \in Threads PROVE ~aesd_write_copy(u)
    BY <1>3, <2>1 DEF aesd_write_copy, IInv, MutexPaired, Locked
  <2>4. ASSUME NEW u \in Threads, aesd_write_alloc(u)
        PROVE  circular_buffer' = circular_buffer
    BY <2>4 DEF aesd_write_alloc
  <2>5. circular_buffer' = circular_buffer
    BY <2>2, <2>3, <2>4, StreamSteps
  <2> QED
    BY <1>3, <2>5 DEF SeekChecked
<1> QED
  BY <1>2, <1>3

\* A successful llseek leaves the position inside what is stored at that
\* moment, whatever was written while it waited for the mutex.
THEOREM SeeksStayInContent == Spec => SeekWithinContent
<1> DEFINE A == \A t \in Threads :
                  pc[t] = "llseek_set" /\ pc'[t] = "ret" =>
                    f_pos'[call[t].file] <= Len(Content(circular_buffer))
<1>1. Init => SeekChecked
  BY DEF Init, SeekChecked
<1>2. IInv /\ SeekChecked /\ [Next]_vars => SeekChecked'
  BY SeekCheckedNext
<1>3. IInv /\ SeekChecked /\ [Next]_vars => [A]_vars
  <2> SUFFICES ASSUME IInv, SeekChecked, [Next]_vars, NEW t \in Threads,
                      pc[t] = "llseek_set", pc'[t] = "ret"
               PROVE  f_pos'[call[t].file] <= Len(Content(circular_buffer))
    OBVIOUS
  <2>1. aesd_llseek_set(t)
    BY LastStep
  <2>2. f_pos \in [Files -> Nat] /\ call[t].file \in Files
    BY DEF IInv, TypeOK, CallWellFormed
  <2>3. f_pos'[call[t].file] = call[t].pos
    BY <2>1, <2>2 DEF aesd_llseek_set
  <2>4. TotalSize(circular_buffer) = Len(Content(circular_buffer))
    BY TotalSizeIsContent DEF IInv, TypeOK, RingConsistent
  <2> QED
    BY <2>3, <2>4 DEF SeekChecked
<1> QED
  BY <1>1, <1>2, <1>3, Invariance, PTL DEF Spec, SeekWithinContent

\* A successful AESDCHAR_IOCSEEKTO names a command that is stored and adds the
\* offset to its start; while nothing has been overwritten it succeeds exactly
\* for the bytes that exist.
THEOREM SeektosStartAtCommands == Spec => SeektoStartsAtCommand
<1> DEFINE log == Log(circular_buffer)
           bytes(t) == [k \in 1 .. call[t].cmd |-> Bytes(log[k])]
           G(t) == /\ call'[t].retval = 0 =>
                        /\ call[t].cmd < Len(log)
                        /\ f_pos'[call[t].file] =
                             Len(FlattenSeq(bytes(t))) + call[t].offset
                   /\ circular_buffer.out_offs = 0 =>
                        (call'[t].retval = 0
                           <=> call[t].cmd < Len(log)
                               /\ call[t].offset < log[call[t].cmd + 1].size)
           A == \A t \in Threads : pc[t] = "ioctl" /\ pc'[t] = "ret" => G(t)
<1>1. IInv /\ [Next]_vars => [A]_vars
  <2> SUFFICES ASSUME IInv, [Next]_vars, NEW t \in Threads,
                      pc[t] = "ioctl", pc'[t] = "ret"
               PROVE  G(t)
    OBVIOUS
  <2> DEFINE b == circular_buffer
             c == call[t]
             ok == SeektoValid(b, c.cmd, c.offset)
  <2>1. aesd_ioctl(t)
    BY LastStep
  <2>2. /\ b \in Buffer /\ Consistent(b) /\ c \in Call /\ c.cmd \in Nat
        /\ c.offset \in Nat /\ call \in [Threads -> Call]
        /\ f_pos \in [Files -> Nat] /\ c.file \in Files
    BY DEF IInv, TypeOK, RingConsistent, CallWellFormed, Call
  <2>3. /\ Occupied(b) \in 0 .. MAX_WRITE_OPERATIONS /\ Len(log) = Occupied(b)
        /\ BreakAt(b) = Occupied(b) /\ MAX_WRITE_OPERATIONS \in Nat \ {0}
        /\ \A k \in 1 .. Occupied(b) : /\ k - 1 \in Slots
                                       /\ log[k] = b.entry[Visited(b, k - 1)]
    <3>1. Occupied(b) \in 0 .. MAX_WRITE_OPERATIONS
      BY <2>2, OccupiedType
    <3>2. Len(log) = Occupied(b)
      BY <3>1, MaxWriteOperationsAssumption DEF Log
    <3> QED
      BY <2>2, <3>1, <3>2, OccupiedType, BreakAtEnd, MaxWriteOperationsAssumption
  <2>4. /\ ok => /\ call'[t].retval = 0
                 /\ f_pos'[c.file] = CommandStart(b, c.cmd) + c.offset
        /\ ~ok => call'[t].retval = EINVAL
    <3>1. CASE ok
      BY <2>1, <2>2, <3>1 DEF aesd_ioctl, UnlockAndReturn, NoCall
    <3>2. CASE ~ok
      BY <2>1, <2>2, <3>2 DEF aesd_ioctl, UnlockAndFail, UnlockAndReturn, NoCall
    <3> QED
      BY <3>1, <3>2
  <2>5. call'[t].retval = 0 <=> ok
    BY <2>4 DEF EINVAL
  <2>6. ok => /\ c.cmd < Len(log)
              /\ CommandStart(b, c.cmd) = Len(FlattenSeq(bytes(t)))
    <3> SUFFICES ASSUME ok
                 PROVE  /\ c.cmd < Len(log)
                        /\ CommandStart(b, c.cmd) = Len(FlattenSeq(bytes(t)))
      OBVIOUS
    <3>1. c.cmd < BreakAt(b)
      BY DEF SeektoValid
    <3>2. c.cmd \in 0 .. Occupied(b) - 1 /\ c.cmd < Len(log)
      BY <2>2, <2>3, <3>1
    <3> QED
      BY <2>2, <3>2, CommandStartIsPrefix
  <2>7. ASSUME b.out_offs = 0
        PROVE  ok <=> c.cmd < Len(log) /\ c.offset < log[c.cmd + 1].size
    <3>1. ASSUME c.cmd < Occupied(b)
          PROVE  log[c.cmd + 1] = b.entry[c.cmd] /\ b.entry[c.cmd].size \in Nat
      <4>1. /\ c.cmd + 1 \in 1 .. Occupied(b) /\ (c.cmd + 1) - 1 = c.cmd
            /\ c.cmd \in Slots
        BY <2>2, <2>3, <3>1 DEF Slots
      <4>2. log[c.cmd + 1] = b.entry[Visited(b, c.cmd)]
        BY <2>3, <4>1
      <4>3. Visited(b, c.cmd) = c.cmd
        <5>1. /\ 0 + c.cmd \in 0 .. 2 * MAX_WRITE_OPERATIONS - 1
              /\ 0 + c.cmd < MAX_WRITE_OPERATIONS /\ 0 + c.cmd = c.cmd
          BY <2>2, <2>3, <4>1 DEF Slots
        <5> QED
          BY <2>7, <5>1, ModuloOfRing DEF Visited
      <4>4. b.entry[c.cmd] \in Entry
        BY <2>2, <4>1 DEF Buffer
      <4> QED
        BY <4>2, <4>3, <4>4 DEF Entry
    <3>2. ok <=> c.cmd < Occupied(b) /\ b.entry[c.cmd].size > c.offset
      BY <2>3 DEF SeektoValid
    <3>3. c.cmd < Occupied(b) =>
            (b.entry[c.cmd].size > c.offset <=> c.offset < log[c.cmd + 1].size)
      <4> SUFFICES ASSUME c.cmd < Occupied(b)
                   PROVE  b.entry[c.cmd].size > c.offset
                            <=> c.offset < log[c.cmd + 1].size
        OBVIOUS
      <4> DEFINE x == b.entry[c.cmd].size
                 y == log[c.cmd + 1].size
                 o == c.offset
      <4>1. x = y /\ x \in Nat /\ o \in Nat
        BY <2>2, <3>1
      <4> HIDE DEF x, y, o
      <4>2. x > o <=> o < y
        BY <4>1
      <4> QED
        BY <4>2 DEF x, y, o
    <3> HIDE DEF ok, log, b, c
    <3> QED
      BY <2>3, <3>2, <3>3, Zenon
  <2> HIDE DEF log, bytes, ok
  <2> QED
    BY <2>4, <2>5, <2>6, <2>7, Zenon
<1> QED
  BY <1>1, Invariance, PTL DEF Spec, SeektoStartsAtCommand

-----------------------------------------------------------------------------
(***************************************************************************)
(* Reads move forward                                                      *)
(***************************************************************************)

\* the system call that the steps of a handler belong to
Agrees(label, op) ==
  /\ label \in {"read", "read_copy"} => op = "read"
  /\ label \in {"write", "write_copy"} => op = "write"
  /\ label \in {"llseek", "llseek_set"} => op = "llseek"
  /\ label = "ioctl" => op = "ioctl"

\* a call that stores its copy of the position when it returns, so far
Storing(label, c) ==
  c.op \in {"read", "write"} /\ (label = "ret" => c.retval >= 0)

\* Neither the position of a file that one thread uses nor the copy a call
\* works with is behind what the file has been given.  Between the end of a
\* read and its return only the copy has been moved.
InOrder ==
  /\ \A t \in Threads : pc[t] # "idle" =>
       /\ call[t].file \in MayUse[t]
       /\ Agrees(pc[t], call[t].op)
       /\ Storing(pc[t], call[t]) /\ Private(call[t].file) =>
            delivered[call[t].file] <= evicted + call[t].pos
  /\ \A f \in Files \ opened : delivered[f] = 0
  /\ \A f \in Files : Private(f) =>
       \/ delivered[f] <= evicted + f_pos[f]
       \/ \E t \in Threads : /\ pc[t] = "ret" /\ call[t].file = f
                             /\ call[t].op = "read" /\ call[t].retval >= 0

\* A step inside a handler touches its own file only, and the thread is the
\* only one that uses a private file.
LEMMA InsideStep ==
  ASSUME IInv, InOrder, NEW t \in Threads, pc[t] \notin {"idle", "ret"},
         NEW label, label # "idle", NEW c,
         pc' = [pc EXCEPT ![t] = label], call' = [call EXCEPT ![t] = c],
         c.file = call[t].file, Agrees(label, c.op), opened' = opened,
         evicted' \in Nat, evicted <= evicted',
         f_pos' \in [Files -> Nat], delivered' \in [Files -> Nat],
         \A f \in Files \ {c.file} : f_pos'[f] = f_pos[f] /\ delivered'[f] = delivered[f],
         Storing(label, c) /\ Private(c.file) => delivered'[c.file] <= evicted' + c.pos,
         \/ delivered'[c.file] = 0
         \/ delivered'[c.file] = delivered[c.file] /\ f_pos'[c.file] = f_pos[c.file]
         \/ label = "ret" /\ c.op = "read" /\ c.retval >= 0
  PROVE  InOrder'
<1>1. /\ pc \in [Threads -> Labels] /\ call \in [Threads -> Call] /\ evicted \in Nat
      /\ f_pos \in [Files -> Nat] /\ delivered \in [Files -> Nat]
      /\ call[t].file \in opened /\ opened \subseteq Files
      /\ \A u \in Threads : pc[u] # "idle" => call[u].file \in Files
      /\ \A u \in Threads : call[u] \in Call /\ call[u].pos \in Nat
  <2>1. \A u \in Threads : call[u] \in Call
    BY DEF IInv, TypeOK
  <2> QED
    BY <2>1 DEF IInv, TypeOK, CallWellFormed, Call
<1>2. /\ pc'[t] = label /\ call'[t] = c
      /\ \A u \in Threads \ {t} : pc'[u] = pc[u] /\ call'[u] = call[u]
  BY <1>1
<1>3. call[t].file \in MayUse[t]
  BY DEF InOrder
<1>4. ASSUME NEW u \in Threads, pc'[u] # "idle"
      PROVE  /\ call'[u].file \in MayUse[u]
             /\ Agrees(pc'[u], call'[u].op)
             /\ Storing(pc'[u], call'[u]) /\ Private(call'[u].file) =>
                  delivered'[call'[u].file] <= evicted' + call'[u].pos
  <2>1. CASE u = t
    BY <1>2, <1>3, <2>1
  <2>2. CASE u # t
    <3> DEFINE d == call[u]
    <3>1. /\ pc'[u] = pc[u] /\ call'[u] = d /\ pc[u] # "idle"
      BY <1>2, <1>4, <2>2
    <3>2. /\ d.file \in MayUse[u] /\ Agrees(pc[u], d.op)
          /\ Storing(pc[u], d) /\ Private(d.file) =>
               delivered[d.file] <= evicted + d.pos
      BY <3>1 DEF InOrder
    <3>3. d.file \in Files /\ d.pos \in Nat
      BY <1>1, <3>1
    <3> HIDE DEF d
    <3>4. Private(d.file) => d.file # c.file
      BY <1>3, <2>2, <3>2 DEF Private
    <3>5. d.file # c.file => delivered'[d.file] = delivered[d.file]
      BY <3>3
    <3>6. delivered[d.file] \in Nat
      BY <1>1, <3>3
    <3>7. delivered[d.file] <= evicted + d.pos => delivered[d.file] <= evicted' + d.pos
      BY <1>1, <3>3, <3>6
    <3> QED
      BY <3>1, <3>2, <3>4, <3>5, <3>7
  <2> QED
    BY <2>1, <2>2
<1>5. \A f \in Files \ opened' : delivered'[f] = 0
  BY <1>1 DEF InOrder
<1>6. ASSUME NEW f \in Files, Private(f)
      PROVE  \/ delivered'[f] <= evicted' + f_pos'[f]
             \/ \E u \in Threads : /\ pc'[u] = "ret" /\ call'[u].file = f
                                   /\ call'[u].op = "read" /\ call'[u].retval >= 0
  <2>1. /\ delivered[f] \in Nat /\ f_pos[f] \in Nat
        /\ delivered'[f] \in Nat /\ f_pos'[f] \in Nat
    BY <1>1
  <2>2. CASE delivered'[f] = 0
    BY <2>1, <2>2
  <2>3. CASE delivered'[f] = delivered[f] /\ f_pos'[f] = f_pos[f]
    <3>1. CASE delivered[f] <= evicted + f_pos[f]
      BY <1>1, <2>1, <2>3, <3>1
    <3>2. ASSUME NEW u \in Threads, pc[u] = "ret", call[u].file = f,
                 call[u].op = "read", call[u].retval >= 0
          PROVE  /\ pc'[u] = "ret" /\ call'[u].file = f
                 /\ call'[u].op = "read" /\ call'[u].retval >= 0
      <4>1. u # t
        BY <3>2
      <4> QED
        BY <1>2, <3>2, <4>1
    <3> QED
      BY <1>6, <3>1, <3>2 DEF InOrder
  <2>4. CASE f = c.file /\ label = "ret" /\ c.op = "read" /\ c.retval >= 0
    BY <1>2, <2>4
  <2> QED
    BY <2>2, <2>3, <2>4
<1> QED
  BY <1>4, <1>5, <1>6 DEF InOrder, Private

\* The same for a step that unlocks and ends the handler.
LEMMA EndStep ==
  ASSUME IInv, InOrder, NEW t \in Threads, pc[t] \notin {"idle", "ret"},
         NEW pos \in Nat, NEW data, NEW retval,
         UnlockAndReturn(t, pos, data, retval), opened' = opened,
         evicted' \in Nat, evicted <= evicted',
         f_pos' \in [Files -> Nat], delivered' \in [Files -> Nat],
         NEW file, file = call[t].file,
         \A f \in Files \ {file} : f_pos'[f] = f_pos[f] /\ delivered'[f] = delivered[f],
         /\ call[t].op \in {"read", "write"} /\ retval >= 0 /\ Private(file)
              => delivered'[file] <= evicted' + pos,
         \/ delivered'[file] = 0
         \/ delivered'[file] = delivered[file] /\ f_pos'[file] = f_pos[file]
         \/ call[t].op = "read" /\ retval >= 0
  PROVE  InOrder'
<1> DEFINE c == [NoCall EXCEPT !.op = call[t].op, !.file = call[t].file,
                               !.pos = pos, !.data = data, !.retval = retval]
<1>1. /\ c.op = call[t].op /\ c.file = file /\ c.pos = pos /\ c.retval = retval
  BY DEF NoCall
<1>2. pc' = [pc EXCEPT ![t] = "ret"] /\ call' = [call EXCEPT ![t] = c]
  BY DEF UnlockAndReturn
<1> HIDE DEF c
<1>3. Agrees("ret", c.op) /\ "ret" # "idle"
  BY DEF Agrees
<1>4. /\ c.file = call[t].file
      /\ \A f \in Files \ {c.file} : f_pos'[f] = f_pos[f] /\ delivered'[f] = delivered[f]
      /\ Storing("ret", c) /\ Private(c.file) => delivered'[c.file] <= evicted' + c.pos
      /\ \/ delivered'[c.file] = 0
         \/ delivered'[c.file] = delivered[c.file] /\ f_pos'[c.file] = f_pos[c.file]
         \/ "ret" = "ret" /\ c.op = "read" /\ c.retval >= 0
  BY <1>1 DEF Storing
<1> QED
  BY <1>2, <1>3, <1>4, InsideStep

\* The steps of aesd_read.
LEMMA ReadInOrder ==
  ASSUME IInv, InOrder, NEW t \in Threads, aesd_read_find(t) \/ aesd_read_copy(t)
  PROVE  InOrder'
<1> DEFINE c == call[t]
<1>1. /\ pc[t] \in {"read", "read_copy"} /\ opened' = opened /\ f_pos' = f_pos
      /\ evicted' = evicted
  BY DEF aesd_read_find, aesd_read_copy, files, history
<1>2. /\ evicted \in Nat /\ c \in Call /\ c.pos \in Nat /\ c.file \in Files
      /\ f_pos \in [Files -> Nat] /\ delivered \in [Files -> Nat]
      /\ c.file \in opened
  BY <1>1 DEF IInv, TypeOK, CallWellFormed, Call
<1>3. /\ c.op = "read" /\ c.file \in MayUse[t]
      /\ Private(c.file) => delivered[c.file] <= evicted + c.pos
  <2>1. /\ c.file \in MayUse[t] /\ Agrees(pc[t], c.op)
        /\ Storing(pc[t], c) /\ Private(c.file) =>
             delivered[c.file] <= evicted + c.pos
    BY <1>1 DEF InOrder
  <2>2. c.op = "read" /\ Storing(pc[t], c)
    BY <1>1, <2>1 DEF Agrees, Storing
  <2> QED
    BY <2>1, <2>2
<1>4. evicted <= evicted' /\ evicted' \in Nat
  BY <1>1, <1>2
<1>5. CASE delivered' = delivered /\ \E pos, data, retval :
             /\ pos \in Nat
             /\ UnlockAndReturn(t, pos, data, retval)
             /\ retval >= 0 => pos = c.pos
  <2>1. PICK pos, data, retval :
             /\ pos \in Nat
             /\ UnlockAndReturn(t, pos, data, retval)
             /\ retval >= 0 => pos = c.pos
    BY <1>5
  <2> HIDE DEF c
  <2> QED
    BY <1>1, <1>2, <1>3, <1>4, <1>5, <2>1, EndStep DEF c
<1>6. CASE aesd_read_find(t)
  <2> DEFINE hit == aesd_circular_buffer_find_entry_offset_for_fpos(
                      circular_buffer, c.pos)
             left == circular_buffer.entry[hit.slot].size - hit.offset
             n == [c EXCEPT !.slot = hit.slot, !.offset = hit.offset,
                            !.retval = Min({c.count, left})]
  <2>1. delivered' = delivered
    BY <1>6 DEF aesd_read_find, history
  <2>2. CASE UnlockAndReturn(t, c.pos, << >>, 0)
    BY <1>2, <1>5, <2>1, <2>2
  <2>3. CASE Hold(t, "read_copy", n)
    <3>1. n.op = c.op /\ n.file = c.file /\ n.pos = c.pos
      BY <1>2 DEF Call
    <3> HIDE DEF n
    <3>2. pc' = [pc EXCEPT ![t] = "read_copy"] /\ call' = [call EXCEPT ![t] = n]
      BY <2>3 DEF Hold
    <3>3. Agrees("read_copy", n.op) /\ "read_copy" # "idle"
      BY <1>3, <3>1 DEF Agrees
    <3> QED
      BY <1>1, <1>2, <1>3, <1>4, <2>1, <3>1, <3>2, <3>3, InsideStep
  <2> QED
    BY <1>6, <2>2, <2>3 DEF aesd_read_find
<1>7. CASE aesd_read_copy(t)
  <2>1. CASE UnlockAndFail(t, EFAULT) /\ UNCHANGED delivered
    <3>1. UnlockAndReturn(t, 0, << >>, EFAULT) /\ ~(EFAULT >= 0) /\ 0 \in Nat
      BY <2>1 DEF UnlockAndFail, EFAULT
    <3> QED
      BY <1>5, <2>1, <3>1
  <2>2. CASE /\ UnlockAndReturn(t, Advanced(c), CopiedToUser(c), c.retval)
             /\ delivered' = [delivered EXCEPT
                                ![c.file] = evicted + c.pos + c.retval]
    <3> DEFINE p == Advanced(c)
    <3>1. c.retval \in Nat /\ c.retval >= 0
      BY <1>7 DEF IInv, CallWellFormed, aesd_read_copy
    <3>2. p \in Nat /\ evicted + c.pos + c.retval \in Nat
          /\ evicted + c.pos + c.retval = evicted' + p
      BY <1>1, <1>2, <3>1 DEF Advanced
    <3>3. /\ delivered' \in [Files -> Nat] /\ f_pos' \in [Files -> Nat]
          /\ delivered'[c.file] = evicted' + p
          /\ \A f \in Files \ {c.file} : delivered'[f] = delivered[f] /\ f_pos'[f] = f_pos[f]
      BY <1>1, <1>2, <2>2, <3>2
    <3>4. UnlockAndReturn(t, p, CopiedToUser(c), c.retval)
      BY <2>2
    <3>5. delivered'[c.file] <= evicted' + p
      BY <1>4, <3>2, <3>3
    <3>6. pc[t] \notin {"idle", "ret"}
      BY <1>1
    <3> HIDE DEF p
    <3> QED
      BY <1>1, <1>3, <1>4, <3>1, <3>2, <3>3, <3>4, <3>5, <3>6, EndStep
  <2> QED
    BY <1>7, <2>1, <2>2 DEF aesd_read_copy
<1> QED
  BY <1>6, <1>7

\* The steps of aesd_write: evictions move the stream forward.
LEMMA WriteInOrder ==
  ASSUME IInv, InOrder, NEW t \in Threads, aesd_write_alloc(t) \/ aesd_write_copy(t)
  PROVE  InOrder'
<1> DEFINE c == call[t]
<1>1. /\ pc[t] \in {"write", "write_copy"} /\ opened' = opened /\ f_pos' = f_pos
      /\ delivered' = delivered
  BY DEF aesd_write_alloc, aesd_write_copy, files
<1>2. /\ evicted \in Nat /\ c \in Call /\ c.pos \in Nat /\ c.file \in Files
      /\ f_pos \in [Files -> Nat] /\ delivered \in [Files -> Nat]
      /\ c.file \in opened /\ circular_buffer \in Buffer
  BY <1>1 DEF IInv, TypeOK, CallWellFormed, Call
<1>3. /\ c.op = "write"
      /\ Private(c.file) => delivered[c.file] <= evicted + c.pos
  <2>1. /\ Agrees(pc[t], c.op)
        /\ Storing(pc[t], c) /\ Private(c.file) =>
             delivered[c.file] <= evicted + c.pos
    BY <1>1 DEF InOrder
  <2>2. c.op = "write" /\ Storing(pc[t], c)
    BY <1>1, <2>1 DEF Agrees, Storing
  <2> QED
    BY <2>1, <2>2
<1>4. evicted <= evicted' /\ evicted' \in Nat
  <2> DEFINE dropped == circular_buffer.entry[circular_buffer.in_offs]
  <2>1. dropped.size \in Nat
    <3>1. dropped \in Entry
      BY <1>2 DEF Buffer
    <3> QED
      BY <3>1 DEF Entry
  <2>2. evicted' = evicted \/ evicted' = evicted + dropped.size
    BY DEF aesd_write_alloc, aesd_write_copy
  <2> HIDE DEF dropped
  <2> QED
    BY <1>2, <2>1, <2>2
<1>5. CASE \E pos, data, retval :
             /\ pos \in Nat
             /\ UnlockAndReturn(t, pos, data, retval)
             /\ retval >= 0 => pos = c.pos
  <2>1. PICK pos, data, retval :
             /\ pos \in Nat
             /\ UnlockAndReturn(t, pos, data, retval)
             /\ retval >= 0 => pos = c.pos
    BY <1>5
  <2>2. Private(c.file) => delivered'[c.file] <= evicted' + c.pos
    <3>1. delivered[c.file] \in Nat
      BY <1>2
    <3> HIDE DEF c
    <3> QED
      BY <1>1, <1>2, <1>3, <1>4, <3>1
  <2> HIDE DEF c
  <2> QED
    BY <1>1, <1>2, <1>4, <2>1, <2>2, EndStep DEF c
<1>6. CASE Hold(t, "write_copy", c) /\ evicted' = evicted
  <2>1. pc' = [pc EXCEPT ![t] = "write_copy"] /\ call' = [call EXCEPT ![t] = c]
    BY <1>6 DEF Hold
  <2>2. Agrees("write_copy", c.op) /\ "write_copy" # "idle" /\ c.file = call[t].file
    BY <1>3 DEF Agrees
  <2> HIDE DEF c
  <2> QED
    BY <1>1, <1>2, <1>3, <1>4, <1>6, <2>1, <2>2, InsideStep
<1>7. CASE aesd_write_alloc(t)
  <2>1. ~(ENOMEM >= 0) /\ 0 \in Nat
    BY SMTT(30) DEF ENOMEM
  <2> QED
    BY <1>5, <1>6, <1>7, <2>1 DEF aesd_write_alloc, UnlockAndFail
<1>8. CASE aesd_write_copy(t)
  BY <1>2, <1>5, <1>8 DEF aesd_write_copy
<1> QED
  BY <1>7, <1>8

\* aesd_llseek and aesd_ioctl start the count of a file again when they move
\* its position.
LEMMA SeekInOrder ==
  ASSUME IInv, InOrder, NEW t \in Threads,
         aesd_llseek(t) \/ aesd_llseek_set(t) \/ aesd_ioctl(t)
  PROVE  InOrder'
<1> DEFINE c == call[t]
<1>1. /\ pc[t] \in {"llseek", "llseek_set", "ioctl"} /\ opened' = opened
      /\ evicted' = evicted
  BY DEF aesd_llseek, aesd_llseek_set, aesd_ioctl, files, history
<1>2. /\ evicted \in Nat /\ c \in Call /\ c.pos \in Nat /\ c.file \in Files
      /\ f_pos \in [Files -> Nat] /\ delivered \in [Files -> Nat]
  BY <1>1 DEF IInv, TypeOK, CallWellFormed, Call
<1>3. c.op \in {"llseek", "ioctl"} /\ (pc[t] \in {"llseek", "llseek_set"} => c.op = "llseek")
  BY <1>1 DEF InOrder, Agrees
<1>4. evicted <= evicted' /\ evicted' \in Nat
  BY <1>1, <1>2
<1>5. /\ f_pos' \in [Files -> Nat] /\ delivered' \in [Files -> Nat]
      /\ \A f \in Files \ {c.file} : delivered'[f] = delivered[f] /\ f_pos'[f] = f_pos[f]
      /\ \/ delivered'[c.file] = 0
         \/ delivered'[c.file] = delivered[c.file] /\ f_pos'[c.file] = f_pos[c.file]
  <2>1. CASE aesd_llseek(t)
    BY <1>2, <2>1 DEF aesd_llseek, files, history
  <2>2. CASE aesd_llseek_set(t)
    BY <1>2, <2>2 DEF aesd_llseek_set
  <2>3. CASE aesd_ioctl(t) /\ SeektoValid(circular_buffer, c.cmd, c.offset)
    <3>1. c.cmd \in Nat /\ c.offset \in Nat /\ circular_buffer \in Buffer
      <4>1. c.cmd \in Nat
        BY <1>2 DEF Call
      <4>2. c.offset \in Nat
        BY <2>3 DEF IInv, CallWellFormed, aesd_ioctl
      <4> QED
        BY <4>1, <4>2 DEF IInv, TypeOK
    <3>2. CommandStart(circular_buffer, c.cmd) \in Nat
      <4>1. c.cmd < BreakAt(circular_buffer)
        BY <2>3 DEF SeektoValid
      <4> HIDE DEF c
      <4> QED
        BY <3>1, <4>1, CommandStartType
    <3> DEFINE p == CommandStart(circular_buffer, c.cmd) + c.offset
    <3>3. p \in Nat
      BY <3>1, <3>2
    <3>4. /\ f_pos' = [f_pos EXCEPT ![c.file] = p]
          /\ delivered' = [delivered EXCEPT ![c.file] = 0]
      BY <2>3 DEF aesd_ioctl
    <3> HIDE DEF p, c
    <3> QED
      BY <1>2, <3>3, <3>4
  <2>4. CASE aesd_ioctl(t) /\ ~SeektoValid(circular_buffer, c.cmd, c.offset)
    BY <1>2, <2>4 DEF aesd_ioctl
  <2> QED
    BY <2>1, <2>2, <2>3, <2>4
<1>6. CASE \E pos, data, retval :
             pos \in Nat /\ UnlockAndReturn(t, pos, data, retval)
  <2>1. PICK pos, data, retval :
             pos \in Nat /\ UnlockAndReturn(t, pos, data, retval)
    BY <1>6
  <2>2. c.op \notin {"read", "write"} /\ pc[t] \notin {"idle", "ret"}
    BY <1>1, <1>3
  <2> HIDE DEF c
  <2> QED
    BY <1>1, <1>4, <1>5, <2>1, <2>2, EndStep DEF c
<1>7. ASSUME NEW new_pos, Hold(t, "llseek_set", [c EXCEPT !.pos = new_pos]),
             pc[t] = "llseek"
      PROVE  InOrder'
  <2> DEFINE n == [c EXCEPT !.pos = new_pos]
  <2>1. n.op = c.op /\ n.file = c.file
    BY <1>2 DEF Call
  <2>2. pc' = [pc EXCEPT ![t] = "llseek_set"] /\ call' = [call EXCEPT ![t] = n]
    BY <1>7 DEF Hold
  <2> HIDE DEF n
  <2>3. Agrees("llseek_set", n.op) /\ "llseek_set" # "idle" /\ ~Storing("llseek_set", n)
    BY <1>3, <1>7, <2>1 DEF Agrees, Storing
  <2>4. n.file = call[t].file /\ pc[t] \notin {"idle", "ret"}
    BY <1>1, <2>1
  <2>5. /\ \A f \in Files \ {n.file} : f_pos'[f] = f_pos[f] /\ delivered'[f] = delivered[f]
        /\ \/ delivered'[n.file] = 0
           \/ delivered'[n.file] = delivered[n.file] /\ f_pos'[n.file] = f_pos[n.file]
    BY <1>5, <2>1
  <2> QED
    BY <1>1, <1>4, <1>5, <2>2, <2>3, <2>4, <2>5, InsideStep
<1>8. CASE aesd_llseek(t)
  BY <1>6, <1>7, <1>8 DEF aesd_llseek, UnlockAndFail
<1>9. CASE aesd_llseek_set(t)
  BY <1>6, <1>9 DEF aesd_llseek_set
<1>10. CASE aesd_ioctl(t)
  BY <1>6, <1>10 DEF aesd_ioctl, UnlockAndFail
<1> QED
  BY <1>8, <1>9, <1>10

\* A call that starts takes the position of the file: nobody else is about to
\* store another one if the file is private.
LEMMA BeginInOrder ==
  ASSUME IInv, InOrder, NEW t \in Threads, NEW f \in Files, NEW args \in Call,
         Begin(t, f, args), args.op \in Ops,
         args.op \in {"read", "write"} => args.pos = f_pos[f]
  PROVE  InOrder'
<1> DEFINE c == [args EXCEPT !.file = f]
<1>1. c.op = args.op /\ c.file = f /\ c.pos = args.pos
  BY DEF Call
<1> HIDE DEF c
<1>2. /\ pc[t] = "idle" /\ f \in opened /\ f \in MayUse[t]
      /\ pc' = [pc EXCEPT ![t] = args.op] /\ call' = [call EXCEPT ![t] = c]
      /\ opened' = opened /\ f_pos' = f_pos /\ evicted' = evicted
      /\ delivered' = delivered
  BY DEF Begin, files, history, c
<1>3. pc \in [Threads -> Labels] /\ call \in [Threads -> Call]
  BY DEF IInv, TypeOK
<1>4. /\ pc'[t] = args.op /\ call'[t] = c
      /\ \A u \in Threads \ {t} : pc'[u] = pc[u] /\ call'[u] = call[u]
  BY <1>2, <1>3
<1>5. Agrees(args.op, c.op)
  BY <1>1 DEF Agrees, Ops
<1>6. Storing(args.op, c) /\ Private(f) => delivered[f] <= evicted + c.pos
  <2> SUFFICES ASSUME Storing(args.op, c), Private(f)
               PROVE  delivered[f] <= evicted + f_pos[f]
    BY <1>1 DEF Storing
  <2>1. ~ \E u \in Threads : pc[u] = "ret" /\ call[u].file = f
    <3> SUFFICES ASSUME NEW u \in Threads, pc[u] = "ret", call[u].file = f
                 PROVE  FALSE
      OBVIOUS
    <3>1. f \in MayUse[u]
      BY DEF InOrder
    <3>2. u = t
      BY <1>2, <3>1 DEF Private
    <3> QED
      BY <1>2, <3>2
  <2> QED
    BY <2>1 DEF InOrder
<1>7. ASSUME NEW u \in Threads, pc'[u] # "idle"
      PROVE  /\ call'[u].file \in MayUse[u]
             /\ Agrees(pc'[u], call'[u].op)
             /\ Storing(pc'[u], call'[u]) /\ Private(call'[u].file) =>
                  delivered'[call'[u].file] <= evicted' + call'[u].pos
  <2>1. CASE u = t
    BY <1>1, <1>2, <1>4, <1>5, <1>6, <2>1
  <2>2. CASE u # t
    BY <1>2, <1>4, <1>7, <2>2 DEF InOrder
  <2> QED
    BY <2>1, <2>2
<1>8. ASSUME NEW g \in Files, Private(g)
      PROVE  \/ delivered'[g] <= evicted' + f_pos'[g]
             \/ \E u \in Threads : /\ pc'[u] = "ret" /\ call'[u].file = g
                                   /\ call'[u].op = "read" /\ call'[u].retval >= 0
  <2>1. ASSUME NEW u \in Threads, pc[u] = "ret"
        PROVE  pc'[u] = "ret" /\ call'[u] = call[u]
    BY <1>2, <1>4, <2>1
  <2> QED
    BY <1>2, <1>8, <2>1 DEF InOrder
<1>9. \A g \in Files \ opened' : delivered'[g] = 0
  BY <1>2 DEF InOrder
<1> QED
  BY <1>7, <1>8, <1>9 DEF InOrder, Private

\* Return stores the position, or the call has not moved it.
LEMMA ReturnInOrder ==
  ASSUME IInv, InOrder, NEW t \in Threads, Return(t)
  PROVE  InOrder'
<1> DEFINE c == call[t]
<1>1. /\ pc[t] = "ret" /\ pc' = [pc EXCEPT ![t] = "idle"]
      /\ call' = [call EXCEPT ![t] = NoCall]
      /\ opened' = opened /\ evicted' = evicted /\ delivered' = delivered
      /\ f_pos' = IF c.op \in {"read", "write"} /\ c.retval >= 0
                  THEN [f_pos EXCEPT ![c.file] = c.pos] ELSE f_pos
  BY DEF Return, history
<1>2. /\ pc \in [Threads -> Labels] /\ call \in [Threads -> Call]
      /\ f_pos \in [Files -> Nat] /\ c.file \in Files
  BY <1>1 DEF IInv, TypeOK, CallWellFormed
<1>3. /\ pc'[t] = "idle"
      /\ \A u \in Threads \ {t} : pc'[u] = pc[u] /\ call'[u] = call[u]
  BY <1>1, <1>2
<1>4. ASSUME NEW u \in Threads, pc'[u] # "idle"
      PROVE  /\ call'[u].file \in MayUse[u]
             /\ Agrees(pc'[u], call'[u].op)
             /\ Storing(pc'[u], call'[u]) /\ Private(call'[u].file) =>
                  delivered'[call'[u].file] <= evicted' + call'[u].pos
  BY <1>1, <1>3, <1>4 DEF InOrder
<1>5. ASSUME NEW f \in Files, Private(f)
      PROVE  \/ delivered'[f] <= evicted' + f_pos'[f]
             \/ \E u \in Threads : /\ pc'[u] = "ret" /\ call'[u].file = f
                                   /\ call'[u].op = "read" /\ call'[u].retval >= 0
  <2>1. CASE f = c.file /\ c.op \in {"read", "write"} /\ c.retval >= 0
    <3>1. Storing(pc[t], c) /\ f_pos'[f] = c.pos
      BY <1>1, <1>2, <2>1 DEF Storing
    <3>2. delivered[f] <= evicted + c.pos
      BY <1>1, <1>5, <2>1, <3>1 DEF InOrder
    <3> QED
      BY <1>1, <3>1, <3>2
  <2>2. CASE ~(f = c.file /\ c.op \in {"read", "write"} /\ c.retval >= 0)
    <3>1. f_pos'[f] = f_pos[f]
      BY <1>1, <1>2, <2>2
    <3>2. ASSUME NEW u \in Threads, pc[u] = "ret", call[u].file = f,
                 call[u].op = "read", call[u].retval >= 0
          PROVE  pc'[u] = "ret" /\ call'[u] = call[u]
      <4>1. u # t
        BY <2>2, <3>2
      <4> QED
        BY <1>3, <3>2, <4>1
    <3> QED
      BY <1>1, <1>5, <3>1, <3>2 DEF InOrder
  <2> QED
    BY <2>1, <2>2
<1>6. \A f \in Files \ opened' : delivered'[f] = 0
  BY <1>1 DEF InOrder
<1> QED
  BY <1>4, <1>5, <1>6 DEF InOrder, Private

\* A call of thread t on file f enters its handler with these arguments.
BeginsWith(t, f, args) ==
  /\ Begin(t, f, args) /\ args.op \in Ops
  /\ args.op \in {"read", "write"} => args.pos = f_pos[f]
  /\ args.op = "write" => args.data \in Payloads

\* Every system call hands its handler the position of the file, and a write
\* what user space wants stored.
LEMMA EnterBegins ==
  ASSUME IInv, NEW t \in Threads, NEW f \in Files, Enter(t, f)
  PROVE  \E args \in Call : BeginsWith(t, f, args)
<1> DEFINE Goal == \E args \in Call : BeginsWith(t, f, args)
<1> SUFFICES Goal
  OBVIOUS
<1>1. f_pos[f] \in Nat
  BY DEF IInv, TypeOK
<1>2. ASSUME NEW count \in Counts, BeginRead(t, f, count)
      PROVE  Goal
  <2> DEFINE args == [NoCall EXCEPT !.op = "read", !.pos = f_pos[f],
                                    !.count = count]
  <2>1. args \in Call
    <3>1. count \in Nat /\ "read" \in Ops \union {"none"}
      BY AesdCharAssumption DEF Ops
    <3> QED
      BY <1>1, <3>1, NoCallType, CallUpdate
  <2>2. args.op = "read" /\ args.op # "write" /\ args.pos = f_pos[f]
    BY DEF NoCall
  <2>3. Begin(t, f, args)
    BY <1>2 DEF BeginRead
  <2> HIDE DEF args
  <2> QED
    BY <2>1, <2>2, <2>3, Zenon DEF BeginsWith, Ops
<1>3. ASSUME NEW data \in Payloads, BeginWrite(t, f, data)
      PROVE  Goal
  <2> DEFINE args == [NoCall EXCEPT !.op = "write", !.pos = f_pos[f],
                                    !.data = data, !.count = Len(data)]
  <2>1. data \in Seq(Byte) /\ Len(data) \in Nat
    <3>1. data \in Seq(Byte \ {UNINIT})
      BY AesdCharAssumption
    <3> QED
      BY <3>1
  <2>2. args \in Call
    BY <1>1, <2>1, NoCallType, CallUpdate DEF Ops
  <2>3. args.op = "write" /\ args.pos = f_pos[f] /\ args.data = data
    BY DEF NoCall
  <2>4. Begin(t, f, args)
    BY <1>3 DEF BeginWrite
  <2> HIDE DEF args
  <2> QED
    BY <2>2, <2>3, <2>4, Zenon DEF BeginsWith, Ops
<1>4. ASSUME NEW s \in Seeks, BeginLlseek(t, f, s[1], s[2])
      PROVE  Goal
  <2> DEFINE args == [NoCall EXCEPT !.op = "llseek", !.offset = s[1],
                                    !.whence = s[2]]
  <2>1. s[1] \in Int /\ s[2] \in {"none"} \union {r[2] : r \in Seeks}
    BY AesdCharAssumption
  <2>2. args \in Call
    BY <2>1, NoCallType, CallUpdate DEF Ops
  <2>3. args.op = "llseek" /\ args.op \notin {"read", "write"}
    BY DEF NoCall
  <2>4. Begin(t, f, args)
    BY <1>4 DEF BeginLlseek
  <2> HIDE DEF args
  <2> QED
    BY <2>2, <2>3, <2>4, Zenon DEF BeginsWith, Ops
<1>5. ASSUME NEW s \in Seektos, BeginIoctl(t, f, s[1], s[2])
      PROVE  Goal
  <2> DEFINE args == [NoCall EXCEPT !.op = "ioctl", !.cmd = s[1],
                                    !.offset = s[2]]
  <2>1. s[1] \in Nat /\ s[2] \in Int /\ "ioctl" \in Ops \union {"none"}
    BY AesdCharAssumption DEF Ops
  <2>2. args \in Call
    BY <2>1, NoCallType, CallUpdate
  <2>3. args.op = "ioctl" /\ args.op \notin {"read", "write"}
    BY DEF NoCall
  <2>4. Begin(t, f, args)
    BY <1>5 DEF BeginIoctl
  <2> HIDE DEF args
  <2> QED
    BY <2>2, <2>3, <2>4, Zenon DEF BeginsWith, Ops
<1> QED
  BY <1>2, <1>3, <1>4, <1>5 DEF Enter

\* The same for the order of what is delivered.
LEMMA EnterInOrder ==
  ASSUME IInv, InOrder, NEW t \in Threads, NEW f \in Files, Enter(t, f)
  PROVE  InOrder'
  BY EnterBegins, BeginInOrder DEF BeginsWith

\* Loading the module starts from nothing, and a file that is opened starts
\* at position 0 with nothing delivered.
LEMMA ModuleInOrder ==
  ASSUME IInv, InOrder,
         \/ aesd_init_module
         \/ aesd_cleanup_module
         \/ \E f \in Files : aesd_open(f) \/ aesd_release(f)
  PROVE  InOrder'
<1>1. f_pos \in [Files -> Nat] /\ delivered \in [Files -> Nat] /\ evicted \in Nat
  BY DEF IInv, TypeOK
<1>2. CASE aesd_init_module
  <2>1. opened = {} /\ \A u \in Threads : pc[u] = "idle"
    BY <1>2 DEF aesd_init_module, IInv, CallWellFormed
  <2>2. \A f \in Files : delivered'[f] = 0 /\ f_pos'[f] \in Nat
    BY <1>1, <1>2, <2>1 DEF aesd_init_module, InOrder, files
  <2>3. evicted' = 0 /\ \A u \in Threads : pc'[u] = "idle"
    BY <1>2, <2>1 DEF aesd_init_module
  <2>4. \A f \in Files : delivered'[f] <= evicted' + f_pos'[f]
    BY <2>2, <2>3
  <2> QED
    BY <2>2, <2>3, <2>4 DEF InOrder
<1>3. CASE aesd_cleanup_module
  BY <1>3 DEF aesd_cleanup_module, files, history, InOrder, Private
<1>4. ASSUME NEW f \in Files, aesd_open(f) PROVE InOrder'
  BY <1>4 DEF aesd_open, history, InOrder, Private
<1>5. ASSUME NEW f \in Files, aesd_release(f) PROVE InOrder'
  <2>1. /\ pc' = pc /\ call' = call /\ evicted' = evicted /\ opened' = opened \ {f}
        /\ f_pos' = [f_pos EXCEPT ![f] = 0] /\ delivered' = [delivered EXCEPT ![f] = 0]
    BY <1>5 DEF aesd_release
  <2>2. /\ \A u \in Threads : call[u].file # f
        /\ \A u \in Threads : pc[u] # "idle" => call[u].file \in Files
    BY <1>5 DEF aesd_release, IInv, TypeOK, CallWellFormed
  <2>3. /\ f_pos'[f] = 0 /\ delivered'[f] = 0
        /\ \A g \in Files \ {f} : f_pos'[g] = f_pos[g] /\ delivered'[g] = delivered[g]
    BY <1>1, <2>1
  <2>4. ASSUME NEW u \in Threads, pc'[u] # "idle"
        PROVE  /\ call'[u].file \in MayUse[u]
               /\ Agrees(pc'[u], call'[u].op)
               /\ Storing(pc'[u], call'[u]) /\ Private(call'[u].file) =>
                    delivered'[call'[u].file] <= evicted' + call'[u].pos
    BY <2>1, <2>2, <2>3, <2>4 DEF InOrder
  <2>5. \A g \in Files \ opened' : delivered'[g] = 0
    BY <2>1, <2>3 DEF InOrder
  <2>6. ASSUME NEW g \in Files, Private(g)
        PROVE  \/ delivered'[g] <= evicted' + f_pos'[g]
               \/ \E u \in Threads : /\ pc'[u] = "ret" /\ call'[u].file = g
                                     /\ call'[u].op = "read" /\ call'[u].retval >= 0
    <3>1. CASE g = f
      BY <1>1, <2>1, <2>3, <3>1
    <3>2. CASE g # f
      BY <2>1, <2>3, <2>6, <3>2 DEF InOrder
    <3> QED
      BY <3>1, <3>2
  <2> QED
    BY <2>4, <2>5, <2>6 DEF InOrder, Private
<1> QED
  BY <1>2, <1>3, <1>4, <1>5

\* Nothing has been delivered at the start.
LEMMA InitInOrder == Init => InOrder
<1> SUFFICES ASSUME Init PROVE InOrder
  OBVIOUS
<1>1. \A f \in Files : delivered[f] = 0 /\ evicted + f_pos[f] = 0
  BY DEF Init
<1> QED
  BY <1>1 DEF Init, InOrder

\* Every step keeps the order.
LEMMA InOrderNext ==
  ASSUME IInv, InOrder, [Next]_vars
  PROVE  InOrder'
<1>1. CASE \/ aesd_init_module
           \/ aesd_cleanup_module
           \/ \E f \in Files : aesd_open(f) \/ aesd_release(f)
  BY <1>1, ModuleInOrder
<1>2. CASE \E t \in Threads : Lock(t)
  BY <1>2, ReadInOrder, WriteInOrder, SeekInOrder DEF Lock
<1>3. CASE \E t \in Threads : Finish(t)
  BY <1>3, ReadInOrder, WriteInOrder, SeekInOrder, ReturnInOrder DEF Finish
<1>4. CASE \E t \in Threads : \E f \in Files : Enter(t, f)
  BY <1>4, EnterInOrder
<1>5. CASE UNCHANGED vars
  BY <1>5 DEF vars, files, history, InOrder, Private
<1> QED
  BY <1>1, <1>2, <1>3, <1>4, <1>5 DEF Next

\* aesd_read never serves a byte twice to a file that one thread uses: what
\* evictions do to the position under it is to make it skip ahead.
THEOREM ReadsGoForward == Spec => ReadsMoveForward
<1> DEFINE A == \A t \in Threads :
                  (pc[t] = "read_copy" /\ pc'[t] = "ret" /\ Private(call[t].file))
                    => evicted + call[t].pos >= delivered[call[t].file]
<1>1. Init => InOrder
  BY InitInOrder
<1>2. IInv /\ InOrder /\ [Next]_vars => InOrder'
  BY InOrderNext
<1>3. IInv /\ InOrder /\ [Next]_vars => [A]_vars
  <2> SUFFICES ASSUME IInv, InOrder, NEW t \in Threads,
                      pc[t] = "read_copy", Private(call[t].file)
               PROVE  evicted + call[t].pos >= delivered[call[t].file]
    OBVIOUS
  <2> DEFINE f == call[t].file
             pos == call[t].pos
  <2>1. delivered[f] <= evicted + pos
    BY DEF InOrder, Agrees, Storing
  <2>2. delivered[f] \in Nat /\ evicted \in Nat /\ pos \in Nat
    <3>1. f \in Files /\ call[t] \in Call
      BY DEF IInv, TypeOK, CallWellFormed
    <3> QED
      BY <3>1 DEF IInv, TypeOK, Call
  <2> HIDE DEF f, pos
  <2>3. evicted + pos >= delivered[f]
    BY <2>1, <2>2
  <2> QED
    BY <2>3 DEF f, pos
<1> QED
  BY <1>1, <1>2, <1>3, Invariance, PTL DEF Spec, ReadsMoveForward

-----------------------------------------------------------------------------
(***************************************************************************)
(* The driver implements AtomicDevice                                      *)
(***************************************************************************)

\* a call that works with a copy of the position it has not moved
Copies(label, c) ==
  \/ label \in {"read", "read_copy", "write", "write_copy"}
  \/ label = "ret" /\ c.op = "write" /\ c.retval >= 0

\* A write carries what user space handed over, and on a file that one thread
\* uses the copy of the position is still the position.
CopiesInStep ==
  \A t \in Threads :
    /\ pc[t] \in {"write", "write_copy"} => call[t].data \in Payloads
    /\ Copies(pc[t], call[t]) /\ Private(call[t].file) =>
         call[t].pos = f_pos[call[t].file]

\* Unless bytes of the unfinished command were lost, strchr has seen all of
\* them and found no newline to stop at.
EntryUnended ==
  ~damaged =>
    \A i \in 1 .. entry.size :
      /\ entry.buffptr[i] # UNINIT
      /\ entry.buffptr[i] = NEWLINE =>
           \E j \in 1 .. i - 1 : entry.buffptr[j] = NUL

\* Thread t takes a step of a call on file g: it leaves the other threads and
\* the positions of the other files alone.
Moves(t, g) ==
  /\ g \in MayUse[t] /\ (pc[t] # "idle" => call[t].file = g)
  /\ \A u \in Threads \ {t} : pc'[u] = pc[u] /\ call'[u] = call[u]
  /\ pc'[t] # "idle" => call'[t].file = g
  /\ \A h \in Files \ {g} : f_pos'[h] = f_pos[h]
  /\ pc'[t] \in {"write", "write_copy"} => call'[t].data \in Payloads
  /\ Copies(pc'[t], call'[t]) /\ Private(g) => call'[t].pos = f_pos'[g]

\* What the steps of the handlers leave behind.
LEMMA Leaves ==
  ASSUME IInv, NEW t \in Threads
  PROVE  /\ \A pos, data, retval : UnlockAndReturn(t, pos, data, retval) =>
              /\ pc'[t] = "ret"
              /\ call'[t].op = call[t].op /\ call'[t].file = call[t].file
              /\ call'[t].pos = pos /\ call'[t].data = data /\ call'[t].retval = retval
              /\ \A u \in Threads \ {t} : pc'[u] = pc[u] /\ call'[u] = call[u]
         /\ \A label, c : Hold(t, label, c) =>
              /\ pc'[t] = label /\ call'[t] = c
              /\ \A u \in Threads \ {t} : pc'[u] = pc[u] /\ call'[u] = call[u]
<1>1. pc \in [Threads -> Labels] /\ call \in [Threads -> Call]
  BY DEF IInv, TypeOK
<1>2. ASSUME NEW pos, NEW data, NEW retval, UnlockAndReturn(t, pos, data, retval)
      PROVE  /\ pc'[t] = "ret"
             /\ call'[t].op = call[t].op /\ call'[t].file = call[t].file
             /\ call'[t].pos = pos /\ call'[t].data = data /\ call'[t].retval = retval
             /\ \A u \in Threads \ {t} : pc'[u] = pc[u] /\ call'[u] = call[u]
  <2> DEFINE n == [NoCall EXCEPT !.op = call[t].op, !.file = call[t].file,
                                 !.pos = pos, !.data = data, !.retval = retval]
  <2>1. /\ n.op = call[t].op /\ n.file = call[t].file
        /\ n.pos = pos /\ n.data = data /\ n.retval = retval
    BY DEF NoCall
  <2>2. pc' = [pc EXCEPT ![t] = "ret"] /\ call' = [call EXCEPT ![t] = n]
    BY <1>2 DEF UnlockAndReturn
  <2> HIDE DEF n
  <2>3. /\ pc'[t] = "ret" /\ call'[t] = n
        /\ \A u \in Threads \ {t} : pc'[u] = pc[u] /\ call'[u] = call[u]
    BY <1>1, <2>2
  <2> QED
    BY <2>1, <2>3, Zenon
<1>3. ASSUME NEW label, NEW c, Hold(t, label, c)
      PROVE  /\ pc'[t] = label /\ call'[t] = c
             /\ \A u \in Threads \ {t} : pc'[u] = pc[u] /\ call'[u] = call[u]
  BY <1>1, <1>3 DEF Hold
<1> QED
  BY <1>2, <1>3

\* A step inside a handler, or at its end, is a step on the file of the call.
LEMMA HandlerMoves ==
  ASSUME IInv, InOrder, CopiesInStep, NEW t \in Threads,
         Lock(t) \/ aesd_read_copy(t) \/ aesd_write_copy(t) \/ aesd_llseek_set(t)
  PROVE  Moves(t, call[t].file)
<1> DEFINE c == call[t]
           g == call[t].file
<1>1. /\ pc[t] \in {"read", "read_copy", "write", "write_copy", "llseek",
                    "llseek_set", "ioctl"}
  BY DEF Lock, aesd_read_find, aesd_write_alloc, aesd_llseek, aesd_ioctl,
         aesd_read_copy, aesd_write_copy, aesd_llseek_set
<1>2. /\ c \in Call /\ g \in MayUse[t] /\ Agrees(pc[t], c.op) /\ g \in Files
      /\ f_pos \in [Files -> Nat]
  BY <1>1 DEF IInv, TypeOK, InOrder, CallWellFormed
<1>3. /\ pc[t] \in {"write", "write_copy"} => c.data \in Payloads
      /\ Copies(pc[t], c) /\ Private(g) => c.pos = f_pos[g]
  BY DEF CopiesInStep
<1>4. \A h \in Files \ {g} : f_pos'[h] = f_pos[h]
  <2>1. f_pos' = f_pos \/ \E p : f_pos' = [f_pos EXCEPT ![g] = p]
    BY DEF Lock, aesd_read_find, aesd_write_alloc, aesd_llseek, aesd_ioctl,
           aesd_read_copy, aesd_write_copy, aesd_llseek_set, files
  <2> HIDE DEF g
  <2> QED
    BY <1>2, <2>1, SMTT(30)
<1>5. ASSUME NEW pos, NEW data, NEW retval, UnlockAndReturn(t, pos, data, retval),
             c.op = "write" /\ retval >= 0 => pos = c.pos /\ f_pos' = f_pos /\ Copies(pc[t], c)
      PROVE  Moves(t, g)
  <2>1. /\ pc'[t] = "ret" /\ call'[t].op = c.op /\ call'[t].file = g
        /\ call'[t].pos = pos /\ call'[t].retval = retval
        /\ \A u \in Threads \ {t} : pc'[u] = pc[u] /\ call'[u] = call[u]
    BY <1>5, Leaves
  <2>2. Copies(pc'[t], call'[t]) /\ Private(g) => call'[t].pos = f_pos'[g]
    BY <1>3, <1>5, <2>1 DEF Copies
  <2> HIDE DEF c, g
  <2> QED
    BY <1>1, <1>2, <1>4, <2>1, <2>2 DEF Moves, g
<1>6. ASSUME NEW label, NEW n, Hold(t, label, n), n.file = g, label # "idle",
             label \in {"write", "write_copy"} => n.data \in Payloads,
             Copies(label, n) /\ Private(g) => n.pos = f_pos'[g]
      PROVE  Moves(t, g)
  <2>1. /\ pc'[t] = label /\ call'[t] = n
        /\ \A u \in Threads \ {t} : pc'[u] = pc[u] /\ call'[u] = call[u]
    BY <1>6, Leaves
  <2> QED
    BY <1>1, <1>2, <1>4, <1>6, <2>1 DEF Moves
<1>7. CASE aesd_read_find(t)
  <2> DEFINE hit == aesd_circular_buffer_find_entry_offset_for_fpos(
                      circular_buffer, c.pos)
             left == circular_buffer.entry[hit.slot].size - hit.offset
             n == [c EXCEPT !.slot = hit.slot, !.offset = hit.offset,
                            !.retval = Min({c.count, left})]
  <2>1. c.op = "read" /\ f_pos' = f_pos /\ Copies(pc[t], c)
    BY <1>2, <1>7 DEF Agrees, aesd_read_find, files, Copies
  <2>2. n.file = g /\ n.pos = c.pos
    BY <1>2 DEF Call
  <2>3. UnlockAndReturn(t, c.pos, << >>, 0) \/ Hold(t, "read_copy", n)
    BY <1>7 DEF aesd_read_find
  <2> HIDE DEF n
  <2> QED
    BY <1>3, <1>5, <1>6, <2>1, <2>2, <2>3
<1>8. CASE aesd_write_alloc(t)
  <2>1. f_pos' = f_pos /\ pc[t] = "write" /\ Copies(pc[t], c)
    BY <1>8 DEF aesd_write_alloc, files, Copies
  <2>2. ~(ENOMEM >= 0)
    BY SMT DEF ENOMEM
  <2>3. UnlockAndReturn(t, 0, << >>, ENOMEM) \/ Hold(t, "write_copy", c)
    BY <1>8 DEF aesd_write_alloc, UnlockAndFail
  <2> QED
    BY <1>3, <1>5, <1>6, <2>1, <2>2, <2>3
<1>9. CASE aesd_llseek(t)
  <2>1. pc[t] = "llseek" /\ c.op = "llseek"
    BY <1>2, <1>9 DEF aesd_llseek, Agrees
  <2>2. \/ UnlockAndReturn(t, 0, << >>, EINVAL)
        \/ \E p : Hold(t, "llseek_set", [c EXCEPT !.pos = p])
    BY <1>9 DEF aesd_llseek, UnlockAndFail
  <2>3. ASSUME NEW p PROVE [c EXCEPT !.pos = p].file = g
    BY <1>2 DEF Call
  <2>4. \A n : ~Copies("llseek_set", n)
    BY DEF Copies
  <2> QED
    BY <1>5, <1>6, <2>1, <2>2, <2>3, <2>4
<1>10. CASE aesd_ioctl(t) \/ aesd_llseek_set(t)
  <2>1. c.op \in {"ioctl", "llseek"}
    BY <1>2, <1>10 DEF aesd_ioctl, aesd_llseek_set, Agrees
  <2>2. \E pos, data, retval : UnlockAndReturn(t, pos, data, retval)
    BY <1>10 DEF aesd_ioctl, aesd_llseek_set, UnlockAndFail
  <2> QED
    BY <1>5, <2>1, <2>2
<1>11. CASE aesd_read_copy(t)
  <2>1. c.op = "read"
    BY <1>2, <1>11 DEF aesd_read_copy, Agrees
  <2>2. \E pos, data, retval : UnlockAndReturn(t, pos, data, retval)
    BY <1>11 DEF aesd_read_copy, UnlockAndFail
  <2> QED
    BY <1>5, <2>1, <2>2
<1>12. CASE aesd_write_copy(t)
  <2>1. \E k : UnlockAndReturn(t, c.pos, << >>, k)
    BY <1>12, SMTT(30) DEF aesd_write_copy
  <2>2. f_pos' = f_pos /\ Copies(pc[t], c)
    BY <1>12 DEF aesd_write_copy, files, Copies
  <2> QED
    BY <1>5, <2>1, <2>2, SMTT(30)
<1> QED
  BY <1>7, <1>8, <1>9, <1>10, <1>11, <1>12, SMTT(30) DEF Lock

\* The same for the way in and the way out of the kernel.
LEMMA BorderMoves ==
  ASSUME IInv, InOrder, NEW t \in Threads
  PROVE  /\ Return(t) => Moves(t, call[t].file)
         /\ \A f \in Files : Enter(t, f) => Moves(t, f)
<1>1. /\ pc \in [Threads -> Labels] /\ call \in [Threads -> Call]
      /\ f_pos \in [Files -> Nat]
  BY DEF IInv, TypeOK
<1>2. ASSUME Return(t) PROVE Moves(t, call[t].file)
  <2>1. /\ pc[t] = "ret" /\ pc' = [pc EXCEPT ![t] = "idle"]
        /\ call' = [call EXCEPT ![t] = NoCall]
        /\ f_pos' = f_pos \/ f_pos' = [f_pos EXCEPT ![call[t].file] = call[t].pos]
    BY <1>2 DEF Return
  <2>2. pc'[t] = "idle" /\ ~Copies(pc'[t], call'[t])
    BY <1>1, <2>1 DEF Copies
  <2>3. call[t].file \in MayUse[t]
    BY <2>1 DEF InOrder
  <2>4. \A h \in Files \ {call[t].file} : f_pos'[h] = f_pos[h]
    BY <1>1, <2>1
  <2>5. \A u \in Threads \ {t} : pc'[u] = pc[u] /\ call'[u] = call[u]
    BY <1>1, <2>1
  <2> QED
    BY <2>1, <2>2, <2>3, <2>4, <2>5 DEF Moves
<1>3. ASSUME NEW f \in Files, Enter(t, f) PROVE Moves(t, f)
  <2>1. PICK args \in Call : BeginsWith(t, f, args)
    BY <1>3, EnterBegins
  <2> DEFINE c == [args EXCEPT !.file = f]
  <2>2. c.op = args.op /\ c.file = f /\ c.pos = args.pos /\ c.data = args.data
    BY DEF Call
  <2>3. /\ pc[t] = "idle" /\ f \in MayUse[t] /\ f_pos' = f_pos
        /\ pc' = [pc EXCEPT ![t] = args.op] /\ call' = [call EXCEPT ![t] = c]
        /\ args.op \in Ops
    BY <2>1 DEF BeginsWith, Begin, files
  <2> HIDE DEF c
  <2>4. /\ pc'[t] = args.op /\ call'[t] = c
        /\ \A u \in Threads \ {t} : pc'[u] = pc[u] /\ call'[u] = call[u]
    BY <1>1, <2>3
  <2>5. Copies(args.op, c) => args.op \in {"read", "write"}
    BY <2>3 DEF Copies, Ops
  <2>6. args.op \in {"write", "write_copy"} => args.op = "write"
    BY <2>3 DEF Ops
  <2> QED
    BY <2>1, <2>2, <2>3, <2>4, <2>5, <2>6 DEF Moves, BeginsWith
<1> QED
  BY <1>2, <1>3

\* The steps of a thread, and the others.
LEMMA WhoseStep ==
  ASSUME IInv, InOrder, CopiesInStep, [Next]_vars
  PROVE  \/ \E t \in Threads : \E g \in Files : Moves(t, g)
         \/ /\ pc' = pc /\ call' = call
            /\ f_pos' = f_pos \/ \E f \in Files : aesd_release(f)
<1>1. CASE \/ aesd_init_module
           \/ aesd_cleanup_module
           \/ \E f \in Files : aesd_open(f) \/ aesd_release(f)
           \/ UNCHANGED vars
  BY <1>1
  DEF aesd_init_module, aesd_cleanup_module, aesd_open, aesd_release, vars, files
<1>2. ASSUME NEW t \in Threads, Lock(t) \/ Finish(t)
      PROVE  \E g \in Files : Moves(t, g)
  <2>1. Moves(t, call[t].file)
    BY <1>2, HandlerMoves, BorderMoves, SMTT(30) DEF Finish
  <2>2. pc[t] # "idle"
    BY <1>2
    DEF Lock, Finish, aesd_read_find, aesd_write_alloc, aesd_llseek, aesd_ioctl,
        aesd_read_copy, aesd_write_copy, aesd_llseek_set, Return
  <2>3. call[t].file \in Files
    BY <2>2 DEF IInv, TypeOK, CallWellFormed
  <2> QED
    BY <2>1, <2>3
<1>3. ASSUME NEW t \in Threads, \E f \in Files : Enter(t, f)
      PROVE  \E g \in Files : Moves(t, g)
  BY <1>3, BorderMoves
<1> QED
  BY <1>1, <1>2, <1>3 DEF Next

\* The copies stay in step: nobody else moves the position of a private file.
LEMMA CopiesNext ==
  ASSUME IInv, InOrder, CopiesInStep, [Next]_vars
  PROVE  CopiesInStep'
<1>1. ASSUME NEW t \in Threads, NEW g \in Files, Moves(t, g)
      PROVE  CopiesInStep'
  <2> SUFFICES ASSUME NEW u \in Threads
               PROVE  /\ pc'[u] \in {"write", "write_copy"} => call'[u].data \in Payloads
                      /\ Copies(pc'[u], call'[u]) /\ Private(call'[u].file) =>
                           call'[u].pos = f_pos'[call'[u].file]
    BY DEF CopiesInStep, Copies, Private
  <2>1. CASE u = t
    <3>1. Copies(pc'[t], call'[t]) => pc'[t] # "idle"
      BY DEF Copies
    <3> QED
      BY <1>1, <2>1, <3>1 DEF Moves
  <2>2. CASE u # t
    <3>1. pc'[u] = pc[u] /\ call'[u] = call[u] /\ g \in MayUse[t]
      BY <1>1, <2>2 DEF Moves
    <3>2. Copies(pc[u], call[u]) => pc[u] # "idle"
      BY DEF Copies
    <3>3. pc[u] # "idle" => call[u].file \in MayUse[u] /\ call[u].file \in Files
      BY DEF InOrder, IInv, TypeOK, CallWellFormed
    <3>4. pc[u] # "idle" /\ Private(call[u].file) => call[u].file # g
      BY <2>2, <3>1, <3>3 DEF Private
    <3>5. pc[u] # "idle" /\ Private(call[u].file) =>
            f_pos'[call[u].file] = f_pos[call[u].file]
      BY <1>1, <3>3, <3>4 DEF Moves
    <3>6. /\ pc[u] \in {"write", "write_copy"} => call[u].data \in Payloads
          /\ Copies(pc[u], call[u]) /\ Private(call[u].file) =>
               call[u].pos = f_pos[call[u].file]
      BY DEF CopiesInStep
    <3> QED
      BY <3>1, <3>2, <3>5, <3>6
  <2> QED
    BY <2>1, <2>2
<1>2. ASSUME pc' = pc, call' = call, f_pos' = f_pos
      PROVE  CopiesInStep'
  BY <1>2 DEF CopiesInStep, Copies, Private
<1>3. ASSUME pc' = pc, call' = call, NEW f \in Files, aesd_release(f)
      PROVE  CopiesInStep'
  <2>1. f_pos' = [f_pos EXCEPT ![f] = 0] /\ \A u \in Threads : call[u].file # f
    BY <1>3 DEF aesd_release
  <2>2. f_pos \in [Files -> Nat]
    BY DEF IInv, TypeOK
  <2>3. \A h \in Files \ {f} : f_pos'[h] = f_pos[h]
    BY <2>1, <2>2
  <2>4. ASSUME NEW u \in Threads, Copies(pc[u], call[u])
        PROVE  f_pos'[call[u].file] = f_pos[call[u].file]
    <3>1. pc[u] # "idle"
      BY <2>4 DEF Copies
    <3>2. call[u].file \in Files \ {f}
      BY <2>1, <3>1 DEF IInv, TypeOK, CallWellFormed
    <3> QED
      BY <2>3, <3>2
  <2> QED
    BY <1>3, <2>4 DEF CopiesInStep, Copies, Private
<1> QED
  BY <1>1, <1>2, <1>3, WhoseStep

\* the block after copy_from_user has copied k bytes of data
Block(data, k) == SubSeq(entry.buffptr, 1, entry.size) \o CopiedFromUser(data, k)

\* Where the bytes of a write that copied k of them end up.
LEMMA WrittenAt ==
  ASSUME entry \in Entry, entry.size <= Len(entry.buffptr),
         NEW data \in Seq(Byte), data # << >>, NEW k \in 0 .. Len(data),
         NEW block, block = Block(data, k)
  PROVE  /\ block \in Seq(Byte) /\ Len(block) = entry.size + Len(data)
         /\ \A i \in 1 .. entry.size : block[i] = entry.buffptr[i]
         /\ \A i \in 1 .. k : block[entry.size + i] = data[i]
         /\ k = 0 => block[entry.size + 1] = NUL
<1> DEFINE old == Bytes(entry)
           got == SubSeq(data, 1, k)
           rest == Filled(Len(data) - k, NUL)
           new == got \o rest
           n == entry.size
<1>1. /\ n \in Nat /\ k \in Nat /\ Len(data) \in Nat /\ Len(data) - k \in Nat
      /\ Len(data) >= 1 /\ k <= Len(data)
  BY DEF Entry
<1>2. /\ old \in Seq(Byte) /\ Len(old) = n
      /\ \A i \in 1 .. n : old[i] = entry.buffptr[i]
  BY BytesType
<1>3. got \in Seq(Byte) /\ Len(got) = k /\ \A i \in 1 .. k : got[i] = data[i]
  OBVIOUS
<1>4. /\ rest \in Seq(Byte) /\ Len(rest) = Len(data) - k
      /\ \A i \in 1 .. Len(data) - k : rest[i] = NUL
  BY <1>1, AesdCharAssumption, FilledType
<1>5. block = old \o new
  BY DEF Block, Bytes, CopiedFromUser
<1> HIDE DEF old, got, rest, n
<1>6. /\ new \in Seq(Byte) /\ Len(new) = k + Len(rest)
      /\ \A i \in 1 .. k + Len(rest) :
           new[i] = IF i <= k THEN got[i] ELSE rest[i - k]
  <2>1. /\ new \in Seq(Byte) /\ Len(new) = Len(got) + Len(rest)
        /\ \A i \in 1 .. Len(got) + Len(rest) :
             new[i] = IF i <= Len(got) THEN got[i] ELSE rest[i - Len(got)]
    BY <1>3, <1>4, ConcatBytes, Zenon
  <2> HIDE DEF new
  <2> QED
    BY <1>3, <2>1
<1> HIDE DEF new
<1>7. /\ block \in Seq(Byte) /\ Len(block) = n + Len(new)
      /\ \A i \in 1 .. n + Len(new) :
           block[i] = IF i <= n THEN old[i] ELSE new[i - n]
  <2> DEFINE z == old \o new
  <2>1. /\ z \in Seq(Byte) /\ Len(z) = Len(old) + Len(new)
        /\ \A i \in 1 .. Len(old) + Len(new) :
             z[i] = IF i <= Len(old) THEN old[i] ELSE new[i - Len(old)]
    BY <1>2, <1>6, ConcatBytes, Zenon
  <2>2. block = z
    BY <1>5
  <2> HIDE DEF z
  <2> QED
    BY <1>2, <2>1, <2>2
<1>8. Len(new) = Len(data)
  BY <1>1, <1>4, <1>6
<1>9. ASSUME NEW i \in 1 .. n PROVE block[i] = entry.buffptr[i]
  BY <1>1, <1>2, <1>7, <1>8
<1>10. ASSUME NEW i \in 1 .. Len(data) PROVE block[n + i] = new[i]
  <2>1. n + i \in 1 .. n + Len(new) /\ ~(n + i <= n) /\ (n + i) - n = i
    BY <1>1, <1>8
  <2> QED
    BY <1>7, <2>1
<1>11. ASSUME NEW i \in 1 .. k PROVE block[n + i] = data[i]
  <2>1. i \in 1 .. Len(data) /\ i \in 1 .. k + Len(rest) /\ i <= k
    BY <1>1, <1>4
  <2> QED
    BY <1>3, <1>6, <1>10, <2>1
<1>12. ASSUME k = 0 PROVE block[n + 1] = NUL
  <2>1. /\ 1 \in 1 .. Len(data) /\ 1 \in 1 .. k + Len(rest) /\ ~(1 <= k) /\ 1 - k = 1
        /\ 1 \in 1 .. Len(data) - k
    BY <1>1, <1>4, <1>12
  <2> QED
    BY <1>4, <1>6, <1>10, <2>1
<1> QED
  BY <1>7, <1>8, <1>9, <1>11, <1>12 DEF n

\* What strchr may find in a block, it may find in the command at its start.
LEMMA StopsOfPrefix ==
  ASSUME NEW x \in Seq(Byte), NEW y \in Seq(Byte), NEW c \in StrchrStops(x \o y)
  PROVE  c \in StrchrStops(x)
<1> DEFINE z == x \o y
<1>1. /\ z \in Seq(Byte) /\ Len(z) = Len(x) + Len(y)
      /\ \A i \in 1 .. Len(x) + Len(y) :
           z[i] = IF i <= Len(x) THEN x[i] ELSE y[i - Len(x)]
  BY ConcatBytes
<1>2. c \in StrchrStops(z)
  OBVIOUS
<1> HIDE DEF z
<1>3. Len(x) \in Nat /\ Len(y) \in Nat
  OBVIOUS
<1>4. c \in {NEWLINE, NUL} /\ \E m \in 1 .. Len(z) + 1 :
        /\ \A j \in 1 .. m - 1 : z[j] \notin {NEWLINE, NUL}
        /\ m = Len(z) + 1 \/ z[m] \in {c, UNINIT}
  BY <1>2 DEF StrchrStops
<1>5. PICK m \in 1 .. Len(z) + 1 :
        /\ \A j \in 1 .. m - 1 : z[j] \notin {NEWLINE, NUL}
        /\ m = Len(z) + 1 \/ z[m] \in {c, UNINIT}
  BY <1>4
<1>6. \A i \in 1 .. Len(x) : z[i] = x[i]
  BY <1>1, <1>3
<1>7. CASE m <= Len(x)
  <2>1. m \in 1 .. Len(x) + 1 /\ m # Len(z) + 1 /\ m \in 1 .. Len(x)
    BY <1>1, <1>3, <1>7
  <2>2. \A j \in 1 .. m - 1 : x[j] \notin {NEWLINE, NUL}
    BY <1>3, <1>5, <1>6, <1>7
  <2>3. x[m] \in {c, UNINIT}
    BY <1>5, <1>6, <2>1
  <2> QED
    BY <1>4, <2>1, <2>2, <2>3 DEF StrchrStops
<1>8. CASE m > Len(x)
  <2> DEFINE l == Len(x) + 1
  <2>1. l \in 1 .. Len(x) + 1 /\ l = Len(x) + 1
    BY <1>3
  <2>2. \A j \in 1 .. l - 1 : x[j] \notin {NEWLINE, NUL}
    BY <1>1, <1>3, <1>5, <1>6, <1>8
  <2> HIDE DEF l
  <2> QED
    BY <1>4, <2>1, <2>2 DEF StrchrStops
<1> QED
  BY <1>1, <1>3, <1>5, <1>7, <1>8

\* strchr has seen the unfinished command: a write that could copy nothing
\* does not finish it, and what a write leaves unfinished is unended again.
LEMMA WrittenUnended ==
  ASSUME entry \in Entry, entry.size <= Len(entry.buffptr), EntryUnended, ~damaged,
         NEW data \in Payloads, NEW k \in 0 .. Len(data),
         NEW block, block = Block(data, k)
  PROVE  /\ k = 0 => NEWLINE \notin StrchrStops(block)
         /\ NUL \in StrchrStops(block) =>
              \A i \in 1 .. entry.size + k :
                /\ block[i] # UNINIT
                /\ block[i] = NEWLINE => \E j \in 1 .. i - 1 : block[j] = NUL
<1> DEFINE n == entry.size
<1>1. data \in Seq(Byte) /\ data # << >> /\ \A i \in 1 .. Len(data) : data[i] # UNINIT
  <2>1. data \in Seq(Byte \ {UNINIT}) /\ data # << >>
    BY AesdCharAssumption
  <2> QED
    BY <2>1
<1>2. n \in Nat /\ k \in Nat /\ Len(data) \in Nat /\ Len(data) >= 1 /\ k <= Len(data)
  BY <1>1 DEF Entry
<1>3. /\ block \in Seq(Byte) /\ Len(block) = n + Len(data)
      /\ \A i \in 1 .. n : block[i] = entry.buffptr[i]
      /\ \A i \in 1 .. k : block[n + i] = data[i]
      /\ k = 0 => block[n + 1] = NUL
  BY <1>1, WrittenAt
<1>4. \A i \in 1 .. n : /\ block[i] # UNINIT
                        /\ block[i] = NEWLINE => \E j \in 1 .. i - 1 : block[j] = NUL
  <2> SUFFICES ASSUME NEW i \in 1 .. n
               PROVE  /\ block[i] # UNINIT
                      /\ block[i] = NEWLINE => \E j \in 1 .. i - 1 : block[j] = NUL
    OBVIOUS
  <2>1. /\ entry.buffptr[i] # UNINIT
        /\ entry.buffptr[i] = NEWLINE => \E j \in 1 .. i - 1 : entry.buffptr[j] = NUL
    BY DEF EntryUnended
  <2>2. \A j \in 1 .. i - 1 : j \in 1 .. n
    BY <1>2
  <2> QED
    BY <1>3, <2>1, <2>2
<1> HIDE DEF n
<1>5. NUL # NEWLINE /\ NUL # UNINIT
  BY AesdCharAssumption
<1>6. ASSUME k = 0, NEWLINE \in StrchrStops(block) PROVE FALSE
  <2>1. PICK m \in 1 .. Len(block) + 1 :
          /\ \A j \in 1 .. m - 1 : block[j] \notin {NEWLINE, NUL}
          /\ m = Len(block) + 1 \/ block[m] \in {NEWLINE, UNINIT}
    BY <1>6 DEF StrchrStops
  <2>2. block[n + 1] = NUL
    BY <1>3, <1>6
  <2>3. ~(n + 1 \in 1 .. m - 1)
    BY <2>1, <2>2
  <2>4. m <= n + 1
    BY <1>2, <1>3, <2>3
  <2>5. m # n + 1
    BY <1>2, <1>3, <1>5, <2>1, <2>2
  <2>6. m \in 1 .. n /\ m # Len(block) + 1
    BY <1>2, <1>3, <2>4, <2>5
  <2> QED
    BY <1>4, <2>1, <2>6
<1>7. ASSUME NUL \in StrchrStops(block), NEW i \in 1 .. n + k
      PROVE  /\ block[i] # UNINIT
             /\ block[i] = NEWLINE => \E j \in 1 .. i - 1 : block[j] = NUL
  <2>1. ASSUME NEW j \in 1 .. n + k PROVE block[j] # UNINIT
    <3>1. CASE j <= n
      <4>1. j \in 1 .. n
        BY <1>2, <3>1
      <4> QED
        BY <1>4, <4>1
    <3>2. CASE j > n
      <4>1. j - n \in 1 .. k /\ j - n \in 1 .. Len(data) /\ n + (j - n) = j
        BY <1>2, <3>2
      <4> QED
        BY <1>1, <1>3, <4>1
    <3> QED
      BY <1>2, <3>1, <3>2
  <2>2. PICK m \in 1 .. Len(block) + 1 :
          /\ \A j \in 1 .. m - 1 : block[j] \notin {NEWLINE, NUL}
          /\ m = Len(block) + 1 \/ block[m] \in {NUL, UNINIT}
    BY <1>7 DEF StrchrStops
  <2>3. ASSUME block[i] = NEWLINE PROVE \E j \in 1 .. i - 1 : block[j] = NUL
    <3>1. ~(i \in 1 .. m - 1)
      BY <2>2, <2>3
    <3>2. m <= i /\ m # Len(block) + 1 /\ m \in 1 .. n + k
      BY <1>2, <1>3, <3>1
    <3>3. block[m] = NUL
      BY <2>1, <2>2, <3>2
    <3>4. m # i
      BY <1>5, <2>3, <3>3
    <3>5. m \in 1 .. i - 1
      BY <1>2, <3>2, <3>4
    <3> QED
      BY <3>3, <3>5
  <2> QED
    BY <2>1, <2>3
<1> QED
  BY <1>6, <1>7 DEF n

\* Every step keeps the unfinished command unended.
LEMMA UnendedNext ==
  ASSUME IInv, Stream, CopiesInStep, EntryUnended, [Next]_vars
  PROVE  EntryUnended'
<1> SUFFICES ASSUME ~damaged'
             PROVE  \A i \in 1 .. entry'.size :
                      /\ entry'.buffptr[i] # UNINIT
                      /\ entry'.buffptr[i] = NEWLINE =>
                           \E j \in 1 .. i - 1 : entry'.buffptr[j] = NUL
  BY DEF EntryUnended
<1>0. entry \in Entry /\ entry.size \in Nat /\ entry.buffptr \in Seq(Byte)
  <2>1. entry \in Entry
    BY DEF IInv, TypeOK
  <2> QED
    BY <2>1 DEF Entry
<1>1. CASE /\ circular_buffer' = circular_buffer /\ entry' = entry
           /\ accepted' = accepted /\ evicted' = evicted /\ damaged' = damaged
  BY <1>1 DEF EntryUnended
<1>2. CASE entry' = NoEntry
  BY <1>2 DEF NoEntry
<1>3. ASSUME NEW t \in Threads, aesd_write_alloc(t)
      PROVE  \A i \in 1 .. entry'.size :
               /\ entry'.buffptr[i] # UNINIT
               /\ entry'.buffptr[i] = NEWLINE =>
                    \E j \in 1 .. i - 1 : entry'.buffptr[j] = NUL
  <2>1. CASE /\ entry' = [entry EXCEPT !.buffptr = Allocated(call[t].count)]
             /\ UNCHANGED damaged
    <3> DEFINE n == entry.size
               old == entry.buffptr
               new == Allocated(call[t].count)
    <3>1. n <= Len(old) /\ ~damaged
      BY <2>1 DEF Stream
    <3>2. call[t].count \in Nat
      BY DEF IInv, TypeOK, Call
    <3>3. new \in Seq(Byte) /\ Len(new) = n + call[t].count
      BY <1>0, <3>1, <3>2, AllocatedType
    <3>4. SubSeq(new, 1, n) = SubSeq(old, 1, n)
      BY <1>0, <3>1, <3>2, AllocatedKeeps DEF Bytes
    <3>5. entry'.size = n /\ entry'.buffptr = new
      BY <1>0, <2>1 DEF Entry
    <3>6. \A i \in 1 .. n : /\ old[i] # UNINIT
                            /\ old[i] = NEWLINE => \E j \in 1 .. i - 1 : old[j] = NUL
      BY <3>1 DEF EntryUnended
    <3>7. n \in Nat /\ old \in Seq(Byte)
      BY <1>0
    <3> HIDE DEF n, old, new
    <3>8. \A i \in 1 .. n : new[i] = old[i]
      <4>1. \A i \in 1 .. n : SubSeq(new, 1, n)[i] = new[i]
        BY <3>2, <3>3, <3>7
      <4>2. \A i \in 1 .. n : SubSeq(old, 1, n)[i] = old[i]
        BY <3>1, <3>7
      <4> QED
        BY <3>4, <4>1, <4>2, Zenon
    <3>9. \A i \in 1 .. n : \A j \in 1 .. i - 1 : j \in 1 .. n
      BY <3>7
    <3> QED
      BY <3>5, <3>6, <3>8, <3>9
  <2>2. CASE /\ entry' = [entry EXCEPT !.buffptr = NULL]
             /\ damaged' = (damaged \/ entry.size > 0)
    <3>1. ~(damaged \/ entry.size > 0)
      BY <2>2, Zenon
    <3>2. entry'.size = 0
      BY <1>0, <2>2, <3>1 DEF Entry
    <3> QED
      BY <3>2
  <2> QED
    BY <1>3, <2>1, <2>2 DEF aesd_write_alloc
<1>4. ASSUME NEW t \in Threads, aesd_write_copy(t)
      PROVE  \A i \in 1 .. entry'.size :
               /\ entry'.buffptr[i] # UNINIT
               /\ entry'.buffptr[i] = NEWLINE =>
                    \E j \in 1 .. i - 1 : entry'.buffptr[j] = NUL
  <2> DEFINE data == call[t].data
             block(k) == Block(data, k)
  <2>1. /\ ~damaged /\ data \in Payloads /\ call[t].count = Len(data)
        /\ entry.size <= Len(entry.buffptr)
    BY <1>4 DEF aesd_write_copy, Stream, CopiesInStep, IInv, CallWellFormed
  <2>2. PICK k \in 0 .. call[t].count :
          \/ entry' = NoEntry
          \/ /\ NUL \in StrchrStops(block(k))
             /\ entry' = [buffptr |-> block(k), size |-> entry.size + k]
    BY <1>4 DEF aesd_write_copy, Block
  <2>3. CASE /\ NUL \in StrchrStops(block(k))
             /\ entry' = [buffptr |-> block(k), size |-> entry.size + k]
    <3> DEFINE b == block(k)
    <3>1. \A i \in 1 .. entry.size + k :
            /\ b[i] # UNINIT
            /\ b[i] = NEWLINE => \E j \in 1 .. i - 1 : b[j] = NUL
      BY <1>0, <2>1, <2>3, WrittenUnended
    <3>2. entry'.size = entry.size + k /\ entry'.buffptr = b
      BY <2>3
    <3> HIDE DEF b
    <3> QED
      BY <3>1, <3>2, Zenon
  <2> QED
    BY <1>2, <2>2, <2>3
<1> QED
  BY <1>1, <1>2, <1>3, <1>4, StreamSteps DEF aesd_init_module

\* a read that is over, but not stored back and returned
Delivers(label, c) == label = "ret" /\ c.op = "read" /\ c.retval >= 0

\* A file whose position and whose finished reads stay looks the same.
LEMMA SeenStays ==
  ASSUME NEW f, HandingOver(f)' = HandingOver(f), f_pos'[f] = f_pos[f],
         \A u \in HandingOver(f) : call'[u] = call[u]
  PROVE  Position(f)' = Position(f) /\ Handed(f)' = Handed(f)
<1> DEFINE S == HandingOver(f)
           s == CHOOSE t \in S : TRUE
<1>1. CASE S = {}
  BY <1>1 DEF Position, Handed
<1>2. CASE S # {}
  <2>1. s \in S /\ call'[s] = call[s]
    BY <1>2
  <2>2. /\ Position(f) = call[s].pos /\ Handed(f) = call[s].data
        /\ Position(f)' = call'[s].pos /\ Handed(f)' = call'[s].data
    <3> HIDE DEF S
    <3>1. S' = S
      BY DEF S
    <3> QED
      BY <1>2, <3>1, Zenon DEF Position, Handed, S
  <2> QED
    BY <2>1, <2>2, Zenon
<1> QED
  BY <1>1, <1>2

\* A step on one file does not show on another one, and a private file shows
\* what the thread that uses it has done.
LEMMA FileStep ==
  ASSUME IInv, InOrder, NEW t \in Threads, NEW g \in Files, Moves(t, g)
  PROVE  /\ \A h \in PrivateFiles \ {g} :
              Position(h)' = Position(h) /\ Handed(h)' = Handed(h)
         /\ g \in PrivateFiles =>
              /\ Position(g) = IF Delivers(pc[t], call[t]) THEN call[t].pos ELSE f_pos[g]
              /\ Handed(g) = IF Delivers(pc[t], call[t]) THEN call[t].data ELSE << >>
              /\ Position(g)' =
                   IF Delivers(pc'[t], call'[t]) THEN call'[t].pos ELSE f_pos'[g]
              /\ Handed(g)' =
                   IF Delivers(pc'[t], call'[t]) THEN call'[t].data ELSE << >>
<1>1. /\ g \in MayUse[t] /\ (pc[t] # "idle" => call[t].file = g)
      /\ \A u \in Threads \ {t} : pc'[u] = pc[u] /\ call'[u] = call[u]
      /\ pc'[t] # "idle" => call'[t].file = g
      /\ \A h \in Files \ {g} : f_pos'[h] = f_pos[h]
  BY DEF Moves
<1>2. ASSUME NEW h \in PrivateFiles \ {g}
      PROVE  Position(h)' = Position(h) /\ Handed(h)' = Handed(h)
  <2>1. h \in Files \ {g}
    BY DEF PrivateFiles
  <2>2. t \notin HandingOver(h) /\ t \notin HandingOver(h)'
    BY <1>1, <2>1 DEF HandingOver
  <2>3. \A u \in Threads \ {t} : u \in HandingOver(h) <=> u \in HandingOver(h)'
    BY <1>1 DEF HandingOver
  <2>4. HandingOver(h) \subseteq Threads /\ HandingOver(h)' \subseteq Threads
    BY DEF HandingOver
  <2>5. HandingOver(h)' = HandingOver(h)
    BY <2>2, <2>3, <2>4
  <2>6. \A u \in HandingOver(h) : call'[u] = call[u]
    BY <1>1, <2>2, <2>4
  <2> QED
    BY <1>1, <2>1, <2>5, <2>6, SeenStays
<1>3. ASSUME g \in PrivateFiles
      PROVE  /\ HandingOver(g) = IF Delivers(pc[t], call[t]) THEN {t} ELSE {}
             /\ HandingOver(g)' = IF Delivers(pc'[t], call'[t]) THEN {t} ELSE {}
  <2>1. ASSUME NEW u \in Threads, u # t PROVE u \notin HandingOver(g)
    <3>1. ASSUME pc[u] = "ret", call[u].file = g PROVE FALSE
      <4>1. g \in MayUse[u]
        BY <3>1 DEF InOrder
      <4> QED
        BY <1>1, <1>3, <2>1, <4>1 DEF PrivateFiles, Private
    <3> QED
      BY <3>1 DEF HandingOver
  <2>2. ASSUME NEW u \in Threads, u # t PROVE u \notin HandingOver(g)'
    BY <1>1, <2>1, <2>2 DEF HandingOver
  <2>3. /\ t \in HandingOver(g) <=> Delivers(pc[t], call[t])
        /\ t \in HandingOver(g)' <=> Delivers(pc'[t], call'[t])
    BY <1>1 DEF HandingOver, Delivers
  <2>4. HandingOver(g) \subseteq Threads /\ HandingOver(g)' \subseteq Threads
    BY DEF HandingOver
  <2> QED
    BY <2>1, <2>2, <2>3, <2>4
<1>4. ASSUME g \in PrivateFiles
      PROVE  /\ Position(g) = IF Delivers(pc[t], call[t]) THEN call[t].pos ELSE f_pos[g]
             /\ Handed(g) = IF Delivers(pc[t], call[t]) THEN call[t].data ELSE << >>
             /\ Position(g)' =
                  IF Delivers(pc'[t], call'[t]) THEN call'[t].pos ELSE f_pos'[g]
             /\ Handed(g)' =
                  IF Delivers(pc'[t], call'[t]) THEN call'[t].data ELSE << >>
  <2>1. (CHOOSE u \in {t} : TRUE) = t
    OBVIOUS
  <2>2. /\ HandingOver(g) = {} => Position(g) = f_pos[g] /\ Handed(g) = << >>
        /\ HandingOver(g) = {t} => Position(g) = call[t].pos /\ Handed(g) = call[t].data
    BY <2>1 DEF Position, Handed
  <2>3. /\ HandingOver(g)' = {} => Position(g)' = f_pos'[g] /\ Handed(g)' = << >>
        /\ HandingOver(g)' = {t} => Position(g)' = call'[t].pos /\ Handed(g)' = call'[t].data
    BY <2>1 DEF Position, Handed
  <2> QED
    BY <1>3, <1>4, <2>2, <2>3
<1> QED
  BY <1>2, <1>4

\* the abstract state of the files
Positions == [f \in PrivateFiles |-> Position(f)]
Holdings  == [f \in PrivateFiles |-> Handed(f)]

\* When only one file looks different, the two functions change there.
LEMMA OneFile ==
  ASSUME NEW g \in PrivateFiles,
         \A h \in PrivateFiles \ {g} :
           Position(h)' = Position(h) /\ Handed(h)' = Handed(h)
  PROVE  /\ Positions' = [Positions EXCEPT ![g] = Position(g)']
         /\ Holdings' = [Holdings EXCEPT ![g] = Handed(g)']
         /\ Position(g)' = Position(g) => Positions' = Positions
         /\ Handed(g)' = Handed(g) => Holdings' = Holdings
         /\ Positions[g] = Position(g)
<1>1. Positions' = [f \in PrivateFiles |-> Position(f)']
      /\ Holdings' = [f \in PrivateFiles |-> Handed(f)']
  BY DEF Positions, Holdings, PrivateFiles, Private
<1>2. Positions = [f \in PrivateFiles |-> Position(f)]
      /\ Holdings = [f \in PrivateFiles |-> Handed(f)]
  BY DEF Positions, Holdings
<1> QED
  BY <1>1, <1>2

\* When no file looks different, they stay.
LEMMA NoFileChanges ==
  ASSUME \A h \in PrivateFiles : Position(h)' = Position(h) /\ Handed(h)' = Handed(h)
  PROVE  Positions' = Positions /\ Holdings' = Holdings
<1>1. Positions' = [f \in PrivateFiles |-> Position(f)']
      /\ Holdings' = [f \in PrivateFiles |-> Handed(f)']
  BY DEF Positions, Holdings, PrivateFiles, Private
<1> QED
  BY <1>1 DEF Positions, Holdings

\* The stream of the abstract device is the content of the ring.
LEMMA AtomicStream ==
  /\ Atomic!Stream = Content(circular_buffer)
  /\ \A s : Atomic!FlattenSeq(s) = FlattenSeq(s)
<1>1. \A s : Atomic!FlattenSeq(s) = FlattenSeq(s)
  BY DEF Atomic!FlattenSeq, FlattenSeq
<1> QED
  BY <1>1 DEF Atomic!Stream, Content

\* the log, the unfinished command and the flag of the abstract device stay
DeviceStays ==
  /\ circular_buffer' = circular_buffer
  /\ Unfinished' = Unfinished /\ damaged' = damaged

\* a step of the abstract device, or none
AtomicStep == Atomic!Next \/ UNCHANGED Atomic!vars

\* Nothing shows.
LEMMA QuietStep ==
  ASSUME DeviceStays, Positions' = Positions, Holdings' = Holdings
  PROVE  AtomicStep
<1>1. Commands(circular_buffer)' = Commands(circular_buffer)
  BY DEF DeviceStays
<1> QED
  BY <1>1 DEF AtomicStep, Atomic!vars, DeviceStays, Positions, Holdings

\* A step of a thread that leaves its file, as it looks from outside, alone.
LEMMA QuietMove ==
  ASSUME IInv, InOrder, NEW t \in Threads, NEW g \in Files, Moves(t, g), DeviceStays,
         g \in PrivateFiles => Position(g)' = Position(g) /\ Handed(g)' = Handed(g)
  PROVE  AtomicStep
<1>1. \A h \in PrivateFiles : Position(h)' = Position(h) /\ Handed(h)' = Handed(h)
  BY FileStep
<1> QED
  BY <1>1, NoFileChanges, QuietStep

\* A step of a thread that is a step of the abstract device on its file.
LEMMA FileMove ==
  ASSUME IInv, InOrder, NEW t \in Threads, NEW g \in Files, Moves(t, g), DeviceStays,
         g \in PrivateFiles =>
           \/ Position(g)' = Position(g) /\ Handed(g)' = Handed(g)
           \/ /\ Position(g)' = Position(g) /\ Handed(g)' = << >>
           \/ /\ Position(g)' \in 0 .. Len(Content(circular_buffer))
              /\ Handed(g)' = Handed(g)
           \/ \E n \in 1 .. Len(Content(circular_buffer)) - Position(g) :
                /\ Position(g)' = Position(g) + n
                /\ Handed(g)' = SubSeq(Content(circular_buffer),
                                       Position(g) + 1, Position(g) + n)
  PROVE  AtomicStep
<1>1. CASE g \in PrivateFiles =>
             Position(g)' = Position(g) /\ Handed(g)' = Handed(g)
  BY <1>1, QuietMove
<1>2. ASSUME g \in PrivateFiles
      PROVE  /\ Positions' = [Positions EXCEPT ![g] = Position(g)']
             /\ Holdings' = [Holdings EXCEPT ![g] = Handed(g)']
             /\ Position(g)' = Position(g) => Positions' = Positions
             /\ Handed(g)' = Handed(g) => Holdings' = Holdings
             /\ Positions[g] = Position(g)
  BY <1>2, FileStep, OneFile
<1>3. /\ Commands(circular_buffer)' = Commands(circular_buffer)
      /\ Unfinished' = Unfinished /\ damaged' = damaged
  BY DEF DeviceStays
<1>4. CASE /\ g \in PrivateFiles
           /\ Position(g)' = Position(g) /\ Handed(g)' = << >>
  <2>1. Holdings' = [Holdings EXCEPT ![g] = << >>] /\ Positions' = Positions
    BY <1>2, <1>4
  <2>2. Atomic!Done(g)
    BY <1>3, <2>1 DEF Atomic!Done, Positions, Holdings
  <2> QED
    BY <1>4, <2>2 DEF AtomicStep, Atomic!Next
<1>5. CASE /\ g \in PrivateFiles
           /\ Position(g)' \in 0 .. Len(Content(circular_buffer))
           /\ Handed(g)' = Handed(g)
  <2> DEFINE p == Position(g)'
  <2>1. /\ Holdings' = Holdings /\ Positions' = [Positions EXCEPT ![g] = p]
        /\ p \in 0 .. Len(Content(circular_buffer))
    BY <1>2, <1>5
  <2> HIDE DEF p
  <2>2. Atomic!Seek(g)
    BY <1>3, <2>1, AtomicStream DEF Atomic!Seek, Positions, Holdings
  <2> QED
    BY <1>5, <2>2 DEF AtomicStep, Atomic!Next
<1>6. ASSUME g \in PrivateFiles,
             NEW n \in 1 .. Len(Content(circular_buffer)) - Position(g),
             Position(g)' = Position(g) + n,
             Handed(g)' = SubSeq(Content(circular_buffer),
                                 Position(g) + 1, Position(g) + n)
      PROVE  AtomicStep
  <2> DEFINE P == [f \in PrivateFiles |-> Position(f)]
             G == [f \in PrivateFiles |-> Handed(f)]
             C == Content(circular_buffer)
  <2>1. /\ P' = [P EXCEPT ![g] = P[g] + n] /\ n \in 1 .. Len(C) - P[g]
        /\ G' = [G EXCEPT ![g] = SubSeq(C, P[g] + 1, P[g] + n)]
    <3>1. Positions = P /\ Holdings = G /\ Positions' = P' /\ Holdings' = G'
      BY DEF Positions, Holdings
    <3>2. P[g] = Position(g)
      BY <1>2, <1>6, <3>1
    <3> HIDE DEF P, G, C
    <3>3. Positions' = [Positions EXCEPT ![g] = P[g] + n]
      BY <1>2, <1>6, <3>2
    <3>4. Holdings' = [Holdings EXCEPT ![g] = SubSeq(C, P[g] + 1, P[g] + n)]
      BY <1>2, <1>6, <3>2 DEF C
    <3> QED
      BY <1>6, <3>1, <3>2, <3>3, <3>4 DEF C
  <2>2. Atomic!Read(g)
    <3>1. Atomic!Stream = C
      BY AtomicStream
    <3> HIDE DEF C
    <3> QED
      BY <1>3, <2>1, <3>1 DEF Atomic!Read
  <2> QED
    BY <1>6, <2>2 DEF AtomicStep, Atomic!Next
<1> QED
  BY <1>1, <1>4, <1>5, <1>6, ZenonT(30)

\* the bytes of an unfinished command, with or without its block
Pending(e) == IF e.buffptr = NULL THEN Filled(e.size, UNINIT) ELSE Bytes(e)

\* There are as many of them as the entry says.
LEMMA PendingType ==
  ASSUME NEW e \in Entry, e.buffptr # NULL => e.size <= Len(e.buffptr)
  PROVE  /\ Pending(e) \in Seq(Byte) /\ Len(Pending(e)) = e.size
         /\ e.size = 0 => Pending(e) = << >>
<1>1. e.size \in Nat
  BY DEF Entry
<1>2. Pending(e) \in Seq(Byte) /\ Len(Pending(e)) = e.size
  <2>1. CASE e.buffptr = NULL
    BY <1>1, <2>1, AesdCharAssumption, FilledType DEF Pending
  <2>2. CASE e.buffptr # NULL
    BY <2>2, BytesType DEF Pending
  <2> QED
    BY <2>1, <2>2
<1> DEFINE p == Pending(e)
<1>3. p \in Seq(Byte) /\ Len(p) = e.size
  BY <1>2
<1> HIDE DEF p
<1>4. e.size = 0 => p = << >>
  BY <1>3
<1> QED
  BY <1>2, <1>4 DEF p

\* kzalloc and krealloc keep the bytes of the unfinished command, also when
\* there is no block to keep them in.
LEMMA AllocatedPending ==
  ASSUME entry \in Entry, EntryHasItsBytes, NEW count \in Nat, count > 0,
         NEW e \in Entry, e.buffptr = Allocated(count), e.size = entry.size
  PROVE  Pending(e) = Pending(entry)
<1> DEFINE n == entry.size
           A == Allocated(count)
<1>1. n \in Nat /\ n + count \in Nat /\ n <= n + count /\ n + count > 0
  BY DEF Entry
<1>2. A \in Seq(Byte) /\ Len(A) = n + count
  BY AllocatedType DEF EntryHasItsBytes
<1>3. e.buffptr # NULL /\ e.size <= Len(e.buffptr)
  BY <1>1, <1>2 DEF NULL
<1>4. Pending(e) = SubSeq(A, 1, n)
  BY <1>3 DEF Pending, Bytes
<1>5. CASE n = 0
  BY <1>3, <1>5, PendingType DEF EntryHasItsBytes
<1>6. CASE n # 0 /\ entry.buffptr = NULL
  <2> DEFINE F == Filled(n + count, UNINIT)
             x == SubSeq(F, 1, n)
             y == Filled(n, UNINIT)
  <2>1. A = F /\ Pending(entry) = y
    BY <1>6 DEF Allocated, Pending
  <2>2. /\ F \in Seq(Byte) /\ Len(F) = n + count
        /\ \A i \in 1 .. n + count : F[i] = UNINIT
    BY <1>1, AesdCharAssumption, FilledType
  <2>3. y \in Seq(Byte) /\ Len(y) = n /\ \A i \in 1 .. n : y[i] = UNINIT
    BY <1>1, AesdCharAssumption, FilledType
  <2> HIDE DEF F, y, n
  <2>4. x \in Seq(Byte) /\ Len(x) = n /\ \A i \in 1 .. n : x[i] = F[i]
    BY <1>1, <2>2
  <2> HIDE DEF x
  <2>5. \A i \in 1 .. Len(x) : x[i] = y[i]
    BY <1>1, <2>2, <2>3, <2>4
  <2>6. x = y
    BY <2>3, <2>4, <2>5, SeqEqual
  <2> QED
    BY <1>4, <2>1, <2>6 DEF x
<1>7. CASE n # 0 /\ entry.buffptr # NULL
  <2>1. entry.size <= Len(entry.buffptr)
    BY <1>7 DEF EntryHasItsBytes
  <2>2. Pending(entry) = Bytes(entry)
    BY <1>7 DEF Pending
  <2> QED
    BY <1>4, <2>1, <2>2, AllocatedKeeps
<1> QED
  BY <1>5, <1>6, <1>7

\* The abstract state of the files during a write.
LEMMA WriteFiles ==
  ASSUME IInv, InOrder, CopiesInStep, NEW t \in Threads,
         aesd_write_alloc(t) \/ aesd_write_copy(t)
  PROVE  Positions' = Positions /\ Holdings' = Holdings
<1> DEFINE g == call[t].file
<1>1. pc[t] \in {"write", "write_copy"} /\ f_pos' = f_pos
  BY DEF aesd_write_alloc, aesd_write_copy, files
<1>2. g \in Files /\ call[t].op = "write"
  BY <1>1 DEF IInv, TypeOK, CallWellFormed, InOrder, Agrees
<1>3. Moves(t, g)
  BY HandlerMoves DEF Lock
<1>4. ~Delivers(pc[t], call[t])
  BY <1>1 DEF Delivers
<1>5. ~Delivers(pc'[t], call'[t])
  <2>1. CASE \E pos, data, retval : UnlockAndReturn(t, pos, data, retval)
    BY <1>2, <2>1, Leaves DEF Delivers
  <2>2. CASE Hold(t, "write_copy", call[t])
    BY <2>2, Leaves DEF Delivers
  <2>3. (\E pos, data, retval : UnlockAndReturn(t, pos, data, retval))
        \/ Hold(t, "write_copy", call[t])
    BY DEF aesd_write_alloc, aesd_write_copy, UnlockAndFail
  <2> QED
    BY <2>1, <2>2, <2>3
<1> HIDE DEF g
<1>6. \A h \in PrivateFiles : Position(h)' = Position(h) /\ Handed(h)' = Handed(h)
  BY <1>1, <1>2, <1>3, <1>4, <1>5, FileStep
<1> QED
  BY <1>6, NoFileChanges

\* The first half of aesd_write shows only when it loses the bytes of an
\* unfinished command.
LEMMA AllocAtomic ==
  ASSUME IInv, InOrder, CopiesInStep, NEW t \in Threads, aesd_write_alloc(t)
  PROVE  AtomicStep
<1>1. Positions' = Positions /\ Holdings' = Holdings
  BY WriteFiles
<1>2. circular_buffer' = circular_buffer /\ pc[t] = "write"
  BY DEF aesd_write_alloc
<1>3. /\ entry \in Entry /\ EntryHasItsBytes /\ damaged \in BOOLEAN
      /\ call[t].count \in Nat /\ call[t].count > 0 /\ entry.size \in Nat
  <2>1. /\ entry \in Entry /\ EntryHasItsBytes /\ damaged \in BOOLEAN /\ call[t] \in Call
        /\ call[t].data # << >> /\ call[t].count = Len(call[t].data)
    BY <1>2 DEF IInv, TypeOK, CallWellFormed
  <2>2. call[t].data \in Seq(Byte) /\ entry.size \in Nat
    BY <2>1 DEF Call, Entry
  <2> QED
    BY <2>1, <2>2
<1>4. Unfinished = Pending(entry) /\ Unfinished' = Pending(entry')
  BY DEF Unfinished, Pending, Filled, Bytes
<1>5. CASE /\ entry' = [entry EXCEPT !.buffptr = Allocated(call[t].count)]
           /\ UNCHANGED damaged
  <2>1. entry'.buffptr = Allocated(call[t].count) /\ entry'.size = entry.size
    BY <1>3, <1>5 DEF Entry
  <2>2. Allocated(call[t].count) \in Seq(Byte)
    BY <1>3, AllocatedType DEF EntryHasItsBytes
  <2>3. entry' \in Entry
    BY <1>3, <1>5, <2>2 DEF Entry
  <2>4. Pending(entry') = Pending(entry)
    BY <1>3, <2>1, <2>3, AllocatedPending
  <2> QED
    BY <1>1, <1>2, <1>4, <1>5, <2>4, QuietStep DEF DeviceStays
<1>6. CASE /\ entry' = [entry EXCEPT !.buffptr = NULL]
           /\ damaged' = (damaged \/ entry.size > 0)
  <2>1. /\ entry'.buffptr = NULL /\ entry'.size = entry.size /\ entry' \in Entry
    BY <1>3, <1>6, NoEntryType DEF Entry, NULL
  <2>2. /\ Pending(entry') \in Seq(Byte) /\ Len(Pending(entry')) = entry.size
        /\ entry.size = 0 => Pending(entry') = << >>
    BY <2>1, PendingType
  <2>3. /\ Pending(entry) \in Seq(Byte) /\ Len(Pending(entry)) = entry.size
        /\ entry.size = 0 => Pending(entry) = << >>
    BY <1>3, PendingType DEF EntryHasItsBytes
  <2>4. CASE entry.size = 0
    <3>1. damaged' = damaged
      BY <1>3, <1>6, <2>4
    <3> QED
      BY <1>1, <1>2, <1>4, <2>2, <2>3, <2>4, <3>1, QuietStep DEF DeviceStays
  <2>5. CASE entry.size # 0
    <3>0. entry.size > 0
      BY <1>3, <2>5
    <3>1. damaged' = TRUE
      BY <1>6, <3>0, Zenon
    <3>2. Unfinished # << >> /\ Len(Unfinished') = Len(Unfinished)
      BY <1>4, <2>2, <2>3, <2>5
    <3>3. Atomic!Spoil
      BY <1>1, <1>2, <3>1, <3>2 DEF Atomic!Spoil, Positions, Holdings
    <3> QED
      BY <3>3 DEF AtomicStep, Atomic!Next
  <2> QED
    BY <2>4, <2>5
<1> QED
  BY <1>5, <1>6 DEF aesd_write_alloc

\* copy_from_user and the search for the newline are the write.
LEMMA CopyAtomic ==
  ASSUME IInv, InOrder, CopiesInStep, EntryUnended, Stream,
         NEW t \in Threads, aesd_write_copy(t)
  PROVE  AtomicStep
<1> DEFINE data == call[t].data
           b == circular_buffer
           W(k) == [buffptr |-> Block(data, k), size |-> entry.size + k]
<1>1. Positions' = Positions /\ Holdings' = Holdings /\ damaged' = damaged
  BY WriteFiles DEF aesd_write_copy
<1>2. /\ b \in Buffer /\ Consistent(b) /\ entry \in Entry
      /\ data \in Payloads /\ call[t].count = Len(data) /\ data \in Seq(Byte)
      /\ data # << >> /\ entry.size + call[t].count = Len(entry.buffptr)
  BY DEF aesd_write_copy, IInv, TypeOK, RingConsistent, CopiesInStep,
         CallWellFormed, WriteFitsBlock, Call
<1>3. /\ entry.size \in Nat /\ Len(data) \in Nat /\ Len(data) >= 1
      /\ entry.size <= Len(entry.buffptr) /\ entry.buffptr # NULL
  <2>1. entry.size \in Nat /\ entry.buffptr \in Seq(Byte)
    BY <1>2 DEF Entry
  <2> QED
    BY <1>2, <2>1 DEF NULL
<1>4. PICK k \in 0 .. Len(data) :
        \/ /\ NEWLINE \in StrchrStops(Block(data, k))
           /\ circular_buffer' = aesd_circular_buffer_add_entry(b, W(k))
           /\ entry' = NoEntry
        \/ /\ NUL \in StrchrStops(Block(data, k))
           /\ entry' = W(k) /\ circular_buffer' = b
  BY <1>2 DEF aesd_write_copy, Block
<1> DEFINE w == W(k)
           block == Block(data, k)
           text == SubSeq(data, 1, k)
           command == Unfinished \o text
<1>5. /\ w \in Entry /\ w.size <= Len(w.buffptr) /\ w.buffptr = block
      /\ (NEWLINE \in StrchrStops(block) => w.size > 0)
      /\ block \in Seq(Byte) /\ Len(block) = entry.size + Len(data)
  <2>1. w = [buffptr |-> SubSeq(entry.buffptr, 1, entry.size)
                           \o CopiedFromUser(data, k),
             size    |-> entry.size + k]
    BY DEF Block
  <2>2. w.buffptr = block
    OBVIOUS
  <2>3. block \in Seq(Byte) /\ Len(block) = entry.size + Len(data)
    <3> HIDE DEF data
    <3> QED
      BY <1>2, <1>3, WrittenAt
  <2> HIDE DEF w, block, data
  <2>4. /\ w \in Entry /\ w.size <= Len(w.buffptr)
        /\ (NEWLINE \in StrchrStops(w.buffptr) => w.size > 0)
    BY <1>2, <1>3, <2>1, WrittenEntry
  <2> QED
    BY <2>2, <2>3, <2>4
<1>6. Bytes(w) = command /\ Unfinished = Bytes(entry) /\ command \in Seq(Byte)
  <2>1. Bytes(w) = Bytes(entry) \o text
    BY <1>2, <1>3, WrittenBytes DEF Block
  <2>2. Unfinished = Bytes(entry)
    BY <1>3 DEF Unfinished
  <2>3. Bytes(w) \in Seq(Byte)
    BY <1>5, BytesType
  <2> QED
    BY <2>1, <2>2, <2>3
<1>7. \A c \in StrchrStops(block) : c \in StrchrStops(command)
  <2> DEFINE rest == Filled(Len(data) - k, NUL)
  <2>1. Bytes(entry) \in Seq(Byte) /\ text \in Seq(Byte) /\ rest \in Seq(Byte)
    <3>1. Len(data) - k \in Nat
      BY <1>3
    <3> QED
      BY <1>2, <1>3, <3>1, BytesType, PrefixType, AesdCharAssumption, FilledType
  <2>2. block = Bytes(entry) \o (text \o rest)
    BY DEF Block, Bytes, CopiedFromUser
  <2> HIDE DEF text, rest, block
  <2>3. Bytes(entry) \o (text \o rest) = (Bytes(entry) \o text) \o rest
    BY <2>1, BytesAssociative, ZenonT(30)
  <2>4. block = command \o rest
    BY <1>6, <2>2, <2>3, Zenon
  <2> HIDE DEF command
  <2> QED
    BY <1>6, <2>1, <2>4, StopsOfPrefix
<1>8. text # << >> \/ (k = 0 /\ (NEWLINE \in StrchrStops(block) => damaged))
  <2>1. CASE k = 0
    <3>1. ~damaged => NEWLINE \notin StrchrStops(block)
      BY <1>2, <1>3, <2>1, WrittenUnended
    <3> QED
      BY <2>1, <3>1
  <2>2. CASE k # 0
    BY <1>2, <1>3, <2>2
  <2> QED
    BY <2>1, <2>2
<1>9. text \in UNION {{SubSeq(d, 1, i) : i \in 0 .. Len(d)} : d \in Payloads}
  BY <1>2
<1> HIDE DEF w, text, command, block
<1>10. CASE /\ NUL \in StrchrStops(block) /\ entry' = w /\ circular_buffer' = b
  <2>1. Unfinished' = command
    <3>1. entry'.buffptr # NULL /\ Bytes(entry') = command
      BY <1>3, <1>5, <1>6, <1>10 DEF NULL
    <3> QED
      BY <3>1 DEF Unfinished, Bytes
  <2>2. StopsAtNUL(command)
    BY <1>7, <1>10 DEF StopsAtNUL
  <2>3. Atomic!Write(text)
    BY <1>1, <1>10, <2>1, <2>2
    DEF Atomic!Write, Positions, Holdings, command
  <2> QED
    BY <1>9, <2>3 DEF AtomicStep, Atomic!Next
<1>11. CASE /\ NEWLINE \in StrchrStops(block) /\ entry' = NoEntry
            /\ circular_buffer' = aesd_circular_buffer_add_entry(b, w)
  <2>1. Unfinished' = << >>
    <3>1. entry'.buffptr = NULL /\ entry'.size = 0
      BY <1>11 DEF NoEntry
    <3> QED
      BY <3>1 DEF Unfinished, Filled
  <2>2. StopsAtNewline(command)
    BY <1>7, <1>11 DEF StopsAtNewline
  <2>3. text # << >> \/ damaged
    BY <1>8, <1>11
  <2>4. Commands(circular_buffer)' = Append(Atomic!Kept, command)
    <3> DEFINE n == aesd_circular_buffer_add_entry(b, w)
               log == Commands(b)
    <3>1. /\ ~b.full => Commands(n) = Append(log, Bytes(w))
          /\ b.full => Commands(n) = Append(Tail(log), Bytes(w))
      BY <1>2, <1>5, <1>11, CommandsAdd
    <3>2. b.full <=> ~(Len(log) < MAX_WRITE_OPERATIONS)
      BY <1>2, OccupiedType, CommandsType, MaxWriteOperationsAssumption
    <3>3. Atomic!Kept = IF Len(log) < MAX_WRITE_OPERATIONS THEN log ELSE Tail(log)
      BY DEF Atomic!Kept
    <3>4. Commands(circular_buffer)' = Commands(n)
      BY <1>11
    <3> HIDE DEF log, n, b
    <3> QED
      BY <1>6, <3>1, <3>2, <3>3, <3>4
  <2>5. Atomic!Write(text)
    BY <1>1, <2>1, <2>2, <2>3, <2>4
    DEF Atomic!Write, Positions, Holdings, command
  <2> QED
    BY <1>9, <2>5 DEF AtomicStep, Atomic!Next
<1> QED
  BY <1>4, <1>10, <1>11 DEF w, block

\* aesd_read hands over a stretch of the content, in one step for all others.
LEMMA ReadAtomic ==
  ASSUME IInv, InOrder, CopiesInStep, NEW t \in Threads,
         aesd_read_find(t) \/ aesd_read_copy(t), DeviceStays
  PROVE  AtomicStep
<1> DEFINE c == call[t]
           C == Content(circular_buffer)
<1>1. pc[t] \in {"read", "read_copy"} /\ f_pos' = f_pos
  BY DEF aesd_read_find, aesd_read_copy, files
<1>0. PICK g \in Files : g = call[t].file
  BY <1>1 DEF IInv, TypeOK, CallWellFormed
<1>2. /\ c \in Call /\ c.file = g /\ g \in Files /\ c.op = "read" /\ ~Delivers(pc[t], c)
      /\ Private(g) => c.pos = f_pos[g]
  BY <1>0, <1>1
  DEF IInv, TypeOK, CallWellFormed, InOrder, Agrees, CopiesInStep, Copies, Delivers
<1>3. Moves(t, g)
  BY <1>0, HandlerMoves DEF Lock
<1>4. ASSUME g \in PrivateFiles
      PROVE  /\ Position(g) = c.pos /\ Handed(g) = << >> /\ f_pos'[g] = c.pos
             /\ Position(g)' = IF Delivers(pc'[t], call'[t]) THEN call'[t].pos ELSE c.pos
             /\ Handed(g)' = IF Delivers(pc'[t], call'[t]) THEN call'[t].data ELSE << >>
  <2>1. Private(g)
    BY <1>4 DEF PrivateFiles
  <2> QED
    BY <1>1, <1>2, <1>3, <1>4, <2>1, FileStep
<1>5. CASE ~Delivers(pc'[t], call'[t])
  <2> QED
    BY <1>2, <1>3, <1>4, <1>5, QuietMove
<1>6. CASE UnlockAndReturn(t, c.pos, << >>, 0)
  <2>1. call'[t].pos = c.pos /\ call'[t].data = << >>
    BY <1>6, Leaves
  <2> QED
    BY <1>2, <1>3, <1>4, <2>1, QuietMove
<1>7. CASE aesd_read_find(t)
  <2>1. \/ UnlockAndReturn(t, c.pos, << >>, 0)
        \/ \E n : Hold(t, "read_copy", n)
    BY <1>7 DEF aesd_read_find
  <2>2. ASSUME NEW n, Hold(t, "read_copy", n) PROVE ~Delivers(pc'[t], call'[t])
    BY <2>2, Leaves DEF Delivers
  <2> QED
    BY <1>5, <1>6, <2>1, <2>2
<1>8. CASE aesd_read_copy(t)
  <2>1. CASE UnlockAndFail(t, EFAULT)
    <3>1. call'[t].retval = EFAULT
      BY <2>1, Leaves DEF UnlockAndFail
    <3> QED
      BY <1>5, <3>1 DEF Delivers, EFAULT
  <2>2. CASE UnlockAndReturn(t, Advanced(c), CopiedToUser(c), c.retval)
    <3> DEFINE n == c.retval
    <3>1. /\ pc'[t] = "ret" /\ call'[t].pos = c.pos + n /\ call'[t].data = CopiedToUser(c)
          /\ call'[t].retval = n /\ call'[t].op = "read"
      BY <1>2, <2>2, Leaves DEF Advanced
    <3>2. /\ CopiedToUser(c) = SubSeq(C, c.pos + 1, c.pos + n)
          /\ Len(CopiedToUser(c)) = n
          /\ c.pos \in Nat /\ n \in Nat /\ c.pos + n <= Len(C)
      BY <1>8, CopiedIsSlice DEF aesd_read_copy
    <3>3. Delivers(pc'[t], call'[t])
      <4>1. n \in Nat
        BY <3>2
      <4>2. n >= 0
        BY <4>1
      <4> QED
        BY <3>1, <4>2 DEF Delivers
    <3>4. Len(C) \in Nat
      <4>1. C \in Seq(Byte)
        BY ContentType DEF IInv, TypeOK, RingConsistent
      <4> HIDE DEF C
      <4> QED
        BY <4>1
    <3>5. CopiedToUser(c) \in Seq(Byte)
      <4>1. C \in Seq(Byte)
        BY ContentType DEF IInv, TypeOK, RingConsistent
      <4> DEFINE p == c.pos
                 q == c.pos + n
      <4>2. p \in Nat /\ q \in Nat /\ q <= Len(C)
        BY <3>2
      <4> HIDE DEF C, p, q
      <4>3. SubSeq(C, p + 1, q) \in Seq(Byte)
        BY <4>1, <4>2
      <4> QED
        BY <3>2, <4>3 DEF p, q
    <3>6. CASE n = 0
      <4>1. call'[t].pos = c.pos
        BY <3>1, <3>2, <3>6
      <4>2. call'[t].data = << >>
        <5> DEFINE d == CopiedToUser(c)
        <5>1. d \in Seq(Byte) /\ Len(d) = 0
          BY <3>2, <3>5, <3>6
        <5> HIDE DEF d
        <5>2. d = << >>
          BY <5>1
        <5> QED
          BY <3>1, <5>2 DEF d
      <4> QED
        BY <1>2, <1>3, <1>4, <4>1, <4>2, QuietMove
    <3>7. CASE n # 0
      <4> DEFINE p == c.pos
      <4>1. n \in 1 .. Len(C) - p
        <5> DEFINE l == Len(C)
        <5>1. n \in Nat /\ p \in Nat /\ l \in Nat /\ p + n <= l /\ n # 0
          BY <3>2, <3>4, <3>7
        <5> HIDE DEF n, p, l
        <5> QED
          BY <5>1 DEF l
      <4>2. ASSUME g \in PrivateFiles
            PROVE  /\ Position(g) = p /\ Position(g)' = p + n
                   /\ Handed(g)' = SubSeq(C, p + 1, p + n)
        <5>1. /\ Position(g) = p /\ Position(g)' = call'[t].pos
              /\ Handed(g)' = call'[t].data
          BY <1>4, <3>3, <4>2
        <5> QED
          BY <3>1, <3>2, <5>1
      <4>3. ASSUME g \in PrivateFiles
            PROVE  \E m \in 1 .. Len(C) - Position(g) :
                     /\ Position(g)' = Position(g) + m
                     /\ Handed(g)' = SubSeq(C, Position(g) + 1, Position(g) + m)
        <5> HIDE DEF n, p, C
        <5> QED
          BY <4>1, <4>2, <4>3
      <4> QED
        BY <1>2, <1>3, <4>3, FileMove
    <3> QED
      BY <3>6, <3>7
  <2> QED
    BY <1>8, <2>1, <2>2 DEF aesd_read_copy
<1> QED
  BY <1>7, <1>8

\* aesd_llseek shows when it stores the position.
LEMMA LlseekAtomic ==
  ASSUME IInv, InOrder, CopiesInStep, SeekChecked, NEW t \in Threads,
         aesd_llseek(t) \/ aesd_llseek_set(t), DeviceStays
  PROVE  AtomicStep
<1> DEFINE c == call[t]
           C == Content(circular_buffer)
<1>1. pc[t] \in {"llseek", "llseek_set"}
  BY DEF aesd_llseek, aesd_llseek_set
<1>0. PICK g \in Files : g = call[t].file
  BY <1>1 DEF IInv, TypeOK, CallWellFormed
<1>2. /\ c \in Call /\ c.file = g /\ g \in Files /\ c.op = "llseek" /\ ~Delivers(pc[t], c)
      /\ f_pos \in [Files -> Nat]
  BY <1>0, <1>1 DEF IInv, TypeOK, CallWellFormed, InOrder, Agrees, Delivers
<1>3. Moves(t, g)
  BY <1>0, HandlerMoves DEF Lock
<1>4. ~Delivers(pc'[t], call'[t])
  <2>1. ASSUME NEW pos, NEW data, NEW retval, UnlockAndReturn(t, pos, data, retval)
        PROVE  ~Delivers(pc'[t], call'[t])
    BY <1>2, <2>1, Leaves DEF Delivers
  <2>2. ASSUME NEW n, Hold(t, "llseek_set", n) PROVE ~Delivers(pc'[t], call'[t])
    BY <2>2, Leaves DEF Delivers
  <2> QED
    BY <2>1, <2>2 DEF aesd_llseek, aesd_llseek_set, UnlockAndFail
<1>5. g \in PrivateFiles =>
        /\ Position(g) = f_pos[g] /\ Handed(g) = << >>
        /\ Position(g)' = f_pos'[g] /\ Handed(g)' = << >>
  <2> QED
    BY <1>2, <1>3, <1>4, FileStep
<1>6. CASE aesd_llseek(t)
  <2>1. f_pos' = f_pos
    BY <1>6 DEF aesd_llseek, files
  <2> QED
    BY <1>2, <1>3, <1>5, <2>1, QuietMove
<1>7. CASE aesd_llseek_set(t)
  <2>1. f_pos'[g] = c.pos
    BY <1>2, <1>7 DEF aesd_llseek_set
  <2>2. c.pos \in 0 .. Len(C)
    <3>1. c.pos <= TotalSize(circular_buffer)
      BY <1>7 DEF SeekChecked, aesd_llseek_set
    <3>2. TotalSize(circular_buffer) = Len(C) /\ C \in Seq(Byte)
      BY TotalSizeIsContent, ContentType DEF IInv, TypeOK, RingConsistent
    <3>3. c.pos \in Nat
      BY <1>2 DEF Call
    <3> HIDE DEF C
    <3> QED
      BY <3>1, <3>2, <3>3
  <2> QED
    BY <1>2, <1>3, <1>5, <2>1, <2>2, FileMove
<1> QED
  BY <1>6, <1>7

\* AESDCHAR_IOCSEEKTO adds an offset that some stored command has to the
\* start of a stored command.
LEMMA IoctlAtomic ==
  ASSUME IInv, InOrder, CopiesInStep, NEW t \in Threads, aesd_ioctl(t), DeviceStays
  PROVE  AtomicStep
<1> DEFINE c == call[t]
           b == circular_buffer
           log == Commands(b)
<1>1. pc[t] = "ioctl"
  BY DEF aesd_ioctl
<1>0. PICK g \in Files : g = call[t].file
  BY <1>1 DEF IInv, TypeOK, CallWellFormed
<1>2. /\ c \in Call /\ c.file = g /\ g \in Files /\ c.op = "ioctl" /\ ~Delivers(pc[t], c)
      /\ f_pos \in [Files -> Nat] /\ c.offset \in Nat /\ c.cmd \in Nat
      /\ b \in Buffer /\ Consistent(b)
  BY <1>0, <1>1
  DEF IInv, TypeOK, CallWellFormed, InOrder, Agrees, Delivers, Call, RingConsistent
<1>3. Moves(t, g)
  BY <1>0, HandlerMoves DEF Lock
<1>4. ~Delivers(pc'[t], call'[t])
  <2>1. ASSUME NEW pos, NEW data, NEW retval, UnlockAndReturn(t, pos, data, retval)
        PROVE  ~Delivers(pc'[t], call'[t])
    BY <1>2, <2>1, Leaves DEF Delivers
  <2> QED
    BY <2>1 DEF aesd_ioctl, UnlockAndFail
<1>5. g \in PrivateFiles =>
        /\ Position(g) = f_pos[g] /\ Handed(g) = << >>
        /\ Position(g)' = f_pos'[g] /\ Handed(g)' = << >>
  <2> QED
    BY <1>2, <1>3, <1>4, FileStep
<1>6. CASE g \notin PrivateFiles \/ f_pos'[g] = f_pos[g]
  <2> QED
    BY <1>2, <1>3, <1>5, <1>6, QuietMove
<1>7. CASE g \in PrivateFiles /\ f_pos' # f_pos
  <2>1. /\ SeektoValid(b, c.cmd, c.offset)
        /\ f_pos'[g] = CommandStart(b, c.cmd) + c.offset
    BY <1>2, <1>7 DEF aesd_ioctl
  <2>2. /\ c.cmd < Occupied(b) /\ b.entry[c.cmd].size > c.offset
    BY <1>2, <2>1, BreakAtEnd DEF SeektoValid
  <2>3. /\ Occupied(b) \in 0 .. MAX_WRITE_OPERATIONS /\ MAX_WRITE_OPERATIONS \in Nat
        /\ Len(log) = Occupied(b)
    BY <1>2, OccupiedType, CommandsType, MaxWriteOperationsAssumption
  <2>4. /\ c.cmd \in 0 .. Occupied(b) - 1 /\ c.cmd \in Slots
    BY <1>2, <2>2, <2>3 DEF Slots
  <2>5. b.entry[c.cmd].size \in Nat
    <3>1. b.entry[c.cmd] \in Entry
      BY <1>2, <2>4 DEF Buffer
    <3> QED
      BY <3>1 DEF Entry
  <2>6. b.entry[c.cmd].size > 0
    BY <1>2, <2>2, <2>5
  <2>7. PICK j \in 1 .. Occupied(b) : Len(log[j]) = b.entry[c.cmd].size
    BY <1>2, <2>4, <2>6, SlotInLog
  <2>8. CommandStart(b, c.cmd) = Len(FlattenSeq(SubSeq(log, 1, c.cmd)))
    BY <1>2, <2>4, CommandStartInLog
  <2> DEFINE k == c.cmd + 1
             o == c.offset
             P == [f \in PrivateFiles |-> Position(f)]
             G == [f \in PrivateFiles |-> Handed(f)]
  <2>9. k \in 1 .. Len(log) /\ k - 1 = c.cmd /\ j \in 1 .. Len(log)
    BY <1>2, <2>3, <2>4
  <2>10. o \in 0 .. Len(log[j]) - 1
    <3> DEFINE x == b.entry[c.cmd].size
               y == Len(log[j])
    <3>1. x \in Nat /\ x > o /\ y = x /\ o \in Nat
      BY <1>2, <2>2, <2>5, <2>7
    <3> HIDE DEF x, y, o
    <3>2. o \in 0 .. y - 1
      BY <3>1
    <3> QED
      BY <3>2 DEF y
  <2>11. /\ P' = [P EXCEPT ![g] = Len(FlattenSeq(SubSeq(log, 1, k - 1))) + o]
         /\ G' = G
    <3>1. Positions = P /\ Holdings = G /\ Positions' = P' /\ Holdings' = G'
      BY DEF Positions, Holdings
    <3>2. Position(g)' = Len(FlattenSeq(SubSeq(log, 1, k - 1))) + o
      BY <1>5, <1>7, <2>1, <2>8, <2>9
    <3>3. /\ Positions' = [Positions EXCEPT ![g] = Position(g)']
          /\ Handed(g)' = Handed(g) => Holdings' = Holdings
      <4> QED
        BY <1>2, <1>3, <1>7, FileStep, OneFile
    <3> HIDE DEF P, G, k, o, log
    <3> QED
      BY <1>5, <1>7, <3>1, <3>2, <3>3
  <2>12. Commands(circular_buffer)' = log /\ Unfinished' = Unfinished /\ damaged' = damaged
    BY DEF DeviceStays
  <2>13. Atomic!SeekTo(g)
    <3>1. Atomic!FlattenSeq(SubSeq(log, 1, k - 1)) = FlattenSeq(SubSeq(log, 1, k - 1))
      BY AtomicStream
    <3>2. P' = [P EXCEPT ![g] = Len(Atomic!FlattenSeq(SubSeq(log, 1, k - 1))) + o]
      BY <2>11, <3>1, Zenon
    <3> HIDE DEF k, o
    <3> QED
      BY <2>9, <2>10, <2>11, <2>12, <3>2, ZenonT(30) DEF Atomic!SeekTo
  <2> QED
    BY <1>7, <2>13 DEF AtomicStep, Atomic!Next
<1> QED
  BY <1>6, <1>7

\* A read that returns is done; the position it stores was already seen.
LEMMA ReturnAtomic ==
  ASSUME IInv, InOrder, CopiesInStep, NEW t \in Threads, Return(t), DeviceStays
  PROVE  AtomicStep
<1> DEFINE c == call[t]
<1>1. /\ pc[t] = "ret" /\ pc' = [pc EXCEPT ![t] = "idle"]
      /\ f_pos' = IF c.op \in {"read", "write"} /\ c.retval >= 0
                  THEN [f_pos EXCEPT ![c.file] = c.pos] ELSE f_pos
  BY DEF Return
<1>0. PICK g \in Files : g = call[t].file
  BY <1>1 DEF IInv, TypeOK, CallWellFormed
<1>2. c.file = g /\ g \in Files /\ f_pos \in [Files -> Nat] /\ pc \in [Threads -> Labels]
  BY <1>0, <1>1 DEF IInv, TypeOK, CallWellFormed
<1>3. Moves(t, g) /\ ~Delivers(pc'[t], call'[t])
  <2>1. pc'[t] = "idle"
    BY <1>1, <1>2
  <2> QED
    BY <1>0, <2>1, BorderMoves DEF Delivers
<1>4. f_pos'[g] = IF c.op \in {"read", "write"} /\ c.retval >= 0
                  THEN c.pos ELSE f_pos[g]
  BY <1>1, <1>2
<1>5. g \in PrivateFiles =>
        /\ Position(g) = IF Delivers(pc[t], c) THEN c.pos ELSE f_pos[g]
        /\ Handed(g) = IF Delivers(pc[t], c) THEN c.data ELSE << >>
        /\ Position(g)' = f_pos'[g] /\ Handed(g)' = << >>
  <2> QED
    BY <1>2, <1>3, FileStep
<1>6. ASSUME g \in PrivateFiles, ~Delivers(pc[t], c) PROVE f_pos'[g] = f_pos[g]
  <2>1. CASE c.op = "write" /\ c.retval >= 0
    <3>1. Copies(pc[t], c) /\ Private(g)
      BY <1>1, <1>6, <2>1 DEF Copies, PrivateFiles
    <3>2. c.pos = f_pos[g]
      BY <1>0, <3>1 DEF CopiesInStep
    <3> QED
      BY <1>4, <2>1, <3>2
  <2>2. CASE ~(c.op = "write" /\ c.retval >= 0)
    BY <1>1, <1>4, <1>6, <2>2 DEF Delivers
  <2> QED
    BY <2>1, <2>2
<1>7. Delivers(pc[t], c) => f_pos'[g] = c.pos
  BY <1>4 DEF Delivers
<1>8. g \in PrivateFiles => Position(g)' = Position(g) /\ Handed(g)' = << >>
  BY <1>5, <1>6, <1>7
<1> QED
  BY <1>2, <1>3, <1>8, FileMove

\* A system call that starts does not show.
LEMMA EnterAtomic ==
  ASSUME IInv, InOrder, NEW t \in Threads, NEW f \in Files, Enter(t, f), DeviceStays
  PROVE  AtomicStep
<1>1. Moves(t, f)
  BY BorderMoves
<1>2. PICK args \in Call : BeginsWith(t, f, args)
  BY EnterBegins
<1>3. /\ pc[t] = "idle" /\ f_pos' = f_pos /\ args.op \in Ops
      /\ pc' = [pc EXCEPT ![t] = args.op]
  BY <1>2 DEF BeginsWith, Begin, files
<1>4. pc'[t] = args.op
  BY <1>3 DEF IInv, TypeOK
<1>5. ~Delivers(pc[t], call[t]) /\ ~Delivers(pc'[t], call'[t])
  BY <1>3, <1>4 DEF Delivers, Ops
<1>6. f \in PrivateFiles => Position(f)' = Position(f) /\ Handed(f)' = Handed(f)
  BY <1>1, <1>3, <1>5, FileStep
<1> QED
  BY <1>1, <1>6, QuietMove

\* Loading clears the device, and closing a file rewinds it.
LEMMA ModuleAtomic ==
  ASSUME IInv, InOrder,
         \/ aesd_init_module
         \/ aesd_cleanup_module
         \/ \E f \in Files : aesd_open(f) \/ aesd_release(f)
         \/ UNCHANGED vars
  PROVE  AtomicStep
<1>1. pc' = pc /\ call' = call
  BY DEF aesd_init_module, aesd_cleanup_module, aesd_open, aesd_release, vars
<1>2. \A h : HandingOver(h)' = HandingOver(h)
  BY <1>1 DEF HandingOver
<1>3. CASE f_pos' = f_pos
  <2>1. Positions' = Positions /\ Holdings' = Holdings
    <3>1. \A h \in PrivateFiles : Position(h)' = Position(h) /\ Handed(h)' = Handed(h)
      BY <1>1, <1>2, <1>3, SeenStays
    <3> QED
      BY <3>1, NoFileChanges
  <2>2. CASE aesd_init_module
    <3>1. Commands(circular_buffer)' = << >>
      <4>1. Occupied(aesd_circular_buffer_init) = 0
        BY DEF Occupied, aesd_circular_buffer_init
      <4>2. Commands(aesd_circular_buffer_init) = << >>
        BY <4>1 DEF Commands
      <4> QED
        BY <2>2, <4>2 DEF aesd_init_module
    <3>2. Unfinished' = << >>
      <4>1. entry'.buffptr = NULL /\ entry'.size = 0
        BY <2>2 DEF aesd_init_module, NoEntry
      <4> QED
        BY <4>1 DEF Unfinished, Filled
    <3>3. Atomic!Load
      BY <2>1, <2>2, <3>1, <3>2 DEF Atomic!Load, aesd_init_module, Positions, Holdings
    <3> QED
      BY <3>3 DEF AtomicStep, Atomic!Next
  <2>3. CASE ~aesd_init_module
    <3>1. circular_buffer' = circular_buffer /\ entry' = entry /\ damaged' = damaged
      BY <2>3
      DEF aesd_cleanup_module, aesd_open, aesd_release, vars, device, history
    <3>2. DeviceStays
      BY <3>1 DEF DeviceStays, Unfinished, Filled, Bytes
    <3> QED
      BY <2>1, <3>2, QuietStep
  <2> QED
    BY <2>2, <2>3
<1>4. ASSUME NEW f \in Files, aesd_release(f) PROVE AtomicStep
  <2>1. /\ f_pos' = [f_pos EXCEPT ![f] = 0] /\ \A u \in Threads : call[u].file # f
        /\ circular_buffer' = circular_buffer /\ entry' = entry /\ damaged' = damaged
    BY <1>4 DEF aesd_release, device
  <2>2. DeviceStays
    BY <2>1 DEF DeviceStays, Unfinished, Filled, Bytes
  <2>3. f_pos \in [Files -> Nat]
    BY DEF IInv, TypeOK
  <2>4. f_pos'[f] = 0 /\ \A h \in Files \ {f} : f_pos'[h] = f_pos[h]
    BY <2>1, <2>3
  <2>5. \A h \in PrivateFiles \ {f} : Position(h)' = Position(h) /\ Handed(h)' = Handed(h)
    <3> TAKE h \in PrivateFiles \ {f}
    <3>1. f_pos'[h] = f_pos[h]
      BY <2>4 DEF PrivateFiles
    <3> QED
      BY <1>1, <1>2, <3>1, SeenStays
  <2>6. CASE f \notin PrivateFiles
    BY <2>2, <2>5, <2>6, NoFileChanges, QuietStep
  <2>7. CASE f \in PrivateFiles
    <3>1. HandingOver(f) = {} /\ HandingOver(f)' = {}
      BY <1>2, <2>1 DEF HandingOver
    <3>2. Position(f)' = 0 /\ Handed(f)' = Handed(f)
      BY <2>4, <3>1 DEF Position, Handed
    <3>3. Positions' = [Positions EXCEPT ![f] = 0] /\ Holdings' = Holdings
      BY <2>5, <2>7, <3>2, OneFile
    <3>4. 0 \in 0 .. Len(Content(circular_buffer))
      <4> DEFINE C == Content(circular_buffer)
      <4>1. C \in Seq(Byte)
        BY ContentType DEF IInv, TypeOK, RingConsistent
      <4> HIDE DEF C
      <4>2. 0 \in 0 .. Len(C)
        BY <4>1
      <4> QED
        BY <4>2 DEF C
    <3>5. Commands(circular_buffer)' = Commands(circular_buffer)
      BY <2>1
    <3>6. Atomic!Seek(f)
      BY <2>2, <3>3, <3>4, <3>5, AtomicStream
      DEF Atomic!Seek, Positions, Holdings, DeviceStays
    <3> QED
      BY <2>7, <3>6 DEF AtomicStep, Atomic!Next
  <2> QED
    BY <2>6, <2>7
<1>5. f_pos' = f_pos \/ \E f \in Files : aesd_release(f)
  BY DEF aesd_init_module, aesd_cleanup_module, aesd_open, vars, files
<1> QED
  BY <1>3, <1>4, <1>5

\* Every step of the driver is a step of the abstract device, or none.
LEMMA EveryStepAtomic ==
  ASSUME IInv, InOrder, CopiesInStep, EntryUnended, Stream, SeekChecked, [Next]_vars
  PROVE  AtomicStep
<1>1. CASE \E t \in Threads : aesd_write_alloc(t) \/ aesd_write_copy(t)
  BY <1>1, AllocAtomic, CopyAtomic
<1>2. CASE \/ aesd_init_module
           \/ aesd_cleanup_module
           \/ \E f \in Files : aesd_open(f) \/ aesd_release(f)
           \/ UNCHANGED vars
  BY <1>2, ModuleAtomic
<1>3. CASE DeviceStays
  <2>1. ASSUME NEW t \in Threads, Lock(t), ~aesd_write_alloc(t) PROVE AtomicStep
    BY <1>3, <2>1, ReadAtomic, LlseekAtomic, IoctlAtomic DEF Lock
  <2>2. ASSUME NEW t \in Threads, Finish(t), ~aesd_write_copy(t) PROVE AtomicStep
    BY <1>3, <2>2, ReadAtomic, LlseekAtomic, ReturnAtomic DEF Finish
  <2>3. ASSUME NEW t \in Threads, NEW f \in Files, Enter(t, f) PROVE AtomicStep
    BY <1>3, <2>3, EnterAtomic
  <2> QED
    BY <1>1, <1>2, <2>1, <2>2, <2>3 DEF Next
<1>4. \/ DeviceStays
      \/ aesd_init_module
      \/ \E t \in Threads : aesd_write_alloc(t) \/ aesd_write_copy(t)
  BY StreamSteps DEF DeviceStays, Unfinished, Filled, Bytes
<1> QED
  BY <1>1, <1>2, <1>3, <1>4

\* To programs that do not share their open files every system call on the
\* device is atomic: it stores, returns or moves everything at one moment.
THEOREM AtomicityRefinement == Spec => ImplementsAtomicDevice
<1>1. Init => Atomic!Init /\ CopiesInStep /\ EntryUnended /\ SeekChecked /\ Stream
  <2> SUFFICES ASSUME Init
               PROVE  Atomic!Init /\ CopiesInStep /\ EntryUnended /\ SeekChecked /\ Stream
    OBVIOUS
  <2>1. Commands(circular_buffer) = << >>
    <3>1. Occupied(aesd_circular_buffer_init) = 0
      BY DEF Occupied, aesd_circular_buffer_init
    <3> QED
      BY <3>1 DEF Init, Commands
  <2>2. Unfinished = << >>
    BY DEF Init, NoEntry, Unfinished, Filled
  <2>3. \A f \in PrivateFiles : Position(f) = 0 /\ Handed(f) = << >>
    <3>1. \A f : HandingOver(f) = {}
      BY DEF Init, HandingOver
    <3> QED
      BY <3>1 DEF Init, Position, Handed, PrivateFiles
  <2>4. Atomic!Init
    BY <2>1, <2>2, <2>3 DEF Atomic!Init, Init
  <2>5. CopiesInStep /\ SeekChecked
    BY DEF Init, CopiesInStep, Copies, SeekChecked
  <2>6. EntryUnended
    BY DEF Init, EntryUnended, NoEntry
  <2>7. Stream
    BY FreshStream DEF Init, Stream
  <2> QED
    BY <2>4, <2>5, <2>6, <2>7
<1>2. /\ IInv /\ InOrder /\ CopiesInStep /\ [Next]_vars => CopiesInStep'
      /\ IInv /\ Stream /\ CopiesInStep /\ EntryUnended /\ [Next]_vars => EntryUnended'
      /\ IInv /\ Stream /\ [Next]_vars => Stream'
      /\ IInv /\ SeekChecked /\ [Next]_vars => SeekChecked'
      /\ IInv /\ InOrder /\ [Next]_vars => InOrder'
  BY CopiesNext, UnendedNext, StreamNext, SeekCheckedNext, InOrderNext
<1>3. IInv /\ InOrder /\ CopiesInStep /\ EntryUnended /\ Stream /\ SeekChecked
        /\ [Next]_vars => [Atomic!Next]_(Atomic!vars)
  BY EveryStepAtomic DEF AtomicStep
<1> QED
  BY <1>1, <1>2, <1>3, InitInOrder, Invariance, PTL
  DEF Spec, ImplementsAtomicDevice, Atomic!Spec

\* A command of plain text, with no NUL byte and none that was never written,
\* goes on only if it holds no newline: strchr does not miss one.  With this
\* every write that the driver implements is one that the servers are verified
\* with (ServersUseAtomicWrite in ServerWorldProofs).
THEOREM PlainCommandsEnd ==
  ASSUME NEW command \in Seq(Byte \ {NUL, UNINIT}), StopsAtNUL(command)
  PROVE  ~Contains(command, NEWLINE)
<1>1. PICK m \in 1 .. Len(command) + 1 :
        /\ \A j \in 1 .. m - 1 : command[j] \notin {NEWLINE, NUL}
        /\ m = Len(command) + 1 \/ command[m] \in {NUL, UNINIT}
  BY DEF StopsAtNUL, StrchrStops
<1>2. \A j \in 1 .. Len(command) : command[j] \notin {NUL, UNINIT}
  OBVIOUS
<1>3. Len(command) \in Nat
  OBVIOUS
<1>4. m = Len(command) + 1
  <2>1. CASE m \in 1 .. Len(command)
    BY <1>1, <1>2, <2>1
  <2> QED
    BY <1>1, <1>3, <2>1
<1>5. \A j \in 1 .. Len(command) : command[j] # NEWLINE
  BY <1>1, <1>3, <1>4
<1> QED
  BY <1>5 DEF Contains

=============================================================================
