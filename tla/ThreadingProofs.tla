-------------------------- MODULE ThreadingProofs --------------------------
(***************************************************************************)
(* Theorems about Threading for any number of threads and blocks, and for  *)
(* mutexes of either kind: type correctness, mutual exclusion, that the    *)
(* joiner reads the truth, and who owns the blocks.                        *)
(***************************************************************************)
EXTENDS Threading, FiniteSetTheorems, TLAPS

\* A thread has a block from pthread_create to the join, and none outside.
BlockWhileRunning ==
  \A t \in Threads :
    t_data[t] # NoBlock <=> pc[t] \in {"locking", "holding", "failed", "returned"}

\* The local success follows the lock, and nothing is given back before the
\* unlock.
SuccessFollowsLock ==
  \A t \in Threads :
    /\ pc[t] \in {"none", "locking", "failed"} => ~success[t]
    /\ pc[t] = "holding" => success[t]
    /\ t \in held => pc[t] \in {"returned", "joined"}

\* What threadfunc has stored before it returns.
VerdictStored ==
  \A t \in Threads :
    pc[t] = "returned" => (complete[t_data[t]] <=> t \in held)

\* A thread that has not begun has not been tried, or could not be started.
StartedFirst ==
  \A t \in Threads : started[t] = "false" => pc[t] = "none"

\* The inductive invariant.  The verdict is read long after it was stored, so
\* the block must not change hands in between; the verdict is true because a
\* thread whose lock failed does not own the mutex it tries to unlock.
IInv ==
  /\ TypeOK
  /\ OnlyHolderWaits
  /\ SuccessIsTrue
  /\ BlocksAreOwn
  /\ BlockWhileRunning
  /\ SuccessFollowsLock
  /\ VerdictStored
  /\ StartedFirst

\* Init establishes the invariant.
LEMMA InitIInv == Init => IInv
  BY ThreadingAssumption
  DEF Init, IInv, TypeOK, OnlyHolderWaits, SuccessIsTrue, BlocksAreOwn,
      BlockWhileRunning, SuccessFollowsLock, VerdictStored, StartedFirst, Result

-----------------------------------------------------------------------------
\* start_thread_obtaining_mutex hands a fresh block to a fresh thread.
LEMMA StartStep ==
  ASSUME IInv, NEW t \in Threads, start_thread_obtaining_mutex(t)
  PROVE  IInv'
<1> USE ThreadingAssumption
    DEF IInv, start_thread_obtaining_mutex, Allocate
<1>1. TypeOK'
  BY DEF TypeOK, Result
<1>2. OnlyHolderWaits'
  BY DEF OnlyHolderWaits, TypeOK
<1>3. SuccessIsTrue'
  BY DEF SuccessIsTrue, TypeOK
<1>4. BlocksAreOwn'
  BY DEF BlocksAreOwn, BlockWhileRunning, TypeOK
<1>5. BlockWhileRunning'
  <2>1. CASE pc' = pc /\ t_data' = t_data
    BY <2>1 DEF BlockWhileRunning
  <2>2. ASSUME NEW b \in Blocks, t_data' = [t_data EXCEPT ![t] = b],
               pc' = [pc EXCEPT ![t] = "locking"]
        PROVE  BlockWhileRunning'
    BY <2>2 DEF BlockWhileRunning, TypeOK
  <2>3. \/ pc' = pc /\ t_data' = t_data
        \/ \E b \in Blocks : /\ t_data' = [t_data EXCEPT ![t] = b]
                             /\ pc' = [pc EXCEPT ![t] = "locking"]
    OBVIOUS
  <2> QED
    BY <2>1, <2>2, <2>3
<1>6. SuccessFollowsLock'
  BY DEF SuccessFollowsLock, TypeOK
<1>7. VerdictStored'
  BY DEF VerdictStored, TypeOK
<1>8. StartedFirst'
  BY DEF StartedFirst, TypeOK
<1> QED
  BY <1>1, <1>2, <1>3, <1>4, <1>5, <1>6, <1>7, <1>8

\* The lock, whether it succeeds or not.
LEMMA LockStep ==
  ASSUME IInv, NEW t \in Threads, threadfunc_lock(t) \/ threadfunc_lock_fails(t)
  PROVE  IInv'
<1> USE ThreadingAssumption
    DEF IInv, threadfunc_lock, threadfunc_lock_fails, Locked, NotLocked
<1>1. TypeOK'
  BY DEF TypeOK
<1>2. OnlyHolderWaits'
  BY DEF OnlyHolderWaits, TypeOK
<1>3. SuccessIsTrue'
  BY DEF SuccessIsTrue, TypeOK
<1>4. BlocksAreOwn'
  BY DEF BlocksAreOwn, TypeOK
<1>5. BlockWhileRunning'
  BY DEF BlockWhileRunning, TypeOK
<1>6. SuccessFollowsLock'
  BY DEF SuccessFollowsLock, TypeOK
<1>7. VerdictStored'
  BY DEF VerdictStored, TypeOK
<1>8. StartedFirst'
  BY DEF StartedFirst, TypeOK
<1> QED
  BY <1>1, <1>2, <1>3, <1>4, <1>5, <1>6, <1>7, <1>8

\* The unlock and the verdict.
LEMMA UnlockStep ==
  ASSUME IInv, NEW t \in Threads, threadfunc_unlock(t)
  PROVE  IInv'
<1> USE ThreadingAssumption DEF IInv
<1>1. PICK res \in {0, 1} :
        /\ res = 0 <=> mutex = t
        /\ \/ res = 0 /\ mutex' = NoThread /\ held' = held \union {t}
           \/ res = 1 /\ UNCHANGED <<mutex, held>>
        /\ complete' = [complete EXCEPT ![t_data[t]] = Verdict(t, res)]
  BY DEF threadfunc_unlock, Unlock
<1>2. /\ pc[t] \in {"holding", "failed"} /\ pc' = [pc EXCEPT ![t] = "returned"]
      /\ UNCHANGED <<t_data, inuse, success, started, seen>>
  BY DEF threadfunc_unlock
<1>3. t_data[t] \in Blocks /\ \A u \in Threads \ {t} : t_data[u] # t_data[t]
  BY <1>2 DEF BlocksAreOwn, BlockWhileRunning, TypeOK
<1>4. mutex = t <=> pc[t] = "holding"
  BY DEF OnlyHolderWaits
<1>5. Verdict(t, res) \in BOOLEAN /\ (Verdict(t, res) <=> pc[t] = "holding")
  BY <1>1, <1>2, <1>4 DEF Verdict, SuccessFollowsLock, TypeOK
<1>6. t \in held' <=> pc[t] = "holding"
  BY <1>1, <1>2, <1>4 DEF SuccessFollowsLock
<1>7. \A u \in Threads \ {t} : u \in held' <=> u \in held
  BY <1>1
<1>8. TypeOK'
  BY <1>1, <1>2, <1>3, <1>5 DEF TypeOK
<1>9. OnlyHolderWaits'
  BY <1>1, <1>2, <1>4 DEF OnlyHolderWaits, TypeOK
<1>10. SuccessIsTrue'
  BY <1>2, <1>7 DEF SuccessIsTrue, TypeOK
<1>11. BlocksAreOwn'
  BY <1>2 DEF BlocksAreOwn
<1>12. BlockWhileRunning'
  BY <1>2 DEF BlockWhileRunning, TypeOK
<1>13. SuccessFollowsLock'
  BY <1>2, <1>6, <1>7 DEF SuccessFollowsLock, TypeOK
<1>14. VerdictStored'
  <2> SUFFICES ASSUME NEW u \in Threads, pc'[u] = "returned"
               PROVE  complete'[t_data'[u]] <=> u \in held'
    BY DEF VerdictStored
  <2>1. CASE u = t
    BY <2>1, <1>1, <1>2, <1>3, <1>5, <1>6 DEF TypeOK
  <2>2. CASE u # t
    <3>1. pc[u] = "returned" /\ t_data[u] # t_data[t]
      BY <2>2, <1>2, <1>3 DEF TypeOK
    <3>2. t_data[u] \in Blocks
      BY <3>1 DEF BlockWhileRunning, TypeOK
    <3> QED
      BY <2>2, <3>1, <3>2, <1>1, <1>2, <1>7 DEF VerdictStored, TypeOK
  <2> QED
    BY <2>1, <2>2
<1>15. StartedFirst'
  BY <1>2 DEF StartedFirst, TypeOK
<1> QED
  BY <1>8, <1>9, <1>10, <1>11, <1>12, <1>13, <1>14, <1>15

\* The join takes the block out of use.
LEMMA JoinStep ==
  ASSUME IInv, NEW t \in Threads, Join(t)
  PROVE  IInv'
<1> USE ThreadingAssumption DEF IInv, Join, ThreadParam
<1>1. TypeOK'
  BY DEF TypeOK, Truth, Result
<1>2. OnlyHolderWaits'
  BY DEF OnlyHolderWaits, TypeOK
<1>3. SuccessIsTrue'
  BY DEF SuccessIsTrue, VerdictStored, Truth, TypeOK
<1>4. BlocksAreOwn'
  BY DEF BlocksAreOwn, BlockWhileRunning, TypeOK
<1>5. BlockWhileRunning'
  BY DEF BlockWhileRunning, TypeOK
<1>6. SuccessFollowsLock'
  BY DEF SuccessFollowsLock, TypeOK
<1>7. VerdictStored'
  BY DEF VerdictStored, TypeOK
<1>8. StartedFirst'
  BY DEF StartedFirst, TypeOK
<1> QED
  BY <1>1, <1>2, <1>3, <1>4, <1>5, <1>6, <1>7, <1>8

\* Every step preserves the invariant.
LEMMA NextIInv == IInv /\ [Next]_vars => IInv'
<1> SUFFICES ASSUME IInv, [Next]_vars PROVE IInv'
  OBVIOUS
<1>1. CASE UNCHANGED vars
  BY <1>1
  DEF vars, IInv, TypeOK, OnlyHolderWaits, SuccessIsTrue, BlocksAreOwn,
      BlockWhileRunning, SuccessFollowsLock, VerdictStored, StartedFirst
<1>2. CASE Next
  BY <1>2, StartStep, LockStep, UnlockStep, JoinStep DEF Next, Run
<1> QED
  BY <1>1, <1>2

-----------------------------------------------------------------------------
(***************************************************************************)
(* Blocks that are lost.  Both sets below stay finite, however many        *)
(* threads there may be, because each step adds at most one element.       *)
(***************************************************************************)

Lost == inuse \ {t_data[t] : t \in Threads}

NotStarted == {t \in Threads : started[t] = "false"}

LossInv ==
  /\ IsFiniteSet(Lost) /\ IsFiniteSet(NotStarted)
  /\ Cardinality(Lost) <= Cardinality(NotStarted)

\* One more failed start makes up for at most one more lost block.
LEMMA OneMoreLost ==
  ASSUME NEW L, NEW F, NEW b, NEW t, IsFiniteSet(L), IsFiniteSet(F),
         Cardinality(L) <= Cardinality(F), t \notin F
  PROVE  /\ IsFiniteSet(L \union {b}) /\ IsFiniteSet(F \union {t})
         /\ Cardinality(L) <= Cardinality(F \union {t})
         /\ Cardinality(L \union {b}) <= Cardinality(F \union {t})
<1>1. Cardinality(L) \in Nat /\ Cardinality(F) \in Nat
  BY FS_CardinalityType
<1>2. /\ IsFiniteSet(F \union {t})
      /\ Cardinality(F \union {t}) = Cardinality(F) + 1
  BY FS_AddElement
<1>3. /\ IsFiniteSet(L \union {b})
      /\ \/ Cardinality(L \union {b}) = Cardinality(L)
         \/ Cardinality(L \union {b}) = Cardinality(L) + 1
  BY FS_AddElement
<1> QED
  BY <1>1, <1>2, <1>3

\* A start loses at most the block it has allocated, and only if it fails.
LEMMA StartLoss ==
  ASSUME IInv, LossInv, NEW t \in Threads, start_thread_obtaining_mutex(t)
  PROVE  LossInv'
<1> USE DEF LossInv
<1>1. t \notin NotStarted
  BY DEF NotStarted, start_thread_obtaining_mutex
<1>2. t_data[t] = NoBlock
  BY DEF start_thread_obtaining_mutex, IInv, BlockWhileRunning, TypeOK
<1>3. CASE started' = [started EXCEPT ![t] = "false"] /\ UNCHANGED <<t_data, inuse>>
  <2>1. Lost' = Lost /\ NotStarted' = NotStarted \union {t}
    BY <1>3 DEF Lost, NotStarted, IInv, TypeOK
  <2> QED
    BY <1>1, <2>1, OneMoreLost
<1>4. ASSUME NEW b \in Blocks \ inuse, inuse' = inuse \union {b},
             started' = [started EXCEPT ![t] = "false"], UNCHANGED t_data
      PROVE  LossInv'
  <2>1. b \notin {t_data[u] : u \in Threads}
    BY <1>4, ThreadingAssumption DEF IInv, BlocksAreOwn
  <2>2. Lost' = Lost \union {b} /\ NotStarted' = NotStarted \union {t}
    BY <1>4, <2>1 DEF Lost, NotStarted, IInv, TypeOK
  <2> QED
    BY <1>1, <2>2, OneMoreLost
<1>5. ASSUME NEW b \in Blocks \ inuse, inuse' = inuse \union {b},
             started' = [started EXCEPT ![t] = "true"],
             t_data' = [t_data EXCEPT ![t] = b]
      PROVE  LossInv'
  <2>1. NotStarted' = NotStarted
    BY <1>1, <1>5 DEF NotStarted, IInv, TypeOK
  <2>2. NoBlock \notin inuse
    BY ThreadingAssumption DEF IInv, TypeOK
  <2>3. /\ \A u \in Threads \ {t} : t_data'[u] = t_data[u]
        /\ t_data'[t] = b
    BY <1>5 DEF IInv, TypeOK
  <2>4. Lost' = Lost
    BY <1>2, <1>5, <2>2, <2>3 DEF Lost
  <2> QED
    BY <2>1, <2>4
<1> QED
  BY <1>3, <1>4, <1>5 DEF start_thread_obtaining_mutex, Allocate

\* The joiner gets the block back, and nobody else had it.
LEMMA JoinLoss ==
  ASSUME IInv, LossInv, NEW t \in Threads, Join(t)
  PROVE  LossInv'
<1>1. /\ inuse' = inuse \ {t_data[t]} /\ t_data' = [t_data EXCEPT ![t] = NoBlock]
      /\ UNCHANGED started
  BY DEF Join, ThreadParam
<1>2. NotStarted' = NotStarted
  BY <1>1 DEF NotStarted
<1>3. NoBlock \notin inuse
  BY ThreadingAssumption DEF IInv, TypeOK
<1>4. /\ \A u \in Threads \ {t} : t_data'[u] = t_data[u]
      /\ t_data'[t] = NoBlock
  BY <1>1 DEF IInv, TypeOK
<1>5. Lost' = Lost
  BY <1>1, <1>3, <1>4 DEF Lost
<1> QED
  BY <1>2, <1>5 DEF LossInv

\* Every step keeps the account.
LEMMA NextLoss == IInv /\ LossInv /\ [Next]_vars => LossInv'
<1> SUFFICES ASSUME IInv, LossInv, [Next]_vars PROVE LossInv'
  OBVIOUS
<1>1. CASE UNCHANGED <<inuse, t_data, started>>
  BY <1>1 DEF LossInv, Lost, NotStarted
<1>2. CASE UNCHANGED vars
  BY <1>1, <1>2 DEF vars
<1>3. CASE Next
  BY <1>1, <1>3, StartLoss, JoinLoss
  DEF Next, Run, threadfunc_lock, threadfunc_lock_fails, threadfunc_unlock
<1> QED
  BY <1>2, <1>3

\* Nothing is allocated at first.
LEMMA InitLoss == Init => LossInv
<1> SUFFICES ASSUME Init PROVE LossInv
  OBVIOUS
<1>1. Lost = {} /\ NotStarted = {}
  BY DEF Init, Lost, NotStarted
<1>2. Cardinality({}) <= Cardinality({})
  BY FS_EmptySet
<1> QED
  BY <1>1, <1>2, FS_EmptySet DEF LossInv

-----------------------------------------------------------------------------
(***************************************************************************)
(* Theorems                                                                *)
(***************************************************************************)

\* The inductive invariant of threading.c, for any number of threads and
\* blocks and either kind of mutex.
THEOREM Invariance == Spec => []IInv
  BY InitIInv, NextIInv, PTL DEF Spec

\* Every variable of threading.c keeps its type.
THEOREM TypeCorrect == Spec => []TypeOK
<1>1. IInv => TypeOK
  BY DEF IInv
<1> QED
  BY <1>1, Invariance, PTL

\* The mutex always belongs to the one thread that waits in threadfunc
\* between lock and unlock.
THEOREM MutualExclusion == Spec => []OnlyHolderWaits
<1>1. IInv => OnlyHolderWaits
  BY DEF IInv
<1> QED
  BY <1>1, Invariance, PTL

\* The joiner reads true exactly if the thread owned the mutex and gave it
\* back.
THEOREM VerdictIsTrue == Spec => []SuccessIsTrue
<1>1. IInv => SuccessIsTrue
  BY DEF IInv
<1> QED
  BY <1>1, Invariance, PTL

\* The block of a thread is allocated and its own from start to join.
THEOREM BlocksStayOwn == Spec => []BlocksAreOwn
<1>1. IInv => BlocksAreOwn
  BY DEF IInv
<1> QED
  BY <1>1, Invariance, PTL

\* Blocks are lost only with threads that start_thread_obtaining_mutex could
\* not start, at most one with each.
THEOREM LossIsBounded == Spec => []OnlyFailedStartsLoseBlocks
<1>1. LossInv => OnlyFailedStartsLoseBlocks
  BY DEF LossInv, Lost, NotStarted, OnlyFailedStartsLoseBlocks
<1> QED
  BY <1>1, InitLoss, NextLoss, Invariance, PTL DEF Spec

=============================================================================
