----------------------------- MODULE Threading -----------------------------
(***************************************************************************)
(* examples/threading/threading.c: threads started with                    *)
(* start_thread_obtaining_mutex that wait, take a common mutex, wait, and  *)
(* give it back.                                                           *)
(*                                                                         *)
(* The caller (not part of the repository) joins a thread when it likes,   *)
(* looks at the thread_data that comes back, and frees it, as threading.h  *)
(* asks.  usleep takes any time, so it is no step of its own.  The mutex   *)
(* is the caller's: Checked says whether it is of a kind that refuses      *)
(* misuse and can fail to lock, or a default one, which always locks.      *)
(***************************************************************************)
EXTENDS Naturals, FiniteSets

CONSTANTS
  Threads,     \* calls of start_thread_obtaining_mutex, and their threads
  NoThread,
  Blocks,      \* memory for struct thread_data
  NoBlock,
  Checked

ASSUME ThreadingAssumption ==
  NoThread \notin Threads /\ NoBlock \notin Blocks /\ Checked \in BOOLEAN

VARIABLES
  pc,           \* where each thread is
  t_data,       \* the thread's block
  inuse,        \* blocks that are allocated
  complete,     \* member thread_complete_success of every block
  mutex,        \* its owner or NoThread
  success,      \* the local of threadfunc
  started,      \* what start_thread_obtaining_mutex returned
  seen,         \* what the joiner found in thread_complete_success
  held          \* history: threads that owned the mutex and gave it back

vars == <<pc, t_data, inuse, complete, mutex, success, started, seen, held>>

Result == {"true", "false", "none"}

Init ==
  /\ pc = [t \in Threads |-> "none"]
  /\ t_data = [t \in Threads |-> NoBlock]
  /\ inuse = {}
  /\ complete \in [Blocks -> BOOLEAN]
  /\ mutex = NoThread
  /\ success = [t \in Threads |-> FALSE]
  /\ started = [t \in Threads |-> "none"]
  /\ seen = [t \in Threads |-> "none"]
  /\ held = {}

Truth(b) == IF b THEN "true" ELSE "false"

-----------------------------------------------------------------------------
(***************************************************************************)
(* Mutated forms of definitions below, used only to show that the          *)
(* properties notice.                                                      *)
(***************************************************************************)

\* the thread goes on as if it had the mutex, without success
MutGoesOn(t) ==
  /\ pc' = [pc EXCEPT ![t] = "holding"]
  /\ UNCHANGED success

\* a failed lock returns at once, before the result is stored
MutReturnsEarly(t) ==
  /\ pc' = [pc EXCEPT ![t] = "returned"]
  /\ UNCHANGED success

\* NULL, the result of a malloc that failed, is taken for a block
MutTakesNull(t, b) == inuse' = inuse \union {NoBlock}

\* the starter frees the block it has handed over
MutFreesBlock(t, b) == inuse' = inuse

\* the mutex is not given back
MutKeepsMutex(t) == mutex' = mutex

\* threadfunc returns NULL: the joiner frees nothing
MutReturnsNull(t) == NoBlock

-----------------------------------------------------------------------------
(***************************************************************************)
(* start_thread_obtaining_mutex                                            *)
(***************************************************************************)

\* malloc; the starter keeps no hold on the block
Allocate(t, b) == inuse' = inuse \union {b}

\* malloc fails, or pthread_create does and the block is lost, or the thread
\* runs
start_thread_obtaining_mutex(t) ==
  /\ pc[t] = "none" /\ started[t] = "none"
  /\ \/ /\ started' = [started EXCEPT ![t] = "false"]
        /\ UNCHANGED <<pc, t_data, inuse>>
     \/ \E b \in Blocks \ inuse :
          /\ Allocate(t, b)
          /\ \/ /\ started' = [started EXCEPT ![t] = "false"]
                /\ UNCHANGED <<pc, t_data>>
             \/ /\ started' = [started EXCEPT ![t] = "true"]
                /\ t_data' = [t_data EXCEPT ![t] = b]
                /\ pc' = [pc EXCEPT ![t] = "locking"]
  /\ UNCHANGED <<complete, mutex, success, seen, held>>

-----------------------------------------------------------------------------
(***************************************************************************)
(* threadfunc                                                              *)
(***************************************************************************)

\* res = 0: wait with the mutex
Locked(t) ==
  /\ pc' = [pc EXCEPT ![t] = "holding"]
  /\ success' = [success EXCEPT ![t] = TRUE]

\* res # 0: straight on to the unlock
NotLocked(t) ==
  /\ pc' = [pc EXCEPT ![t] = "failed"]
  /\ UNCHANGED success

threadfunc_lock(t) ==
  /\ pc[t] = "locking"
  /\ mutex = NoThread /\ mutex' = t
  /\ Locked(t)
  /\ UNCHANGED <<t_data, inuse, complete, started, seen, held>>

threadfunc_lock_fails(t) ==
  /\ pc[t] = "locking" /\ Checked
  /\ NotLocked(t)
  /\ UNCHANGED <<mutex, t_data, inuse, complete, started, seen, held>>

\* pthread_mutex_unlock by the owner
Unlock(t) == mutex' = NoThread

\* success is taken back when the unlock fails
Verdict(t, res) == success[t] /\ res = 0

\* The unlock, also without the lock: a checked mutex then refuses it (EPERM,
\* here 1).  The result goes to the block, and the thread returns it.
threadfunc_unlock(t) ==
  /\ pc[t] \in {"holding", "failed"}
  /\ \E res \in {0, 1} :
       /\ res = 0 <=> mutex = t
       /\ \/ res = 0 /\ Unlock(t) /\ held' = held \union {t}
          \/ res = 1 /\ UNCHANGED <<mutex, held>>
       /\ complete' = [complete EXCEPT ![t_data[t]] = Verdict(t, res)]
  /\ pc' = [pc EXCEPT ![t] = "returned"]
  /\ UNCHANGED <<t_data, inuse, success, started, seen>>

\* return thread_param
ThreadParam(t) == t_data[t]

-----------------------------------------------------------------------------
\* pthread_join, and free of what it yields, in the caller (external)
Join(t) ==
  /\ started[t] = "true" /\ pc[t] = "returned"
  /\ seen' = [seen EXCEPT ![t] = Truth(complete[t_data[t]])]
  /\ inuse' = inuse \ {ThreadParam(t)}
  /\ t_data' = [t_data EXCEPT ![t] = NoBlock]
  /\ pc' = [pc EXCEPT ![t] = "joined"]
  /\ UNCHANGED <<complete, mutex, success, started, held>>

Run(t) == threadfunc_lock(t) \/ threadfunc_unlock(t)

Next ==
  \E t \in Threads :
    \/ start_thread_obtaining_mutex(t)
    \/ Run(t) \/ threadfunc_lock_fails(t)
    \/ Join(t)

Spec == Init /\ [][Next]_vars

\* A thread that can go on does; a waiting one gets the mutex when it is free,
\* for each thread takes it only once.  No lock has to fail.
Fairness == \A t \in Threads : WF_vars(Run(t))

FairSpec == Spec /\ Fairness

-----------------------------------------------------------------------------
(***************************************************************************)
(* Properties                                                              *)
(***************************************************************************)

\* The shape of the state of threading.c and its caller.
TypeOK ==
  /\ pc \in [Threads -> {"none", "locking", "holding", "failed", "returned", "joined"}]
  /\ t_data \in [Threads -> Blocks \union {NoBlock}]
  /\ inuse \subseteq Blocks
  /\ complete \in [Blocks -> BOOLEAN]
  /\ mutex \in Threads \union {NoThread}
  /\ success \in [Threads -> BOOLEAN]
  /\ started \in [Threads -> Result] /\ seen \in [Threads -> Result]
  /\ held \subseteq Threads

\* The mutex belongs to the one thread of threadfunc that waits between lock
\* and unlock, also while others that failed to lock try to unlock it.
OnlyHolderWaits == \A t \in Threads : pc[t] = "holding" <=> mutex = t

\* The joiner reads true exactly if the thread owned the mutex and gave it
\* back: threadfunc stores its verdict in a block that malloc did not clear,
\* on every path.
SuccessIsTrue ==
  \A t \in Threads : pc[t] = "joined" => (seen[t] = "true" <=> t \in held)

\* A running thread's block is allocated and nobody else's, from the malloc
\* in start_thread_obtaining_mutex to the free after the join.
BlocksAreOwn ==
  \A t \in Threads : t_data[t] # NoBlock =>
    /\ t_data[t] \in inuse
    /\ \A u \in Threads \ {t} : t_data[u] # t_data[t]

\* Blocks are lost only with threads that could not be started, one at most
\* with each: every other block comes back to the joiner from threadfunc.
\* The lost ones are those start_thread_obtaining_mutex does not free when
\* pthread_create fails.
OnlyFailedStartsLoseBlocks ==
  Cardinality(inuse \ {t_data[t] : t \in Threads})
    <= Cardinality({t \in Threads : started[t] = "false"})

\* Every thread that was started returns: threadfunc gives the mutex on.
ThreadsReturn ==
  \A t \in Threads : pc[t] = "locking" ~> pc[t] \in {"returned", "joined"}

=============================================================================
