---------------------------- MODULE SystemCalls ----------------------------
(***************************************************************************)
(* examples/systemcalls/systemcalls.c: do_system, do_exec and              *)
(* do_exec_redirect, each a parent that forks and waits and a child that   *)
(* executes a command.  Calls run concurrently, from threads of one        *)
(* program.                                                                *)
(*                                                                         *)
(* The wait status of a child is "zero", "nonzero" (exited with that) or   *)
(* "killed".  What the command does, how it ends, and when a signal        *)
(* interrupts the parent's wait is not in the repository and left open.    *)
(*                                                                         *)
(* The caller's program prints through stdio, and a child made by fork has *)
(* a copy of what is still in the stdio buffer; system() makes its child   *)
(* otherwise.  The calls of do_exec_redirect have one output file.  A      *)
(* command writes its call's name, again and again, to standard output;    *)
(* only what goes to the file is kept.                                     *)
(***************************************************************************)
EXTENDS Naturals, FiniteSets, Sequences, SequencesExt

CONSTANTS
  Calls,          \* calls, each made once
  OldContents,    \* what the output file may hold at first
  MaxPrints, MaxOutput    \* bounds: texts printed, bytes a command writes

ASSUME SystemCallsAssumption == \A f \in OldContents : f \in Seq(Range(f))

VARIABLES
  fn,         \* the function called
  pc,         \* the parent: idle, wait, returned
  child,      \* the child: none, redirect, exec, running, a status, reaped
  status,     \* the status that waitpid stored
  ret,        \* what the function returned
  executed,   \* history: calls whose command was executed
  interrupted,\* history: calls whose wait failed
  printed,    \* number of texts the caller has printed; they are 1, 2, ...
  buffered,   \* the caller's stdio buffer
  inherited,  \* each child's copy of it
  stdout,     \* where the child's descriptor 1 leads: terminal or file
  terminal,   \* what has been written to the terminal by stdio
  file, pos,  \* the output file; each child's position in it
  output,     \* history: what each command wrote to the file
  before,     \* history: the file when the child opened it
  alone       \* history: calls during which no other call had the file open

result == <<fn, pc, status, ret, executed, interrupted>>
stdio  == <<printed, buffered, inherited, stdout, terminal>>
files  == <<file, pos, output, before, alone>>
vars   == <<result, child, stdio, files>>

Functions == {"system", "exec", "redirect"}
Statuses  == {"zero", "nonzero", "killed"}

Init ==
  /\ fn \in [Calls -> Functions]
  /\ pc = [c \in Calls |-> "idle"]
  /\ child = [c \in Calls |-> "none"]
  /\ status = [c \in Calls |-> "none"]
  /\ ret = [c \in Calls |-> FALSE]
  /\ executed = {}
  /\ interrupted = {}
  /\ printed = 0 /\ buffered = << >> /\ terminal = << >>
  /\ inherited = [c \in Calls |-> << >>]
  /\ stdout = [c \in Calls |-> "terminal"]
  /\ file \in OldContents
  /\ pos = [c \in Calls |-> 0]
  /\ output = [c \in Calls |-> << >>] /\ before = [c \in Calls |-> << >>]
  /\ alone = {}

-----------------------------------------------------------------------------
(***************************************************************************)
(* Mutated forms of definitions below, used only to show that the          *)
(* properties notice.                                                      *)
(***************************************************************************)

\* WEXITSTATUS is not looked at
MutAnyExit(s) == s # "killed"

\* no exit after execv: the child goes on as a second copy of the caller
MutFallsThrough(c) ==
  /\ child' = [child EXCEPT ![c] = "copy"]
  /\ UNCHANGED <<terminal, file, pos>>

\* the child flushes stdio before execv
MutFlushes(c) == terminal' = terminal \o inherited[c]

\* open with O_APPEND: writes go to the end
MutAppends(c) == Len(file)

\* waitpid with WNOHANG: the call returns while the child runs
MutWaitsNot(c) ==
  /\ pc[c] = "wait"
  /\ pc' = [pc EXCEPT ![c] = "returned"]
  /\ UNCHANGED <<fn, child, status, ret, executed, interrupted, stdio, files>>

-----------------------------------------------------------------------------
(***************************************************************************)
(* The parent                                                              *)
(***************************************************************************)

WIFEXITED(s) == s # "killed"

do_system_result(s) == WIFEXITED(s)

do_exec_result(s) == WIFEXITED(s) /\ s = "zero"

\* true if it exited, and true at the end of the function
do_exec_redirect_result(s) == TRUE

Result(f, s) ==
  CASE f = "system"   -> do_system_result(s)
    [] f = "exec"     -> do_exec_result(s)
    [] f = "redirect" -> do_exec_redirect_result(s)

Return(c, value) ==
  /\ pc' = [pc EXCEPT ![c] = "returned"]
  /\ ret' = [ret EXCEPT ![c] = value]

\* the arguments are collected, then fork, which may fail
fork(c) ==
  /\ pc[c] = "idle"
  /\ \/ /\ Return(c, FALSE)
        /\ UNCHANGED <<child, inherited>>
     \/ /\ pc' = [pc EXCEPT ![c] = "wait"]
        /\ child' = [child EXCEPT ![c] =
                       IF fn[c] = "redirect" THEN "redirect" ELSE "exec"]
        /\ inherited' = [inherited EXCEPT ![c] =
                           IF fn[c] = "system" THEN << >> ELSE buffered]
        /\ UNCHANGED ret
  /\ UNCHANGED <<fn, status, executed, interrupted, printed, buffered, stdout,
                 terminal, files>>

\* waitpid without options waits for the child to end
Ended(c) == child[c] \in Statuses

waitpid(c) ==
  /\ pc[c] = "wait"
  /\ Ended(c)
  /\ status' = [status EXCEPT ![c] = child[c]]
  /\ child' = [child EXCEPT ![c] = "reaped"]
  /\ Return(c, Result(fn[c], child[c]))
  /\ UNCHANGED <<fn, executed, interrupted, stdio, files>>

\* A signal without SA_RESTART ends the wait.  system() waits again by itself.
waitpid_fails(c) ==
  /\ pc[c] = "wait" /\ fn[c] # "system"
  /\ Return(c, FALSE)
  /\ interrupted' = interrupted \union {c}
  /\ UNCHANGED <<fn, child, status, executed, stdio, files>>

-----------------------------------------------------------------------------
(***************************************************************************)
(* The caller's program (external): a text goes to the stdio buffer, or    *)
(* the buffer to the terminal.                                             *)
(***************************************************************************)

printf ==
  /\ printed < MaxPrints
  /\ printed' = printed + 1
  /\ buffered' = Append(buffered, printed')
  /\ UNCHANGED <<result, child, inherited, stdout, terminal, files>>

fflush ==
  /\ buffered # << >>
  /\ buffered' = << >> /\ terminal' = terminal \o buffered
  /\ UNCHANGED <<result, child, printed, inherited, stdout, files>>

-----------------------------------------------------------------------------
(***************************************************************************)
(* The child                                                               *)
(***************************************************************************)

\* f with text written to it at position p
Written(f, p, text) ==
  [i \in 1 .. Max({Len(f), p + Len(text)}) |->
     IF i \in p + 1 .. p + Len(text) THEN text[i - p] ELSE f[i]]

\* exit(-1) flushes the copy of the stdio buffer to descriptor 1.
ExitFailed(c) ==
  /\ child' = [child EXCEPT ![c] = "nonzero"]
  /\ \/ /\ stdout[c] = "terminal"
        /\ terminal' = terminal \o inherited[c]
        /\ UNCHANGED <<file, pos>>
     \/ /\ stdout[c] = "file"
        /\ file' = Written(file, pos[c], inherited[c])
        /\ pos' = [pos EXCEPT ![c] = @ + Len(inherited[c])]
        /\ UNCHANGED terminal

HasFile(c) == stdout[c] = "file" /\ child[c] \in {"exec", "running"}

\* open, dup2 and close; the first two may fail.  The file is created but not
\* truncated.
redirect(c) ==
  /\ child[c] = "redirect"
  /\ \/ ExitFailed(c) /\ UNCHANGED <<stdout, before, alone>>
     \/ /\ child' = [child EXCEPT ![c] = "exec"]
        /\ stdout' = [stdout EXCEPT ![c] = "file"]
        /\ before' = [before EXCEPT ![c] = file]
        /\ LET others == {d \in Calls : HasFile(d)}
           IN  alone' = (alone \ others) \union (IF others = {} THEN {c} ELSE {})
        /\ UNCHANGED <<terminal, file, pos>>
  /\ UNCHANGED <<result, printed, buffered, inherited, output>>

\* the copy of the stdio buffer goes with the memory that execv replaces
Replaced(c) == UNCHANGED terminal

\* execv comes back only if it fails
execv(c) ==
  /\ child[c] = "exec"
  /\ \/ ExitFailed(c) /\ UNCHANGED <<executed, inherited>>
     \/ /\ child' = [child EXCEPT ![c] = "running"]
        /\ executed' = executed \union {c}
        /\ inherited' = [inherited EXCEPT ![c] = << >>]
        /\ Replaced(c)
        /\ UNCHANGED <<file, pos>>
  /\ UNCHANGED <<fn, pc, status, ret, interrupted, printed, buffered, stdout,
                 output, before, alone>>

\* each process has opened the file for itself and writes at its own position
WritePos(c) == pos[c]

\* the command writes to the output file, and ends (external)
CommandWrites(c) ==
  /\ child[c] = "running" /\ stdout[c] = "file"
  /\ Len(output[c]) < MaxOutput
  /\ file' = Written(file, WritePos(c), <<c>>)
  /\ pos' = [pos EXCEPT ![c] = WritePos(c) + 1]
  /\ output' = [output EXCEPT ![c] = Append(@, c)]
  /\ UNCHANGED <<result, child, stdio, before, alone>>

CommandEnds(c) ==
  /\ child[c] = "running"
  /\ child' \in {[child EXCEPT ![c] = s] : s \in Statuses}
  /\ UNCHANGED <<result, stdio, files>>

Parent(c) == fork(c) \/ waitpid(c)
Child(c)  == redirect(c) \/ execv(c) \/ CommandEnds(c)

Next ==
  \/ printf \/ fflush
  \/ \E c \in Calls : Parent(c) \/ waitpid_fails(c) \/ Child(c) \/ CommandWrites(c)

Spec == Init /\ [][Next]_vars

\* parents and children are scheduled, and commands end
FairSpec == Spec /\ \A c \in Calls : WF_vars(Parent(c)) /\ WF_vars(Child(c))

-----------------------------------------------------------------------------
(***************************************************************************)
(* Properties                                                              *)
(***************************************************************************)

\* The shape of the state of systemcalls.c.
TypeOK ==
  /\ fn \in [Calls -> Functions]
  /\ pc \in [Calls -> {"idle", "wait", "returned"}]
  /\ child \in [Calls -> Statuses \union
                   {"none", "redirect", "exec", "running", "reaped"}]
  /\ status \in [Calls -> Statuses \union {"none"}]
  /\ ret \in [Calls -> BOOLEAN]
  /\ executed \subseteq Calls /\ interrupted \subseteq Calls
  /\ printed \in Nat /\ buffered \in Seq(Nat)
  /\ inherited \in [Calls -> Seq(Nat)]
  /\ stdout \in [Calls -> {"terminal", "file"}] /\ pos \in [Calls -> Nat]
  /\ output \in [Calls -> Seq(Calls)] /\ alone \subseteq Calls

Tells(f) ==
  \A c \in Calls : fn[c] = f /\ pc[c] = "returned" =>
    (ret[c] <=> c \in executed /\ status[c] = "zero")

\* The return value of do_exec is true exactly if the command was executed
\* and exited with 0, whichever of fork, execv and waitpid fails.
ExecTellsTruth == Tells("exec")

\* A call leaves no child behind, running or ended, unless its waitpid was
\* interrupted: do_exec and do_exec_redirect wait for the very child they
\* forked, whatever other calls do.
NoChildLeft ==
  \A c \in Calls : pc[c] = "returned" /\ c \notin interrupted =>
    child[c] \in {"none", "reaped"}

\* Every call returns, and with it every child ends: a child that cannot
\* execute the command exits instead of returning into the caller's code.
EveryCallReturns ==
  \A c \in Calls :
    <>(pc[c] = "returned" /\ child[c] \in Statuses \union {"none", "reaped"})

Copies(n, seq) == Cardinality({i \in DOMAIN seq : seq[i] = n})

\* the child of c exited without having executed the command
GaveUp(c) == c \notin executed /\ "nonzero" \in {child[c], status[c]}

\* What the caller prints is written once, whenever it forks and flushes,
\* but for one copy more from every child that could not execute its command
\* and was forked while the text was in the buffer: exit in the child flushes
\* it to the terminal, or to the output file after dup2.
PrintedOnceButForFailedChildren ==
  \A n \in 1 .. printed :
    Copies(n, terminal \o buffered) =
      1 + Cardinality({c \in Calls : /\ GaveUp(c) /\ stdout[c] = "terminal"
                                     /\ Contains(inherited[c], n)})

\* When a command of do_exec_redirect ends that had the file for itself, the
\* file holds its output, and behind it what an earlier, longer content had
\* there: open has no O_TRUNC.
OutputOverOldContent ==
  [][\A c \in alone :
       child[c] = "running" /\ child'[c] # "running" =>
         LET n == Len(output[c])
         IN  file = output[c] \o SubSeq(before[c], n + 1, Len(before[c]))]_vars

\* systemcalls.c:5 on do_system: "false if an error occurred, either in
\* invocation of the system() call, or if a non-zero return value was
\* returned by the command".
SystemTellsTruth == Tells("system")

\* systemcalls.c:108 on do_exec_redirect: "The rest of the behaviour is same
\* as do_exec()".
RedirectTellsTruth == Tells("redirect")

=============================================================================
