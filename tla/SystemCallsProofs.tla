------------------------- MODULE SystemCallsProofs -------------------------
(***************************************************************************)
(* Theorems about SystemCalls for any number of concurrent calls: type     *)
(* correctness, that do_exec tells the truth, that children are reaped,    *)
(* what becomes of the text the caller has printed, and what the output    *)
(* file holds.                                                             *)
(***************************************************************************)
EXTENDS SystemCalls, FiniteSetTheorems, TLAPS

\* How far a call has come, in the parent and in the child: the child of an
\* interrupted wait lives on without the parent; the status is stored with
\* the return value; a child that ends with 0 or by a signal has executed its
\* command.
CallState(c) ==
  /\ pc[c] = "idle" => child[c] = "none"
  /\ pc[c] = "wait" =>
       child[c] \in {"redirect", "exec", "running"} \union Statuses
  /\ pc[c] = "returned" /\ c \notin interrupted => child[c] \in {"none", "reaped"}
  /\ c \in interrupted => pc[c] = "returned"
  /\ status[c] # "none" <=> child[c] = "reaped"
  /\ status[c] # "none" =>
       pc[c] = "returned" /\ ret[c] = Result(fn[c], status[c])
  /\ status[c] = "none" => ~ret[c]
  /\ c \in executed => child[c] \in {"running", "reaped"} \union Statuses
  /\ child[c] = "running" => c \in executed
  /\ child[c] \in {"zero", "killed"} => c \in executed
  /\ status[c] \in {"zero", "killed"} => c \in executed
  /\ child[c] \in {"none", "redirect"} => stdout[c] = "terminal"

\* The inductive invariant behind the return values.
IInv == TypeOK /\ \A c \in Calls : CallState(c)

\* Init establishes the invariant.
LEMMA InitIInv == Init => IInv
  BY DEF Init, IInv, TypeOK, CallState, Statuses

-----------------------------------------------------------------------------
\* A step of call c leaves the other calls alone.
LEMMA OthersKeepState ==
  ASSUME NEW c \in Calls, NEW d \in Calls, CallState(d),
         fn' = fn, pc'[d] = pc[d], child'[d] = child[d], status'[d] = status[d],
         ret'[d] = ret[d], stdout'[d] = stdout[d],
         d \in executed' <=> d \in executed,
         d \in interrupted' <=> d \in interrupted
  PROVE  CallState(d)'
  BY DEF CallState

\* An update keeps the type of a function.
LEMMA UpdateType ==
  ASSUME NEW S, NEW T, NEW f \in [S -> T], NEW x, NEW v \in T
  PROVE  [f EXCEPT ![x] = v] \in [S -> T]
  OBVIOUS

\* The parent's steps.
LEMMA ForkStep ==
  ASSUME IInv, NEW c \in Calls, fork(c)
  PROVE  IInv'
<1> USE DEF IInv, fork, Return, files
<1>0. inherited' \in [Calls -> Seq(Nat)]
  <2>1. << >> \in Seq(Nat) /\ buffered \in Seq(Nat)
    BY DEF TypeOK
  <2>2. \/ inherited' = inherited
        \/ inherited' = [inherited EXCEPT ![c] = << >>]
        \/ inherited' = [inherited EXCEPT ![c] = buffered]
    BY DEF TypeOK
  <2>3. inherited \in [Calls -> Seq(Nat)]
    BY DEF TypeOK
  <2> HIDE DEF IInv, fork
  <2> QED
    BY <2>1, <2>2, <2>3, UpdateType
<1>1. TypeOK'
  BY <1>0 DEF TypeOK, Statuses
<1>2. CallState(c)'
  BY DEF CallState, TypeOK, Statuses
<1>3. ASSUME NEW d \in Calls, d # c PROVE CallState(d)'
  BY <1>3, OthersKeepState DEF TypeOK
<1> QED
  BY <1>1, <1>2, <1>3

\* The status is stored and the value computed from it returned.
LEMMA WaitStep ==
  ASSUME IInv, NEW c \in Calls, waitpid(c)
  PROVE  IInv'
<1> USE DEF IInv, waitpid, Return, Ended, stdio, files
<1>1. Result(fn[c], child[c]) \in BOOLEAN
  BY DEF Result, do_system_result, do_exec_result, do_exec_redirect_result,
         WIFEXITED, TypeOK, Functions
<1>2. TypeOK'
  BY <1>1 DEF TypeOK, Statuses
<1>3. CallState(c)'
  BY DEF CallState, TypeOK, Statuses
<1>4. ASSUME NEW d \in Calls, d # c PROVE CallState(d)'
  BY <1>4, OthersKeepState DEF TypeOK
<1> QED
  BY <1>2, <1>3, <1>4

\* The interrupted wait leaves the child to itself.
LEMMA WaitFailsStep ==
  ASSUME IInv, NEW c \in Calls, waitpid_fails(c)
  PROVE  IInv'
<1> USE DEF IInv, waitpid_fails, Return, stdio, files
<1>1. TypeOK'
  BY DEF TypeOK, Statuses
<1>2. CallState(c)'
  BY ZenonT(30) DEF CallState, TypeOK, Statuses
<1>3. ASSUME NEW d \in Calls, d # c PROVE CallState(d)'
  BY <1>3, OthersKeepState DEF TypeOK
<1> QED
  BY <1>1, <1>2, <1>3

\* The caller's printing.
LEMMA PrintStep ==
  ASSUME IInv, printf \/ fflush
  PROVE  IInv'
<1> USE DEF IInv, printf, fflush, result, files
<1>0. printed' \in Nat /\ buffered' \in Seq(Nat)
  <2>1. CASE printf
    BY <2>1 DEF TypeOK
  <2>2. CASE fflush
    BY <2>2 DEF TypeOK
  <2> QED
    BY <2>1, <2>2
<1>1. TypeOK'
  BY <1>0 DEF TypeOK
<1>2. ASSUME NEW d \in Calls PROVE CallState(d)'
  BY <1>2 DEF CallState
<1> QED
  BY <1>1, <1>2

\* The child's steps.
LEMMA RedirectStep ==
  ASSUME IInv, NEW c \in Calls, redirect(c)
  PROVE  IInv'
<1> USE DEF IInv, redirect, ExitFailed, result
<1>0. pos[c] + Len(inherited[c]) \in Nat
  BY DEF TypeOK
<1>1. pos' \in [Calls -> Nat]
  BY <1>0, ZenonT(30) DEF TypeOK
<1>2. alone' \subseteq Calls
  BY DEF TypeOK
<1>3. TypeOK'
  BY <1>1, <1>2 DEF TypeOK, Statuses
<1>4. CallState(c)'
  BY DEF CallState, TypeOK, Statuses
<1>5. ASSUME NEW d \in Calls, d # c PROVE CallState(d)'
  BY <1>5, OthersKeepState DEF TypeOK
<1> QED
  BY <1>3, <1>4, <1>5

\* The child becomes the command, or gives up.
LEMMA ExecvStep ==
  ASSUME IInv, NEW c \in Calls, execv(c)
  PROVE  IInv'
<1> USE DEF IInv, execv, ExitFailed, Replaced
<1>0. pos[c] + Len(inherited[c]) \in Nat
  BY DEF TypeOK
<1>1. pos' \in [Calls -> Nat]
  BY <1>0, ZenonT(30) DEF TypeOK
<1>2. inherited' \in [Calls -> Seq(Nat)]
  <2>1. << >> \in Seq(Nat)
    OBVIOUS
  <2> QED
    BY <2>1, ZenonT(30) DEF TypeOK
<1>5. TypeOK'
  BY <1>1, <1>2 DEF TypeOK, Statuses
<1>3. CallState(c)'
  BY DEF CallState, TypeOK, Statuses
<1>4. ASSUME NEW d \in Calls, d # c PROVE CallState(d)'
  BY <1>4, OthersKeepState DEF TypeOK
<1> QED
  BY <1>3, <1>4, <1>5

\* The command writes and ends.
LEMMA CommandStep ==
  ASSUME IInv, NEW c \in Calls, CommandWrites(c) \/ CommandEnds(c)
  PROVE  IInv'
<1> USE DEF IInv, CommandWrites, CommandEnds, WritePos, result, stdio, files
<1>1. output' \in [Calls -> Seq(Calls)]
  <2>1. Append(output[c], c) \in Seq(Calls)
    BY DEF TypeOK
  <2> QED
    BY <2>1, ZenonT(30) DEF TypeOK
<1>5. pos' \in [Calls -> Nat]
  <2>1. pos \in [Calls -> Nat] /\ pos[c] + 1 \in Nat
    BY DEF TypeOK
  <2>2. pos' = pos \/ pos' = [pos EXCEPT ![c] = pos[c] + 1]
    OBVIOUS
  <2> QED
    BY <2>1, <2>2, UpdateType
<1>2. TypeOK'
  BY <1>1, <1>5 DEF TypeOK, Statuses
<1>3. CallState(c)'
  BY DEF CallState, TypeOK, Statuses
<1>4. ASSUME NEW d \in Calls, d # c PROVE CallState(d)'
  BY <1>4, OthersKeepState DEF TypeOK
<1> QED
  BY <1>2, <1>3, <1>4

\* Every step preserves the invariant.
LEMMA NextIInv == IInv /\ [Next]_vars => IInv'
<1> SUFFICES ASSUME IInv, [Next]_vars PROVE IInv'
  OBVIOUS
<1>1. CASE UNCHANGED vars
  BY <1>1 DEF vars, result, stdio, files, IInv, TypeOK, CallState
<1>2. CASE Next
  BY <1>2, PrintStep, ForkStep, WaitStep, WaitFailsStep, RedirectStep,
     ExecvStep, CommandStep
  DEF Next, Parent, Child
<1> QED
  BY <1>1, <1>2

-----------------------------------------------------------------------------
\* The behaviours of SystemCalls satisfy the invariant.
THEOREM Invariance == Spec => []IInv
  BY InitIInv, NextIInv, PTL DEF Spec

\* The state keeps its shape, for every set of calls.
THEOREM TypeCorrect == Spec => []TypeOK
<1>1. IInv => TypeOK
  BY DEF IInv
<1> QED
  BY <1>1, Invariance, PTL

\* do_exec returns true exactly if the command was executed and exited with
\* 0, whatever fails and whatever other calls do.
THEOREM ExecIsHonest == Spec => []ExecTellsTruth
<1>1. IInv => ExecTellsTruth
  <2> SUFFICES ASSUME IInv, NEW c \in Calls, fn[c] = "exec", pc[c] = "returned"
               PROVE  ret[c] <=> c \in executed /\ status[c] = "zero"
    BY DEF ExecTellsTruth, Tells
  <2>1. CallState(c) /\ TypeOK
    BY DEF IInv
  <2>2. CASE status[c] = "none"
    BY <2>1, <2>2 DEF CallState, TypeOK
  <2>3. CASE status[c] # "none"
    <3>1. ret[c] = (status[c] # "killed" /\ status[c] = "zero")
      BY <2>1, <2>3 DEF CallState, Result, do_exec_result, WIFEXITED
    <3>2. status[c] = "zero" => c \in executed
      BY <2>1 DEF CallState
    <3> QED
      BY <3>1, <3>2
  <2> QED
    BY <2>2, <2>3
<1> QED
  BY <1>1, Invariance, PTL

\* A call that was not interrupted has reaped its child when it returns.
THEOREM ChildrenAreReaped == Spec => []NoChildLeft
<1>1. IInv => NoChildLeft
  BY DEF IInv, CallState, NoChildLeft
<1> QED
  BY <1>1, Invariance, PTL

-----------------------------------------------------------------------------
(***************************************************************************)
(* What the caller prints                                                  *)
(***************************************************************************)

\* The places of n in a sequence are a finite set.
LEMMA PlacesFinite ==
  ASSUME NEW S, NEW s \in Seq(S), NEW n
  PROVE  /\ IsFiniteSet({i \in DOMAIN s : s[i] = n})
         /\ Copies(n, s) \in Nat
<1>1. DOMAIN s = 1 .. Len(s) /\ Len(s) \in Nat
  OBVIOUS
<1>2. IsFiniteSet(1 .. Len(s))
  BY <1>1, FS_Interval
<1>3. IsFiniteSet({i \in DOMAIN s : s[i] = n})
  BY <1>1, <1>2, FS_Subset
<1> QED
  BY <1>3, FS_CardinalityType DEF Copies

\* Copies of n in a concatenation.
LEMMA CopiesConcat ==
  ASSUME NEW S, NEW s \in Seq(S), NEW t \in Seq(S), NEW n
  PROVE  Copies(n, s \o t) = Copies(n, s) + Copies(n, t)
<1> DEFINE A == {i \in DOMAIN s : s[i] = n}
           B == {i \in DOMAIN t : t[i] = n}
           C == {i \in DOMAIN (s \o t) : (s \o t)[i] = n}
           D == C \ A
           f == [i \in B |-> i + Len(s)]
<1>1. IsFiniteSet(A) /\ IsFiniteSet(B) /\ IsFiniteSet(C)
  <2>1. s \o t \in Seq(S)
    OBVIOUS
  <2> QED
    BY <2>1, PlacesFinite
<1>2. /\ Len(s) \in Nat /\ Len(t) \in Nat
      /\ DOMAIN s = 1 .. Len(s) /\ DOMAIN t = 1 .. Len(t)
      /\ DOMAIN (s \o t) = 1 .. Len(s) + Len(t)
      /\ \A i \in 1 .. Len(s) : (s \o t)[i] = s[i]
      /\ \A i \in 1 .. Len(t) : (s \o t)[i + Len(s)] = t[i]
  OBVIOUS
<1>3. A \subseteq C
  BY <1>2
<1>4. D = {i \in Len(s) + 1 .. Len(s) + Len(t) : (s \o t)[i] = n}
  BY <1>2
<1>5. f \in Bijection(B, D)
  <2>1. \A i \in B : f[i] \in D
    BY <1>2, <1>4
  <2>2. \A i, j \in B : f[i] = f[j] => i = j
    BY <1>2
  <2>3. \A k \in D : \E i \in B : f[i] = k
    <3> SUFFICES ASSUME NEW k \in D PROVE k - Len(s) \in B /\ f[k - Len(s)] = k
      OBVIOUS
    <3>1. k - Len(s) \in 1 .. Len(t) /\ (k - Len(s)) + Len(s) = k
      BY <1>2, <1>4
    <3>2. t[k - Len(s)] = n
      BY <1>2, <1>4, <3>1
    <3> QED
      BY <1>2, <3>1, <3>2
  <2>4. f \in [B -> D]
    BY <2>1
  <2> HIDE DEF B, D, f
  <2>5. f \in Injection(B, D)
    BY <2>2, <2>4 DEF Injection, IsInjective
  <2>6. f \in Surjection(B, D)
    BY <2>3, <2>4 DEF Surjection
  <2> QED
    BY <2>5, <2>6 DEF Bijection
<1>6. Cardinality(B) = Cardinality(D)
  <2>1. ExistsBijection(B, D)
    BY <1>5 DEF ExistsBijection
  <2> QED
    BY <1>1, <2>1, FS_Bijection
<1>7. Cardinality(C) = Cardinality(A) + Cardinality(D)
  <2>1. IsFiniteSet(D) /\ A \union D = C /\ A \intersect D = {}
    BY <1>1, <1>3, FS_Subset
  <2> HIDE DEF A, C, D
  <2>2. Cardinality(A) \in Nat /\ Cardinality(D) \in Nat
    BY <1>1, <2>1, FS_CardinalityType
  <2>3. Cardinality(A \union D) =
          Cardinality(A) + Cardinality(D) - Cardinality(A \intersect D)
    BY <1>1, <2>1, FS_Union
  <2>4. Cardinality(A \intersect D) = 0
    BY <2>1, FS_EmptySet
  <2>5. Cardinality(C) = Cardinality(A) + Cardinality(D) - 0
    BY <2>1, <2>3, <2>4
  <2> QED
    BY <2>2, <2>5
<1> QED
  BY <1>6, <1>7 DEF Copies

\* A sequence without repetition has one copy of what is in it.
LEMMA CopiesOnce ==
  ASSUME NEW S, NEW s \in Seq(S), NEW n,
         \A i, j \in 1 .. Len(s) : s[i] = s[j] => i = j
  PROVE  Copies(n, s) = IF Contains(s, n) THEN 1 ELSE 0
<1>1. DOMAIN s = 1 .. Len(s)
  OBVIOUS
<1>2. CASE Contains(s, n)
  <2>1. PICK i \in 1 .. Len(s) : s[i] = n
    BY <1>2 DEF Contains
  <2>2. {k \in DOMAIN s : s[k] = n} = {i}
    BY <1>1, <2>1
  <2> QED
    BY <1>2, <2>2, FS_Singleton DEF Copies
<1>3. CASE ~Contains(s, n)
  <2>1. {k \in DOMAIN s : s[k] = n} = {}
    BY <1>1, <1>3 DEF Contains
  <2> QED
    BY <1>3, <2>1, FS_EmptySet DEF Copies
<1> QED
  BY <1>2, <1>3

\* the children that flush their copy of text n to the terminal
Extra(n) ==
  {c \in Calls : GaveUp(c) /\ stdout[c] = "terminal" /\ Contains(inherited[c], n)}

\* The buffer holds the last texts in order, a child's copy of it no text
\* twice, and no text is anywhere before it is printed; what is to be shown.
PrintInv ==
  /\ terminal \in Seq(Nat)
  /\ \A i \in 1 .. Len(terminal) : terminal[i] <= printed
  /\ \A i \in 1 .. Len(buffered) : buffered[i] = printed - Len(buffered) + i
  /\ \A c \in Calls : \A i \in 1 .. Len(inherited[c]) : inherited[c][i] <= printed
  /\ \A c \in Calls : \A i, j \in 1 .. Len(inherited[c]) :
       inherited[c][i] = inherited[c][j] => i = j
  /\ \A n \in 1 .. printed :
       /\ IsFiniteSet(Extra(n))
       /\ Copies(n, terminal \o buffered) = 1 + Cardinality(Extra(n))

\* A step that shows nothing: the texts stay where they are, and no child
\* gives up with the terminal open.  Only a child that has not given up gets
\* or loses a copy of the buffer.
LEMMA QuietStep ==
  ASSUME IInv, PrintInv,
         printed' = printed, buffered' = buffered, terminal' = terminal,
         \A d \in Calls :
           /\ (GaveUp(d) /\ stdout[d] = "terminal") <=>
              (GaveUp(d)' /\ stdout'[d] = "terminal")
           /\ \/ inherited'[d] = inherited[d]
              \/ ~GaveUp(d) /\ inherited'[d] \in {<< >>, buffered}
  PROVE  PrintInv'
<1>1. \A n : Extra(n)' = Extra(n)
  BY DEF Extra
<1>2. printed \in Nat /\ buffered \in Seq(Nat)
  BY DEF IInv, TypeOK
<1>3. ASSUME NEW d \in Calls
      PROVE  /\ \A i \in 1 .. Len(inherited'[d]) : inherited'[d][i] <= printed
             /\ \A i, j \in 1 .. Len(inherited'[d]) :
                  inherited'[d][i] = inherited'[d][j] => i = j
  <2>1. CASE inherited'[d] = inherited[d]
    BY <2>1 DEF PrintInv
  <2>2. CASE inherited'[d] = << >>
    BY <2>2
  <2>3. CASE inherited'[d] = buffered
    <3>1. Len(buffered) \in Nat
      BY <1>2
    <3>2. \A i \in 1 .. Len(buffered) : buffered[i] = printed - Len(buffered) + i
      BY DEF PrintInv
    <3> QED
      BY <1>2, <2>3, <3>1, <3>2
  <2> QED
    BY <2>1, <2>2, <2>3
<1> QED
  BY <1>1, <1>3 DEF PrintInv

\* A child gives up and its copy of the buffer goes to the terminal.
LEMMA FlushStep ==
  ASSUME IInv, PrintInv, NEW c \in Calls,
         ~GaveUp(c), GaveUp(c)', \A d \in Calls : d # c => GaveUp(d)' = GaveUp(d),
         stdout[c] = "terminal", stdout' = stdout, inherited' = inherited,
         printed' = printed, buffered' = buffered,
         terminal' = terminal \o inherited[c]
  PROVE  PrintInv'
<1>1. /\ printed \in Nat /\ buffered \in Seq(Nat) /\ terminal \in Seq(Nat)
      /\ inherited[c] \in Seq(Nat)
  BY DEF IInv, TypeOK, PrintInv
<1>2. terminal' \in Seq(Nat) /\ \A i \in 1 .. Len(terminal') : terminal'[i] <= printed
  <2>1. \A i \in 1 .. Len(terminal) : terminal[i] <= printed
    BY DEF PrintInv
  <2>2. \A i \in 1 .. Len(inherited[c]) : inherited[c][i] <= printed
    BY DEF PrintInv
  <2>3. ASSUME NEW i \in 1 .. Len(terminal') PROVE terminal'[i] <= printed
    <3>1. CASE i <= Len(terminal)
      BY <1>1, <2>1, <3>1
    <3>2. CASE i > Len(terminal)
      <4>1. /\ i - Len(terminal) \in 1 .. Len(inherited[c])
            /\ terminal'[i] = inherited[c][i - Len(terminal)]
        BY <1>1, <3>2
      <4> QED
        BY <2>2, <4>1
    <3> QED
      BY <1>1, <3>1, <3>2
  <2> QED
    BY <1>1, <2>3
<1>3. ASSUME NEW n \in 1 .. printed
      PROVE  /\ IsFiniteSet(Extra(n)')
             /\ Copies(n, terminal' \o buffered) = 1 + Cardinality(Extra(n)')
  <2>1. /\ IsFiniteSet(Extra(n))
        /\ Copies(n, terminal \o buffered) = 1 + Cardinality(Extra(n))
        /\ Cardinality(Extra(n)) \in Nat
    BY FS_CardinalityType DEF PrintInv
  <2>2. Copies(n, terminal \o buffered) = Copies(n, terminal) + Copies(n, buffered)
    BY <1>1, CopiesConcat
  <2>3. Copies(n, terminal') = Copies(n, terminal) + Copies(n, inherited[c])
    BY <1>1, CopiesConcat
  <2>4. Copies(n, terminal' \o buffered) = Copies(n, terminal') + Copies(n, buffered)
    BY <1>1, <1>2, CopiesConcat
  <2>5. Copies(n, inherited[c]) = IF Contains(inherited[c], n) THEN 1 ELSE 0
    <3>1. \A i, j \in 1 .. Len(inherited[c]) :
            inherited[c][i] = inherited[c][j] => i = j
      BY DEF PrintInv
    <3> QED
      BY <1>1, <3>1, CopiesOnce
  <2>6. Copies(n, terminal) \in Nat /\ Copies(n, buffered) \in Nat
    BY <1>1, PlacesFinite
  <2>7. c \notin Extra(n)
    BY DEF Extra
  <2>8. CASE Contains(inherited[c], n)
    <3>1. Extra(n)' = Extra(n) \union {c}
      BY <2>8 DEF Extra
    <3>2. IsFiniteSet(Extra(n)') /\ Cardinality(Extra(n)') = Cardinality(Extra(n)) + 1
      BY <2>1, <2>7, <3>1, FS_AddElement
    <3>3. Copies(n, inherited[c]) = 1
      BY <2>5, <2>8
    <3> QED
      BY <2>1, <2>2, <2>3, <2>4, <2>6, <3>2, <3>3
  <2>9. CASE ~Contains(inherited[c], n)
    <3>1. Extra(n)' = Extra(n)
      BY <2>9 DEF Extra
    <3>2. Copies(n, inherited[c]) = 0
      BY <2>5, <2>9
    <3> QED
      BY <2>1, <2>2, <2>3, <2>4, <2>6, <3>1, <3>2
  <2> QED
    BY <2>8, <2>9
<1> QED
  BY <1>2, <1>3 DEF PrintInv

\* What is not in a sequence has no copy there.
LEMMA CopiesNone ==
  ASSUME NEW S, NEW s \in Seq(S), NEW n, \A i \in 1 .. Len(s) : s[i] # n
  PROVE  Copies(n, s) = 0
<1>1. {i \in DOMAIN s : s[i] = n} = {}
  OBVIOUS
<1> QED
  BY <1>1, FS_EmptySet DEF Copies

\* A new text is in the buffer, once, and nowhere else.
LEMMA PrintfShows ==
  ASSUME IInv, PrintInv, printf
  PROVE  PrintInv'
<1> DEFINE m == printed + 1
<1>1. /\ printed \in Nat /\ buffered \in Seq(Nat) /\ terminal \in Seq(Nat)
      /\ inherited \in [Calls -> Seq(Nat)] /\ m \in Nat
  BY DEF IInv, TypeOK, PrintInv
<1>2. /\ printed' = m /\ buffered' = Append(buffered, m)
      /\ terminal' = terminal /\ inherited' = inherited /\ stdout' = stdout
      /\ child' = child /\ executed' = executed /\ status' = status
  BY DEF printf, result
<1>3. \A i \in 1 .. Len(terminal) : terminal[i] <= printed
  BY DEF PrintInv
<1>4. \A i \in 1 .. Len(buffered) : buffered[i] = printed - Len(buffered) + i
  BY DEF PrintInv
<1>5. \A c \in Calls : \A i \in 1 .. Len(inherited[c]) : inherited[c][i] <= printed
  BY DEF PrintInv
<1>6. \A n : Extra(n)' = Extra(n)
  BY <1>2 DEF Extra, GaveUp
<1>7. \A i \in 1 .. Len(buffered') : buffered'[i] = printed' - Len(buffered') + i
  BY <1>1, <1>2, <1>4
<1>8. \A i \in 1 .. Len(terminal) : terminal[i] <= printed'
  BY <1>1, <1>2, <1>3
<1>9. ASSUME NEW c \in Calls, NEW i \in 1 .. Len(inherited[c])
      PROVE  inherited[c][i] <= printed'
  BY <1>1, <1>2, <1>5
<1>10. ASSUME NEW n \in 1 .. printed'
       PROVE  /\ IsFiniteSet(Extra(n))
              /\ Copies(n, terminal \o buffered') = 1 + Cardinality(Extra(n))
  <2>1. buffered' = buffered \o <<m>> /\ <<m>> \in Seq(Nat) /\ buffered' \in Seq(Nat)
    BY <1>1, <1>2
  <2>2. Copies(n, terminal \o buffered') = Copies(n, terminal) + Copies(n, buffered')
    BY <1>1, <2>1, CopiesConcat
  <2>3. Copies(n, buffered') = Copies(n, buffered) + Copies(n, <<m>>)
    BY <1>1, <2>1, CopiesConcat
  <2>4. Copies(n, <<m>>) = IF n = m THEN 1 ELSE 0
    <3>1. Len(<<m>>) = 1 /\ <<m>>[1] = m
      OBVIOUS
    <3>2. \A i, j \in 1 .. Len(<<m>>) : <<m>>[i] = <<m>>[j] => i = j
      BY <3>1
    <3>3. Contains(<<m>>, n) <=> n = m
      BY <3>1 DEF Contains
    <3> QED
      BY <2>1, <3>2, <3>3, CopiesOnce
  <2>5. Copies(n, terminal) \in Nat /\ Copies(n, buffered) \in Nat
    BY <1>1, PlacesFinite
  <2>6. CASE n = m
    <3>1. Copies(n, terminal) = 0
      <4>1. \A i \in 1 .. Len(terminal) : terminal[i] # n
        BY <1>1, <1>3, <2>6
      <4> QED
        BY <1>1, <4>1, CopiesNone
    <3>2. Copies(n, buffered) = 0
      <4>1. \A i \in 1 .. Len(buffered) : buffered[i] # n
        BY <1>1, <1>4, <2>6
      <4> QED
        BY <1>1, <4>1, CopiesNone
    <3>3. Extra(n) = {}
      <4>1. ASSUME NEW c \in Calls PROVE ~Contains(inherited[c], n)
        BY <1>1, <1>5, <2>6 DEF Contains
      <4> QED
        BY <4>1 DEF Extra
    <3>4. IsFiniteSet(Extra(n)) /\ Cardinality(Extra(n)) = 0
      BY <3>3, FS_EmptySet
    <3> QED
      BY <2>2, <2>3, <2>4, <2>6, <3>1, <3>2, <3>4
  <2>7. CASE n # m
    <3>1. n \in 1 .. printed
      BY <1>1, <1>2, <2>7
    <3>2. /\ IsFiniteSet(Extra(n))
          /\ Copies(n, terminal \o buffered) = 1 + Cardinality(Extra(n))
      BY <3>1 DEF PrintInv
    <3>3. Copies(n, terminal \o buffered) = Copies(n, terminal) + Copies(n, buffered)
      BY <1>1, CopiesConcat
    <3> QED
      BY <2>2, <2>3, <2>4, <2>5, <2>7, <3>2, <3>3
  <2> QED
    BY <2>6, <2>7
<1> QED
  <2>1. \A n \in 1 .. printed' :
          /\ IsFiniteSet(Extra(n)')
          /\ Copies(n, terminal' \o buffered') = 1 + Cardinality(Extra(n)')
    BY <1>2, <1>6, <1>10
  <2>2. \A c \in Calls : \A i, j \in 1 .. Len(inherited'[c]) :
          inherited'[c][i] = inherited'[c][j] => i = j
    BY <1>2 DEF PrintInv
  <2> HIDE DEF m
  <2> QED
    BY <1>1, <1>2, <1>7, <1>8, <1>9, <2>1, <2>2 DEF PrintInv

\* fflush moves the texts to the terminal in one piece.
LEMMA FflushShows ==
  ASSUME IInv, PrintInv, fflush
  PROVE  PrintInv'
<1>1. /\ printed \in Nat /\ buffered \in Seq(Nat) /\ terminal \in Seq(Nat)
  BY DEF IInv, TypeOK, PrintInv
<1>2. /\ printed' = printed /\ buffered' = << >>
      /\ terminal' = terminal \o buffered /\ inherited' = inherited
      /\ stdout' = stdout
      /\ child' = child /\ executed' = executed /\ status' = status
  BY DEF fflush, result
<1>3. \A n : Extra(n)' = Extra(n)
  BY <1>2 DEF Extra, GaveUp
<1>4. terminal' \o buffered' = terminal \o buffered /\ terminal' \in Seq(Nat)
  BY <1>1, <1>2
<1>5. ASSUME NEW i \in 1 .. Len(terminal') PROVE terminal'[i] <= printed
  <2>1. CASE i <= Len(terminal)
    <3>1. terminal'[i] = terminal[i] /\ i \in 1 .. Len(terminal)
      BY <1>1, <1>2, <2>1
    <3> QED
      BY <3>1 DEF PrintInv
  <2>2. CASE i > Len(terminal)
    <3>1. /\ i - Len(terminal) \in 1 .. Len(buffered)
          /\ terminal'[i] = buffered[i - Len(terminal)]
      BY <1>1, <1>2, <2>2
    <3>2. buffered[i - Len(terminal)] = printed - Len(buffered) + (i - Len(terminal))
      BY <3>1 DEF PrintInv
    <3> QED
      BY <1>1, <3>1, <3>2
  <2> QED
    BY <1>1, <1>2, <2>1, <2>2
<1>6. \A i \in 1 .. Len(buffered') : buffered'[i] = printed' - Len(buffered') + i
  BY <1>2
<1> QED
  BY <1>2, <1>3, <1>4, <1>5, <1>6 DEF PrintInv

\* A child that exits flushes its copy, to the terminal or out of its sight.
LEMMA ExitShows ==
  ASSUME IInv, PrintInv, NEW c \in Calls, ExitFailed(c),
         child[c] \in {"redirect", "exec"},
         stdout' = stdout, inherited' = inherited, printed' = printed,
         buffered' = buffered, executed' = executed, status' = status
  PROVE  PrintInv'
<1>1. CallState(c) /\ TypeOK
  BY DEF IInv
<1>2. status[c] = "none" /\ c \notin executed
  BY <1>1 DEF CallState, Statuses
<1>3. ~GaveUp(c)
  BY <1>2 DEF GaveUp
<1>4. child' = [child EXCEPT ![c] = "nonzero"]
  BY DEF ExitFailed
<1>5. GaveUp(c)'
  BY <1>1, <1>2, <1>4 DEF GaveUp, TypeOK
<1>6. ASSUME NEW d \in Calls, d # c PROVE GaveUp(d)' = GaveUp(d)
  BY <1>1, <1>4, <1>6 DEF GaveUp, TypeOK
<1>7. CASE stdout[c] = "terminal" /\ terminal' = terminal \o inherited[c]
  BY <1>3, <1>5, <1>6, <1>7, FlushStep
<1>8. CASE stdout[c] = "file" /\ terminal' = terminal
  <2>1. ASSUME NEW d \in Calls
        PROVE  (GaveUp(d) /\ stdout[d] = "terminal") <=>
               (GaveUp(d)' /\ stdout'[d] = "terminal")
    BY <1>6, <1>8
  <2> QED
    BY <1>8, <2>1, QuietStep
<1> QED
  BY <1>7, <1>8 DEF ExitFailed

\* Every step of the calls preserves the invariant about the texts.
LEMMA CallShows ==
  ASSUME IInv, PrintInv, NEW c \in Calls,
         Parent(c) \/ waitpid_fails(c) \/ Child(c) \/ CommandWrites(c)
  PROVE  PrintInv'
<1>1. CallState(c) /\ TypeOK
  BY DEF IInv
<1>2. CASE fork(c)
  <2>1. ~GaveUp(c) /\ ~GaveUp(c)'
    BY <1>1, <1>2 DEF fork, GaveUp, CallState, TypeOK
  <2>2. ASSUME NEW d \in Calls, d # c
        PROVE  GaveUp(d)' = GaveUp(d) /\ inherited'[d] = inherited[d]
    BY <1>1, <1>2, <2>2 DEF fork, GaveUp, TypeOK
  <2>3. inherited'[c] = inherited[c] \/ inherited'[c] \in {<< >>, buffered}
    BY <1>1, <1>2 DEF fork, TypeOK
  <2>4. /\ printed' = printed /\ buffered' = buffered /\ terminal' = terminal
        /\ stdout' = stdout
    BY <1>2 DEF fork
  <2> QED
    BY <2>1, <2>2, <2>3, <2>4, QuietStep
<1>3. CASE waitpid(c)
  <2>1. ASSUME NEW d \in Calls PROVE GaveUp(d)' = GaveUp(d)
    BY <1>1, <1>3, <2>1
    DEF waitpid, GaveUp, Ended, Statuses, CallState, TypeOK
  <2>2. /\ printed' = printed /\ buffered' = buffered /\ terminal' = terminal
        /\ stdout' = stdout /\ inherited' = inherited
    BY <1>3 DEF waitpid, stdio
  <2> QED
    BY <2>1, <2>2, QuietStep
<1>4. CASE waitpid_fails(c) \/ CommandWrites(c)
  <2>1. /\ printed' = printed /\ buffered' = buffered /\ terminal' = terminal
        /\ stdout' = stdout /\ inherited' = inherited
        /\ child' = child /\ executed' = executed /\ status' = status
    BY <1>4 DEF waitpid_fails, CommandWrites, stdio, result
  <2>2. ASSUME NEW d \in Calls PROVE GaveUp(d)' = GaveUp(d)
    BY <2>1 DEF GaveUp
  <2> QED
    BY <2>1, <2>2, QuietStep
<1>5. CASE redirect(c)
  <2>1. CASE ExitFailed(c) /\ stdout' = stdout
    BY <1>5, <2>1, ExitShows DEF redirect, result
  <2>2. CASE /\ child' = [child EXCEPT ![c] = "exec"]
             /\ stdout' = [stdout EXCEPT ![c] = "file"] /\ terminal' = terminal
    <3>1. /\ printed' = printed /\ buffered' = buffered
          /\ inherited' = inherited /\ executed' = executed /\ status' = status
      BY <1>5 DEF redirect, result
    <3>2. ~GaveUp(c) /\ ~GaveUp(c)'
      BY <1>1, <1>5, <2>2, <3>1 DEF redirect, GaveUp, CallState, TypeOK
    <3>3. ASSUME NEW d \in Calls, d # c
          PROVE  GaveUp(d)' = GaveUp(d) /\ stdout'[d] = stdout[d]
      BY <1>1, <2>2, <3>1, <3>3 DEF GaveUp, TypeOK
    <3> QED
      BY <2>2, <3>1, <3>2, <3>3, QuietStep
  <2> QED
    BY <1>5, <2>1, <2>2 DEF redirect
<1>6. CASE execv(c)
  <2>1. CASE ExitFailed(c) /\ executed' = executed /\ inherited' = inherited
    BY <1>6, <2>1, ExitShows DEF execv
  <2>2. CASE /\ child' = [child EXCEPT ![c] = "running"]
             /\ executed' = executed \union {c}
             /\ inherited' = [inherited EXCEPT ![c] = << >>]
             /\ terminal' = terminal
    <3>1. /\ printed' = printed /\ buffered' = buffered
          /\ stdout' = stdout /\ status' = status
      BY <1>6 DEF execv
    <3>2. ~GaveUp(c) /\ ~GaveUp(c)'
      BY <1>1, <1>6, <2>2, <3>1 DEF execv, GaveUp, CallState, TypeOK
    <3>3. ASSUME NEW d \in Calls, d # c
          PROVE  GaveUp(d)' = GaveUp(d) /\ inherited'[d] = inherited[d]
      BY <1>1, <2>2, <3>1, <3>3 DEF GaveUp, TypeOK
    <3>4. inherited'[c] = << >>
      BY <1>1, <2>2 DEF TypeOK
    <3> QED
      BY <2>2, <3>1, <3>2, <3>3, <3>4, QuietStep
  <2> QED
    BY <1>6, <2>1, <2>2 DEF execv, Replaced
<1>7. CASE CommandEnds(c)
  <2>1. /\ printed' = printed /\ buffered' = buffered /\ terminal' = terminal
        /\ stdout' = stdout /\ inherited' = inherited
        /\ executed' = executed /\ status' = status
    BY <1>7 DEF CommandEnds, stdio, result
  <2>2. c \in executed
    BY <1>1, <1>7 DEF CommandEnds, CallState
  <2>3. ASSUME NEW d \in Calls PROVE GaveUp(d)' = GaveUp(d)
    BY <1>1, <1>7, <2>1, <2>2, <2>3 DEF CommandEnds, GaveUp, TypeOK
  <2> QED
    BY <2>1, <2>3, QuietStep
<1> QED
  BY <1>2, <1>3, <1>4, <1>5, <1>6, <1>7 DEF Parent, Child

\* Whatever the caller prints is shown once, and once more by each child that
\* was forked while it was in the buffer and could not execute its command,
\* for every number of calls and texts.
THEOREM PrintedOnce == Spec => []PrintedOnceButForFailedChildren
<1>1. Init => PrintInv
  <2> SUFFICES ASSUME Init PROVE PrintInv
    OBVIOUS
  <2>1. /\ printed = 0 /\ buffered = << >> /\ terminal = << >>
        /\ \A c \in Calls : inherited[c] = << >>
    BY DEF Init
  <2>2. << >> \in Seq(Nat) /\ Len(<< >>) = 0 /\ 1 .. 0 = {}
    OBVIOUS
  <2> QED
    BY <2>1, <2>2 DEF PrintInv
<1>2. IInv /\ PrintInv /\ [Next]_vars => PrintInv'
  <2> SUFFICES ASSUME IInv, PrintInv, [Next]_vars PROVE PrintInv'
    OBVIOUS
  <2>1. CASE UNCHANGED vars
    BY <2>1, QuietStep DEF vars, result, stdio, GaveUp
  <2>2. CASE Next
    BY <2>2, PrintfShows, FflushShows, CallShows DEF Next
  <2> QED
    BY <2>1, <2>2
<1>3. PrintInv => PrintedOnceButForFailedChildren
  BY DEF PrintInv, PrintedOnceButForFailedChildren, Extra
<1> QED
  BY <1>1, <1>2, <1>3, Invariance, PTL DEF Spec

-----------------------------------------------------------------------------
(***************************************************************************)
(* The output file                                                         *)
(***************************************************************************)

\* The larger of two numbers.
LEMMA MaxOfTwo ==
  ASSUME NEW a \in Nat, NEW b \in Nat
  PROVE  Max({a, b}) = IF a >= b THEN a ELSE b
<1> DEFINE m == IF a >= b THEN a ELSE b
<1>1. m \in {a, b} /\ \A y \in {a, b} : m >= y
  OBVIOUS
<1>2. \A x \in {a, b} : (\A y \in {a, b} : x >= y) => x = m
  OBVIOUS
<1> QED
  BY <1>1, <1>2 DEF Max

\* A write at or before the end makes a longer or equally long sequence.
LEMMA WrittenIs ==
  ASSUME NEW S, NEW f \in Seq(S), NEW p \in 0 .. Len(f), NEW text \in Seq(S)
  PROVE  /\ Written(f, p, text) \in Seq(S)
         /\ Len(Written(f, p, text)) =
              IF Len(f) >= p + Len(text) THEN Len(f) ELSE p + Len(text)
         /\ \A i \in 1 .. Len(Written(f, p, text)) :
              Written(f, p, text)[i] =
                IF i \in p + 1 .. p + Len(text) THEN text[i - p] ELSE f[i]
<1> DEFINE n == IF Len(f) >= p + Len(text) THEN Len(f) ELSE p + Len(text)
           W == [i \in 1 .. n |->
                   IF i \in p + 1 .. p + Len(text) THEN text[i - p] ELSE f[i]]
<1>1. Len(f) \in Nat /\ Len(text) \in Nat /\ p \in Nat /\ n \in Nat
  OBVIOUS
<1>2. Written(f, p, text) = W
  BY <1>1, MaxOfTwo DEF Written
<1>3. ASSUME NEW i \in 1 .. n PROVE W[i] \in S
  <2>1. CASE i \in p + 1 .. p + Len(text)
    BY <1>1, <2>1
  <2>2. CASE i \notin p + 1 .. p + Len(text)
    BY <1>1, <2>2
  <2> QED
    BY <2>1, <2>2
<1>4. W \in Seq(S) /\ Len(W) = n
  BY <1>1, <1>3
<1> QED
  BY <1>2, <1>4

\* o written over the beginning of b
Over(o, b) == o \o SubSeq(b, Len(o) + 1, Len(b))

\* What such a sequence is made of.
LEMMA OverIs ==
  ASSUME NEW S, NEW o \in Seq(S), NEW b \in Seq(S)
  PROVE  /\ Over(o, b) \in Seq(S)
         /\ Len(Over(o, b)) = IF Len(o) >= Len(b) THEN Len(o) ELSE Len(b)
         /\ \A i \in 1 .. Len(Over(o, b)) :
              Over(o, b)[i] = IF i <= Len(o) THEN o[i] ELSE b[i]
<1> DEFINE r == SubSeq(b, Len(o) + 1, Len(b))
<1>1. Len(o) \in Nat /\ Len(b) \in Nat
  OBVIOUS
<1>2. /\ r \in Seq(S)
      /\ Len(r) = IF Len(o) >= Len(b) THEN 0 ELSE Len(b) - Len(o)
      /\ \A i \in 1 .. Len(r) : r[i] = b[i + Len(o)]
  BY <1>1
<1> HIDE DEF r
<1>3. Over(o, b) = o \o r
  BY DEF Over, r
<1>4. /\ o \o r \in Seq(S) /\ Len(o \o r) = Len(o) + Len(r)
      /\ \A i \in 1 .. Len(o) : (o \o r)[i] = o[i]
      /\ \A i \in Len(o) + 1 .. Len(o) + Len(r) : (o \o r)[i] = r[i - Len(o)]
  BY <1>1, <1>2
<1>5. Len(o \o r) = IF Len(o) >= Len(b) THEN Len(o) ELSE Len(b)
  BY <1>1, <1>2, <1>4
<1>6. ASSUME NEW i \in 1 .. Len(o \o r)
      PROVE  (o \o r)[i] = IF i <= Len(o) THEN o[i] ELSE b[i]
  <2>1. CASE i <= Len(o)
    BY <1>1, <1>4, <2>1
  <2>2. CASE i > Len(o)
    <3>1. i - Len(o) \in 1 .. Len(r) /\ (i - Len(o)) + Len(o) = i
      BY <1>1, <1>2, <1>4, <2>2
    <3>2. (o \o r)[i] = r[i - Len(o)]
      BY <1>1, <1>2, <1>4, <2>2
    <3>3. r[i - Len(o)] = b[(i - Len(o)) + Len(o)]
      BY <1>2, <3>1
    <3> QED
      BY <1>1, <2>2, <3>1, <3>2, <3>3
  <2> QED
    BY <1>1, <2>1, <2>2
<1> QED
  BY <1>3, <1>4, <1>5, <1>6

\* The next byte of an output goes behind its last one, over the old content.
LEMMA WriteOver ==
  ASSUME NEW S, NEW o \in Seq(S), NEW b \in Seq(S), NEW x \in S
  PROVE  Written(Over(o, b), Len(o), <<x>>) = Over(Append(o, x), b)
<1> DEFINE f == Over(o, b)
           a == Append(o, x)
           g == Over(a, b)
           t == <<x>>
           w == Written(f, Len(o), t)
<1>1. /\ Len(o) \in Nat /\ Len(b) \in Nat
      /\ a \in Seq(S) /\ Len(a) = Len(o) + 1
      /\ \A i \in 1 .. Len(o) : a[i] = o[i]
      /\ a[Len(o) + 1] = x
      /\ t \in Seq(S) /\ Len(t) = 1 /\ t[1] = x
  OBVIOUS
<1> HIDE DEF a, t
<1>2. /\ f \in Seq(S) /\ Len(f) = IF Len(o) >= Len(b) THEN Len(o) ELSE Len(b)
      /\ \A i \in 1 .. Len(f) : f[i] = IF i <= Len(o) THEN o[i] ELSE b[i]
  BY OverIs
<1>3. /\ g \in Seq(S)
      /\ Len(g) = IF Len(a) >= Len(b) THEN Len(a) ELSE Len(b)
      /\ \A i \in 1 .. Len(g) :
           g[i] = IF i <= Len(a) THEN a[i] ELSE b[i]
  BY <1>1, OverIs
<1>4. /\ w \in Seq(S)
      /\ Len(w) = IF Len(f) >= Len(o) + Len(t) THEN Len(f) ELSE Len(o) + Len(t)
      /\ \A i \in 1 .. Len(w) :
           w[i] = IF i \in Len(o) + 1 .. Len(o) + Len(t)
                    THEN t[i - Len(o)] ELSE f[i]
  <2>1. Len(o) \in 0 .. Len(f)
    BY <1>1, <1>2
  <2> DEFINE p == Len(o)
  <2>2. p \in 0 .. Len(f) /\ w = Written(f, p, t)
    BY <2>1
  <2> HIDE DEF f, p, w
  <2>3. f \in Seq(S) /\ t \in Seq(S)
    BY <1>1, <1>2
  <2>4. /\ Written(f, p, t) \in Seq(S)
        /\ Len(Written(f, p, t)) =
             IF Len(f) >= p + Len(t) THEN Len(f) ELSE p + Len(t)
        /\ \A i \in 1 .. Len(Written(f, p, t)) :
             Written(f, p, t)[i] =
               IF i \in p + 1 .. p + Len(t) THEN t[i - p] ELSE f[i]
    BY <2>2, <2>3, WrittenIs
  <2> QED
    BY <2>2, <2>4 DEF p
<1> HIDE DEF f, g, w
<1>5. Len(w) = Len(g)
  BY <1>1, <1>2, <1>3, <1>4
<1>6. ASSUME NEW i \in 1 .. Len(w) PROVE w[i] = g[i]
  <2>1. CASE i <= Len(o)
    BY <1>1, <1>2, <1>3, <1>4, <1>5, <2>1
  <2>2. CASE i = Len(o) + 1
    BY <1>1, <1>2, <1>3, <1>4, <1>5, <2>2
  <2>3. CASE i > Len(o) + 1
    BY <1>1, <1>2, <1>3, <1>4, <1>5, <2>3
  <2> QED
    BY <1>1, <2>1, <2>2, <2>3
<1>7. w = g
  <2>1. w = [i \in 1 .. Len(w) |-> w[i]] /\ g = [i \in 1 .. Len(g) |-> g[i]]
    BY <1>3, <1>4
  <2> QED
    BY <1>5, <1>6, <2>1
<1> QED
  BY <1>7 DEF w, f, g, a, t

\* what the file is made of: old content, printed texts and output
Cells == (UNION {Range(f) : f \in OldContents}) \union Nat \union Calls

\* A child that has the file for itself writes where it stopped, over what it
\* found.  A child that has not executed the command stands at the beginning.
FileState(c) ==
  /\ pos[c] <= Len(file)
  /\ child[c] \in {"none", "redirect", "exec"} => pos[c] = 0 /\ output[c] = << >>
  /\ c \in alone => stdout[c] = "file"
  /\ c \in alone /\ HasFile(c) =>
       /\ \A d \in Calls : HasFile(d) => d = c
       /\ pos[c] = Len(output[c])
       /\ file = Over(output[c], before[c])

FileInv ==
  /\ file \in Seq(Cells) /\ before \in [Calls -> Seq(Cells)]
  /\ \A c \in Calls : FileState(c)

\* A sequence over a set is one over a larger set.
LEMMA SeqWiden ==
  ASSUME NEW S, NEW T, S \subseteq T, NEW s \in Seq(S)
  PROVE  s \in Seq(T)
  OBVIOUS

\* The invariant about the file holds initially.
LEMMA InitFileInv == Init => FileInv
<1> SUFFICES ASSUME Init PROVE FileInv
  OBVIOUS
<1>1. file \in Seq(Cells)
  <2>1. file \in OldContents /\ file \in Seq(Range(file))
    BY SystemCallsAssumption DEF Init
  <2>2. Range(file) \subseteq Cells
    BY <2>1 DEF Cells
  <2> HIDE DEF Init
  <2> QED
    BY <2>1, <2>2
<1>2. before \in [Calls -> Seq(Cells)]
  <2>1. << >> \in Seq(Cells)
    OBVIOUS
  <2> QED
    BY <2>1 DEF Init
<1>3. ASSUME NEW c \in Calls PROVE FileState(c)
  BY <1>1 DEF FileState, Init
<1> QED
  BY <1>1, <1>2, <1>3 DEF FileInv

\* A step that leaves the file and the positions alone, and lets no child
\* open it.
LEMMA FileUntouched ==
  ASSUME IInv, FileInv,
         file' = file, pos' = pos, output' = output, before' = before,
         alone' = alone, stdout' = stdout,
         \A d \in Calls :
           /\ HasFile(d)' => HasFile(d)
           /\ child'[d] \in {"none", "redirect", "exec"} =>
                pos[d] = 0 /\ output[d] = << >>
  PROVE  FileInv'
<1>1. ASSUME NEW c \in Calls PROVE FileState(c)'
  <2>1. FileState(c)
    BY DEF FileInv
  <2>2. HasFile(c)' => HasFile(c)
    OBVIOUS
  <2>3. c \in alone /\ HasFile(c)' => \A d \in Calls : HasFile(d)' => d = c
    BY <2>1, <2>2 DEF FileState
  <2> QED
    BY <2>1, <2>2, <2>3 DEF FileState
<1> QED
  BY <1>1 DEF FileInv

\* The parent and the caller do not touch the file.
LEMMA ParentFile ==
  ASSUME IInv, FileInv,
         \/ printf \/ fflush
         \/ \E c \in Calls : fork(c) \/ waitpid(c) \/ waitpid_fails(c)
  PROVE  FileInv'
<1>1. /\ file' = file /\ pos' = pos /\ output' = output /\ before' = before
      /\ alone' = alone /\ stdout' = stdout
  BY DEF printf, fflush, fork, waitpid, waitpid_fails, files, stdio
<1>2. ASSUME NEW d \in Calls
      PROVE  /\ HasFile(d)' => HasFile(d)
             /\ child'[d] \in {"none", "redirect", "exec"} =>
                  pos[d] = 0 /\ output[d] = << >>
  <2>1. CallState(d) /\ FileState(d) /\ child \in [Calls -> Statuses \union
                   {"none", "redirect", "exec", "running", "reaped"}]
    BY DEF IInv, FileInv, TypeOK
  <2>2. CASE child' = child
    BY <1>1, <2>1, <2>2 DEF HasFile, FileState
  <2>3. ASSUME NEW c \in Calls, fork(c), child' # child
        PROVE  /\ child[c] = "none"
               /\ child' = [child EXCEPT ![c] =
                              IF fn[c] = "redirect" THEN "redirect" ELSE "exec"]
    <3>1. CallState(c)
      BY DEF IInv
    <3> QED
      BY <2>3, <3>1 DEF fork, CallState
  <2>4. CASE \E c \in Calls : fork(c) /\ child' # child
    BY <1>1, <2>1, <2>3, <2>4 DEF HasFile, FileState, CallState
  <2>5. CASE \E c \in Calls : child' = [child EXCEPT ![c] = "reaped"]
    BY <1>1, <2>1, <2>5 DEF HasFile, FileState
  <2> QED
    BY <2>2, <2>4, <2>5 DEF printf, fflush, waitpid, waitpid_fails
<1> QED
  BY <1>1, <1>2, FileUntouched

\* A child that has the file open writes to it: nobody else has it for
\* himself, and the writer's own output grows with the file.
LEMMA FileWritten ==
  ASSUME IInv, FileInv, NEW c \in Calls, NEW t \in Seq(Cells), HasFile(c),
         file' = Written(file, pos[c], t),
         pos' = [pos EXCEPT ![c] = pos[c] + Len(t)],
         before' = before, alone' = alone, stdout' = stdout,
         \A d \in Calls : d # c => child'[d] = child[d] /\ output'[d] = output[d],
         child'[c] \notin {"none", "redirect", "exec"},
         HasFile(c)' => t = <<c>> /\ output'[c] = Append(output[c], c)
  PROVE  FileInv'
<1>1. /\ file \in Seq(Cells) /\ before \in [Calls -> Seq(Cells)]
      /\ pos \in [Calls -> Nat] /\ output \in [Calls -> Seq(Calls)]
  BY DEF FileInv, IInv, TypeOK
<1>2. pos[c] \in 0 .. Len(file)
  BY <1>1 DEF FileInv, FileState
<1>3. /\ file' \in Seq(Cells)
      /\ Len(file') = IF Len(file) >= pos[c] + Len(t) THEN Len(file)
                                                       ELSE pos[c] + Len(t)
  <2> DEFINE p == pos[c]
  <2>1. p \in 0 .. Len(file) /\ file' = Written(file, p, t)
    BY <1>2
  <2> HIDE DEF p
  <2>2. /\ Written(file, p, t) \in Seq(Cells)
        /\ Len(Written(file, p, t)) =
             IF Len(file) >= p + Len(t) THEN Len(file) ELSE p + Len(t)
    BY <1>1, <2>1, WrittenIs
  <2> QED
    BY <2>1, <2>2 DEF p
<1>4. Len(file') >= Len(file) /\ Len(file') >= pos[c] + Len(t) /\ Len(t) \in Nat
  BY <1>1, <1>2, <1>3
<1>5. ASSUME NEW d \in Calls, d # c PROVE FileState(d)'
  <2>1. FileState(d)
    BY DEF FileInv
  <2>2. pos'[d] = pos[d] /\ pos[d] \in Nat /\ child'[d] = child[d]
        /\ output'[d] = output[d]
    BY <1>1, <1>5
  <2>3. ~(d \in alone /\ HasFile(d))
    BY <1>5, <2>1 DEF FileState
  <2>4. HasFile(d)' = HasFile(d)
    BY <2>2 DEF HasFile
  <2>5. pos'[d] <= Len(file')
    BY <1>1, <1>3, <1>4, <2>1, <2>2, SMTT(30) DEF FileState
  <2> QED
    BY <2>1, <2>2, <2>3, <2>4, <2>5 DEF FileState
<1>6. FileState(c)'
  <2>1. FileState(c)
    BY DEF FileInv
  <2>2. pos'[c] = pos[c] + Len(t)
    BY <1>1
  <2>3. pos'[c] <= Len(file')
    BY <1>4, <2>2
  <2>4. c \in alone => stdout'[c] = "file"
    BY <2>1 DEF FileState
  <2>5. ASSUME c \in alone, HasFile(c)'
        PROVE  /\ \A d \in Calls : HasFile(d)' => d = c
               /\ pos'[c] = Len(output'[c])
               /\ file' = Over(output'[c], before[c])
    <3>1. /\ \A d \in Calls : HasFile(d) => d = c
          /\ pos[c] = Len(output[c])
          /\ file = Over(output[c], before[c])
      BY <2>1, <2>5 DEF FileState
    <3>2. t = <<c>> /\ output'[c] = Append(output[c], c) /\ Len(t) = 1
      BY <2>5
    <3>3. ASSUME NEW d \in Calls, HasFile(d)' PROVE d = c
      BY <3>1, <3>3 DEF HasFile
    <3>4. pos'[c] = Len(output'[c])
      BY <1>1, <2>2, <3>1, <3>2
    <3>5. output[c] \in Seq(Cells) /\ before[c] \in Seq(Cells) /\ c \in Cells
      <4>1. Calls \subseteq Cells
        BY DEF Cells
      <4>2. output[c] \in Seq(Calls)
        BY <1>1
      <4> QED
        BY <1>1, <4>1, <4>2, SeqWiden
    <3>6. Written(Over(output[c], before[c]), Len(output[c]), <<c>>)
            = Over(Append(output[c], c), before[c])
      BY <3>5, WriteOver
    <3> QED
      BY <3>1, <3>2, <3>3, <3>4, <3>6
  <2> QED
    BY <2>3, <2>4, <2>5 DEF FileState
<1> QED
  BY <1>1, <1>3, <1>5, <1>6 DEF FileInv

\* A child that cannot go on leaves the file, with a copy of the buffer in it
\* if it had it open.
LEMMA ExitFile ==
  ASSUME IInv, FileInv, NEW c \in Calls, ExitFailed(c),
         child[c] \in {"redirect", "exec"},
         stdout' = stdout, output' = output, before' = before, alone' = alone
  PROVE  FileInv'
<1>1. CallState(c) /\ TypeOK
  BY DEF IInv
<1>2. child' = [child EXCEPT ![c] = "nonzero"]
  BY DEF ExitFailed
<1>3. child'[c] = "nonzero" /\ ~HasFile(c)'
      /\ \A d \in Calls : d # c => child'[d] = child[d]
  BY <1>1, <1>2 DEF TypeOK, HasFile
<1>4. CASE stdout[c] = "terminal" /\ file' = file /\ pos' = pos
  <2>1. ASSUME NEW d \in Calls
        PROVE  /\ HasFile(d)' => HasFile(d)
               /\ child'[d] \in {"none", "redirect", "exec"} =>
                    pos[d] = 0 /\ output[d] = << >>
    BY <1>3 DEF HasFile, FileInv, FileState
  <2> QED
    BY <1>4, <2>1, FileUntouched
<1>5. CASE /\ stdout[c] = "file"
           /\ file' = Written(file, pos[c], inherited[c])
           /\ pos' = [pos EXCEPT ![c] = pos[c] + Len(inherited[c])]
  <2>1. HasFile(c)
    BY <1>1, <1>5 DEF HasFile, CallState
  <2>2. inherited[c] \in Seq(Cells)
    <3>1. Nat \subseteq Cells
      BY DEF Cells
    <3>2. inherited[c] \in Seq(Nat)
      BY <1>1 DEF TypeOK
    <3> QED
      BY <3>1, <3>2, SeqWiden
  <2>3. child'[c] \notin {"none", "redirect", "exec"}
    BY <1>3
  <2> QED
    BY <1>3, <1>5, <2>1, <2>2, <2>3, FileWritten
<1> QED
  BY <1>4, <1>5 DEF ExitFailed

\* Who opens the file while nobody has it is alone with what it holds; who
\* opens it later takes that from the others.
LEMMA OpenFile ==
  ASSUME IInv, FileInv, NEW c \in Calls, child[c] = "redirect",
         child' = [child EXCEPT ![c] = "exec"],
         stdout' = [stdout EXCEPT ![c] = "file"],
         before' = [before EXCEPT ![c] = file],
         alone' = (alone \ {d \in Calls : HasFile(d)}) \union
                    (IF {d \in Calls : HasFile(d)} = {} THEN {c} ELSE {}),
         file' = file, pos' = pos, output' = output
  PROVE  FileInv'
<1>1. CallState(c) /\ TypeOK /\ FileState(c)
  BY DEF IInv, FileInv
<1>2. /\ file \in Seq(Cells) /\ before \in [Calls -> Seq(Cells)]
      /\ before' \in [Calls -> Seq(Cells)] /\ before'[c] = file
  BY DEF FileInv
<1>3. /\ child'[c] = "exec" /\ stdout'[c] = "file"
      /\ \A d \in Calls : d # c => /\ child'[d] = child[d] /\ stdout'[d] = stdout[d]
                                   /\ before'[d] = before[d]
                                   /\ HasFile(d)' = HasFile(d)
  BY <1>1, <1>2 DEF TypeOK, HasFile
<1>4. stdout[c] = "terminal" /\ c \notin alone
  BY <1>1 DEF CallState, FileState
<1>5. ASSUME NEW d \in Calls, d # c PROVE FileState(d)'
  <2>1. FileState(d)
    BY DEF FileInv
  <2>2. d \in alone' => d \in alone /\ ~HasFile(d)
    BY <1>5
  <2> QED
    BY <1>3, <1>5, <2>1, <2>2 DEF FileState
<1>6. FileState(c)'
  <2>1. pos[c] = 0 /\ output[c] = << >>
    BY <1>1 DEF FileState
  <2>2. ASSUME c \in alone', NEW d \in Calls, HasFile(d)' PROVE d = c
    BY <1>3, <1>4, <2>2
  <2>3. Over(<< >>, file) = file
    BY <1>2 DEF Over
  <2> QED
    BY <1>1, <1>2, <1>3, <2>1, <2>2, <2>3 DEF FileState
<1> QED
  BY <1>2, <1>5, <1>6 DEF FileInv

\* The child's steps preserve the invariant about the file.
LEMMA ChildFile ==
  ASSUME IInv, FileInv, NEW c \in Calls, Child(c) \/ CommandWrites(c)
  PROVE  FileInv'
<1>1. CallState(c) /\ TypeOK /\ FileState(c)
  BY DEF IInv, FileInv
<1>2. CASE redirect(c)
  BY <1>2, ExitFile, OpenFile DEF redirect
<1>3. CASE execv(c)
  <2>1. CASE ExitFailed(c)
    BY <1>3, <2>1, ExitFile DEF execv
  <2>2. CASE child' = [child EXCEPT ![c] = "running"] /\ file' = file /\ pos' = pos
    <3>1. /\ stdout' = stdout /\ output' = output /\ before' = before
          /\ alone' = alone /\ child[c] = "exec"
      BY <1>3 DEF execv
    <3>2. ASSUME NEW d \in Calls
          PROVE  /\ HasFile(d)' => HasFile(d)
                 /\ child'[d] \in {"none", "redirect", "exec"} =>
                      pos[d] = 0 /\ output[d] = << >>
      BY <1>1, <2>2, <3>1 DEF HasFile, FileInv, FileState, TypeOK
    <3> QED
      BY <2>2, <3>1, <3>2, FileUntouched
  <2> QED
    BY <1>3, <2>1, <2>2 DEF execv
<1>4. CASE CommandWrites(c)
  <2>1. /\ HasFile(c) /\ child' = child /\ stdout' = stdout
        /\ before' = before /\ alone' = alone
        /\ file' = Written(file, pos[c], <<c>>)
        /\ pos' = [pos EXCEPT ![c] = pos[c] + 1]
        /\ output' = [output EXCEPT ![c] = Append(output[c], c)]
        /\ child[c] = "running"
    BY <1>4 DEF CommandWrites, HasFile, WritePos, stdio
  <2> DEFINE t == <<c>>
  <2>2. t \in Seq(Cells) /\ Len(t) = 1 /\ t = <<c>>
    BY DEF Cells
  <2> HIDE DEF t
  <2>3. /\ output'[c] = Append(output[c], c)
        /\ \A d \in Calls : d # c => output'[d] = output[d]
    BY <1>1, <2>1 DEF TypeOK
  <2>4. pos' = [pos EXCEPT ![c] = pos[c] + Len(t)] /\ file' = Written(file, pos[c], t)
    BY <2>1, <2>2
  <2>5. child'[c] \notin {"none", "redirect", "exec"}
    BY <2>1
  <2> QED
    BY <2>1, <2>2, <2>3, <2>4, <2>5, FileWritten
<1>5. CASE CommandEnds(c)
  <2>1. /\ stdout' = stdout /\ output' = output /\ before' = before
        /\ alone' = alone /\ file' = file /\ pos' = pos
    BY <1>5 DEF CommandEnds, stdio, files
  <2>2. child'[c] \in Statuses /\ \A d \in Calls : d # c => child'[d] = child[d]
    BY <1>1, <1>5 DEF CommandEnds, TypeOK
  <2>3. ASSUME NEW d \in Calls
        PROVE  /\ HasFile(d)' => HasFile(d)
               /\ child'[d] \in {"none", "redirect", "exec"} =>
                    pos[d] = 0 /\ output[d] = << >>
    BY <2>1, <2>2 DEF HasFile, FileInv, FileState, Statuses
  <2> QED
    BY <2>1, <2>3, FileUntouched
<1> QED
  BY <1>2, <1>3, <1>4, <1>5 DEF Child

\* When a command ends that had the file for itself, its output lies over
\* what the file held when it was opened, for every content and output.
THEOREM OutputOverOld == Spec => OutputOverOldContent
<1>1. IInv /\ FileInv /\ [Next]_vars => FileInv'
  <2> SUFFICES ASSUME IInv, FileInv, [Next]_vars PROVE FileInv'
    OBVIOUS
  <2>1. CASE UNCHANGED vars
    <3>1. /\ file' = file /\ pos' = pos /\ output' = output /\ before' = before
          /\ alone' = alone /\ stdout' = stdout /\ child' = child
      BY <2>1 DEF vars, stdio, files
    <3> QED
      BY <3>1, FileUntouched DEF HasFile, FileInv, FileState
  <2>2. CASE Next
    BY <2>2, ParentFile, ChildFile DEF Next, Parent
  <2> QED
    BY <2>1, <2>2
<1>2. IInv /\ FileInv =>
        [\A c \in alone :
           child[c] = "running" /\ child'[c] # "running" =>
             LET n == Len(output[c])
             IN  file = output[c] \o SubSeq(before[c], n + 1, Len(before[c]))]_vars
  <2> SUFFICES ASSUME FileInv, IInv, NEW c \in alone, child[c] = "running"
               PROVE  file = Over(output[c], before[c])
    BY DEF Over
  <2>1. c \in Calls /\ FileState(c)
    BY DEF IInv, TypeOK, FileInv
  <2> QED
    BY <2>1 DEF FileState, HasFile
<1> QED
  BY <1>1, <1>2, InitFileInv, Invariance, PTL DEF Spec, OutputOverOldContent

=============================================================================
