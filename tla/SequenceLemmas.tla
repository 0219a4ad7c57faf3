-------------------------- MODULE SequenceLemmas --------------------------
(***************************************************************************)
(* Facts about natural numbers and sequences that the proofs of the        *)
(* components need: least elements, induction on the members of a set, and *)
(* what FlattenSeq of SequencesExt does with sequences of sequences.       *)
(***************************************************************************)
EXTENDS Integers, Sequences, SequencesExt, SequenceTheorems,
        WellFoundedInduction, TLAPS

-----------------------------------------------------------------------------
(***************************************************************************)
(* Natural numbers                                                         *)
(***************************************************************************)

\* A non-empty set of natural numbers has a least element.
LEMMA LeastNatural ==
  ASSUME NEW S, S \subseteq Nat, S # {}
  PROVE  \E x \in S : \A y \in S : x <= y
<1>1. \E x \in S : \A y \in S : ~ (<<y, x>> \in OpToRel(<, Nat))
  BY WFMin, NatLessThanWellFounded
<1>2. PICK x \in S : \A y \in S : ~ (y < x)
  BY <1>1 DEF OpToRel
<1> QED
  BY <1>2

\* Min yields that element.
LEMMA MinOfNaturals ==
  ASSUME NEW S, S \subseteq Nat, S # {}
  PROVE  Min(S) \in S /\ \A y \in S : Min(S) <= y
  BY LeastNatural DEF Min

\* Min of two numbers, as in the minimum that aesd_read takes.
LEMMA MinOfTwo ==
  ASSUME NEW x \in Nat, NEW y \in Nat
  PROVE  Min({x, y}) = IF x <= y THEN x ELSE y
<1>1. Min({x, y}) \in {x, y} /\ \A z \in {x, y} : Min({x, y}) <= z
  BY MinOfNaturals
<1> QED
  BY <1>1

\* Max of a non-empty set of natural numbers that are not above n is one of
\* them.
LEMMA MaxOfNaturals ==
  ASSUME NEW S, NEW n \in Nat, S \subseteq 0 .. n, S # {}
  PROVE  Max(S) \in S /\ \A y \in S : Max(S) >= y
<1> DEFINE T == {n - x : x \in S}
<1>1. T \subseteq Nat /\ T # {}
  <2>1. \A x \in S : n - x \in Nat
    OBVIOUS
  <2>2. PICK x \in S : TRUE
    OBVIOUS
  <2>3. n - x \in T
    BY <2>2
  <2> QED
    BY <2>1, <2>3
<1>2. PICK t \in T : \A y \in T : t <= y
  <2> HIDE DEF T
  <2> QED
    BY <1>1, LeastNatural
<1>3. PICK x \in S : t = n - x
  BY <1>2
<1>4. \A y \in S : x >= y
  <2>1. SUFFICES ASSUME NEW y \in S PROVE x >= y
    OBVIOUS
  <2>2. t <= n - y
    BY <1>2, <2>1
  <2>3. x \in 0 .. n /\ y \in 0 .. n
    BY <1>3, <2>1
  <2> HIDE DEF T
  <2> QED
    BY <1>3, <2>2, <2>3
<1> QED
  BY <1>3, <1>4 DEF Max

\* Induction on the members of a set.
LEMMA SetInduction ==
  ASSUME NEW S, 0 \in S, \A n \in Nat : n \in S => n + 1 \in S
  PROVE  Nat \subseteq S
<1> DEFINE T == Nat \ S
<1>1. SUFFICES ASSUME T # {} PROVE FALSE
  OBVIOUS
<1>2. PICK x \in T : \A y \in T : x <= y
  <2>1. T \subseteq Nat
    OBVIOUS
  <2> QED
    BY <1>1, <2>1, LeastNatural
<1>3. x # 0 /\ x - 1 \in Nat
  BY <1>2
<1>4. x - 1 \in S
  BY <1>2, <1>3
<1>5. (x - 1) + 1 = x
  BY <1>2
<1> QED
  BY <1>2, <1>3, <1>4, <1>5

-----------------------------------------------------------------------------
(***************************************************************************)
(* FlattenSeq                                                              *)
(***************************************************************************)

\* f is the running concatenation of the first n members of seqs.
IsRunning(f, seqs, n) ==
  /\ 1 <= n => f[1] = seqs[1]
  /\ \A i \in 1 .. n - 1 : f[i + 1] = f[i] \o seqs[i + 1]

\* Running concatenations exist, of every length.
LEMMA RunningExists ==
  ASSUME NEW S, NEW seqs \in Seq(Seq(S))
  PROVE  \E f \in [1 .. Len(seqs) -> Seq(S)] : IsRunning(f, seqs, Len(seqs))
<1> DEFINE N == Len(seqs)
           T == {n \in Nat : n <= N =>
                   \E f \in [1 .. n -> Seq(S)] : IsRunning(f, seqs, n)}
<1>1. N \in Nat /\ \A i \in 1 .. N : seqs[i] \in Seq(S)
  OBVIOUS
<1>2. 0 \in T
  <2>1. [i \in 1 .. 0 |-> << >>] \in [1 .. 0 -> Seq(S)]
    OBVIOUS
  <2>2. IsRunning([i \in 1 .. 0 |-> << >>], seqs, 0)
    BY DEF IsRunning
  <2> QED
    BY <2>1, <2>2
<1>3. ASSUME NEW n \in Nat, n \in T PROVE n + 1 \in T
  <2>1. SUFFICES ASSUME n + 1 <= N
                 PROVE  \E f \in [1 .. n + 1 -> Seq(S)] : IsRunning(f, seqs, n + 1)
    OBVIOUS
  <2>2. PICK f \in [1 .. n -> Seq(S)] : IsRunning(f, seqs, n)
    BY <1>1, <1>3, <2>1
  <2> HIDE DEF T
  <2> DEFINE last == IF n = 0 THEN seqs[1] ELSE f[n] \o seqs[n + 1]
             g == [i \in 1 .. n + 1 |-> IF i <= n THEN f[i] ELSE last]
  <2>3. last \in Seq(S)
    <3>1. CASE n = 0
      BY <1>1, <2>1, <3>1
    <3>2. CASE n # 0
      <4>1. f[n] \in Seq(S) /\ seqs[n + 1] \in Seq(S)
        BY <1>1, <2>1, <2>2, <3>2
      <4> QED
        BY <3>2, <4>1
    <3> QED
      BY <3>1, <3>2
  <2>4. g \in [1 .. n + 1 -> Seq(S)]
    BY <2>2, <2>3
  <2>5. /\ n # 0 => last = f[n] \o seqs[n + 1]
        /\ n = 0 => last = seqs[1]
    BY Zenon
  <2> HIDE DEF last
  <2>9. g[n + 1] = last /\ \A i \in 1 .. n : g[i] = f[i]
    OBVIOUS
  <2> HIDE DEF g
  <2>6. g[1] = seqs[1]
    <3>1. CASE n = 0
      BY <2>5, <2>9, <3>1
    <3>2. CASE n # 0
      <4>1. 1 \in 1 .. n /\ 1 <= n
        BY <3>2
      <4> QED
        BY <2>2, <2>9, <4>1 DEF IsRunning
    <3> QED
      BY <3>1, <3>2
  <2>8. ASSUME NEW i \in 1 .. (n + 1) - 1 PROVE g[i + 1] = g[i] \o seqs[i + 1]
    <3>1. i \in 1 .. n /\ (i = n \/ i < n)
      OBVIOUS
    <3>2. CASE i = n
      <4>1. n # 0
        BY <3>1, <3>2
      <4>2. g[n + 1] = last /\ g[n] = f[n]
        BY <2>9, <3>1, <3>2
      <4> QED
        BY <2>5, <3>2, <4>1, <4>2, Zenon
    <3>3. CASE i < n
      <4>1. i \in 1 .. n - 1 /\ i + 1 \in 1 .. n
        BY <3>1, <3>3
      <4>2. f[i + 1] = f[i] \o seqs[i + 1]
        BY <2>2, <4>1 DEF IsRunning
      <4>3. g[i + 1] = f[i + 1] /\ g[i] = f[i]
        BY <2>9, <3>1, <4>1
      <4> QED
        BY <4>2, <4>3, Zenon
    <3> QED
      BY <3>1, <3>2, <3>3, Zenon
  <2>7. IsRunning(g, seqs, n + 1)
    BY <2>6, <2>8 DEF IsRunning
  <2> QED
    BY <2>4, <2>7
<1>4. N \in T
  <2> HIDE DEF T
  <2> QED
    BY <1>1, <1>2, <1>3, SetInduction
<1> QED
  BY <1>1, <1>4

\* s and t have the same first n members.
Agree(s, t, n) == \A i \in 1 .. n : s[i] = t[i]

\* Two running concatenations agree as far as their sequences do.
LEMMA RunningUnique ==
  ASSUME NEW f, NEW g, NEW s, NEW t, NEW n \in Nat,
         IsRunning(f, s, n), IsRunning(g, t, n), Agree(s, t, n)
  PROVE  Agree(f, g, n)
<1> USE DEF Agree
<1> DEFINE T == {k \in Nat : k + 1 <= n => f[k + 1] = g[k + 1]}
<1>1. 0 \in T
  BY DEF IsRunning
<1>2. ASSUME NEW k \in Nat, k \in T PROVE k + 1 \in T
  <2> SUFFICES ASSUME (k + 1) + 1 <= n PROVE f[(k + 1) + 1] = g[(k + 1) + 1]
    OBVIOUS
  <2>1. k + 1 \in 1 .. n - 1 /\ (k + 1) + 1 \in 1 .. n /\ k + 1 <= n
    OBVIOUS
  <2>2. f[k + 1] = g[k + 1]
    BY <1>2, <2>1
  <2> DEFINE j == k + 1
  <2>3. /\ f[j + 1] = f[j] \o s[j + 1] /\ g[j + 1] = g[j] \o t[j + 1]
        /\ s[j + 1] = t[j + 1]
    <3>1. j \in 1 .. n - 1 /\ j + 1 \in 1 .. n
      BY <2>1
    <3> HIDE DEF j
    <3> QED
      BY <3>1 DEF IsRunning
  <2> QED
    BY <2>2, <2>3
<1>3. Nat \subseteq T
  <2> HIDE DEF T
  <2> QED
    BY <1>1, <1>2, SetInduction
<1>4. ASSUME NEW i \in 1 .. n PROVE f[i] = g[i]
  <2>1. i - 1 \in T /\ (i - 1) + 1 = i
    BY <1>3
  <2> QED
    BY <2>1
<1> QED
  BY <1>4

\* FlattenSeq is the last value of the running concatenation.
LEMMA FlattenRuns ==
  ASSUME NEW S, NEW seqs \in Seq(Seq(S)), Len(seqs) # 0,
         NEW f \in [1 .. Len(seqs) -> Seq(S)], IsRunning(f, seqs, Len(seqs))
  PROVE  FlattenSeq(seqs) = f[Len(seqs)]
<1> DEFINE N == Len(seqs)
           Step(g) == [i \in 1 .. N |-> IF i = 1 THEN seqs[i] ELSE g[i - 1] \o seqs[i]]
           r == CHOOSE g : g = Step(g)
<1>1. N \in Nat /\ N # 0 /\ N \in 1 .. N
  OBVIOUS
<1>2. f = Step(f)
  <2>1. ASSUME NEW i \in 1 .. N PROVE f[i] = Step(f)[i]
    <3>1. CASE i = 1
      <4>1. f[1] = seqs[1]
        BY <1>1 DEF IsRunning
      <4> QED
        BY <3>1, <4>1, Zenon
    <3>2. CASE i # 1
      <4>1. i - 1 \in 1 .. N - 1 /\ (i - 1) + 1 = i
        BY <1>1, <3>2
      <4>2. f[(i - 1) + 1] = f[i - 1] \o seqs[(i - 1) + 1]
        BY <4>1, Zenon DEF IsRunning
      <4>3. Step(f)[i] = f[i - 1] \o seqs[i]
        BY <3>2, Zenon
      <4> QED
        BY <4>1, <4>2, <4>3, Zenon
    <3> QED
      BY <3>1, <3>2, Zenon
  <2>2. f = [i \in 1 .. N |-> f[i]]
    BY Zenon
  <2>3. Step(f) = [i \in 1 .. N |-> Step(f)[i]]
    BY Zenon
  <2> HIDE DEF Step, N
  <2> QED
    BY <2>1, <2>2, <2>3, Zenon
<1>3. FlattenSeq(seqs) = r[N]
  BY DEF FlattenSeq
<1>4. r = Step(r)
  <2> HIDE DEF Step
  <2> QED
    BY <1>2
<1> HIDE DEF r
<1>5. IsRunning(r, seqs, N)
  <2>1. r[1] = seqs[1]
    <3>1. 1 \in 1 .. N
      BY <1>1
    <3>2. Step(r)[1] = seqs[1]
      BY <3>1, Zenon
    <3> QED
      BY <1>4, <3>2, Zenon
  <2>2. ASSUME NEW i \in 1 .. N - 1 PROVE r[i + 1] = r[i] \o seqs[i + 1]
    <3>1. i + 1 \in 1 .. N /\ i + 1 # 1 /\ (i + 1) - 1 = i
      BY <1>1
    <3>2. Step(r)[i + 1] = r[(i + 1) - 1] \o seqs[i + 1]
      BY <3>1, Zenon
    <3> QED
      BY <1>4, <3>1, <3>2, Zenon
  <2> QED
    BY <2>1, <2>2, Zenon DEF IsRunning
<1>6. r[N] = f[N]
  <2>1. Agree(seqs, seqs, N)
    BY DEF Agree
  <2> HIDE DEF N, Step
  <2>2. IsRunning(f, seqs, N)
    BY DEF N
  <2>3. Agree(r, f, N)
    BY <1>1, <1>5, <2>1, <2>2, RunningUnique
  <2> QED
    BY <1>1, <2>3 DEF Agree
<1> QED
  BY <1>3, <1>6

\* Nothing flattens to nothing.
LEMMA FlattenEmpty ==
  ASSUME NEW s, Len(s) = 0
  PROVE  FlattenSeq(s) = s
  BY DEF FlattenSeq

\* The result is a sequence over the same set.
LEMMA FlattenType ==
  ASSUME NEW S, NEW seqs \in Seq(Seq(S))
  PROVE  FlattenSeq(seqs) \in Seq(S)
<1>1. CASE Len(seqs) = 0
  <2>1. seqs = << >> /\ FlattenSeq(seqs) = seqs
    BY <1>1, FlattenEmpty
  <2>2. << >> \in Seq(S)
    OBVIOUS
  <2> QED
    BY <2>1, <2>2
<1>2. CASE Len(seqs) # 0
  <2>1. PICK f \in [1 .. Len(seqs) -> Seq(S)] : IsRunning(f, seqs, Len(seqs))
    BY RunningExists
  <2>2. FlattenSeq(seqs) = f[Len(seqs)]
    BY <1>2, <2>1, FlattenRuns
  <2>3. Len(seqs) \in 1 .. Len(seqs)
    BY <1>2
  <2> QED
    BY <2>1, <2>2, <2>3
<1> QED
  BY <1>1, <1>2

\* One more member goes behind the rest.
LEMMA FlattenAppend ==
  ASSUME NEW S, NEW seqs \in Seq(Seq(S)), NEW s \in Seq(S)
  PROVE  FlattenSeq(Append(seqs, s)) = FlattenSeq(seqs) \o s
<1> DEFINE a == Append(seqs, s)
           N == Len(seqs)
<1>1. /\ a \in Seq(Seq(S)) /\ N \in Nat /\ Len(a) = N + 1
      /\ \A i \in 1 .. N : a[i] = seqs[i]
      /\ a[N + 1] = s
  OBVIOUS
<1> HIDE DEF a
<1>2. PICK f \in [1 .. Len(a) -> Seq(S)] : IsRunning(f, a, Len(a))
  BY <1>1, RunningExists
<1>3. FlattenSeq(a) = f[N + 1]
  <2>1. Len(a) # 0
    BY <1>1
  <2>2. FlattenSeq(a) = f[Len(a)]
    BY <1>1, <1>2, <2>1, FlattenRuns
  <2> QED
    BY <1>1, <2>2
<1>4. CASE N = 0
  <2>1. seqs = << >> /\ FlattenSeq(seqs) = << >>
    BY <1>4, FlattenEmpty
  <2>2. f[1] = s
    <3>1. 1 <= Len(a) /\ N + 1 = 1
      BY <1>1, <1>4
    <3> QED
      BY <1>1, <1>2, <3>1 DEF IsRunning
  <2>3. << >> \o s = s
    OBVIOUS
  <2>4. N + 1 = 1
    BY <1>4
  <2> QED
    BY <1>3, <2>1, <2>2, <2>3, <2>4, Zenon DEF a
<1>5. CASE N # 0
  <2>1. PICK g \in [1 .. N -> Seq(S)] : IsRunning(g, seqs, N)
    BY RunningExists
  <2>2. FlattenSeq(seqs) = g[N]
    BY <1>5, <2>1, FlattenRuns
  <2>3. IsRunning(f, a, N)
    <3>1. 1 <= N => f[1] = a[1]
      BY <1>1, <1>2 DEF IsRunning
    <3>2. ASSUME NEW i \in 1 .. N - 1 PROVE f[i + 1] = f[i] \o a[i + 1]
      <4>1. i \in 1 .. Len(a) - 1
        BY <1>1
      <4> QED
        BY <1>2, <4>1, Zenon DEF IsRunning
    <3> QED
      BY <3>1, <3>2, Zenon DEF IsRunning
  <2>4. f[N] = g[N]
    <3>1. N \in 1 .. N
      BY <1>1, <1>5
    <3>2. N \in Nat /\ Agree(a, seqs, N)
      BY <1>1 DEF Agree
    <3>3. IsRunning(g, seqs, N)
      BY <2>1
    <3> HIDE DEF N
    <3>4. Agree(f, g, N)
      BY <2>3, <3>2, <3>3, RunningUnique
    <3> QED
      BY <3>1, <3>4 DEF Agree
  <2>5. f[N + 1] = f[N] \o a[N + 1]
    <3>1. N \in 1 .. Len(a) - 1
      BY <1>1, <1>5
    <3> QED
      BY <1>2, <3>1, Zenon DEF IsRunning
  <2> QED
    BY <1>1, <1>3, <2>2, <2>4, <2>5, Zenon DEF a
<1> QED
  BY <1>4, <1>5, Zenon

\* The parts of a sequence can be flattened one by one.
LEMMA FlattenConcat ==
  ASSUME NEW S, NEW a \in Seq(Seq(S)), NEW b \in Seq(Seq(S))
  PROVE  FlattenSeq(a \o b) = FlattenSeq(a) \o FlattenSeq(b)
<1> DEFINE Q == Seq(S)
           T == {n \in Nat : \A t \in Seq(Q) : Len(t) = n =>
                   FlattenSeq(a \o t) = FlattenSeq(a) \o FlattenSeq(t)}
<1>0. FlattenSeq(a) \in Seq(S)
  BY FlattenType
<1>5. \A p, q, r \in Seq(S) : (p \o q) \o r = p \o (q \o r)
  <2> HIDE DEF T, Q
  <2> TAKE p, q, r \in Seq(S)
  <2> QED
    BY ConcatAssociative, SMTT(30)
<1>1. 0 \in T
  <2> SUFFICES ASSUME NEW t \in Seq(Q), Len(t) = 0
               PROVE  FlattenSeq(a \o t) = FlattenSeq(a) \o FlattenSeq(t)
    OBVIOUS
  <2>1. t = << >> /\ FlattenSeq(t) = t
    BY FlattenEmpty
  <2>2. a \o << >> = a
    BY ConcatEmptySeq
  <2>3. FlattenSeq(a) \o << >> = FlattenSeq(a)
    BY <1>0, ConcatEmptySeq
  <2> QED
    BY <2>1, <2>2, <2>3, Zenon
<1>2. ASSUME NEW n \in Nat, n \in T PROVE n + 1 \in T
  <2> SUFFICES ASSUME NEW t \in Seq(Q), Len(t) = n + 1
               PROVE  FlattenSeq(a \o t) = FlattenSeq(a) \o FlattenSeq(t)
    OBVIOUS
  <2>1. PICK u \in Seq(Q), x \in Q : t = Append(u, x)
    <3>1. t # << >>
      OBVIOUS
    <3> HIDE DEF Q
    <3> QED
      BY <3>1, SequenceEmptyOrAppend
  <2>2. Len(u) = n
    BY <2>1
  <2>3. FlattenSeq(a \o u) = FlattenSeq(a) \o FlattenSeq(u)
    BY <1>2, <2>2
  <2> HIDE DEF T
  <2>4. a \o t = Append(a \o u, x) /\ a \o u \in Seq(Q)
    <3> HIDE DEF Q
    <3>1. a \in Seq(Q)
      BY DEF Q
    <3>2. <<x>> \in Seq(Q) /\ t = u \o <<x>> /\ a \o u \in Seq(Q)
      BY <2>1, <3>1
    <3>3. (a \o u) \o <<x>> = a \o (u \o <<x>>)
      BY <3>1, <3>2, ConcatAssociative, SMTT(30)
    <3>4. Append(a \o u, x) = (a \o u) \o <<x>>
      BY <3>2, AppendIsConcat
    <3> QED
      BY <3>2, <3>3, <3>4
  <2>5. FlattenSeq(a \o t) = FlattenSeq(a \o u) \o x
    BY <2>4, FlattenAppend
  <2>6. FlattenSeq(t) = FlattenSeq(u) \o x
    BY <2>1, FlattenAppend
  <2>7. FlattenSeq(u) \in Seq(S) /\ x \in Seq(S)
    BY FlattenType
  <2>8. (FlattenSeq(a) \o FlattenSeq(u)) \o x = FlattenSeq(a) \o (FlattenSeq(u) \o x)
    BY <1>0, <1>5, <2>7, Zenon
  <2> QED
    BY <2>3, <2>5, <2>6, <2>8, Zenon
<1>3. Nat \subseteq T
  <2> HIDE DEF T
  <2> QED
    BY <1>1, <1>2, SetInduction
<1>4. Len(b) \in T
  <2>1. Len(b) \in Nat
    OBVIOUS
  <2> HIDE DEF T
  <2> QED
    BY <1>3, <2>1
<1> QED
  BY <1>4

\* A single member is what it flattens to.
LEMMA FlattenSingle ==
  ASSUME NEW S, NEW s \in Seq(S)
  PROVE  FlattenSeq(<<s>>) = s
<1>1. << >> \in Seq(Seq(S)) /\ Append(<< >>, s) = <<s>>
  OBVIOUS
<1>2. FlattenSeq(<< >>) = << >>
  BY FlattenEmpty
<1>3. FlattenSeq(Append(<< >>, s)) = FlattenSeq(<< >>) \o s
  BY <1>1, FlattenAppend
<1>4. << >> \o s = s
  OBVIOUS
<1> QED
  BY <1>1, <1>2, <1>3, <1>4, Zenon

\* The first k members and the member behind them.
LEMMA FlattenNext ==
  ASSUME NEW S, NEW seqs \in Seq(Seq(S)), NEW k \in 0 .. Len(seqs) - 1
  PROVE  FlattenSeq(SubSeq(seqs, 1, k + 1))
           = FlattenSeq(SubSeq(seqs, 1, k)) \o seqs[k + 1]
<1> DEFINE Q == Seq(S)
           u == SubSeq(seqs, 1, k)
<1>1. u \in Seq(Q) /\ seqs[k + 1] \in Q
  OBVIOUS
<1>2. SubSeq(seqs, 1, k + 1) = Append(u, seqs[k + 1])
  <2> HIDE DEF Q
  <2>1. seqs \in Seq(Q) /\ k + 1 \in 1 .. Len(seqs) /\ (k + 1) - 1 = k
    BY DEF Q
  <2>2. 1 \in 1 .. Len(seqs) /\ k + 1 \in 1 .. Len(seqs)
    BY <2>1
  <2>3. SubSeq(seqs, 1, k + 1) = SubSeq(seqs, 1, (k + 1) - 1) \o <<seqs[k + 1]>>
    BY <2>1, <2>2, SubSeqRecursiveSecond
  <2>4. Append(u, seqs[k + 1]) = u \o <<seqs[k + 1]>>
    BY <1>1, AppendIsConcat
  <2> QED
    BY <2>1, <2>3, <2>4
<1> QED
  BY <1>1, <1>2, FlattenAppend

\* The members of a concatenation.
LEMMA ConcatLeft ==
  ASSUME NEW S, NEW s \in Seq(S), NEW t \in Seq(S), NEW i \in 1 .. Len(s)
  PROVE  (s \o t)[i] = s[i]
  OBVIOUS

\* The same, behind the first sequence.
LEMMA ConcatRight ==
  ASSUME NEW S, NEW s \in Seq(S), NEW t \in Seq(S), NEW i \in 1 .. Len(t)
  PROVE  (s \o t)[Len(s) + i] = t[i]
  OBVIOUS

\* What is left of a concatenation behind its first sequence.
LEMMA SuffixOfConcat ==
  ASSUME NEW S, NEW a \in Seq(S), NEW b \in Seq(S)
  PROVE  /\ SubSeq(a \o b, Len(a) + 1, Len(a \o b)) = b
         /\ Len(a) <= Len(a \o b)
<1> DEFINE m == Len(a)
           s == a \o b
           x == SubSeq(s, m + 1, Len(s))
<1>1. /\ s \in Seq(S) /\ Len(s) = m + Len(b) /\ m \in Nat /\ Len(b) \in Nat
      /\ \A i \in 1 .. Len(b) : s[m + i] = b[i]
  OBVIOUS
<1> HIDE DEF s, m
<1>2. x \in Seq(S) /\ Len(x) = Len(b) /\ \A i \in 1 .. Len(b) : x[i] = s[m + i]
  BY <1>1
<1> HIDE DEF x
<1>3. x = b
  BY <1>1, <1>2, SeqEqual
<1> QED
  BY <1>1, <1>3 DEF x, s, m

\* The first part of a concatenation.
LEMMA PrefixOfConcat ==
  ASSUME NEW S, NEW a \in Seq(S), NEW b \in Seq(S)
  PROVE  SubSeq(a \o b, 1, Len(a)) = a
<1> DEFINE m == Len(a)
           s == a \o b
           x == SubSeq(s, 1, m)
<1>1. /\ s \in Seq(S) /\ Len(s) = m + Len(b) /\ m \in Nat /\ Len(b) \in Nat
      /\ \A i \in 1 .. m : s[i] = a[i]
  OBVIOUS
<1> HIDE DEF s
<1>2. x \in Seq(S) /\ Len(x) = m /\ \A i \in 1 .. m : x[i] = s[i]
  BY <1>1
<1> HIDE DEF x
<1>3. x = a
  BY <1>1, <1>2, SeqEqual
<1> QED
  BY <1>3 DEF x, s

\* A sequence ends with the last part it was joined from.
LEMMA ConcatEndsWith ==
  ASSUME NEW S, NEW s \in Seq(S), NEW t \in Seq(S)
  PROVE  IsSuffix(t, s \o t)
<1> DEFINE u == s \o t
           R == Reverse(t)
           Q == Reverse(u)
<1>1. /\ Len(s) \in Nat /\ Len(t) \in Nat /\ u \in Seq(S)
      /\ Len(u) = Len(s) + Len(t)
  BY ConcatProperties, LenProperties
<1>2. /\ R = [i \in 1 .. Len(t) |-> t[(Len(t) - i) + 1]]
      /\ Q = [i \in 1 .. Len(u) |-> u[(Len(u) - i) + 1]]
  BY DEF Reverse
<1>3. \A i \in 1 .. Len(t) : u[Len(s) + i] = t[i]
  BY ConcatRight
<1> HIDE DEF u, R, Q
<1>4. \A i \in 1 .. Len(t) : t[i] \in S
  BY ElementOfSeq
<1>5. \A i \in 1 .. Len(u) : u[i] \in S
  BY <1>1, ElementOfSeq
<1>6. R \in [1 .. Len(t) -> S] /\ Q \in [1 .. Len(u) -> S]
  <2>1. \A i \in 1 .. Len(t) : (Len(t) - i) + 1 \in 1 .. Len(t)
    BY <1>1
  <2>2. \A i \in 1 .. Len(u) : (Len(u) - i) + 1 \in 1 .. Len(u)
    BY <1>1, LenProperties
  <2> QED
    BY <1>2, <1>4, <1>5, <2>1, <2>2
<1>7. R \in Seq(S) /\ Q \in Seq(S)
  <2>1. Len(u) \in Nat
    BY <1>1
  <2> QED
    BY <1>1, <1>6, <2>1, SeqDef, Zenon
<1>8. Len(R) = Len(t) /\ Len(Q) = Len(u)
  BY <1>1, <1>6, <1>7, LenProperties
<1>9. \A i \in 1 .. Len(t) : R[i] = Q[i]
  <2> TAKE i \in 1 .. Len(t)
  <2>1. /\ (Len(t) - i) + 1 \in 1 .. Len(t)
        /\ (Len(u) - i) + 1 = Len(s) + ((Len(t) - i) + 1)
        /\ i \in 1 .. Len(u)
    BY <1>1
  <2>2. u[Len(s) + ((Len(t) - i) + 1)] = t[(Len(t) - i) + 1]
    BY <1>3, <2>1
  <2>3. R[i] = t[(Len(t) - i) + 1] /\ Q[i] = u[(Len(u) - i) + 1]
    BY <1>2, <2>1
  <2> QED
    BY <2>1, <2>2, <2>3
<1>10. Len(R) <= Len(Q)
  BY <1>1, <1>8
<1>11. SubSeq(R, 1, Len(R)) = SubSeq(Q, 1, Len(R))
  <2>1. \A i \in 1 .. Len(R) : R[i] \in S /\ Q[i] \in S
    BY <1>1, <1>6, <1>8
  <2>2. /\ SubSeq(R, 1, Len(R)) \in Seq(S) /\ Len(SubSeq(R, 1, Len(R))) = Len(R)
        /\ \A i \in 1 .. Len(R) : SubSeq(R, 1, Len(R))[i] = R[i]
    BY <1>7, SubSeqFull
  <2>3. /\ SubSeq(Q, 1, Len(R)) \in Seq(S) /\ Len(SubSeq(Q, 1, Len(R))) = Len(R)
        /\ \A i \in 1 .. Len(R) : SubSeq(Q, 1, Len(R))[i] = Q[i]
    BY <1>1, <1>8, <2>1, SubSeqProperties
  <2> QED
    BY <1>8, <1>9, <2>2, <2>3, SeqEqual
<1>12. IsPrefix(R, Q)
  BY <1>10, <1>11 DEF IsPrefix
<1> QED
  BY <1>12 DEF IsSuffix, R, Q, u

\* A sequence is its first k elements and the rest.
LEMMA SequenceCut ==
  ASSUME NEW S, NEW s \in Seq(S), NEW k \in 0 .. Len(s)
  PROVE  /\ SubSeq(s, 1, k) \in Seq(S) /\ Len(SubSeq(s, 1, k)) = k
         /\ SubSeq(s, k + 1, Len(s)) \in Seq(S)
         /\ Len(SubSeq(s, k + 1, Len(s))) = Len(s) - k
         /\ SubSeq(s, 1, k) \o SubSeq(s, k + 1, Len(s)) = s
         /\ \A i \in 1 .. k : SubSeq(s, 1, k)[i] = s[i]
<1>1. Len(s) \in Nat /\ \A i \in 1 .. Len(s) : s[i] \in S
  BY LenProperties, ElementOfSeq
<1>2. /\ SubSeq(s, 1, k) \in Seq(S) /\ Len(SubSeq(s, 1, k)) = k
      /\ \A i \in 1 .. k : SubSeq(s, 1, k)[i] = s[i]
  BY <1>1, SubSeqProperties
<1>3. /\ SubSeq(s, k + 1, Len(s)) \in Seq(S)
      /\ Len(SubSeq(s, k + 1, Len(s))) = Len(s) - k
  BY <1>1, SubSeqProperties
<1>4. SubSeq(s, 1, k) \o SubSeq(s, k + 1, Len(s)) = s
  <2>1. 1 \in 1 .. Len(s) + 1 /\ k \in 1 - 1 .. Len(s) /\ Len(s) \in k .. Len(s)
    BY <1>1
  <2>2. SubSeq(s, 1, k) \o SubSeq(s, k + 1, Len(s)) = SubSeq(s, 1, Len(s))
    BY <2>1, ConcatAdjacentSubSeq
  <2>3. SubSeq(s, 1, Len(s)) = s
    BY SubSeqFull
  <2> QED
    BY <2>2, <2>3, Zenon
<1> QED
  BY <1>2, <1>3, <1>4

\* Three sequences can be joined from either end.
Associative(x, y, z) == (x \o y) \o z = x \o (y \o z)

\* Any three.
LEMMA JoinAssociative ==
  ASSUME NEW S, NEW x \in Seq(S), NEW y \in Seq(S), NEW z \in Seq(S)
  PROVE  Associative(x, y, z)
  BY ConcatAssociative DEF Associative

\* what three joined sequences leave from inside the second one on
LeavesFromInside(p, n, q, off) ==
  SubSeq((p \o n) \o q, Len(p) + off + 1, Len((p \o n) \o q))
    = SubSeq(n, off + 1, Len(n)) \o q

\* It is the rest of the second one, and the third.
LEMMA SuffixFromInside ==
  ASSUME NEW S, NEW p \in Seq(S), NEW n \in Seq(S), NEW q \in Seq(S),
         NEW off \in 0 .. Len(n)
  PROVE  LeavesFromInside(p, n, q, off)
<1> DEFINE n1 == SubSeq(n, 1, off)
           n2 == SubSeq(n, off + 1, Len(n))
           a == p \o n1
           b == n2 \o q
<1>1. n1 \in Seq(S) /\ n2 \in Seq(S) /\ n1 \o n2 = n /\ Len(n1) = off
  BY SequenceCut
<1> HIDE DEF n1, n2
<1>2. a \in Seq(S) /\ b \in Seq(S) /\ Len(a) = Len(p) + off
  BY <1>1, ConcatProperties
<1> HIDE DEF a, b
<1>3. (p \o n) \o q = a \o b
  <2>1. Associative(p, n1, n2) /\ Associative(a, n2, q)
    BY <1>1, <1>2, JoinAssociative
  <2>2. a \o n2 = p \o (n1 \o n2) /\ (a \o n2) \o q = a \o b
    BY <2>1, Zenon DEF Associative, a, b
  <2> QED
    BY <1>1, <2>2, Zenon
<1>4. SubSeq(a \o b, Len(a) + 1, Len(a \o b)) = b
  BY <1>2, SuffixOfConcat
<1>5. Len(p) + off + 1 = Len(a) + 1
  BY <1>2, LenProperties
<1>6. SubSeq((p \o n) \o q, Len(p) + off + 1, Len((p \o n) \o q)) = b
  BY <1>3, <1>4, <1>5, Zenon
<1> QED
  BY <1>6, Zenon DEF b, n2, LeavesFromInside

\* Taking the last element off again.
LEMMA FrontOfAppend ==
  ASSUME NEW S, NEW s \in Seq(S), NEW e \in S
  PROVE  /\ Append(s, e) # << >>
         /\ Front(Append(s, e)) = s
         /\ Last(Append(s, e)) = e
<1> DEFINE t == Append(s, e)
<1>1. /\ t \in Seq(S) /\ Len(t) = Len(s) + 1 /\ t # << >> /\ Len(s) \in Nat
      /\ \A i \in 1 .. Len(s) : t[i] = s[i]
      /\ t[Len(s) + 1] = e
  BY AppendProperties, LenProperties
<1> HIDE DEF t
<1>2. Last(t) = e
  BY <1>1 DEF Last
<1>3. Len(t) - 1 = Len(s) /\ Len(s) \in 0 .. Len(t)
  BY <1>1
<1>4. /\ SubSeq(t, 1, Len(s)) \in Seq(S) /\ Len(SubSeq(t, 1, Len(s))) = Len(s)
      /\ \A i \in 1 .. Len(s) : SubSeq(t, 1, Len(s))[i] = t[i]
  BY <1>1, <1>3, SequenceCut
<1>5. SubSeq(t, 1, Len(s)) = s
  BY <1>1, <1>4, SeqEqual
<1>6. Front(t) = s
  BY <1>3, <1>5 DEF Front
<1> QED
  BY <1>1, <1>2, <1>6 DEF t

\* the five runs joined one by one, and with the first two and the rest apart
Regroups(g, d, r, o, t) ==
  ((g \o (d \o r)) \o o) \o t = (g \o d) \o (r \o (o \o t))

\* Any five.
LEMMA Regrouping ==
  ASSUME NEW S, NEW g \in Seq(S), NEW d \in Seq(S), NEW r \in Seq(S),
         NEW o \in Seq(S), NEW t \in Seq(S)
  PROVE  Regroups(g, d, r, o, t)
<1> DEFINE gd == g \o d
           gdr == gd \o r
           ot == o \o t
<1>1. gd \in Seq(S) /\ ot \in Seq(S)
  BY ConcatProperties
<1> HIDE DEF gd, ot
<1>2. gdr \in Seq(S)
  BY <1>1, ConcatProperties
<1> HIDE DEF gdr
<1>3. Associative(g, d, r) /\ Associative(gdr, o, t) /\ Associative(gd, r, ot)
  BY <1>1, <1>2, JoinAssociative
<1>4. /\ gdr = g \o (d \o r)
      /\ (gdr \o o) \o t = gdr \o ot
      /\ gdr \o ot = gd \o (r \o ot)
  BY <1>3, Zenon DEF Associative, gd, gdr, ot
<1>5. ((g \o (d \o r)) \o o) \o t = gd \o (r \o ot)
  BY <1>4, Zenon
<1> QED
  BY <1>5, Zenon DEF Regroups, gd, ot

\* three sequences joined
IsJoin(all, g, m, e) == all = (g \o m) \o e

\* A stretch of the middle of three joined sequences is a stretch of the whole.
LEMMA StretchOfMiddle ==
  ASSUME NEW S, NEW g \in Seq(S), NEW m \in Seq(S), NEW e \in Seq(S),
         NEW all, IsJoin(all, g, m, e), NEW i \in 0 .. Len(m), NEW j \in 0 .. Len(m)
  PROVE  \E k, l \in 0 .. Len(all) : SubSeq(m, i + 1, j) = SubSeq(all, k + 1, l)
<1> DEFINE gm == g \o m
<1>1. gm \in Seq(S) /\ Len(gm) = Len(g) + Len(m)
  BY ConcatProperties
<1>2. Len(g) \in Nat /\ Len(m) \in Nat /\ Len(e) \in Nat
  BY LenProperties
<1>3. \A x \in 1 .. Len(m) : gm[Len(g) + x] = m[x]
  BY ConcatRight
<1> HIDE DEF gm
<1>4. all = gm \o e
  BY Zenon DEF gm, IsJoin
<1>5. all \in Seq(S) /\ Len(all) = Len(g) + Len(m) + Len(e)
  <2>1. gm \o e \in Seq(S) /\ Len(gm \o e) = Len(gm) + Len(e)
    BY <1>1, ConcatProperties
  <2> QED
    BY <1>1, <1>4, <2>1
<1>6. \A x \in 1 .. Len(gm) : all[x] = gm[x]
  BY <1>1, <1>4, ConcatLeft
<1>7. \A x \in 1 .. Len(m) : all[Len(g) + x] = m[x] /\ m[x] \in S
  <2> TAKE x \in 1 .. Len(m)
  <2>1. Len(g) + x \in 1 .. Len(gm)
    BY <1>1, <1>2
  <2> QED
    BY <1>3, <1>6, <2>1, ElementOfSeq
<1> DEFINE k == Len(g) + i
           l == Len(g) + j
<1>8. /\ k \in 0 .. Len(all) /\ l \in 0 .. Len(all)
      /\ k \in Int /\ l \in Int /\ Len(all) \in Int
  BY <1>2, <1>5
<1>9. /\ SubSeq(m, i + 1, j) \in Seq(S)
      /\ Len(SubSeq(m, i + 1, j)) = IF i + 1 <= j THEN j - i ELSE 0
      /\ \A x \in 1 .. j - i : SubSeq(m, i + 1, j)[x] = m[i + x]
  <2>1. \A x \in i + 1 .. j : m[x] \in S
    BY <1>2, <1>7
  <2>2. /\ SubSeq(m, i + 1, j) \in Seq(S)
        /\ Len(SubSeq(m, i + 1, j)) = IF i + 1 <= j THEN j - (i + 1) + 1 ELSE 0
        /\ \A x \in 1 .. j - (i + 1) + 1 : SubSeq(m, i + 1, j)[x] = m[(i + 1) + x - 1]
    BY <2>1, SubSeqProperties
  <2>3. j - (i + 1) + 1 = j - i /\ \A x \in 1 .. j - i : (i + 1) + x - 1 = i + x
    OBVIOUS
  <2> QED
    BY <2>2, <2>3
<1>10. /\ SubSeq(all, k + 1, l) \in Seq(S)
       /\ Len(SubSeq(all, k + 1, l)) = IF k + 1 <= l THEN l - k ELSE 0
       /\ \A x \in 1 .. l - k : SubSeq(all, k + 1, l)[x] = all[k + x]
  <2>1. k \in Int /\ l \in Int
    BY <1>2
  <2>2. \A x \in k + 1 .. l : all[x] \in S
    <3>1. \A x \in 1 .. Len(all) : all[x] \in S
      BY <1>5, ElementOfSeq
    <3> HIDE DEF k, l
    <3>2. \A x \in k + 1 .. l : x \in 1 .. Len(all)
      BY <1>8
    <3> QED
      BY <3>1, <3>2
  <2> HIDE DEF k, l
  <2>3. /\ SubSeq(all, k + 1, l) \in Seq(S)
        /\ Len(SubSeq(all, k + 1, l)) = IF k + 1 <= l THEN l - (k + 1) + 1 ELSE 0
        /\ \A x \in 1 .. l - (k + 1) + 1 :
             SubSeq(all, k + 1, l)[x] = all[(k + 1) + x - 1]
    <3> DEFINE k1 == k + 1
    <3>1. k1 \in Int /\ l \in Int /\ \A x \in k1 .. l : all[x] \in S
      BY <2>1, <2>2
    <3> HIDE DEF k1
    <3>2. /\ SubSeq(all, k1, l) \in Seq(S)
          /\ Len(SubSeq(all, k1, l)) = IF k1 <= l THEN l - k1 + 1 ELSE 0
          /\ \A x \in 1 .. l - k1 + 1 : SubSeq(all, k1, l)[x] = all[k1 + x - 1]
      BY <3>1, SubSeqProperties
    <3> QED
      BY <3>2 DEF k1
  <2>4. l - (k + 1) + 1 = l - k /\ \A x \in 1 .. l - k : (k + 1) + x - 1 = k + x
    BY <2>1
  <2> QED
    BY <2>3, <2>4
<1>11. l - k = j - i /\ (k + 1 <= l <=> i + 1 <= j)
  BY <1>2
<1>12. \A x \in 1 .. j - i : all[k + x] = m[i + x]
  <2> TAKE x \in 1 .. j - i
  <2>1. i + x \in 1 .. Len(m) /\ k + x = Len(g) + (i + x)
    BY <1>2
  <2> QED
    BY <1>7, <2>1
<1> DEFINE u == SubSeq(m, i + 1, j)
           v == SubSeq(all, k + 1, l)
<1>13. u = v
  <2>1. /\ u \in Seq(S) /\ v \in Seq(S) /\ Len(u) = Len(v)
        /\ Len(u) = IF i + 1 <= j THEN j - i ELSE 0
    BY <1>9, <1>10, <1>11
  <2>2. \A x \in 1 .. j - i : u[x] = v[x]
    BY <1>9, <1>10, <1>11, <1>12
  <2>3. \A x \in 1 .. Len(u) : x \in 1 .. j - i
    BY <2>1
  <2> HIDE DEF u, v
  <2> QED
    BY <2>1, <2>2, <2>3, SeqEqual
<1> QED
  BY <1>8, <1>13

\* Elements m + 1 to m + n of a sequence.
LEMMA StretchOf ==
  ASSUME NEW S, NEW s \in Seq(S), NEW m \in Nat, NEW n \in Nat, m + n <= Len(s)
  PROVE  /\ SubSeq(s, m + 1, m + n) \in Seq(S)
         /\ Len(SubSeq(s, m + 1, m + n)) = n
         /\ \A i \in 1 .. n : SubSeq(s, m + 1, m + n)[i] = s[m + i]
<1> DEFINE k == m + 1
           l == m + n
<1>1. Len(s) \in Nat /\ \A i \in 1 .. Len(s) : s[i] \in S
  BY LenProperties, ElementOfSeq
<1>2. k \in Int /\ l \in Int /\ k = m + 1 /\ l = m + n /\ \A i \in k .. l : s[i] \in S
  BY <1>1
<1> HIDE DEF k, l
<1>3. /\ SubSeq(s, k, l) \in Seq(S)
      /\ Len(SubSeq(s, k, l)) = IF k <= l THEN l - k + 1 ELSE 0
      /\ \A i \in 1 .. l - k + 1 : SubSeq(s, k, l)[i] = s[k + i - 1]
  BY <1>2, SubSeqProperties
<1>4. l - k + 1 = n /\ (k <= l \/ n = 0) /\ \A i \in 1 .. n : k + i - 1 = m + i
  BY <1>2
<1>5. Len(SubSeq(s, k, l)) = n
  BY <1>2, <1>3, <1>4
<1>6. \A i \in 1 .. n : SubSeq(s, k, l)[i] = s[m + i]
  BY <1>3, <1>4
<1> QED
  BY <1>3, <1>5, <1>6 DEF k, l

\* A prefix with the stretch behind it is a longer prefix.
LEMMA PrefixGrows ==
  ASSUME NEW S, NEW s \in Seq(S), NEW m \in Nat, NEW n \in Nat, m + n <= Len(s)
  PROVE  SubSeq(s, 1, m) \o SubSeq(s, m + 1, m + n) = SubSeq(s, 1, m + n)
<1> DEFINE p == SubSeq(s, 1, m)
           t == SubSeq(s, m + 1, m + n)
           q == SubSeq(s, 1, m + n)
<1>0. Len(s) \in Nat
  BY LenProperties
<1>1. t \in Seq(S) /\ Len(t) = n /\ \A i \in 1 .. n : t[i] = s[m + i]
  BY StretchOf
<1>2. p \in Seq(S) /\ Len(p) = m /\ \A i \in 1 .. m : p[i] = s[i]
  <2>1. m \in 0 .. Len(s)
    BY <1>0
  <2> QED
    BY <2>1, SequenceCut
<1>3. q \in Seq(S) /\ Len(q) = m + n /\ \A i \in 1 .. m + n : q[i] = s[i]
  <2> DEFINE l == m + n
  <2>1. l \in 0 .. Len(s)
    BY <1>0
  <2> HIDE DEF l
  <2>2. /\ SubSeq(s, 1, l) \in Seq(S) /\ Len(SubSeq(s, 1, l)) = l
        /\ \A i \in 1 .. l : SubSeq(s, 1, l)[i] = s[i]
    BY <2>1, SequenceCut
  <2> QED
    BY <2>2 DEF l
<1> HIDE DEF p, t, q
<1> DEFINE u == p \o t
<1>4. /\ u \in Seq(S) /\ Len(u) = m + n
      /\ \A i \in 1 .. m : u[i] = p[i]
      /\ \A i \in 1 .. n : u[m + i] = t[i]
  <2>1. u \in Seq(S) /\ Len(u) = Len(p) + Len(t)
    BY <1>1, <1>2, ConcatProperties
  <2>2. \A i \in 1 .. Len(p) : u[i] = p[i]
    BY <1>1, <1>2, ConcatLeft
  <2>3. \A i \in 1 .. Len(t) : u[Len(p) + i] = t[i]
    <3>1. p \in Seq(S) /\ t \in Seq(S)
      BY <1>1, <1>2
    <3> QED
      BY <3>1, ConcatRight, Zenon
  <2> HIDE DEF u
  <2> QED
    BY <1>1, <1>2, <2>1, <2>2, <2>3
<1> HIDE DEF u
<1>5. \A i \in 1 .. m + n : u[i] = q[i]
  <2> TAKE i \in 1 .. m + n
  <2>1. CASE i <= m
    BY <1>2, <1>3, <1>4, <2>1
  <2>2. CASE i > m
    <3> DEFINE j == i - m
    <3>1. j \in 1 .. n /\ i = m + j
      BY <2>2
    <3> HIDE DEF j
    <3>2. u[m + j] = t[j] /\ t[j] = s[m + j]
      BY <1>1, <1>4, <3>1
    <3> QED
      BY <1>3, <3>1, <3>2
  <2> QED
    BY <2>1, <2>2
<1>6. u = q
  BY <1>3, <1>4, <1>5, SeqEqual
<1> QED
  BY <1>6 DEF p, t, q, u

\* What is put behind a sequence leaves its prefixes alone.
LEMMA PrefixStays ==
  ASSUME NEW S, NEW a \in Seq(S), NEW b \in Seq(S), NEW m \in 0 .. Len(a)
  PROVE  /\ m \in 0 .. Len(a \o b)
         /\ SubSeq(a \o b, 1, m) = SubSeq(a, 1, m)
<1> DEFINE s == a \o b
<1>0. Len(a) \in Nat /\ Len(b) \in Nat
  BY LenProperties
<1>1. s \in Seq(S) /\ Len(s) = Len(a) + Len(b) /\ \A i \in 1 .. Len(a) : s[i] = a[i]
  BY ConcatProperties, ConcatLeft
<1> HIDE DEF s
<1>2. m \in 0 .. Len(s)
  BY <1>0, <1>1
<1>3. /\ SubSeq(s, 1, m) \in Seq(S) /\ Len(SubSeq(s, 1, m)) = m
      /\ \A i \in 1 .. m : SubSeq(s, 1, m)[i] = s[i]
  BY <1>1, <1>2, SequenceCut
<1>4. /\ SubSeq(a, 1, m) \in Seq(S) /\ Len(SubSeq(a, 1, m)) = m
      /\ \A i \in 1 .. m : SubSeq(a, 1, m)[i] = a[i]
  BY SequenceCut
<1>5. \A i \in 1 .. m : SubSeq(s, 1, m)[i] = SubSeq(a, 1, m)[i]
  BY <1>0, <1>1, <1>3, <1>4
<1>6. SubSeq(s, 1, m) = SubSeq(a, 1, m)
  BY <1>3, <1>4, <1>5, SeqEqual
<1> QED
  BY <1>2, <1>6 DEF s

\* A sequence starts with what something was put behind.
LEMMA ConcatStartsWith ==
  ASSUME NEW S, NEW s \in Seq(S), NEW t \in Seq(S)
  PROVE  IsPrefix(s, s \o t)
<1> DEFINE u == s \o t
           n == Len(s)
<1>1. /\ Len(s) \in Nat /\ Len(t) \in Nat /\ Len(s \o t) = Len(s) + Len(t)
      /\ n \in 0 .. Len(s)
  BY LenProperties, ConcatProperties
<1> HIDE DEF n
<1>2. SubSeq(s \o t, 1, n) = SubSeq(s, 1, n)
  BY <1>1, PrefixStays
<1> HIDE DEF u
<1>3. Len(s) <= Len(u) /\ SubSeq(s, 1, Len(s)) = SubSeq(u, 1, Len(s))
  BY <1>1, <1>2 DEF u, n
<1> QED
  BY <1>3 DEF IsPrefix, u

\* What is put behind a sequence leaves its start alone.
LEMMA StartStays ==
  ASSUME NEW S, NEW a \in Seq(S), NEW s \in Seq(S), NEW t \in Seq(S), IsPrefix(a, s)
  PROVE  IsPrefix(a, s \o t)
<1> DEFINE u == s \o t
           n == Len(a)
<1>1. /\ n \in Nat /\ Len(s) \in Nat /\ Len(t) \in Nat
      /\ Len(u) = Len(s) + Len(t) /\ n <= Len(s)
      /\ SubSeq(a, 1, n) = SubSeq(s, 1, n)
  BY LenProperties, ConcatProperties DEF IsPrefix
<1> HIDE DEF n
<1>2. SubSeq(s \o t, 1, n) = SubSeq(s, 1, n)
  <2>1. n \in 0 .. Len(s)
    BY <1>1
  <2> QED
    BY <2>1, PrefixStays
<1>3. SubSeq(u, 1, n) = SubSeq(s, 1, n)
  BY <1>2
<1> HIDE DEF u
<1>4. n <= Len(u) /\ SubSeq(a, 1, n) = SubSeq(u, 1, n)
  BY <1>1, <1>3
<1> QED
  BY <1>4 DEF IsPrefix, n, u

=============================================================================
