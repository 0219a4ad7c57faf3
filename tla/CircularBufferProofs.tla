----------------------- MODULE CircularBufferProofs -----------------------
(***************************************************************************)
(* Lemmas about the operators of CircularBuffer, for every ring size and   *)
(* every kind of byte.  They are what AesdCharProofs rests on.             *)
(***************************************************************************)
EXTENDS CircularBuffer, SequenceLemmas

-----------------------------------------------------------------------------
\* The modulo of the ring, over the range it is used on.
LEMMA ModuloOfRing ==
  \A x \in 0 .. 2 * MAX_WRITE_OPERATIONS - 1 :
    x % MAX_WRITE_OPERATIONS = IF x < MAX_WRITE_OPERATIONS
                               THEN x ELSE x - MAX_WRITE_OPERATIONS
  BY MaxWriteOperationsAssumption

-----------------------------------------------------------------------------
(***************************************************************************)
(* The ring                                                                *)
(***************************************************************************)

\* aesd_circular_buffer_init and aesd_circular_buffer_add_entry keep the
\* type: the offsets stay inside the array.
LEMMA InitType == aesd_circular_buffer_init \in Buffer
  BY MaxWriteOperationsAssumption
  DEF aesd_circular_buffer_init, Buffer, Slots, Entry, NoEntry, NULL

\* The slot behind a slot, modulo the array length, is a slot.
LEMMA NextSlotType ==
  ASSUME NEW i \in Slots
  PROVE  /\ NextSlot(i) \in Slots
         /\ NextSlot(i) = IF i + 1 = MAX_WRITE_OPERATIONS THEN 0 ELSE i + 1
<1>1. i + 1 \in 0 .. 2 * MAX_WRITE_OPERATIONS - 1
  BY MaxWriteOperationsAssumption DEF Slots
<1>2. NextSlot(i) = IF i + 1 < MAX_WRITE_OPERATIONS
                    THEN i + 1 ELSE (i + 1) - MAX_WRITE_OPERATIONS
  BY <1>1, ModuloOfRing DEF NextSlot
<1> QED
  BY <1>2, MaxWriteOperationsAssumption DEF Slots

\* aesd_circular_buffer_add_entry keeps the offsets inside the array.
LEMMA AddEntryType ==
  ASSUME NEW b \in Buffer, NEW e \in Entry
  PROVE  aesd_circular_buffer_add_entry(b, e) \in Buffer
<1>1. b.in_offs \in Slots /\ b.out_offs \in Slots /\ b.entry \in [Slots -> Entry]
  BY DEF Buffer
<1>2. NextSlot(b.in_offs) \in Slots /\ NextSlot(b.out_offs) \in Slots
  BY <1>1, NextSlotType
<1> QED
  BY <1>1, <1>2 DEF aesd_circular_buffer_add_entry, Buffer

\* The index of every iteration of the loops is inside the array.
LEMMA VisitedType ==
  ASSUME NEW b \in Buffer, NEW count \in Slots
  PROVE  Visited(b, count) \in Slots
<1>1. b.out_offs \in Slots
  BY DEF Buffer
<1> QED
  BY <1>1, ModuloOfRing, MaxWriteOperationsAssumption DEF Visited, Slots

-----------------------------------------------------------------------------
(***************************************************************************)
(* The running sum of the loops                                            *)
(***************************************************************************)

\* The recursive function SizeBefore is well defined: it starts at 0 and
\* each iteration adds the size of the entry visited.
LEMMA SizeBeforeDef ==
  ASSUME NEW b \in Buffer
  PROVE  /\ SizeBefore(b) \in [0 .. MAX_WRITE_OPERATIONS -> Nat]
         /\ SizeBefore(b)[0] = 0
         /\ \A count \in Slots :
              SizeBefore(b)[count + 1] =
                SizeBefore(b)[count] + b.entry[Visited(b, count)].size
<1> DEFINE N == MAX_WRITE_OPERATIONS
           size(c) == b.entry[Visited(b, c)].size
           IsSum(n, f) == /\ f \in [0 .. n -> Nat]
                          /\ f[0] = 0
                          /\ \A c \in 0 .. n - 1 : f[c + 1] = f[c] + size(c)
           S == {n \in Nat : n <= N => \E f \in [0 .. n -> Nat] : IsSum(n, f)}
<1>1. N \in Nat \ {0}
  BY MaxWriteOperationsAssumption
<1>2. \A c \in Slots : size(c) \in Nat
  <2> TAKE c \in Slots
  <2>1. Visited(b, c) \in Slots
    BY VisitedType
  <2> QED
    BY <2>1 DEF Buffer, Entry
<1> HIDE DEF size
<1>3. 0 \in S
  <2>1. IsSum(0, [c \in 0 .. 0 |-> 0])
    OBVIOUS
  <2> QED
    BY <2>1
<1>4. ASSUME NEW n \in Nat, n \in S PROVE n + 1 \in S
  <2>1. SUFFICES ASSUME n + 1 <= N
                 PROVE  \E f \in [0 .. n + 1 -> Nat] : IsSum(n + 1, f)
    OBVIOUS
  <2>2. PICK f \in [0 .. n -> Nat] : IsSum(n, f)
    BY <1>4, <2>1, <1>1
  <2> DEFINE g == [c \in 0 .. n + 1 |-> IF c <= n THEN f[c] ELSE f[n] + size(n)]
  <2>3. size(n) \in Nat
    BY <1>1, <1>2, <2>1 DEF Slots
  <2>4. g \in [0 .. n + 1 -> Nat]
    BY <2>2, <2>3
  <2>5. g[0] = 0
    BY <2>2
  <2>6. ASSUME NEW c \in 0 .. (n + 1) - 1
        PROVE  g[c + 1] = g[c] + size(c)
    <3>1. CASE c = n
      BY <3>1
    <3>2. CASE c < n
      <4>1. c \in 0 .. n - 1 /\ c + 1 \in 0 .. n
        BY <3>2
      <4>2. f[c + 1] = f[c] + size(c)
        BY <2>2, <4>1
      <4> QED
        BY <4>1, <4>2
    <3> QED
      BY <3>1, <3>2
  <2> QED
    BY <2>4, <2>5, <2>6
<1>5. N \in S
  <2> HIDE DEF S
  <2> QED
    BY <1>1, <1>3, <1>4, SetInduction
<1>6. PICK f \in [0 .. N -> Nat] : IsSum(N, f)
  <2> HIDE DEF IsSum
  <2>1. N <= N
    BY <1>1
  <2> QED
    BY <1>5, <2>1
<1> DEFINE Step(g) == [c \in 0 .. N |-> IF c = 0 THEN 0 ELSE g[c - 1] + size(c - 1)]
<1>7. f = Step(f)
  <2>1. \A c \in 0 .. N : f[c] = Step(f)[c]
    <3> TAKE c \in 0 .. N
    <3>1. CASE c = 0
      BY <3>1, <1>6
    <3>2. CASE c # 0
      <4>1. c - 1 \in 0 .. N - 1 /\ (c - 1) + 1 = c
        BY <3>2, <1>1
      <4>2. f[(c - 1) + 1] = f[c - 1] + size(c - 1)
        BY <4>1, <1>6
      <4> QED
        BY <3>2, <4>1, <4>2
    <3> QED
      BY <3>1, <3>2
  <2> QED
    BY <2>1, <1>6
<1>8. SizeBefore(b) = CHOOSE g : g = Step(g)
  BY DEF SizeBefore, size
<1>9. SizeBefore(b) = Step(SizeBefore(b))
  <2> HIDE DEF Step
  <2> QED
    BY <1>7, <1>8
<1> DEFINE sum == SizeBefore(b)
<1> HIDE DEF sum
<1>10. sum = Step(sum)
  BY <1>9 DEF sum
<1>11. sum[0] = 0
  BY <1>10, <1>1
<1>12. ASSUME NEW c \in Slots PROVE sum[c + 1] = sum[c] + size(c)
  <2>1. c + 1 \in 0 .. N /\ c + 1 # 0 /\ (c + 1) - 1 = c
    BY <1>1 DEF Slots
  <2>2. Step(sum)[c + 1] = sum[(c + 1) - 1] + size((c + 1) - 1)
    BY <2>1
  <2> QED
    BY <1>10, <2>1, <2>2
<1>13. \A n \in Nat : n <= N => sum[n] \in Nat
  <2> DEFINE P == {n \in Nat : n <= N => sum[n] \in Nat}
  <2>1. 0 \in P
    BY <1>11
  <2>2. ASSUME NEW n \in Nat, n \in P PROVE n + 1 \in P
    <3>1. SUFFICES ASSUME n + 1 <= N PROVE sum[n + 1] \in Nat
      OBVIOUS
    <3>2. n \in Slots /\ sum[n] \in Nat
      BY <3>1, <2>2, <1>1 DEF Slots
    <3> QED
      BY <3>2, <1>12, <1>2
  <2>3. Nat \subseteq P
    <3> HIDE DEF P
    <3> QED
      BY <2>1, <2>2, SetInduction
  <2> QED
    BY <2>3
<1>14. sum \in [0 .. N -> Nat]
  BY <1>10, <1>13, <1>1
<1> QED
  BY <1>11, <1>12, <1>14 DEF sum, size

\* The function only grows, so an earlier iteration has a smaller sum.
LEMMA SizeBeforeMonotone ==
  ASSUME NEW b \in Buffer, NEW count \in Slots
  PROVE  SizeBefore(b)[count] <= SizeBefore(b)[count + 1]
<1>1. Visited(b, count) \in Slots
  BY VisitedType
<1>2. b.entry[Visited(b, count)].size \in Nat
  BY <1>1 DEF Buffer, Entry
<1>3. SizeBefore(b)[count] \in Nat
  BY SizeBeforeDef, MaxWriteOperationsAssumption DEF Slots
<1> QED
  BY <1>2, <1>3, SizeBeforeDef

\* The same between any two iterations.
LEMMA SizeBeforeGrows ==
  ASSUME NEW b \in Buffer,
         NEW i \in 0 .. MAX_WRITE_OPERATIONS, NEW j \in 0 .. MAX_WRITE_OPERATIONS,
         i <= j
  PROVE  SizeBefore(b)[i] <= SizeBefore(b)[j]
<1> DEFINE size == SizeBefore(b)
           T == {d \in Nat : i + d <= MAX_WRITE_OPERATIONS => size[i] <= size[i + d]}
<1>1. MAX_WRITE_OPERATIONS \in Nat /\ size \in [0 .. MAX_WRITE_OPERATIONS -> Nat]
  BY MaxWriteOperationsAssumption, SizeBeforeDef
<1>2. \A count \in Slots : size[count] <= size[count + 1]
  BY SizeBeforeMonotone
<1> HIDE DEF size
<1>3. 0 \in T
  BY <1>1
<1>4. ASSUME NEW d \in Nat, d \in T PROVE d + 1 \in T
  <2>1. SUFFICES ASSUME i + (d + 1) <= MAX_WRITE_OPERATIONS
                 PROVE  size[i] <= size[i + (d + 1)]
    OBVIOUS
  <2>2. i + d \in Slots /\ i + d \in 0 .. MAX_WRITE_OPERATIONS
        /\ i + d + 1 \in 0 .. MAX_WRITE_OPERATIONS
        /\ i + (d + 1) = i + d + 1
    BY <1>1, <2>1 DEF Slots
  <2>3. size[i] <= size[i + d] /\ size[i + d] <= size[i + d + 1]
    BY <1>1, <1>2, <1>4, <2>2
  <2>4. size[i] \in Nat /\ size[i + d] \in Nat /\ size[i + d + 1] \in Nat
    BY <1>1, <2>2
  <2> QED
    BY <2>2, <2>3, <2>4
<1>5. Nat \subseteq T
  <2> HIDE DEF T
  <2> QED
    BY <1>3, <1>4, SetInduction
<1>6. j - i \in Nat /\ i + (j - i) = j
  BY <1>1
<1>7. j - i \in T
  BY <1>5, <1>6
<1> QED
  BY <1>6, <1>7 DEF size

-----------------------------------------------------------------------------
(***************************************************************************)
(* The loops of main.c                                                     *)
(***************************************************************************)

\* The loops of main.c stop after at most MAX_WRITE_OPERATIONS iterations.
LEMMA BreakAtType ==
  ASSUME NEW b \in Buffer
  PROVE  BreakAt(b) \in 0 .. MAX_WRITE_OPERATIONS
<1> DEFINE stops == {count \in Slots : Visited(b, count) = b.in_offs /\ ~b.full}
<1>1. stops # {} => Min(stops) \in stops
  <2>1. stops \subseteq Nat
    BY DEF Slots
  <2> QED
    BY <2>1, MinOfNaturals
<1> QED
  BY <1>1, MaxWriteOperationsAssumption DEF BreakAt, Slots

\* aesd_llseek's total_size is a natural number.
LEMMA TotalSizeType ==
  ASSUME NEW b \in Buffer
  PROVE  TotalSize(b) \in Nat
<1>1. BreakAt(b) + 1 \in Nat /\ MAX_WRITE_OPERATIONS \in Nat
  BY BreakAtType, MaxWriteOperationsAssumption
<1>2. Min({BreakAt(b) + 1, MAX_WRITE_OPERATIONS}) \in 0 .. MAX_WRITE_OPERATIONS
  BY <1>1, MinOfTwo
<1> QED
  BY <1>2, SizeBeforeDef DEF TotalSize

\* aesd_ioctl's new_pos is a natural number.
LEMMA CommandStartType ==
  ASSUME NEW b \in Buffer, NEW write_cmd \in Nat, write_cmd < BreakAt(b)
  PROVE  CommandStart(b, write_cmd) \in Nat
<1>1. BreakAt(b) + 1 \in Nat /\ write_cmd \in 0 .. MAX_WRITE_OPERATIONS
  BY BreakAtType, MaxWriteOperationsAssumption
<1>2. Min({write_cmd, BreakAt(b) + 1}) = write_cmd
  BY <1>1, MinOfTwo, BreakAtType
<1> QED
  BY <1>1, <1>2, SizeBeforeDef DEF CommandStart

\* aesd_circular_buffer_find_entry_offset_for_fpos finds the entry whose
\* share of the stream holds the byte asked for, and the byte's place in it;
\* it returns NULL exactly from the end of the stream on.
THEOREM FindEntryCorrect ==
  ASSUME NEW b \in Buffer, NEW pos \in Nat
  PROVE  LET hit == aesd_circular_buffer_find_entry_offset_for_fpos(b, pos)
         IN  /\ hit.found <=> pos < SizeBefore(b)[MAX_WRITE_OPERATIONS]
             /\ hit.found =>
                  \E count \in Slots :
                    /\ hit.slot = Visited(b, count)
                    /\ SizeBefore(b)[count] <= pos
                    /\ pos < SizeBefore(b)[count + 1]
                    /\ hit.offset = pos - SizeBefore(b)[count]
             /\ hit.slot \in Slots
             /\ hit.offset \in Nat
             /\ hit.found => hit.offset < b.entry[hit.slot].size
<1> DEFINE N == MAX_WRITE_OPERATIONS
           sum == SizeBefore(b)
           hits == {count \in Slots : pos < sum[count + 1]}
           hit == aesd_circular_buffer_find_entry_offset_for_fpos(b, pos)
<1>1. N \in Nat \ {0}
  BY MaxWriteOperationsAssumption
<1>2. sum \in [0 .. N -> Nat] /\ sum[0] = 0
  BY SizeBeforeDef
<1>3. hits \subseteq Nat
  BY DEF Slots
<1>4. hits = {} => ~(pos < sum[N])
  <2>1. N - 1 \in Slots /\ (N - 1) + 1 = N
    BY <1>1 DEF Slots
  <2> QED
    BY <2>1
<1>5. ASSUME hits # {}
      PROVE  /\ Min(hits) \in Slots
             /\ sum[Min(hits)] <= pos
             /\ pos < sum[Min(hits) + 1]
  <2>1. Min(hits) \in hits /\ \A y \in hits : Min(hits) <= y
    BY <1>3, <1>5, MinOfNaturals
  <2> DEFINE m == Min(hits)
  <2> HIDE DEF m
  <2>2. m \in Slots /\ pos < sum[m + 1]
    BY <2>1 DEF m
  <2>3. CASE m = 0
    BY <2>2, <2>3, <1>2 DEF m
  <2>4. CASE m # 0
    <3>1. m - 1 \in Slots /\ (m - 1) + 1 = m /\ ~(m <= m - 1)
      BY <2>2, <2>4, <1>1 DEF Slots
    <3>2. m - 1 \notin hits
      BY <2>1, <3>1 DEF m
    <3>3. ~(pos < sum[m])
      BY <3>1, <3>2
    <3>4. sum[m] \in Nat
      BY <1>2, <2>2, <1>1 DEF Slots
    <3> QED
      BY <2>2, <3>3, <3>4 DEF m
  <2> QED
    BY <2>3, <2>4
<1>6. hits # {} => pos < sum[N]
  <2> DEFINE P == {n \in Nat : n <= N /\ (\E c \in hits : c < n) => pos < sum[n]}
  <2>1. 0 \in P
    BY <1>3
  <2>2. ASSUME NEW n \in Nat, n \in P PROVE n + 1 \in P
    <3>1. SUFFICES ASSUME n + 1 <= N, NEW c \in hits, c < n + 1
                   PROVE  pos < sum[n + 1]
      OBVIOUS
    <3>2. n \in Slots /\ sum[n] \in Nat /\ sum[n + 1] \in Nat /\ c \in Nat
      BY <3>1, <1>1, <1>2, <1>3 DEF Slots
    <3>3. CASE c = n
      BY <3>1, <3>3
    <3>4. CASE c < n
      <4>1. pos < sum[n]
        BY <2>2, <3>1, <3>2, <3>4, <1>1
      <4>2. sum[n] <= sum[n + 1]
        BY <3>2, SizeBeforeMonotone
      <4> QED
        BY <4>1, <4>2, <3>2
    <3> QED
      BY <3>1, <3>2, <3>3, <3>4
  <2>3. Nat \subseteq P
    <3> HIDE DEF P
    <3> QED
      BY <2>1, <2>2, SetInduction
  <2>4. N \in P /\ N <= N /\ \A c \in hits : c < N
    BY <2>3, <1>1 DEF Slots
  <2> QED
    BY <2>4
<1>7. CASE hits = {}
  <2>1. hit = [found |-> FALSE, slot |-> 0, offset |-> 0]
    BY <1>7 DEF aesd_circular_buffer_find_entry_offset_for_fpos
  <2> QED
    BY <2>1, <1>1, <1>4, <1>7 DEF Slots
<1>8. CASE hits # {}
  <2> DEFINE m == Min(hits)
  <2>1. hit = [found |-> TRUE, slot |-> Visited(b, m), offset |-> pos - sum[m]]
    BY <1>8 DEF aesd_circular_buffer_find_entry_offset_for_fpos
  <2>2. m \in Slots /\ sum[m] <= pos /\ pos < sum[m + 1]
    BY <1>5, <1>8
  <2> HIDE DEF m, hit, sum
  <2>3. sum[m] \in Nat /\ sum[m + 1] \in Nat
    BY <1>1, <1>2, <2>2 DEF Slots
  <2>4. Visited(b, m) \in Slots
    BY <2>2, VisitedType
  <2>5. sum[m + 1] = sum[m] + b.entry[Visited(b, m)].size
    BY <2>2, SizeBeforeDef DEF sum
  <2>6. b.entry[Visited(b, m)].size \in Nat
    BY <2>4 DEF Buffer, Entry
  <2>7. pos - sum[m] \in Nat /\ pos - sum[m] < b.entry[Visited(b, m)].size
    BY <2>2, <2>3, <2>5, <2>6
  <2>8. hit.found /\ hit.slot = Visited(b, m) /\ hit.offset = pos - sum[m]
    BY <2>1
  <2>9. pos < sum[N]
    BY <1>6, <1>8 DEF sum
  <2> QED
    BY <2>2, <2>4, <2>7, <2>8, <2>9 DEF hit, sum
<1> QED
  BY <1>7, <1>8

-----------------------------------------------------------------------------
(***************************************************************************)
(* aesd_circular_buffer_add_entry                                          *)
(***************************************************************************)

\* The empty ring is consistent.
LEMMA InitConsistent == Consistent(aesd_circular_buffer_init)
<1>1. \A i \in Slots : i \in Nat /\ ~(i < 0)
  BY DEF Slots
<1> QED
  BY <1>1 DEF Consistent, aesd_circular_buffer_init, NoEntry, NULL

\* add_entry keeps a consistent ring consistent, full or not, as long as the
\* entry it is given holds at least one byte and has all of them.
LEMMA AddEntryConsistent ==
  ASSUME NEW b \in Buffer, NEW e \in Entry, Consistent(b),
         e.size > 0, e.size <= Len(e.buffptr)
  PROVE  Consistent(aesd_circular_buffer_add_entry(b, e))
<1> DEFINE n == aesd_circular_buffer_add_entry(b, e)
           next(i) == IF i + 1 = MAX_WRITE_OPERATIONS THEN 0 ELSE i + 1
<1>1. b.in_offs \in Slots /\ b.out_offs \in Slots /\ b.full \in BOOLEAN
      /\ b.entry \in [Slots -> Entry]
  BY DEF Buffer
<1>2. /\ n.entry = [b.entry EXCEPT ![b.in_offs] = e]
      /\ n.in_offs = next(b.in_offs)
      /\ n.out_offs = IF b.full THEN next(b.out_offs) ELSE b.out_offs
      /\ n.full <=> n.in_offs = n.out_offs
  BY <1>1, NextSlotType DEF aesd_circular_buffer_add_entry
<1> HIDE DEF n
<1>3. ~n.full => n.out_offs = 0
  BY <1>1, <1>2 DEF Consistent
<1>4. ASSUME NEW i \in Slots
      PROVE  /\ n.entry[i].size > 0 <=> n.full \/ i < n.in_offs
             /\ n.entry[i].size <= Len(n.entry[i].buffptr)
  <2>1. /\ b.entry[i].size > 0 <=> b.full \/ i < b.in_offs
        /\ b.entry[i].size <= Len(b.entry[i].buffptr)
    BY DEF Consistent
  <2>2. n.entry[i] = IF i = b.in_offs THEN e ELSE b.entry[i]
    BY <1>1, <1>2
  <2>3. CASE b.full
    <3>1. n.full
      BY <2>3, <1>1, <1>2 DEF Consistent
    <3> QED
      BY <2>1, <2>2, <2>3, <3>1
  <2>4. CASE ~b.full
    <3>1. n.full <=> b.in_offs + 1 = MAX_WRITE_OPERATIONS
      BY <2>4, <1>1, <1>2, MaxWriteOperationsAssumption DEF Consistent, Slots
    <3>2. ~n.full => n.in_offs = b.in_offs + 1
      BY <3>1, <1>2
    <3>3. (n.full \/ i < n.in_offs) <=> (i < b.in_offs \/ i = b.in_offs)
      BY <3>1, <3>2, <1>1, MaxWriteOperationsAssumption DEF Slots
    <3> QED
      BY <2>1, <2>2, <2>4, <3>3
  <2> QED
    BY <2>3, <2>4
<1> QED
  BY <1>2, <1>3, <1>4 DEF Consistent, n

\* On a consistent ring add_entry is the Commit step of BoundedLog: the new
\* entry goes to the young end of the log, and the oldest one is dropped
\* exactly when the ring was full.
THEOREM AddEntryCommits ==
  ASSUME NEW b \in Buffer, NEW e \in Entry, Consistent(b)
  PROVE  LET log == Log(b)
         IN  /\ log \in Seq(Entry)
             /\ Log(aesd_circular_buffer_add_entry(b, e)) =
                  Append(IF Len(log) < MAX_WRITE_OPERATIONS
                         THEN log ELSE Tail(log), e)
<1> DEFINE N == MAX_WRITE_OPERATIONS
           n == aesd_circular_buffer_add_entry(b, e)
           next(i) == IF i + 1 = N THEN 0 ELSE i + 1
           log == Log(b)
           slot(o, k) == IF o + k - 1 < N THEN o + k - 1 ELSE o + k - 1 - N
<1>1. N \in Nat \ {0}
  BY MaxWriteOperationsAssumption
<1>2. b.in_offs \in Slots /\ b.out_offs \in Slots /\ b.full \in BOOLEAN
      /\ b.entry \in [Slots -> Entry]
  BY DEF Buffer
<1>3. /\ n.entry = [b.entry EXCEPT ![b.in_offs] = e]
      /\ n.in_offs = next(b.in_offs)
      /\ n.out_offs = IF b.full THEN next(b.out_offs) ELSE b.out_offs
      /\ n.full <=> n.in_offs = n.out_offs
  BY <1>2, NextSlotType DEF aesd_circular_buffer_add_entry
<1>4. ASSUME NEW o \in Slots, NEW k \in 1 .. N
      PROVE  /\ (o + k - 1) % N = slot(o, k)
             /\ slot(o, k) \in Slots
  <2>1. o + k - 1 \in 0 .. 2 * N - 1
    BY <1>1 DEF Slots
  <2> QED
    BY <2>1, <1>1, ModuloOfRing DEF Slots
<1>5. Occupied(b) \in 0 .. N /\ (b.full => Occupied(b) = N)
      /\ (~b.full => Occupied(b) = b.in_offs /\ Occupied(b) < N)
  BY <1>1, <1>2 DEF Occupied, Consistent, Slots
<1>6. \A k \in 1 .. Occupied(b) : log[k] = b.entry[slot(b.out_offs, k)]
  <2> TAKE k \in 1 .. Occupied(b)
  <2>1. k \in 1 .. N
    BY <1>5, <1>1
  <2> QED
    BY <2>1, <1>2, <1>4 DEF Log
<1>7. log \in Seq(Entry) /\ Len(log) = Occupied(b)
  <2>1. \A k \in 1 .. Occupied(b) :
          b.entry[(b.out_offs + k - 1) % N] \in Entry
    <3> TAKE k \in 1 .. Occupied(b)
    <3>1. k \in 1 .. N
      BY <1>5, <1>1
    <3> QED
      BY <3>1, <1>2, <1>4
  <2>2. log = [k \in 1 .. Occupied(b) |-> b.entry[(b.out_offs + k - 1) % N]]
    BY DEF Log
  <2> HIDE DEF log
  <2> QED
    BY <2>1, <2>2, <1>5
<1>8. n.in_offs \in Slots /\ n.out_offs \in Slots
  BY <1>1, <1>2, <1>3 DEF Slots
<1>9. CASE ~b.full
  <2>1. /\ n.out_offs = 0 /\ b.out_offs = 0
        /\ Occupied(n) = Occupied(b) + 1
    <3>1. n.out_offs = 0 /\ b.out_offs = 0
      BY <1>3, <1>9 DEF Consistent
    <3>2. n.full <=> b.in_offs + 1 = N
      BY <3>1, <1>1, <1>2, <1>3 DEF Slots
    <3> QED
      BY <3>1, <3>2, <1>1, <1>2, <1>3, <1>5, <1>9 DEF Occupied
  <2>2. ASSUME NEW k \in 1 .. Occupied(b) + 1
        PROVE  n.entry[(n.out_offs + k - 1) % N] = Append(log, e)[k]
    <3>1. k \in 1 .. N
      BY <1>5, <1>9, <1>1
    <3>2. (n.out_offs + k - 1) % N = k - 1 /\ k - 1 \in Slots
      BY <1>4, <1>8, <2>1, <3>1, <1>1
    <3>3. CASE k = Occupied(b) + 1
      <4>1. k - 1 = b.in_offs
        BY <3>3, <1>5, <1>9
      <4>2. n.entry[k - 1] = e
        BY <4>1, <1>2, <1>3
      <4> HIDE DEF log, n
      <4> QED
        BY <3>2, <3>3, <4>2, <1>7
    <3>4. CASE k \in 1 .. Occupied(b)
      <4>1. k - 1 # b.in_offs /\ slot(b.out_offs, k) = k - 1
        BY <3>4, <3>1, <1>1, <1>2, <1>5, <1>9, <2>1 DEF Slots
      <4>2. n.entry[k - 1] = b.entry[k - 1]
        BY <4>1, <1>2, <1>3, <3>2
      <4>3. log[k] = b.entry[k - 1]
        BY <4>1, <1>6, <3>4
      <4> HIDE DEF log, n
      <4> QED
        BY <3>2, <3>4, <4>2, <4>3, <1>7
    <3>5. k = Occupied(b) + 1 \/ k \in 1 .. Occupied(b)
      BY <1>5, <1>1
    <3> HIDE DEF log, n, slot
    <3> QED
      BY <3>3, <3>4, <3>5
  <2>3. Log(n) = [k \in 1 .. Occupied(b) + 1 |->
                    n.entry[(n.out_offs + k - 1) % N]]
    BY <2>1 DEF Log
  <2> HIDE DEF log, n
  <2>4. /\ Append(log, e) \in Seq(Entry)
        /\ Len(Append(log, e)) = Occupied(b) + 1
        /\ \A k \in 1 .. Occupied(b) + 1 : Append(log, e)[k] \in Entry
    BY <1>5, <1>7
  <2>5. Log(n) \in Seq(Entry) /\ Len(Log(n)) = Occupied(b) + 1
    <3>1. Occupied(b) + 1 \in Nat
      BY <1>1, <1>5
    <3> DEFINE m == Occupied(b) + 1
               elt(k) == n.entry[(n.out_offs + k - 1) % N]
    <3>2. \A k \in 1 .. m : elt(k) \in Entry
      BY <2>2, <2>4
    <3> HIDE DEF m, elt
    <3>3. Log(n) = [k \in 1 .. m |-> elt(k)]
      BY <2>3 DEF m, elt
    <3>4. Log(n) \in Seq(Entry) /\ Len(Log(n)) = m
      BY <3>1, <3>2, <3>3 DEF m
    <3> QED
      BY <3>4 DEF m
  <2>6. Log(n) = Append(log, e)
    BY <2>2, <2>3, <2>4, <2>5, SeqEqual
  <2>7. Len(log) < N
    BY <1>5, <1>7, <1>9
  <2> QED
    BY <2>6, <2>7, <1>7 DEF log, n
<1>10. CASE b.full
  <2>1. /\ n.full /\ Occupied(n) = N /\ Occupied(b) = N
        /\ b.in_offs = b.out_offs /\ n.out_offs = next(b.out_offs)
    BY <1>2, <1>3, <1>5, <1>10 DEF Consistent, Occupied
  <2>2. Tail(log) \in Seq(Entry) /\ Len(Tail(log)) = N - 1
        /\ \A k \in 1 .. N - 1 : Tail(log)[k] = log[k + 1]
    <3> HIDE DEF log
    <3> QED
      BY <1>1, <1>7, <2>1
  <2>3. ASSUME NEW k \in 1 .. N
        PROVE  n.entry[(n.out_offs + k - 1) % N] = Append(Tail(log), e)[k]
    <3>1. (n.out_offs + k - 1) % N = slot(n.out_offs, k)
          /\ slot(n.out_offs, k) \in Slots
      BY <1>4, <1>8
    <3>2. CASE k = N
      <4>1. slot(n.out_offs, k) = b.in_offs
        BY <3>2, <2>1, <1>1, <1>2 DEF Slots
      <4>2. n.entry[b.in_offs] = e
        BY <1>2, <1>3
      <4> HIDE DEF log, n
      <4> QED
        BY <3>1, <3>2, <4>1, <4>2, <2>2, <1>1
    <3>3. CASE k \in 1 .. N - 1
      <4>1. /\ slot(n.out_offs, k) = slot(b.out_offs, k + 1)
            /\ slot(n.out_offs, k) # b.in_offs
        BY <3>3, <2>1, <1>1, <1>2, SMTT(30) DEF Slots
      <4>2. n.entry[slot(n.out_offs, k)] = b.entry[slot(b.out_offs, k + 1)]
        BY <4>1, <3>1, <1>2, <1>3
      <4>3. log[k + 1] = b.entry[slot(b.out_offs, k + 1)]
        BY <1>6, <2>1, <3>3, <1>1
      <4> HIDE DEF log, n, slot
      <4> QED
        BY <3>1, <3>3, <4>2, <4>3, <2>2, <1>1
    <3>4. k = N \/ k \in 1 .. N - 1
      BY <1>1
    <3> HIDE DEF log, n, slot
    <3> QED
      BY <3>2, <3>3, <3>4
  <2>4. Log(n) = [k \in 1 .. N |-> n.entry[(n.out_offs + k - 1) % N]]
    BY <2>1 DEF Log
  <2> HIDE DEF log, n
  <2>5. /\ Append(Tail(log), e) \in Seq(Entry)
        /\ Len(Append(Tail(log), e)) = N
        /\ \A k \in 1 .. N : Append(Tail(log), e)[k] \in Entry
    BY <2>2, <1>1
  <2>6. Log(n) \in Seq(Entry) /\ Len(Log(n)) = N
    BY <2>3, <2>4, <2>5, <1>1
  <2>7. Log(n) = Append(Tail(log), e)
    BY <2>3, <2>4, <2>5, <2>6, SeqEqual
  <2>8. ~(Len(log) < N)
    BY <1>1, <1>7, <2>1
  <2> QED
    BY <2>7, <2>8, <1>7 DEF log, n
<1> QED
  BY <1>2, <1>9, <1>10

-----------------------------------------------------------------------------
(***************************************************************************)
(* The content of the ring as one stream of bytes                          *)
(***************************************************************************)

\* The bytes of an entry that has all its bytes.
LEMMA BytesType ==
  ASSUME NEW e \in Entry, e.size <= Len(e.buffptr)
  PROVE  /\ Bytes(e) \in Seq(Byte) /\ Len(Bytes(e)) = e.size
         /\ \A i \in 1 .. e.size : Bytes(e)[i] = e.buffptr[i]
<1>1. e.buffptr \in Seq(Byte) /\ e.size \in Nat
  BY DEF Entry
<1> QED
  BY <1>1 DEF Bytes

\* How many slots are in use, and which iteration of the loops comes by them.
LEMMA OccupiedType ==
  ASSUME NEW b \in Buffer, Consistent(b)
  PROVE  /\ Occupied(b) \in 0 .. MAX_WRITE_OPERATIONS
         /\ b.full => Occupied(b) = MAX_WRITE_OPERATIONS
         /\ ~b.full => /\ Occupied(b) = b.in_offs /\ b.out_offs = 0
                       /\ Occupied(b) < MAX_WRITE_OPERATIONS
         /\ \A k \in 1 .. Occupied(b) : /\ k - 1 \in Slots
                                        /\ Log(b)[k] = b.entry[Visited(b, k - 1)]
<1>1. /\ b.in_offs \in Slots /\ b.out_offs \in Slots /\ b.full \in BOOLEAN
      /\ MAX_WRITE_OPERATIONS \in Nat \ {0}
  BY MaxWriteOperationsAssumption DEF Buffer
<1>2. /\ Occupied(b) \in 0 .. MAX_WRITE_OPERATIONS
      /\ b.full => Occupied(b) = MAX_WRITE_OPERATIONS
      /\ ~b.full => /\ Occupied(b) = b.in_offs /\ b.out_offs = 0
                    /\ Occupied(b) < MAX_WRITE_OPERATIONS
  BY <1>1 DEF Occupied, Consistent, Slots
<1>3. ASSUME NEW k \in 1 .. Occupied(b)
      PROVE  k - 1 \in Slots /\ Log(b)[k] = b.entry[Visited(b, k - 1)]
  <2>1. k - 1 \in Slots
    BY <1>1, <1>2 DEF Slots
  <2>2. b.out_offs + k - 1 = b.out_offs + (k - 1)
    BY <1>1, <1>2 DEF Slots
  <2> QED
    BY <2>1, <2>2 DEF Log, Visited
<1> QED
  BY <1>2, <1>3

\* Every command in the ring is a sequence of bytes.
LEMMA CommandsType ==
  ASSUME NEW b \in Buffer, Consistent(b)
  PROVE  /\ Commands(b) \in Seq(Seq(Byte)) /\ Len(Commands(b)) = Occupied(b)
         /\ \A k \in 1 .. Occupied(b) :
              /\ Log(b)[k] \in Entry
              /\ Log(b)[k].size <= Len(Log(b)[k].buffptr)
              /\ Commands(b)[k] = Bytes(Log(b)[k])
<1>1. /\ Occupied(b) \in Nat
      /\ \A k \in 1 .. Occupied(b) : /\ k - 1 \in Slots
                                     /\ Log(b)[k] = b.entry[Visited(b, k - 1)]
  BY OccupiedType
<1>2. ASSUME NEW k \in 1 .. Occupied(b)
      PROVE  Log(b)[k] \in Entry /\ Log(b)[k].size <= Len(Log(b)[k].buffptr)
  <2>1. Visited(b, k - 1) \in Slots
    BY <1>1, VisitedType
  <2> QED
    BY <1>1, <2>1 DEF Buffer, Consistent
<1>3. ASSUME NEW k \in 1 .. Occupied(b) PROVE Bytes(Log(b)[k]) \in Seq(Byte)
  BY <1>2, BytesType
<1>4. Commands(b) \in Seq(Seq(Byte)) /\ Len(Commands(b)) = Occupied(b)
  <2> DEFINE Q == Seq(Byte)
             e(k) == Bytes(Log(b)[k])
  <2>1. \A k \in 1 .. Occupied(b) : e(k) \in Q
    BY <1>3
  <2>2. Commands(b) = [k \in 1 .. Occupied(b) |-> e(k)]
    BY DEF Commands
  <2> HIDE DEF Q, e
  <2>3. Commands(b) \in Seq(Q) /\ Len(Commands(b)) = Occupied(b)
    BY <1>1, <2>1, <2>2
  <2> QED
    BY <2>3 DEF Q
<1> QED
  BY <1>2, <1>4 DEF Commands

\* The content of the ring is a sequence of bytes.
LEMMA ContentType ==
  ASSUME NEW b \in Buffer, Consistent(b)
  PROVE  Content(b) \in Seq(Byte) /\ Content(b) = FlattenSeq(Commands(b))
<1>1. Content(b) = FlattenSeq(Commands(b))
  BY DEF Content
<1> QED
  BY <1>1, CommandsType, FlattenType

\* The first k commands have as many bytes as the loops have counted when
\* they come to the next one.
LEMMA PrefixLength ==
  ASSUME NEW b \in Buffer, Consistent(b), NEW k \in 0 .. Occupied(b)
  PROVE  /\ FlattenSeq(SubSeq(Commands(b), 1, k)) \in Seq(Byte)
         /\ Len(FlattenSeq(SubSeq(Commands(b), 1, k))) = SizeBefore(b)[k]
<1> DEFINE C == Commands(b)
           F(j) == FlattenSeq(SubSeq(C, 1, j))
           T == {j \in Nat : j <= Occupied(b) =>
                               F(j) \in Seq(Byte) /\ Len(F(j)) = SizeBefore(b)[j]}
<1>1. C \in Seq(Seq(Byte)) /\ Len(C) = Occupied(b) /\ Occupied(b) \in Nat
  BY CommandsType, OccupiedType
<1>2. 0 \in T
  <2>1. SubSeq(C, 1, 0) = << >>
    BY SubSeqEmpty
  <2>2. F(0) = << >>
    <3>1. FlattenSeq(<< >>) = << >>
      BY FlattenEmpty
    <3> QED
      BY <2>1, <3>1, Zenon
  <2>3. << >> \in Seq(Byte) /\ Len(<< >>) = 0
    OBVIOUS
  <2>4. SizeBefore(b)[0] = 0
    BY SizeBeforeDef
  <2> HIDE DEF F
  <2> QED
    BY <2>2, <2>3, <2>4
<1>3. ASSUME NEW j \in Nat, j \in T PROVE j + 1 \in T
  <2> SUFFICES ASSUME j + 1 <= Occupied(b)
               PROVE  F(j + 1) \in Seq(Byte) /\ Len(F(j + 1)) = SizeBefore(b)[j + 1]
    OBVIOUS
  <2>1. j \in 0 .. Len(C) - 1 /\ j + 1 \in 1 .. Occupied(b) /\ j <= Occupied(b)
    BY <1>1
  <2>2. F(j) \in Seq(Byte) /\ Len(F(j)) = SizeBefore(b)[j]
    BY <1>3, <2>1
  <2>3. F(j + 1) = F(j) \o C[j + 1]
    <3> HIDE DEF C
    <3> QED
      BY <1>1, <2>1, FlattenNext
  <2>4. (j + 1) - 1 = j /\ j \in Slots /\ Log(b)[j + 1] = b.entry[Visited(b, j)]
    <3>1. (j + 1) - 1 = j
      BY <2>1
    <3>2. /\ (j + 1) - 1 \in Slots
          /\ Log(b)[j + 1] = b.entry[Visited(b, (j + 1) - 1)]
      BY <2>1, OccupiedType
    <3> QED
      BY <3>1, <3>2, Zenon
  <2>5. /\ C[j + 1] \in Seq(Byte)
        /\ Len(C[j + 1]) = b.entry[Visited(b, j)].size
    <3>1. /\ Log(b)[j + 1] \in Entry
          /\ Log(b)[j + 1].size <= Len(Log(b)[j + 1].buffptr)
          /\ C[j + 1] = Bytes(Log(b)[j + 1])
      BY <2>1, CommandsType
    <3> QED
      BY <2>4, <3>1, BytesType
  <2>6. SizeBefore(b)[j + 1] = SizeBefore(b)[j] + b.entry[Visited(b, j)].size
    BY <2>4, SizeBeforeDef
  <2> HIDE DEF F, C, T
  <2>7. F(j) \o C[j + 1] \in Seq(Byte)
        /\ Len(F(j) \o C[j + 1]) = Len(F(j)) + Len(C[j + 1])
    BY <2>2, <2>5
  <2>8. F(j + 1) \in Seq(Byte) /\ Len(F(j + 1)) = Len(F(j)) + Len(C[j + 1])
    BY <2>3, <2>7, Zenon
  <2>9. Len(F(j + 1)) = SizeBefore(b)[j + 1]
    BY <2>2, <2>5, <2>6, <2>8, Zenon
  <2> QED
    BY <2>8, <2>9, Zenon
<1>4. Nat \subseteq T
  <2> HIDE DEF T
  <2> QED
    BY <1>2, <1>3, SetInduction
<1>5. k \in T
  <2>1. k \in Nat
    BY <1>1
  <2> HIDE DEF T
  <2> QED
    BY <1>4, <2>1
<1> QED
  BY <1>1, <1>5

\* The content has as many bytes as all the loops together count: the slots
\* that are not in use add nothing.
LEMMA ContentLength ==
  ASSUME NEW b \in Buffer, Consistent(b)
  PROVE  /\ Len(Content(b)) = SizeBefore(b)[Occupied(b)]
         /\ \A k \in Occupied(b) .. MAX_WRITE_OPERATIONS :
              SizeBefore(b)[k] = SizeBefore(b)[Occupied(b)]
<1> DEFINE n == Occupied(b)
           T == {j \in Nat : n + j <= MAX_WRITE_OPERATIONS =>
                               SizeBefore(b)[n + j] = SizeBefore(b)[n]}
<1>1. /\ n \in 0 .. MAX_WRITE_OPERATIONS /\ MAX_WRITE_OPERATIONS \in Nat \ {0}
      /\ b.full => n = MAX_WRITE_OPERATIONS
      /\ ~b.full => n = b.in_offs /\ b.out_offs = 0
  BY OccupiedType, MaxWriteOperationsAssumption
<1>2. Len(Content(b)) = SizeBefore(b)[n]
  <2>1. Commands(b) \in Seq(Seq(Byte)) /\ Len(Commands(b)) = n
    BY CommandsType
  <2>2. SubSeq(Commands(b), 1, n) = Commands(b)
    BY <2>1, SubSeqFull
  <2>3. n \in 0 .. Occupied(b)
    BY <1>1
  <2>4. Len(FlattenSeq(SubSeq(Commands(b), 1, n))) = SizeBefore(b)[n]
    BY <2>3, PrefixLength
  <2> QED
    BY <2>2, <2>4, ContentType
<1>3. 0 \in T
  BY <1>1
<1>4. ASSUME NEW j \in Nat, j \in T PROVE j + 1 \in T
  <2> SUFFICES ASSUME n + (j + 1) <= MAX_WRITE_OPERATIONS
               PROVE  SizeBefore(b)[n + (j + 1)] = SizeBefore(b)[n]
    OBVIOUS
  <2>1. /\ n + j \in Slots /\ (n + j) + 1 = n + (j + 1) /\ ~b.full
        /\ n + j <= MAX_WRITE_OPERATIONS
    BY <1>1 DEF Slots
  <2>2. SizeBefore(b)[n + j] = SizeBefore(b)[n]
    BY <1>4, <2>1
  <2>3. SizeBefore(b)[(n + j) + 1] =
          SizeBefore(b)[n + j] + b.entry[Visited(b, n + j)].size
    BY <2>1, SizeBeforeDef
  <2>4. Visited(b, n + j) = n + j
    <3>1. b.out_offs = 0 /\ n + j \in 0 .. MAX_WRITE_OPERATIONS - 1
      BY <1>1, <2>1 DEF Slots
    <3> QED
      BY <1>1, <3>1 DEF Visited
  <2>5. b.entry[n + j].size = 0
    <3>1. ~(n + j < b.in_offs)
      BY <1>1, <2>1 DEF Slots
    <3>2. b.entry[n + j].size \in Nat /\ ~(b.entry[n + j].size > 0)
      BY <2>1, <3>1 DEF Buffer, Entry, Consistent
    <3> QED
      BY <3>2
  <2>6. SizeBefore(b)[n] \in Nat
    BY <1>1, SizeBeforeDef
  <2> QED
    BY <2>1, <2>2, <2>3, <2>4, <2>5, <2>6
<1>5. Nat \subseteq T
  <2> HIDE DEF T
  <2> QED
    BY <1>3, <1>4, SetInduction
<1>6. ASSUME NEW k \in n .. MAX_WRITE_OPERATIONS
      PROVE  SizeBefore(b)[k] = SizeBefore(b)[n]
  <2>1. k - n \in T /\ n + (k - n) = k /\ k <= MAX_WRITE_OPERATIONS
    BY <1>1, <1>5
  <2> QED
    BY <2>1
<1> QED
  BY <1>2, <1>6

\* The byte of the stream that lies in the command visited in iteration k is
\* the byte of that command's block.
LEMMA ContentAt ==
  ASSUME NEW b \in Buffer, Consistent(b), NEW k \in 0 .. Occupied(b) - 1,
         NEW pos \in Nat,
         SizeBefore(b)[k] <= pos, pos < SizeBefore(b)[k + 1]
  PROVE  Content(b)[pos + 1] =
           b.entry[Visited(b, k)].buffptr[pos - SizeBefore(b)[k] + 1]
<1> DEFINE C == Commands(b)
           n == Occupied(b)
           p == FlattenSeq(SubSeq(C, 1, k))
           e == b.entry[Visited(b, k)]
           rest == SubSeq(C, k + 2, n)
           r == FlattenSeq(rest)
           size == SizeBefore(b)
<1>1. /\ C \in Seq(Seq(Byte)) /\ Len(C) = n /\ n \in Nat
      /\ k \in 0 .. Len(C) - 1 /\ k + 1 \in 1 .. n
  BY CommandsType, OccupiedType
<1>2. p \in Seq(Byte) /\ Len(p) = size[k]
  <2>1. k \in 0 .. Occupied(b)
    BY <1>1
  <2> QED
    BY <2>1, PrefixLength
<1>3. (k + 1) - 1 = k /\ k \in Slots /\ Log(b)[k + 1] = e
  <2>1. (k + 1) - 1 = k
    BY <1>1
  <2>2. (k + 1) - 1 \in Slots /\ Log(b)[k + 1] = b.entry[Visited(b, (k + 1) - 1)]
    BY <1>1, OccupiedType
  <2> QED
    BY <2>1, <2>2, Zenon
<1>4. /\ e \in Entry /\ e.size <= Len(e.buffptr) /\ C[k + 1] = Bytes(e)
  <2>1. /\ Log(b)[k + 1] \in Entry
        /\ Log(b)[k + 1].size <= Len(Log(b)[k + 1].buffptr)
        /\ C[k + 1] = Bytes(Log(b)[k + 1])
    BY <1>1, CommandsType
  <2> QED
    BY <1>3, <2>1, Zenon
<1>5. /\ C[k + 1] \in Seq(Byte) /\ Len(C[k + 1]) = e.size
      /\ \A i \in 1 .. e.size : C[k + 1][i] = e.buffptr[i]
  <2> HIDE DEF e, C
  <2> QED
    BY <1>4, BytesType
<1>6. size[k + 1] = size[k] + e.size /\ size[k] \in Nat /\ e.size \in Nat
  <2>1. size[k + 1] = size[k] + e.size
    BY <1>3, SizeBeforeDef
  <2>2. size[k] \in Nat
    BY <1>3, SizeBeforeDef, MaxWriteOperationsAssumption DEF Slots
  <2> QED
    BY <1>4, <2>1, <2>2 DEF Entry
<1>7. rest \in Seq(Seq(Byte)) /\ r \in Seq(Byte)
  <2> DEFINE Q == Seq(Byte)
  <2> HIDE DEF C, Q
  <2>1. C \in Seq(Q)
    BY <1>1 DEF Q
  <2>2. rest \in Seq(Q)
    BY <1>1, <2>1
  <2> HIDE DEF rest
  <2> QED
    BY <2>2, FlattenType DEF Q
<1>8. Content(b) = (p \o C[k + 1]) \o r
  <2>1. C = SubSeq(C, 1, k + 1) \o rest /\ SubSeq(C, 1, k + 1) \in Seq(Seq(Byte))
    <3> DEFINE Q == Seq(Byte)
    <3> HIDE DEF C, Q
    <3>1. C \in Seq(Q)
      BY <1>1 DEF Q
    <3>2. /\ 1 \in 1 .. Len(C) + 1 /\ k + 1 \in 1 - 1 .. Len(C)
          /\ n \in k + 1 .. Len(C) /\ (k + 1) + 1 = k + 2
      BY <1>1
    <3>3. SubSeq(C, 1, k + 1) \o SubSeq(C, (k + 1) + 1, n) = SubSeq(C, 1, n)
      BY <3>1, <3>2, ConcatAdjacentSubSeq
    <3>4. SubSeq(C, 1, n) = C
      BY <1>1, <3>1, SubSeqFull
    <3>5. SubSeq(C, 1, k + 1) \in Seq(Q)
      BY <1>1, <3>1
    <3> QED
      BY <3>2, <3>3, <3>4, <3>5 DEF Q
  <2>2. FlattenSeq(SubSeq(C, 1, k + 1) \o rest) = FlattenSeq(SubSeq(C, 1, k + 1)) \o r
    <3> DEFINE l == SubSeq(C, 1, k + 1)
    <3>1. l \in Seq(Seq(Byte))
      BY <2>1
    <3> HIDE DEF l, rest
    <3>2. FlattenSeq(l \o rest) = FlattenSeq(l) \o FlattenSeq(rest)
      BY <1>7, <3>1, FlattenConcat
    <3> QED
      BY <3>2 DEF l
  <2>3. FlattenSeq(SubSeq(C, 1, k + 1)) = p \o C[k + 1]
    <3> HIDE DEF C
    <3> QED
      BY <1>1, FlattenNext
  <2>4. Content(b) = FlattenSeq(C)
    BY ContentType
  <2> HIDE DEF C, p, r, rest
  <2> QED
    BY <2>1, <2>2, <2>3, <2>4, Zenon
<1> HIDE DEF C, p, r, rest, e, size
<1> DEFINE m == C[k + 1]
           j == pos - size[k] + 1
<1>9. /\ pos + 1 = Len(p) + j /\ j \in 1 .. Len(m) /\ j \in 1 .. e.size
      /\ pos + 1 \in 1 .. Len(p) + Len(m) /\ m \in Seq(Byte)
  BY <1>2, <1>5, <1>6, SMTT(30) DEF size
<1> HIDE DEF m, j
<1>10. (p \o m)[pos + 1] = m[j]
  <2>1. p \in Seq(Byte) /\ m \in Seq(Byte) /\ j \in 1 .. Len(m)
    BY <1>2, <1>9
  <2>2. (p \o m)[Len(p) + j] = m[j]
    BY <2>1, ConcatRight
  <2>3. pos + 1 = Len(p) + j
    BY <1>9
  <2> QED
    BY <2>2, <2>3, Zenon
<1>11. ((p \o m) \o r)[pos + 1] = (p \o m)[pos + 1]
  <2>1. p \o m \in Seq(Byte) /\ Len(p \o m) = Len(p) + Len(m)
    BY <1>2, <1>9, SMTT(30)
  <2> DEFINE l == p \o m
  <2>2. l \in Seq(Byte) /\ pos + 1 \in 1 .. Len(l)
    BY <1>9, <2>1
  <2> HIDE DEF l
  <2>3. (l \o r)[pos + 1] = l[pos + 1]
    BY <1>7, <2>2, ConcatLeft
  <2> QED
    BY <2>3 DEF l
<1>12. m[j] = e.buffptr[j]
  BY <1>5, <1>9 DEF m
<1> QED
  BY <1>8, <1>10, <1>11, <1>12, Zenon DEF e, size, m, j

-----------------------------------------------------------------------------
(***************************************************************************)
(* What add_entry does to the byte stream                                  *)
(***************************************************************************)

\* An empty ring holds no byte.
LEMMA ContentInit == Content(aesd_circular_buffer_init) = << >>
<1> DEFINE b == aesd_circular_buffer_init
<1>1. Occupied(b) = 0
  BY DEF Occupied, aesd_circular_buffer_init
<1>2. Len(Commands(b)) = 0 /\ Commands(b) = << >>
  BY <1>1 DEF Commands
<1>3. FlattenSeq(Commands(b)) = Commands(b)
  BY <1>2, FlattenEmpty
<1> QED
  BY <1>2, <1>3, InitType, InitConsistent, ContentType

\* The commands of the ring after add_entry: the new one is the last, and the
\* slot it takes held the first one, or no byte at all.
LEMMA CommandsAdd ==
  ASSUME NEW b \in Buffer, NEW e \in Entry, Consistent(b),
         e.size > 0, e.size <= Len(e.buffptr)
  PROVE  LET n == aesd_circular_buffer_add_entry(b, e)
         IN  /\ ~b.full => /\ Commands(n) = Append(Commands(b), Bytes(e))
                           /\ b.entry[b.in_offs].size = 0
             /\ b.full  => /\ Commands(b) # << >>
                           /\ Commands(n) = Append(Tail(Commands(b)), Bytes(e))
                           /\ Head(Commands(b)) = Bytes(b.entry[b.in_offs])
<1> DEFINE n == aesd_circular_buffer_add_entry(b, e)
           N == MAX_WRITE_OPERATIONS
           old == Occupied(b)
           new == Occupied(n)
           C == Commands(b)
           be == Bytes(e)
           Q == Seq(Byte)
<1>1. n \in Buffer /\ Consistent(n) /\ N \in Nat \ {0}
  BY AddEntryType, AddEntryConsistent, MaxWriteOperationsAssumption
<1>2. /\ old \in 0 .. N /\ (b.full => old = N) /\ (~b.full => old < N)
      /\ new \in 0 .. N
      /\ Commands(b) \in Seq(Seq(Byte)) /\ Len(Commands(b)) = old
  BY <1>1, OccupiedType, CommandsType
<1>3. /\ Len(Log(b)) = old /\ Len(Log(n)) = new /\ Log(b) \in Seq(Entry)
      /\ Log(n) = Append(IF Len(Log(b)) < N THEN Log(b) ELSE Tail(Log(b)), e)
  <2>1. /\ Log(b) \in Seq(Entry)
        /\ Log(n) = Append(IF Len(Log(b)) < N THEN Log(b) ELSE Tail(Log(b)), e)
    BY AddEntryCommits
  <2>2. Len(Log(b)) = old /\ Len(Log(n)) = new
    BY <1>2 DEF Log
  <2> QED
    BY <2>1, <2>2
<1>4. /\ C = [k \in 1 .. old |-> Bytes(Log(b)[k])]
      /\ Commands(n) = [k \in 1 .. new |-> Bytes(Log(n)[k])]
  BY DEF Commands
<1>5. b.in_offs \in Slots /\ b.out_offs \in Slots /\ b.full \in BOOLEAN
  BY DEF Buffer
<1>8. /\ C \in Seq(Q) /\ Commands(n) \in Seq(Q) /\ Len(Commands(n)) = new
      /\ Len(C) = old /\ old \in Nat /\ be \in Q /\ be = Bytes(e)
  BY <1>1, <1>2, CommandsType, BytesType
<1>6. CASE ~b.full
  <2>1. Log(n) = Append(Log(b), e)
    BY <1>2, <1>3, <1>6
  <2>2. /\ new = old + 1 /\ Log(n)[old + 1] = e
        /\ \A k \in 1 .. old : Log(n)[k] = Log(b)[k]
    <3> HIDE DEF n, old, new
    <3>1. old \in Nat
      BY <1>2
    <3> QED
      BY <1>3, <2>1, <3>1
  <2>3. Commands(n) = Append(C, Bytes(e))
    <3> DEFINE x == Append(C, be)
               y == Commands(n)
    <3>1. x \in Seq(Q) /\ Len(x) = old + 1 /\ x[old + 1] = be
          /\ \A k \in 1 .. old : x[k] = C[k]
      <4> HIDE DEF C, Q, be, old, n, new
      <4> QED
        BY <1>8
    <3>2. \A k \in 1 .. old + 1 : x[k] = y[k]
      <4>1. \A k \in 1 .. old + 1 : k = old + 1 \/ k \in 1 .. old
        BY <1>2
      <4>2. y[old + 1] = be /\ \A k \in 1 .. old : y[k] = C[k]
        <5>1. old + 1 \in 1 .. new /\ \A k \in 1 .. old : k \in 1 .. new
          BY <1>2, <2>2
        <5> HIDE DEF C, n, old, new, y
        <5> QED
          BY <1>4, <2>2, <5>1 DEF y
      <4> HIDE DEF x, y, C, old
      <4> QED
        BY <3>1, <4>1, <4>2
    <3> HIDE DEF x, y, Q
    <3> QED
      BY <1>8, <2>2, <3>1, <3>2, SeqEqual DEF x, y
  <2>4. b.entry[b.in_offs].size = 0
    <3>1. b.entry[b.in_offs].size \in Nat /\ b.in_offs \in Nat
      <4>1. b.entry[b.in_offs] \in Entry
        BY <1>5 DEF Buffer
      <4> QED
        BY <1>5, <4>1 DEF Entry, Slots
    <3>2. b.entry[b.in_offs].size > 0 <=> b.full \/ b.in_offs < b.in_offs
      BY <1>5 DEF Consistent
    <3> QED
      BY <1>6, <3>1, <3>2
  <2> QED
    BY <1>6, <2>3, <2>4
<1>7. CASE b.full
  <2>1. Log(n) = Append(Tail(Log(b)), e) /\ old = N /\ Log(b) # << >> /\ C # << >>
    <3>1. old = N /\ ~(Len(Log(b)) < N) /\ Len(Log(b)) # 0 /\ Len(C) # 0
      BY <1>1, <1>2, <1>3, <1>7
    <3> QED
      BY <1>3, <3>1
  <2>2. /\ new = old /\ Log(n)[old] = e
        /\ \A k \in 1 .. old - 1 : Log(n)[k] = Log(b)[k + 1]
    <3> HIDE DEF n, old, new
    <3>1. old \in Nat \ {0}
      BY <1>1, <2>1
    <3> DEFINE tail == Tail(Log(b))
    <3>2. tail \in Seq(Entry) /\ Len(tail) = old - 1
          /\ \A k \in 1 .. old - 1 : tail[k] = Log(b)[k + 1]
      BY <1>3, <2>1, <3>1
    <3> HIDE DEF tail
    <3>3. Log(n) = Append(tail, e)
      BY <2>1 DEF tail
    <3> QED
      BY <1>3, <3>1, <3>2, <3>3
  <2>3. Commands(n) = Append(Tail(C), Bytes(e))
    <3> DEFINE tail == Tail(C)
               x == Append(tail, be)
               y == Commands(n)
    <3>0. old \in Nat \ {0}
      BY <1>1, <2>1
    <3>1. tail \in Seq(Q) /\ Len(tail) = old - 1
          /\ \A k \in 1 .. old - 1 : tail[k] = C[k + 1]
      <4> HIDE DEF C, old, Q, n, new, be
      <4> QED
        BY <1>8, <2>1, <3>0
    <3> HIDE DEF tail
    <3>2. x \in Seq(Q) /\ Len(x) = old /\ x[old] = be
          /\ \A k \in 1 .. old - 1 : x[k] = tail[k]
      <4> HIDE DEF be, old, Q
      <4> QED
        BY <1>8, <3>0, <3>1
    <3>3. \A k \in 1 .. old : x[k] = y[k]
      <4>1. \A k \in 1 .. old : k = old \/ k \in 1 .. old - 1
        BY <3>0
      <4>2. y[old] = be /\ \A k \in 1 .. old - 1 : y[k] = C[k + 1]
        <5>1. /\ old \in 1 .. new
              /\ \A k \in 1 .. old - 1 : k \in 1 .. new /\ k + 1 \in 1 .. old
          BY <2>2, <3>0
        <5> HIDE DEF C, n, old, new, y
        <5> QED
          BY <1>4, <2>2, <5>1 DEF y
      <4> HIDE DEF x, y, C, old
      <4> QED
        BY <3>1, <3>2, <4>1, <4>2
    <3> HIDE DEF x, y, Q
    <3> QED
      BY <1>8, <2>2, <3>2, <3>3, SeqEqual DEF x, y, tail
  <2>4. Head(C) = Bytes(b.entry[b.in_offs])
    <3>1. 1 \in 1 .. old
      BY <1>1, <2>1
    <3>2. Head(C) = C[1] /\ C[1] = Bytes(Log(b)[1])
      BY <1>4, <2>1, <3>1
    <3>3. Log(b)[1] = b.entry[Visited(b, 0)]
      BY <3>1, OccupiedType
    <3>4. Visited(b, 0) = b.in_offs
      <4>1. b.out_offs + 0 \in 0 .. 2 * N - 1 /\ b.out_offs < N
            /\ b.out_offs + 0 = b.out_offs
        BY <1>1, <1>5 DEF Slots
      <4>2. b.in_offs = b.out_offs
        BY <1>7 DEF Consistent
      <4> QED
        BY <4>1, <4>2, ModuloOfRing DEF Visited
    <3> QED
      BY <3>2, <3>3, <3>4
  <2> QED
    BY <1>7, <2>1, <2>3, <2>4
<1> QED
  BY <1>5, <1>6, <1>7

\* add_entry drops the bytes of the entry it overwrites from the front of the
\* stream and puts those of the new entry behind the rest.
THEOREM ContentAdd ==
  ASSUME NEW b \in Buffer, NEW e \in Entry, Consistent(b),
         e.size > 0, e.size <= Len(e.buffptr)
  PROVE  LET n == aesd_circular_buffer_add_entry(b, e)
             dropped == b.entry[b.in_offs]
         IN  \E rest \in Seq(Byte) :
               /\ Content(b) = Bytes(dropped) \o rest
               /\ Content(n) = rest \o Bytes(e)
               /\ Bytes(dropped) \in Seq(Byte) /\ Len(Bytes(dropped)) = dropped.size
<1> DEFINE n == aesd_circular_buffer_add_entry(b, e)
           d == Bytes(b.entry[b.in_offs])
           be == Bytes(e)
           C == Commands(b)
           Q == Seq(Byte)
<1>1. n \in Buffer /\ Consistent(n)
  BY AddEntryType, AddEntryConsistent
<1>2. d \in Q /\ Len(d) = b.entry[b.in_offs].size /\ be \in Q
  <2>1. /\ b.entry[b.in_offs] \in Entry
        /\ b.entry[b.in_offs].size <= Len(b.entry[b.in_offs].buffptr)
    BY DEF Buffer, Consistent
  <2> QED
    BY <2>1, BytesType
<1>3. /\ Content(b) = FlattenSeq(C) /\ Content(b) \in Q /\ C \in Seq(Q)
      /\ Content(n) = FlattenSeq(Commands(n))
  BY <1>1, ContentType, CommandsType
<1>4. CASE ~b.full
  <2>1. Commands(n) = Append(C, be) /\ b.entry[b.in_offs].size = 0
    BY <1>4, CommandsAdd
  <2>2. FlattenSeq(Append(C, be)) = FlattenSeq(C) \o be
    BY <1>2, <1>3, FlattenAppend
  <2>3. d = << >>
    BY <1>2, <2>1
  <2>4. Content(b) = d \o Content(b)
    <3> DEFINE x == Content(b)
    <3>1. x \in Seq(Byte)
      BY <1>3
    <3> HIDE DEF x
    <3>2. x = << >> \o x
      BY <3>1
    <3> QED
      BY <2>3, <3>2 DEF x
  <2>5. Content(n) = Content(b) \o be
    BY <1>3, <2>1, <2>2, Zenon
  <2> QED
    BY <1>2, <1>3, <2>4, <2>5, Zenon
<1>5. CASE b.full
  <2> DEFINE t == Tail(C)
  <2>1. C # << >> /\ Commands(n) = Append(t, be) /\ Head(C) = d
    BY <1>5, CommandsAdd
  <2> HIDE DEF Q, C
  <2>2. t \in Seq(Q) /\ C = <<Head(C)>> \o t /\ <<Head(C)>> \in Seq(Q)
    BY <1>3, <2>1
  <2> HIDE DEF t, d, be, n
  <2>3. FlattenSeq(Append(t, be)) = FlattenSeq(t) \o be /\ FlattenSeq(t) \in Q
    BY <1>2, <2>2, FlattenAppend, FlattenType DEF Q
  <2>4. C = <<d>> \o t /\ <<d>> \in Seq(Q)
    BY <2>1, <2>2, Zenon
  <2>5. FlattenSeq(<<d>> \o t) = FlattenSeq(<<d>>) \o FlattenSeq(t)
    BY <2>2, <2>4, FlattenConcat DEF Q
  <2>6. FlattenSeq(<<d>>) = d
    BY <1>2, FlattenSingle DEF Q
  <2>7. Content(b) = d \o FlattenSeq(t) /\ Content(n) = FlattenSeq(t) \o be
    BY <1>3, <2>1, <2>3, <2>4, <2>5, <2>6, Zenon
  <2> QED
    BY <1>2, <2>3, <2>7, Zenon DEF n, d, be, Q
<1> QED
  BY <1>4, <1>5

-----------------------------------------------------------------------------
(***************************************************************************)
(* The lookups, against the byte stream                                    *)
(***************************************************************************)

\* find_entry_offset_for_fpos on a consistent ring returns NULL exactly past
\* the end of the stream, and otherwise the very byte asked for, with as many
\* bytes of the stream behind it as the entry has.
THEOREM FindEntryReadsContent ==
  ASSUME NEW b \in Buffer, Consistent(b), NEW pos \in Nat
  PROVE  LET hit == aesd_circular_buffer_find_entry_offset_for_fpos(b, pos)
             e   == b.entry[hit.slot]
         IN  /\ hit.found <=> pos < Len(Content(b))
             /\ hit.found =>
                  /\ hit.slot \in Slots /\ hit.offset \in Nat
                  /\ hit.offset < e.size
                  /\ pos + (e.size - hit.offset) <= Len(Content(b))
                  /\ \A i \in 0 .. e.size - hit.offset - 1 :
                       Content(b)[pos + i + 1] = e.buffptr[hit.offset + i + 1]
<1> DEFINE hit == aesd_circular_buffer_find_entry_offset_for_fpos(b, pos)
           e == b.entry[hit.slot]
           N == MAX_WRITE_OPERATIONS
           size == SizeBefore(b)
           n == Occupied(b)
<1>1. N \in Nat \ {0} /\ n \in 0 .. N
  BY MaxWriteOperationsAssumption, OccupiedType
<1>2. /\ Len(Content(b)) = size[n] /\ size[N] = size[n]
      /\ \A k \in n .. N : size[k] = size[n]
  <2>1. N \in n .. N
    BY <1>1
  <2> QED
    BY <2>1, ContentLength
<1>3. size \in [0 .. N -> Nat]
  BY SizeBeforeDef
<1>4. hit.found <=> pos < Len(Content(b))
  BY <1>2, FindEntryCorrect
<1>5. ASSUME hit.found
      PROVE  /\ hit.slot \in Slots /\ hit.offset \in Nat
             /\ hit.offset < e.size
             /\ pos + (e.size - hit.offset) <= Len(Content(b))
             /\ \A i \in 0 .. e.size - hit.offset - 1 :
                  Content(b)[pos + i + 1] = e.buffptr[hit.offset + i + 1]
  <2>1. PICK k \in Slots : /\ hit.slot = Visited(b, k)
                           /\ size[k] <= pos /\ pos < size[k + 1]
                           /\ hit.offset = pos - size[k]
    BY <1>5, FindEntryCorrect
  <2>2. hit.slot \in Slots /\ hit.offset \in Nat /\ hit.offset < e.size
    BY <1>5, FindEntryCorrect
  <2>3. size[k + 1] = size[k] + e.size
    BY <2>1, SizeBeforeDef
  <2>4. e.size \in Nat
    <3>1. b.entry[hit.slot] \in Entry
      BY <2>2 DEF Buffer
    <3> QED
      BY <3>1 DEF Entry
  <2> HIDE DEF hit, e, size, n
  <2>5. k \in 0 .. n - 1
    <3>1. k \in 0 .. N /\ k + 1 \in 0 .. N /\ k \in Nat
      BY <1>1 DEF Slots
    <3>2. ~(k \in n .. N)
      <4>1. SUFFICES ASSUME k \in n .. N PROVE FALSE
        OBVIOUS
      <4>2. k + 1 \in n .. N
        BY <1>1, <3>1, <4>1
      <4>3. size[k] = size[k + 1] /\ size[k] \in Nat
        BY <1>2, <1>3, <3>1, <4>1, <4>2
      <4> QED
        BY <2>1, <4>3
    <3> QED
      BY <1>1, <3>1, <3>2
  <2>6. size[k] \in Nat /\ size[k + 1] \in Nat /\ size[k + 1] <= size[n]
    <3>1. k \in 0 .. N /\ k + 1 \in 0 .. n /\ n \in 0 .. N /\ k + 1 \in 0 .. N
      BY <1>1, <2>5
    <3>2. size[k + 1] <= size[n]
      BY <3>1, <1>1, SizeBeforeGrows DEF size
    <3> QED
      BY <1>3, <3>1, <3>2
  <2>7. pos + (e.size - hit.offset) <= Len(Content(b))
    <3>1. size[n] \in Nat
      BY <1>1, <1>3
    <3> QED
      BY <1>2, <2>1, <2>3, <2>4, <2>6, <3>1
  <2>8. ASSUME NEW i \in 0 .. e.size - hit.offset - 1
        PROVE  Content(b)[pos + i + 1] = e.buffptr[hit.offset + i + 1]
    <3> DEFINE p == pos + i
    <3>1. p \in Nat /\ size[k] <= p /\ p < size[k + 1] /\ p - size[k] = hit.offset + i
      BY <2>1, <2>2, <2>3, <2>4, <2>6
    <3> HIDE DEF p
    <3>2. Content(b)[p + 1] = b.entry[Visited(b, k)].buffptr[p - size[k] + 1]
      BY <2>5, <3>1, ContentAt DEF size, n
    <3> QED
      BY <2>1, <3>1, <3>2 DEF p, e
  <2> QED
    BY <2>2, <2>7, <2>8
<1> QED
  BY <1>4, <1>5

\* The loops of main.c break where the ring ends.
LEMMA BreakAtEnd ==
  ASSUME NEW b \in Buffer, Consistent(b)
  PROVE  BreakAt(b) = Occupied(b)
<1> DEFINE stops == {count \in Slots : Visited(b, count) = b.in_offs /\ ~b.full}
<1>1. /\ MAX_WRITE_OPERATIONS \in Nat \ {0} /\ b.in_offs \in Slots
      /\ b.full \in BOOLEAN
  BY MaxWriteOperationsAssumption DEF Buffer
<1>2. CASE b.full
  BY <1>2 DEF BreakAt, Occupied
<1>3. CASE ~b.full
  <2>1. b.out_offs = 0 /\ Occupied(b) = b.in_offs
    BY <1>3, OccupiedType
  <2>2. \A count \in Slots : Visited(b, count) = count
    <3> TAKE count \in Slots
    <3>1. /\ 0 + count \in 0 .. 2 * MAX_WRITE_OPERATIONS - 1
          /\ 0 + count < MAX_WRITE_OPERATIONS /\ 0 + count = count
      BY <1>1 DEF Slots
    <3> QED
      BY <2>1, <3>1, ModuloOfRing DEF Visited
  <2>3. stops = {b.in_offs}
    BY <1>1, <1>3, <2>2
  <2>4. BreakAt(b) = Min(stops) /\ stops # {} /\ stops \subseteq Nat
    BY <2>3, <1>1 DEF BreakAt, Slots
  <2>5. Min(stops) \in stops
    BY <2>4, MinOfNaturals
  <2> QED
    BY <2>1, <2>3, <2>4, <2>5
<1> QED
  BY <1>1, <1>2, <1>3

\* aesd_llseek's total_size is the number of bytes stored, although the loop
\* adds the size of a slot before it looks whether to stop there.
THEOREM TotalSizeIsContent ==
  ASSUME NEW b \in Buffer, Consistent(b)
  PROVE  TotalSize(b) = Len(Content(b))
<1> DEFINE n == Occupied(b)
           m == Min({n + 1, MAX_WRITE_OPERATIONS})
<1>1. MAX_WRITE_OPERATIONS \in Nat \ {0} /\ n \in 0 .. MAX_WRITE_OPERATIONS
  BY MaxWriteOperationsAssumption, OccupiedType
<1>2. m = IF n + 1 <= MAX_WRITE_OPERATIONS THEN n + 1 ELSE MAX_WRITE_OPERATIONS
  <2>1. n + 1 \in Nat /\ MAX_WRITE_OPERATIONS \in Nat
    BY <1>1
  <2> HIDE DEF n
  <2> QED
    BY <2>1, MinOfTwo
<1>3. m \in n .. MAX_WRITE_OPERATIONS
  BY <1>1, <1>2
<1>4. TotalSize(b) = SizeBefore(b)[m]
  BY BreakAtEnd DEF TotalSize
<1> HIDE DEF m
<1> QED
  BY <1>3, <1>4, ContentLength

\* What the second loop of aesd_ioctl adds up is the length of the commands
\* before the one asked for.
LEMMA CommandStartInLog ==
  ASSUME NEW b \in Buffer, Consistent(b), NEW write_cmd \in 0 .. Occupied(b) - 1
  PROVE  CommandStart(b, write_cmd) =
           Len(FlattenSeq(SubSeq(Commands(b), 1, write_cmd)))
<1> DEFINE n == Occupied(b)
           m == Min({write_cmd, n + 1})
<1>1. n \in Nat /\ write_cmd \in Nat /\ write_cmd < n /\ write_cmd \in 0 .. n
  BY MaxWriteOperationsAssumption, OccupiedType
<1>2. CommandStart(b, write_cmd) = SizeBefore(b)[m]
  BY BreakAtEnd DEF CommandStart
<1>3. m = write_cmd
  <2>1. n + 1 \in Nat /\ write_cmd <= n + 1
    BY <1>1
  <2> HIDE DEF n
  <2> QED
    BY <1>1, <2>1, MinOfTwo
<1> QED
  BY <1>1, <1>2, <1>3, PrefixLength

\* The position aesd_ioctl computes for command write_cmd is the number of
\* bytes of the commands before it.
THEOREM CommandStartIsPrefix ==
  ASSUME NEW b \in Buffer, Consistent(b), NEW write_cmd \in 0 .. Occupied(b) - 1
  PROVE  CommandStart(b, write_cmd) =
           Len(FlattenSeq([k \in 1 .. write_cmd |-> Bytes(Log(b)[k])]))
<1> DEFINE n == Occupied(b)
           C == Commands(b)
<1>1. n \in Nat /\ write_cmd \in Nat /\ write_cmd < n /\ write_cmd \in 0 .. n
  BY MaxWriteOperationsAssumption, OccupiedType
<1>2. SubSeq(C, 1, write_cmd) = [k \in 1 .. write_cmd |-> Bytes(Log(b)[k])]
  <2>1. C \in Seq(Seq(Byte)) /\ Len(C) = n
        /\ \A k \in 1 .. n : C[k] = Bytes(Log(b)[k])
    BY CommandsType
  <2>2. SubSeq(C, 1, write_cmd) = [k \in 1 .. write_cmd |-> C[k]]
    <3> DEFINE Q == Seq(Byte)
    <3>1. C \in Seq(Q)
      BY <2>1
    <3> HIDE DEF C, Q, n
    <3> QED
      BY <1>1, <2>1, <3>1
  <2>3. \A k \in 1 .. write_cmd : C[k] = Bytes(Log(b)[k])
    BY <1>1, <2>1
  <2> HIDE DEF C, n
  <2> QED
    BY <2>2, <2>3
<1> QED
  BY <1>2, CommandStartInLog

\* Every slot in use holds a command of the log.
LEMMA SlotInLog ==
  ASSUME NEW b \in Buffer, Consistent(b), NEW i \in Slots, b.entry[i].size > 0
  PROVE  \E j \in 1 .. Occupied(b) : Len(Commands(b)[j]) = b.entry[i].size
<1> DEFINE N == MAX_WRITE_OPERATIONS
           d == IF b.out_offs <= i THEN i - b.out_offs ELSE i - b.out_offs + N
<1>1. /\ N \in Nat \ {0} /\ b.in_offs \in 0 .. N - 1 /\ b.out_offs \in 0 .. N - 1
      /\ b.full \in BOOLEAN /\ i \in 0 .. N - 1
  BY MaxWriteOperationsAssumption DEF Buffer, Slots
<1>2. b.full \/ (i < b.in_offs /\ b.out_offs = 0)
  BY DEF Consistent
<1>3. /\ Occupied(b) = IF b.full THEN N ELSE b.in_offs
  BY OccupiedType
<1>4. d \in 0 .. N - 1 /\ d + 1 \in 1 .. Occupied(b) /\ (d + 1) - 1 = d
  BY <1>1, <1>2, <1>3
<1>5. Visited(b, d) = i
  <2>1. b.out_offs + d \in 0 .. 2 * N - 1
    BY <1>1, <1>4
  <2> DEFINE x == b.out_offs + d
  <2>2. x % N = IF x < N THEN x ELSE x - N
    BY <2>1, ModuloOfRing, Zenon
  <2>3. Visited(b, d) = x % N
    BY DEF Visited
  <2>4. (IF x < N THEN x ELSE x - N) = i
    BY <1>1
  <2> HIDE DEF d, N, x
  <2> QED
    BY <2>2, <2>3, <2>4, Zenon
<1> DEFINE j == d + 1
<1>6. j \in 1 .. Occupied(b) /\ j - 1 = d
  BY <1>4
<1> HIDE DEF d, j
<1>7. Log(b)[j] = b.entry[i]
  BY <1>5, <1>6, OccupiedType
<1>8. /\ Log(b)[j] \in Entry /\ Log(b)[j].size <= Len(Log(b)[j].buffptr)
      /\ Commands(b)[j] = Bytes(Log(b)[j])
  BY <1>6, CommandsType
<1>9. Len(Commands(b)[j]) = b.entry[i].size
  BY <1>7, <1>8, BytesType
<1> QED
  BY <1>6, <1>9

\* The log has one entry per occupied slot.
LEMMA LogLength ==
  ASSUME NEW b \in Buffer, Consistent(b)
  PROVE  Len(Log(b)) = Occupied(b)
<1> DEFINE m == Occupied(b)
<1>1. NoEntry \in Entry
  BY EmptySeq DEF NoEntry, Entry, NULL
<1>2. Log(b) \in Seq(Entry)
  BY <1>1, AddEntryCommits
<1>3. DOMAIN Log(b) = 1 .. m
  BY DEF Log
<1>4. m \in Nat
  BY OccupiedType, MaxWriteOperationsAssumption
<1> HIDE DEF m
<1>5. DOMAIN Log(b) = 1 .. Len(Log(b)) /\ Len(Log(b)) \in Nat
  BY <1>2, LenProperties
<1>6. Len(Log(b)) = m
  BY <1>3, <1>4, <1>5
<1> QED
  BY <1>6 DEF m

\* The content from a place in one command on is the rest of that command and
\* every later command: where the position that aesd_ioctl sets leads.
LEMMA ContentFromCommand ==
  ASSUME NEW b \in Buffer, Consistent(b), NEW write_cmd \in 0 .. Occupied(b) - 1,
         NEW off \in 0 .. Len(Bytes(Log(b)[write_cmd + 1]))
  PROVE  LET named == Bytes(Log(b)[write_cmd + 1])
         IN  SubSeq(Content(b), CommandStart(b, write_cmd) + off + 1, Len(Content(b)))
               = SubSeq(named, off + 1, Len(named))
                   \o FlattenSeq([i \in 1 .. Len(Log(b)) - write_cmd - 1 |->
                                    Bytes(Log(b)[write_cmd + 1 + i])])
<1> DEFINE s == Commands(b)
           w == write_cmd
           m == Occupied(b)
           named == Bytes(Log(b)[w + 1])
           later == [i \in 1 .. Len(Log(b)) - w - 1 |-> Bytes(Log(b)[w + 1 + i])]
           a == SubSeq(s, 1, w)
           z == SubSeq(s, (w + 1) + 1, Len(s))
           Q == Seq(Byte)
<1>1. /\ m \in Nat /\ s \in Seq(Q) /\ Len(s) = m
      /\ \A k \in 1 .. m : s[k] = Bytes(Log(b)[k]) /\ s[k] \in Q
  <2>1. m \in 0 .. MAX_WRITE_OPERATIONS
    BY OccupiedType
  <2>2. /\ s \in Seq(Q) /\ Len(s) = m
        /\ \A k \in 1 .. m : /\ s[k] = Bytes(Log(b)[k]) /\ Log(b)[k] \in Entry
                             /\ Log(b)[k].size <= Len(Log(b)[k].buffptr)
    BY CommandsType
  <2>3. \A k \in 1 .. m : s[k] \in Q
    BY <2>2, BytesType
  <2> QED
    BY <2>1, <2>2, <2>3, MaxWriteOperationsAssumption
<1>2. Len(Log(b)) = m
  BY LogLength
<1>3. w \in 0 .. m - 1 /\ w + 1 \in 1 .. m /\ w + 1 \in 0 .. Len(s)
  BY <1>1
<1>4. later = [i \in 1 .. m - w - 1 |-> Bytes(Log(b)[w + 1 + i])]
  BY <1>2
<1> HIDE DEF s, m, later, w, Q
<1>5. z \in Seq(Q) /\ Len(z) = m - w - 1 /\ SubSeq(s, 1, w + 1) \o z = s
      /\ SubSeq(s, 1, w + 1) \in Seq(Q)
  <2>1. Len(s) - (w + 1) = m - w - 1
    BY <1>1, <1>3
  <2> QED
    BY <1>1, <1>3, <2>1, SequenceCut
<1>6. later = z
  <2>1. \A i \in 1 .. m - w - 1 : w + 1 + i \in 1 .. m
    BY <1>1, <1>3
  <2>2. \A i \in 1 .. m - w - 1 : Bytes(Log(b)[w + 1 + i]) = s[w + 1 + i] /\ s[w + 1 + i] \in Q
    BY <1>1, <2>1
  <2>3. m - w - 1 \in Nat
    BY <1>1, <1>3
  <2>4. later \in Seq(Q)
    BY <1>4, <2>2, <2>3, IsASeq
  <2>5. Len(later) = m - w - 1
    BY <1>4, <2>3, <2>4, LenProperties
  <2>6. \A i \in 1 .. m - w - 1 : z[i] = s[w + 1 + i]
    <3>1. \A i \in (w + 1) + 1 .. Len(s) : s[i] \in Q
      BY <1>1, <1>3
    <3>2. \A i \in 1 .. Len(s) - ((w + 1) + 1) + 1 : z[i] = s[((w + 1) + 1) + i - 1]
      BY <1>1, <1>3, <3>1, SubSeqProperties
    <3>3. Len(s) - ((w + 1) + 1) + 1 = m - w - 1
      BY <1>1, <1>3
    <3>4. \A i \in 1 .. m - w - 1 : ((w + 1) + 1) + i - 1 = w + 1 + i
      BY <1>1, <1>3
    <3> HIDE DEF z
    <3> QED
      BY <3>2, <3>3, <3>4
  <2>7. \A i \in 1 .. Len(later) : later[i] = z[i]
    BY <1>4, <2>2, <2>5, <2>6
  <2> HIDE DEF z
  <2> QED
    BY <1>5, <2>4, <2>5, <2>7, SeqEqual
<1>7. FlattenSeq(SubSeq(s, 1, w + 1)) = FlattenSeq(a) \o named
  <2>1. w \in 0 .. Len(s) - 1
    BY <1>1, <1>3
  <2>2. FlattenSeq(SubSeq(s, 1, w + 1)) = FlattenSeq(a) \o s[w + 1]
    BY <1>1, <2>1, FlattenNext DEF Q
  <2> QED
    BY <1>1, <1>3, <2>2
<1> DEFINE p == FlattenSeq(a)
           q == FlattenSeq(z)
<1>8. /\ p \in Seq(Byte) /\ q \in Seq(Byte) /\ named \in Seq(Byte)
      /\ Len(p) = SizeBefore(b)[w]
  <2>1. w \in 0 .. Occupied(b)
    BY <1>1, <1>3 DEF m
  <2>2. p \in Seq(Byte) /\ Len(p) = SizeBefore(b)[w]
    BY <2>1, PrefixLength DEF s, w
  <2>3. q \in Seq(Byte)
    BY <1>5, FlattenType DEF Q
  <2>4. named \in Seq(Byte)
    BY <1>1, <1>3 DEF Q
  <2> QED
    BY <2>2, <2>3, <2>4
<1>9. Content(b) = (p \o named) \o q
  <2>1. Content(b) = FlattenSeq(s)
    BY ContentType DEF s
  <2>2. FlattenSeq(SubSeq(s, 1, w + 1) \o z) = FlattenSeq(SubSeq(s, 1, w + 1)) \o q
    BY <1>5, FlattenConcat DEF Q
  <2> HIDE DEF p, q, a, z, named
  <2> QED
    BY <1>5, <1>7, <2>1, <2>2, Zenon DEF p
<1>10. CommandStart(b, w) = Len(p)
  <2>1. Len(p) = SizeBefore(b)[w] /\ BreakAt(b) = m
    BY <1>8, BreakAtEnd DEF m
  <2>2. Min({w, BreakAt(b) + 1}) = w
    BY <1>1, <1>3, <2>1, MinOfTwo
  <2> QED
    BY <2>1, <2>2 DEF CommandStart
<1>11. off \in 0 .. Len(named)
  BY DEF w
<1> HIDE DEF p, q, named
<1>12. SubSeq((p \o named) \o q, Len(p) + off + 1, Len((p \o named) \o q))
         = SubSeq(named, off + 1, Len(named)) \o q
  <2>1. LeavesFromInside(p, named, q, off)
    BY <1>8, <1>11, SuffixFromInside
  <2> QED
    BY <2>1, Zenon DEF LeavesFromInside
<1>13. SubSeq(Content(b), CommandStart(b, w) + off + 1, Len(Content(b)))
         = SubSeq(named, off + 1, Len(named)) \o FlattenSeq(later)
  BY <1>6, <1>9, <1>10, <1>12, Zenon DEF q
<1> QED
  BY <1>13, Zenon DEF named, later, w

\* After an add the log is the old one without its oldest command when the
\* ring was full, and then the new command.
LEMMA AddEntryShifts ==
  ASSUME NEW b \in Buffer, NEW e \in Entry, Consistent(b)
  PROVE  LET old == Log(b)
             new == Log(aesd_circular_buffer_add_entry(b, e))
         IN  \E d \in {0, 1} :
               /\ d = 1 <=> b.full
               /\ Len(old) \in Nat /\ d <= Len(old) /\ Len(new) = Len(old) + 1 - d
               /\ \A k \in 1 .. Len(new) - 1 : new[k] = old[k + d]
               /\ new[Len(new)] = e
               /\ \A k \in 1 .. Len(old) : old[k] \in Entry
<1> DEFINE old == Log(b)
           new == Log(aesd_circular_buffer_add_entry(b, e))
<1>1. /\ old \in Seq(Entry)
      /\ new = Append(IF Len(old) < MAX_WRITE_OPERATIONS THEN old ELSE Tail(old), e)
  BY AddEntryCommits
<1>2. /\ Len(old) \in Nat /\ Len(old) <= MAX_WRITE_OPERATIONS
      /\ b.full <=> Len(old) = MAX_WRITE_OPERATIONS
  BY LogLength, OccupiedType, MaxWriteOperationsAssumption DEF Buffer
<1>3. \A k \in 1 .. Len(old) : old[k] \in Entry
  BY <1>1, ElementOfSeq
<1> SUFFICES \E d \in {0, 1} :
               /\ d = 1 <=> b.full
               /\ Len(old) \in Nat /\ d <= Len(old) /\ Len(new) = Len(old) + 1 - d
               /\ \A k \in 1 .. Len(new) - 1 : new[k] = old[k + d]
               /\ new[Len(new)] = e
  BY <1>3
<1> HIDE DEF old, new
<1>4. CASE ~b.full
  <2>1. new = Append(old, e)
    BY <1>1, <1>2, <1>4, MaxWriteOperationsAssumption
  <2>2. /\ Len(new) = Len(old) + 1 /\ new[Len(old) + 1] = e
        /\ \A k \in 1 .. Len(old) : new[k] = old[k]
    BY <1>1, <2>1, AppendProperties
  <2>3. \A k \in 1 .. Len(new) - 1 : new[k] = old[k + 0]
    BY <1>2, <2>2
  <2> QED
    BY <1>2, <1>4, <2>2, <2>3
<1>5. CASE b.full
  <2> DEFINE t == Tail(old)
  <2>1. new = Append(t, e) /\ Len(old) = MAX_WRITE_OPERATIONS /\ Len(old) # 0
    BY <1>1, <1>2, <1>5, MaxWriteOperationsAssumption
  <2>2. old # << >>
    BY <2>1, EmptySeq
  <2>3. /\ t \in Seq(Entry) /\ Len(t) = Len(old) - 1
        /\ \A k \in 1 .. Len(t) : t[k] = old[k + 1]
    BY <1>1, <2>2, HeadTailProperties
  <2> HIDE DEF t
  <2>4. /\ Len(new) = Len(t) + 1 /\ new[Len(t) + 1] = e
        /\ \A k \in 1 .. Len(t) : new[k] = t[k]
    BY <2>1, <2>3, AppendProperties
  <2>5. Len(t) \in Nat /\ Len(new) = Len(old) + 1 - 1 /\ 1 <= Len(old)
    BY <1>2, <2>1, <2>3, <2>4, LenProperties
  <2>6. \A k \in 1 .. Len(new) - 1 : new[k] = old[k + 1]
    <3>1. Len(new) - 1 = Len(t)
      BY <2>4, <2>5
    <3> QED
      BY <2>3, <2>4, <3>1
  <2> QED
    BY <1>2, <1>5, <2>4, <2>5, <2>6
<1> QED
  BY <1>4, <1>5

=============================================================================
