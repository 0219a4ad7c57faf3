----------------------- MODULE AesdSocketForkProofs -----------------------
(***************************************************************************)
(* Theorems about AesdSocketFork for any number of processes: who has a    *)
(* connection open, that text is stored as it was sent, that lines stay    *)
(* whole without a lock, and that replies are complete.                    *)
(***************************************************************************)
EXTENDS AesdSocketFork, ServerWorldProofs

\* a receive buffer
Memory == [1 .. MAXBUFFER + 1 -> Byte]

Labels == {"none", "start", "recv", "handle", "sendfile", "reading", "joined",
           "exited"}

\* the part of TypeOK that is not about the clients and the device
ProcsOK ==
  /\ mpc \in {"setupsigaction", "open_connection", "start_daemon", "accept",
              "forked", "gone"}
  /\ acceptfd \in Conns \union {NoConn}
  /\ fds \in [Procs -> SUBSET (Conns \union {LISTEN})]
  /\ pc \in [Conns -> Labels]
  /\ buffer \in [Conns -> Memory]
  /\ got \in [Conns -> -1 .. MAXBUFFER] /\ backpos \in [Conns -> Nat]
  /\ reply \in [Conns -> Seq(Byte)] /\ steady \subseteq Conns

\* The three parts are TypeOK and the state of the device.
LEMMA TypeParts == TypeOK /\ DeviceOK <=> ProcsOK /\ ClientsOK /\ StoreOK
  BY WorldParts DEF TypeOK, ProcsOK, Memory, Labels

-----------------------------------------------------------------------------
(***************************************************************************)
(* C strings                                                               *)
(***************************************************************************)

\* A buffer is a sequence of pieces.
LEMMA MemoryIsSeq ==
  ASSUME NEW memory \in Memory
  PROVE  memory \in Seq(Byte)
<1> DEFINE n == MAXBUFFER + 1
<1>1. n \in Nat
  BY ServerWorldAssumption
<1>2. memory = [i \in 1 .. n |-> memory[i]] /\ \A i \in 1 .. n : memory[i] \in Byte
  BY DEF Memory
<1> HIDE DEF n
<1>3. [i \in 1 .. n |-> memory[i]] \in Seq(Byte)
  BY <1>1, <1>2, IsASeq
<1> QED
  BY <1>2, <1>3

\* buffer[bytes_recieved] = '\0' stays within the buffer, which has room for
\* one more than recv is asked for.
LEMMA TerminatedType ==
  ASSUME ProcsOK, NEW c \in Conns
  PROVE  Terminated(c) \in Memory /\ Received(c) \in Seq(Byte)
<1>1. buffer[c] \in Memory /\ got[c] \in -1 .. MAXBUFFER
  BY DEF ProcsOK
<1>2. Terminated(c) \in Memory
  BY <1>1, ServerWorldAssumption DEF Terminated, Memory
<1> QED
  BY <1>2, MemoryIsSeq, StringType DEF Received

\* What is in front of the '\0' comes out as it is, unless there is another
\* one in it.
LEMMA StringUpTo ==
  ASSUME NEW memory \in Memory, NEW k \in 1 .. MAXBUFFER,
         \A i \in 1 .. k : memory[i] # NUL
  PROVE  /\ SubSeq(memory, 1, k) \in Seq(Byte) /\ Len(SubSeq(memory, 1, k)) = k
         /\ \A i \in 1 .. k : SubSeq(memory, 1, k)[i] = memory[i]
         /\ String([memory EXCEPT ![k + 1] = NUL]) = SubSeq(memory, 1, k)
<1> DEFINE cut  == [memory EXCEPT ![k + 1] = NUL]
           ends == {i \in DOMAIN cut : cut[i] = NUL}
<1>0. MAXBUFFER \in Nat /\ k \in Nat
  BY ServerWorldAssumption
<1>1. /\ DOMAIN cut = 1 .. MAXBUFFER + 1 /\ cut[k + 1] = NUL
      /\ \A i \in 1 .. k : cut[i] = memory[i] /\ memory[i] \in Byte
  BY <1>0 DEF Memory
<1>2. k + 1 \in ends /\ ends \subseteq Nat /\ \A i \in ends : k + 1 <= i
  BY <1>0, <1>1
<1>3. String(cut) = SubSeq(cut, 1, Min(ends) - 1)
  BY <1>2 DEF String
<1> HIDE DEF cut, ends
<1>4. Min(ends) = k + 1
  <2>1. Min(ends) \in ends /\ \A i \in ends : Min(ends) <= i
    BY <1>2, MinOfNaturals
  <2> DEFINE e == Min(ends)
  <2>2. e \in Nat /\ e <= k + 1 /\ k + 1 <= e
    BY <1>2, <2>1
  <2> HIDE DEF e
  <2>3. e = k + 1
    BY <1>0, <2>2
  <2> QED
    BY <2>3 DEF e
<1>5. String(cut) = SubSeq(cut, 1, k)
  BY <1>0, <1>3, <1>4
<1>6. \A i \in 1 .. k : cut[i] \in Byte /\ memory[i] \in Byte
  BY <1>1
<1>7. /\ SubSeq(memory, 1, k) \in Seq(Byte) /\ Len(SubSeq(memory, 1, k)) = k
      /\ \A i \in 1 .. k : SubSeq(memory, 1, k)[i] = memory[i]
  <2>1. /\ SubSeq(memory, 1, k) \in Seq(Byte)
        /\ Len(SubSeq(memory, 1, k)) = IF 1 <= k THEN k - 1 + 1 ELSE 0
        /\ \A i \in 1 .. k - 1 + 1 : SubSeq(memory, 1, k)[i] = memory[1 + i - 1]
    BY <1>0, <1>6, SubSeqProperties
  <2> QED
    BY <1>0, <2>1
<1>8. /\ SubSeq(cut, 1, k) \in Seq(Byte) /\ Len(SubSeq(cut, 1, k)) = k
      /\ \A i \in 1 .. k : SubSeq(cut, 1, k)[i] = cut[i]
  <2>1. /\ SubSeq(cut, 1, k) \in Seq(Byte)
        /\ Len(SubSeq(cut, 1, k)) = IF 1 <= k THEN k - 1 + 1 ELSE 0
        /\ \A i \in 1 .. k - 1 + 1 : SubSeq(cut, 1, k)[i] = cut[1 + i - 1]
    BY <1>0, <1>6, SubSeqProperties
  <2> QED
    BY <1>0, <2>1
<1>9. \A i \in 1 .. k : SubSeq(cut, 1, k)[i] = SubSeq(memory, 1, k)[i]
  BY <1>1, <1>7, <1>8
<1>10. SubSeq(cut, 1, k) = SubSeq(memory, 1, k)
  BY <1>7, <1>8, <1>9, SeqEqual
<1> QED
  BY <1>5, <1>7, <1>10 DEF cut

-----------------------------------------------------------------------------
(***************************************************************************)
(* aesd_read                                                               *)
(***************************************************************************)

\* One aesd_read returns the next pieces of the content, and nothing only at
\* its end.
LEMMA ReadAtReads ==
  ASSUME StoreOK, NEW pos \in Nat
  PROVE  /\ ReadAt(pos) \in Seq(Byte) /\ Len(ReadAt(pos)) \in Nat
         /\ ReadAt(pos) = << >> => pos >= Len(Content(circular_buffer))
         /\ ReadAt(pos) # << >> =>
              /\ pos + Len(ReadAt(pos)) <= Len(Content(circular_buffer))
              /\ ReadAt(pos) = SubSeq(Content(circular_buffer), pos + 1,
                                      pos + Len(ReadAt(pos)))
<1> DEFINE b   == circular_buffer
           C   == Content(b)
           hit == aesd_circular_buffer_find_entry_offset_for_fpos(b, pos)
           e   == b.entry[hit.slot]
           o   == hit.offset
           top == Min({o + MAXBUFFER, e.size})
           n   == top - o
<1>0. b \in Buffer /\ Consistent(b) /\ MAXBUFFER \in Nat \ {0}
  BY ServerWorldAssumption DEF StoreOK, DeviceOK
<1>1. C \in Seq(Byte) /\ Len(C) \in Nat
  BY <1>0, ContentType, LenProperties
<1>2. /\ hit.found <=> pos < Len(C)
      /\ hit.found =>
           /\ hit.slot \in Slots /\ o \in Nat /\ o < e.size
           /\ pos + (e.size - o) <= Len(C)
           /\ \A i \in 0 .. e.size - o - 1 : C[pos + i + 1] = e.buffptr[o + i + 1]
  BY <1>0, FindEntryReadsContent
<1>3. ReadAt(pos) = IF hit.found THEN SubSeq(e.buffptr, o + 1, top) ELSE << >>
  BY DEF ReadAt
<1>4. CASE ~hit.found
  BY <1>1, <1>2, <1>3, <1>4, EmptySeq
<1>5. CASE hit.found
  <2>1. e \in Entry /\ e.size \in Nat /\ e.buffptr \in Seq(Byte)
        /\ e.size <= Len(e.buffptr)
    BY <1>0, <1>2, <1>5 DEF Buffer, Entry, Consistent
  <2>2. o \in Nat /\ o < e.size /\ top = IF o + MAXBUFFER <= e.size THEN o + MAXBUFFER ELSE e.size
    <3>1. o \in Nat /\ o < e.size
      BY <1>2, <1>5
    <3> DEFINE m == o + MAXBUFFER
               z == e.size
    <3>2. m \in Nat /\ z \in Nat
      BY <1>0, <2>1, <3>1
    <3> HIDE DEF m, z
    <3>3. Min({m, z}) = IF m <= z THEN m ELSE z
      BY <3>2, MinOfTwo
    <3> QED
      BY <3>1, <3>3 DEF m, z
  <2> DEFINE p == e.buffptr
             z == e.size
  <2>3. /\ pos + (z - o) <= Len(C) /\ z \in Nat /\ p \in Seq(Byte) /\ z <= Len(p)
        /\ \A i \in 0 .. z - o - 1 : C[pos + i + 1] = p[o + i + 1]
        /\ ReadAt(pos) = SubSeq(p, o + 1, top) /\ Len(p) \in Nat
    BY <1>2, <1>3, <1>5, <2>1, LenProperties
  <2> HIDE DEF C, hit, e, o, top, p, z
  <2>4. n \in Nat /\ n # 0 /\ top = o + n /\ n <= z - o /\ o + n <= Len(p)
        /\ pos + n <= Len(C)
    <3>1. /\ top \in Nat /\ o \in Nat /\ o < z
          /\ top = IF o + MAXBUFFER <= z THEN o + MAXBUFFER ELSE z
      BY <1>0, <2>2, <2>3 DEF z
    <3>2. o < top /\ top <= z /\ n \in Nat /\ n # 0 /\ top = o + n
      BY <1>0, <2>3, <3>1
    <3> HIDE DEF n
    <3>3. n <= z - o /\ o + n <= z
      BY <2>3, <3>1, <3>2
    <3>4. o + n <= Len(p)
      BY <2>3, <3>1, <3>2, <3>3
    <3>5. pos + n <= Len(C)
      <4> DEFINE lc == Len(C)
      <4>1. lc \in Nat /\ pos + (z - o) <= lc
        BY <1>1, <2>3
      <4> HIDE DEF lc
      <4>2. pos + n <= lc
        BY <2>3, <3>1, <3>2, <3>3, <4>1
      <4> QED
        BY <4>2 DEF lc
    <3> QED
      BY <3>2, <3>3, <3>4, <3>5
  <2> HIDE DEF n
  <2>5. /\ SubSeq(p, o + 1, o + n) \in Seq(Byte)
        /\ Len(SubSeq(p, o + 1, o + n)) = n
        /\ \A i \in 1 .. n : SubSeq(p, o + 1, o + n)[i] = p[o + i]
    BY <2>2, <2>3, <2>4, StretchOf
  <2>6. /\ SubSeq(C, pos + 1, pos + n) \in Seq(Byte)
        /\ Len(SubSeq(C, pos + 1, pos + n)) = n
        /\ \A i \in 1 .. n : SubSeq(C, pos + 1, pos + n)[i] = C[pos + i]
    BY <1>1, <2>4, StretchOf
  <2> DEFINE x == SubSeq(p, o + 1, o + n)
             y == SubSeq(C, pos + 1, pos + n)
  <2>7. \A i \in 1 .. n : x[i] = y[i]
    <3> TAKE i \in 1 .. n
    <3> DEFINE j == i - 1
    <3>1. j \in 0 .. z - o - 1 /\ pos + j + 1 = pos + i /\ o + j + 1 = o + i
      BY <2>2, <2>3, <2>4
    <3> HIDE DEF j
    <3>2. C[pos + j + 1] = p[o + j + 1]
      BY <2>3, <3>1
    <3> QED
      BY <2>5, <2>6, <3>1, <3>2
  <2> HIDE DEF x, y
  <2>8. x = y
    BY <2>5, <2>6, <2>7, SeqEqual DEF x, y
  <2>9. ReadAt(pos) = x /\ Len(x) = n /\ x \in Seq(Byte) /\ x # << >>
    <3>1. x \in Seq(Byte) /\ Len(x) = n
      BY <2>5 DEF x
    <3>2. ReadAt(pos) = x
      BY <2>3, <2>4 DEF x
    <3> QED
      BY <2>4, <3>1, <3>2, EmptySeq
  <2> QED
    BY <2>4, <2>8, <2>9 DEF y, C
<1> QED
  BY <1>4, <1>5

-----------------------------------------------------------------------------
(***************************************************************************)
(* The inductive invariant                                                 *)
(***************************************************************************)

\* Nobody has a connection open that was not accepted yet, its process to be
\* least of all.
NotAcceptedYet == \A c \in Conns : pc[c] = "none" => c \notin fds[c]

\* What recv has put into the buffer is there until it is handled: pieces,
\* with no '\0' among them.
ChunkInHand ==
  \A c \in Conns \ upset :
    pc[c] = "handle" =>
      got[c] \in 1 .. MAXBUFFER /\ \A i \in 1 .. got[c] : buffer[c][i] # NUL

Sockets == ConnectionHeldByOwnChild /\ NotAcceptedYet

IInv == ProcsOK /\ ClientsOK /\ StoreOK /\ Sockets /\ ResetIsUpset /\ ChunkInHand

\* shutdown keeps what is known about the clients.
LEMMA ShutdownKeeps ==
  ASSUME ClientsOK, NEW c \in Conns \union {NoConn}, Shutdown(c) \/ UNCHANGED peer,
         UNCHANGED <<sock, sent>>
  PROVE  /\ ClientsOK'
         /\ \A d \in Conns : peer'[d] = "reset" => peer[d] = "reset"
  BY DEF ClientsOK, Shutdown

\* The end of a process.
LEMMA GoneType ==
  ASSUME ProcsOK, NEW c \in Conns, Gone(c), UNCHANGED server
  PROVE  ProcsOK'
<1>1. c \in Procs /\ Garbage \in Memory /\ << >> \in Seq(Byte) /\ "exited" \in Labels
  BY AesdSocketForkAssumption, EmptySeq DEF Procs, Memory, Labels
<1>2. 0 \in -1 .. MAXBUFFER
  BY ServerWorldAssumption
<1>3. fds' \in [Procs -> SUBSET (Conns \union {LISTEN})]
  BY <1>1 DEF ProcsOK, Gone, Exits
<1>4. pc' \in [Conns -> Labels] /\ buffer' \in [Conns -> Memory]
  BY <1>1 DEF ProcsOK, Gone
<1>5. /\ got' \in [Conns -> -1 .. MAXBUFFER] /\ backpos' \in [Conns -> Nat]
      /\ reply' \in [Conns -> Seq(Byte)] /\ steady' \subseteq Conns
  BY <1>1, <1>2 DEF ProcsOK, Gone
<1> QED
  BY <1>3, <1>4, <1>5 DEF ProcsOK, server

\* The loop is entered again after an answer.
LEMMA SendfileReturnsType ==
  ASSUME ProcsOK, NEW c \in Conns, SendfileReturns(c),
         UNCHANGED <<server, fds, buffer, got>>
  PROVE  ProcsOK'
<1>1. << >> \in Seq(Byte) /\ "recv" \in Labels
  BY EmptySeq DEF Labels
<1> QED
  BY <1>1 DEF ProcsOK, SendfileReturns, Goto, server

\* Every step keeps the types, and the ring in step with itself.
LEMMA TypesStep ==
  ASSUME IInv, [Next]_vars
  PROVE  ProcsOK' /\ ClientsOK' /\ StoreOK'
<1>0. ProcsOK /\ ClientsOK /\ StoreOK /\ Server \in Procs /\ Conns \subseteq Procs
  BY DEF IInv, Procs
<1>1. ASSUME NEW c \in Conns, Connect(c) \/ ClientSend(c) \/ ClientLeave(c)
      PROVE  ProcsOK' /\ ClientsOK' /\ StoreOK'
  <2>1. /\ ClientConnects(c) \/ ClientSends(c) \/ ClientCloses(c) \/ ClientResets(c)
        /\ UNCHANGED <<server, fds, procs, reply, steady, device, stored>>
    BY <1>1 DEF Connect, ClientSend, ClientLeave
  <2>2. ClientsOK' /\ upset' \subseteq Conns
    BY <1>0, <2>1, ClientStepType DEF StoreOK
  <2>3. ProcsOK'
    BY <1>0, <2>1 DEF ProcsOK, server, procs
  <2>4. StoreOK'
    BY <1>0, <2>1, <2>2 DEF StoreOK, DeviceOK, device
  <2> QED
    BY <2>2, <2>3, <2>4
<1>2. CASE setupsigaction \/ open_connection \/ start_daemon
  <2>1. PICK opened \in {{}, {LISTEN}} :
               /\ mpc' \in {"open_connection", "start_daemon", "accept", "gone"}
               /\ \/ fds' = [fds EXCEPT ![Server] = @ \union opened]
                  \/ fds' = [fds EXCEPT ![Server] = {}]
               /\ UNCHANGED <<acceptfd, procs, reply, steady, device, clients,
                              stored, upset>>
    BY <1>2 DEF setupsigaction, open_connection, start_daemon, StartUp, Exits
  <2>2. fds' \in [Procs -> SUBSET (Conns \union {LISTEN})]
    BY <1>0, <2>1, ZenonT(30) DEF ProcsOK
  <2>3. ProcsOK'
    BY <1>0, <2>1, <2>2 DEF ProcsOK, procs
  <2> QED
    BY <1>0, <2>1, <2>3, WorldStays
<1>3. ASSUME NEW c \in Conns, accept(c)
      PROVE  ProcsOK' /\ ClientsOK' /\ StoreOK'
  <2>1. fds' \in [Procs -> SUBSET (Conns \union {LISTEN})]
    <3> DEFINE U == Conns \union {LISTEN}
               f == fds[Server] \union {c}
    <3>1. f \in SUBSET U /\ fds \in [Procs -> SUBSET U]
      BY <1>0 DEF ProcsOK
    <3>2. \/ fds' = [fds EXCEPT ![Server] = f, ![c] = f]
          \/ fds' = [fds EXCEPT ![Server] = {}]
      BY <1>3 DEF accept, Exits
    <3> HIDE DEF U, f
    <3>3. fds' \in [Procs -> SUBSET U]
      BY <1>0, <3>1, <3>2
    <3> QED
      BY <3>3 DEF U
  <2>2. pc' \in [Conns -> Labels]
    BY <1>0, <1>3 DEF ProcsOK, accept, Labels
  <2>3. ProcsOK'
    BY <1>0, <1>3, <2>1, <2>2 DEF ProcsOK, accept
  <2> QED
    BY <1>0, <1>3, <2>3, WorldStays DEF accept
<1>4. CASE close_acceptfd
  <2>1. ProcsOK'
    BY <1>0, <1>4 DEF ProcsOK, close_acceptfd, CloseInServer, procs
  <2> QED
    BY <1>0, <1>4, <2>1, WorldStays DEF close_acceptfd
<1>5. CASE sigetrm_handler
  <2>1. ProcsOK'
    BY <1>0, <1>5 DEF ProcsOK, sigetrm_handler, Exits, procs
  <2>2. ClientsOK'
    BY <1>0, <1>5, ShutdownKeeps DEF sigetrm_handler, ProcsOK
  <2> QED
    BY <1>0, <1>5, <2>1, <2>2, WorldStays DEF sigetrm_handler
<1>6. ASSUME NEW c \in Conns, child_dies(c)
      PROVE  ProcsOK' /\ ClientsOK' /\ StoreOK'
  <2>1. ProcsOK'
    BY <1>0, <1>6, GoneType DEF child_dies
  <2>2. ClientsOK'
    BY <1>0, <1>6, ShutdownKeeps DEF child_dies
  <2> QED
    BY <1>0, <1>6, <2>1, <2>2, WorldStays DEF child_dies
<1>7. ASSUME NEW c \in Conns, closeActiveConnection(c)
      PROVE  ProcsOK' /\ ClientsOK' /\ StoreOK'
  <2>1. ProcsOK'
    BY <1>0, <1>7, GoneType DEF closeActiveConnection
  <2> QED
    BY <1>0, <1>7, <2>1, WorldStays DEF closeActiveConnection
<1>8. ASSUME NEW c \in Conns, start(c)
      PROVE  ProcsOK' /\ ClientsOK' /\ StoreOK'
  <2>1. ProcsOK'
    BY <1>0, <1>8 DEF ProcsOK, start, Goto, Labels, server
  <2> QED
    BY <1>0, <1>8, <2>1, WorldStays DEF start
<1>9. ASSUME NEW c \in Conns, recv(c)
      PROVE  ProcsOK' /\ ClientsOK' /\ StoreOK'
  <2>0. /\ UNCHANGED <<server, fds, backpos, reply, steady, device, stored>>
        /\ pc' \in [Conns -> Labels]
    BY <1>0, <1>9 DEF recv, Goto, ProcsOK, Labels
  <2>1. ASSUME upset' \subseteq Conns PROVE StoreOK'
    BY <1>0, <2>0, <2>1 DEF StoreOK, DeviceOK, device
  <2>2. CASE \E k \in 1 .. MAXBUFFER :
               /\ Arrived(c, k)
               /\ buffer' = [buffer EXCEPT ![c] = Overwritten(@, SubSeq(sock[c], 1, k))]
               /\ got' = [got EXCEPT ![c] = k]
    <3>1. PICK k \in 1 .. MAXBUFFER :
                 /\ Arrived(c, k)
                 /\ buffer' = [buffer EXCEPT ![c] = Overwritten(@, SubSeq(sock[c], 1, k))]
                 /\ got' = [got EXCEPT ![c] = k]
      BY <2>2
    <3> DEFINE chunk == SubSeq(sock[c], 1, k)
    <3>2. /\ ClientsOK' /\ chunk \in Seq(Byte) /\ Len(chunk) = k
          /\ upset' \subseteq Conns
      <4>1. upset \subseteq Conns
        BY <1>0 DEF StoreOK
      <4> QED
        BY <1>0, <3>1, <4>1, ArrivedTakes
    <3>3. \A i \in 1 .. Len(chunk) : chunk[i] \in Byte
      BY <3>2, ElementOfSeq
    <3> HIDE DEF chunk
    <3>4. Overwritten(buffer[c], chunk) \in Memory
      BY <1>0, <3>2, <3>3, ServerWorldAssumption DEF Overwritten, Memory, ProcsOK
    <3>5. buffer' \in [Conns -> Memory]
      BY <1>0, <3>1, <3>4 DEF ProcsOK, chunk
    <3>6. got' \in [Conns -> -1 .. MAXBUFFER]
      BY <1>0, <3>1, ServerWorldAssumption DEF ProcsOK
    <3> QED
      BY <1>0, <2>0, <2>1, <3>2, <3>5, <3>6 DEF ProcsOK, server
  <2>3. CASE Ended(c) /\ UNCHANGED <<buffer, got>>
    BY <1>0, <2>0, <2>1, <2>3, NothingTaken DEF ProcsOK, server, StoreOK
  <2>4. CASE /\ Failed(c) /\ UNCHANGED buffer
             /\ got' = [got EXCEPT ![c] = -1]
    <3>1. got' \in [Conns -> -1 .. MAXBUFFER]
      BY <1>0, <2>4, ServerWorldAssumption DEF ProcsOK
    <3> QED
      BY <1>0, <2>0, <2>1, <2>4, <3>1, NothingTaken DEF ProcsOK, server, StoreOK
  <2> QED
    BY <1>9, <2>2, <2>3, <2>4 DEF recv
<1>10. ASSUME NEW c \in Conns, handle_seekto(c)
       PROVE  ProcsOK' /\ ClientsOK' /\ StoreOK'
  <2>1. ProcsOK'
    BY <1>0, <1>10, ServerWorldAssumption
       DEF ProcsOK, handle_seekto, Goto, Labels, server
  <2>2. StoreOK'
    BY <1>0, <1>10 DEF StoreOK, DeviceOK, handle_seekto, device
  <2> QED
    BY <1>0, <1>10, <2>1, <2>2, WorldStays DEF handle_seekto
<1>11. ASSUME NEW c \in Conns, handle_text(c)
       PROVE  ProcsOK' /\ ClientsOK' /\ StoreOK'
  <2>1. Terminated(c) \in Memory /\ Received(c) \in Seq(Byte)
    BY <1>0, TerminatedType
  <2>2. StoreOK'
    BY <1>0, <1>11, <2>1, StoreType DEF handle_text, savetofile
  <2>3. buffer' \in [Conns -> Memory] /\ got' \in [Conns -> -1 .. MAXBUFFER]
    BY <1>0, <1>11, <2>1, ServerWorldAssumption DEF handle_text, ProcsOK
  <2>4. pc' \in [Conns -> Labels] /\ steady' \subseteq Conns
    BY <1>0, <1>11 DEF handle_text, ProcsOK, Goto, Labels
  <2>5. ProcsOK'
    BY <1>0, <1>11, <2>3, <2>4 DEF ProcsOK, handle_text, server
  <2> QED
    BY <1>0, <1>11, <2>2, <2>5, WorldStays DEF handle_text
<1>12. ASSUME NEW c \in Conns, sendfile_open(c)
       PROVE  ProcsOK' /\ ClientsOK' /\ StoreOK'
  <2>1. CASE SendfileReturns(c)
    BY <1>0, <1>12, <2>1, SendfileReturnsType, WorldStays DEF sendfile_open
  <2>2. CASE Goto(c, "reading") /\ UNCHANGED <<backpos, reply, steady>>
    <3>1. ProcsOK'
      BY <1>0, <1>12, <2>2 DEF ProcsOK, sendfile_open, Goto, Labels, server
    <3> QED
      BY <1>0, <1>12, <3>1, WorldStays DEF sendfile_open
  <2> QED
    BY <1>12, <2>1, <2>2 DEF sendfile_open
<1>13. ASSUME NEW c \in Conns, sendfile_read(c)
       PROVE  ProcsOK' /\ ClientsOK' /\ StoreOK'
  <2> DEFINE out == ReadAt(backpos[c])
  <2>0. /\ UNCHANGED <<server, fds, buffer, got, device, clients, stored, upset>>
        /\ \/ /\ reply' = [reply EXCEPT ![c] = @ \o out]
              /\ backpos' = [backpos EXCEPT ![c] = @ + Len(out)]
              /\ UNCHANGED <<pc, steady>>
           \/ SendfileReturns(c)
    BY <1>13 DEF sendfile_read, Advance
  <2>1. CASE SendfileReturns(c)
    BY <1>0, <2>0, <2>1, SendfileReturnsType, WorldStays
  <2>2. CASE /\ reply' = [reply EXCEPT ![c] = @ \o out]
             /\ backpos' = [backpos EXCEPT ![c] = @ + Len(out)]
             /\ UNCHANGED <<pc, steady>>
    <3>1. out \in Seq(Byte) /\ Len(out) \in Nat
      BY <1>0, ReadAtReads DEF ProcsOK
    <3> HIDE DEF out
    <3>2. reply[c] \o out \in Seq(Byte) /\ backpos[c] + Len(out) \in Nat
      BY <1>0, <3>1, ConcatProperties DEF ProcsOK
    <3>3. ProcsOK'
      BY <1>0, <2>0, <2>2, <3>2 DEF ProcsOK, server
    <3> QED
      BY <1>0, <2>0, <3>3, WorldStays
  <2> QED
    BY <2>0, <2>1, <2>2
<1>14. CASE UNCHANGED vars
  <2>1. ProcsOK'
    BY <1>0, <1>14 DEF ProcsOK, vars, server, procs
  <2> QED
    BY <1>0, <1>14, <2>1, WorldStays DEF vars
<1> QED
  BY <1>1, <1>2, <1>3, <1>4, <1>5, <1>6, <1>7, <1>8, <1>9, <1>10, <1>11, <1>12,
     <1>13, <1>14
  DEF Next, main_step, child, recieve_text

-----------------------------------------------------------------------------
(***************************************************************************)
(* Descriptors                                                             *)
(***************************************************************************)

\* A child goes on, and no descriptor is opened or closed.
LEMMA SocketsKept ==
  ASSUME Sockets, UNCHANGED <<server, fds>>,
         \A d \in Conns : /\ pc'[d] = "exited" => pc[d] = "exited"
                          /\ pc'[d] = "none" => pc[d] = "none"
  PROVE  Sockets'
<1>1. ConnectionHeldByOwnChild'
  BY DEF Sockets, ConnectionHeldByOwnChild, server
<1>2. NotAcceptedYet'
  BY DEF Sockets, NotAcceptedYet
<1> QED
  BY <1>1, <1>2 DEF Sockets

\* Where a child is that goes on.
LEMMA ChildMoves ==
  ASSUME ProcsOK, NEW c \in Conns, NEW label, pc' = [pc EXCEPT ![c] = label],
         label \notin {"none", "exited"}
  PROVE  \A d \in Conns : /\ pc'[d] = "exited" => pc[d] = "exited"
                          /\ pc'[d] = "none" => pc[d] = "none"
<1> TAKE d \in Conns
<1>1. CASE d = c
  BY <1>1 DEF ProcsOK
<1>2. CASE d # c
  BY <1>2 DEF ProcsOK
<1> QED
  BY <1>1, <1>2

\* A process ends, and with it its descriptors.
LEMMA GoneCloses ==
  ASSUME ProcsOK, Sockets, NEW c \in Conns, Gone(c), UNCHANGED server
  PROVE  Sockets'
<1>1. c \in Procs /\ Conns \subseteq Procs /\ Server \in Procs /\ Server \notin Conns
  BY AesdSocketForkAssumption DEF Procs
<1>2. /\ \A p \in Procs : fds'[p] = IF p = c THEN {} ELSE fds[p]
      /\ \A d \in Conns : pc'[d] = IF d = c THEN "exited" ELSE pc[d]
  BY <1>1 DEF Gone, Exits, ProcsOK
<1>3. ConnectionHeldByOwnChild'
  BY <1>1, <1>2 DEF Sockets, ConnectionHeldByOwnChild, server
<1>4. NotAcceptedYet'
  BY <1>1, <1>2 DEF Sockets, NotAcceptedYet
<1> QED
  BY <1>3, <1>4 DEF Sockets

\* No step hands a connection to a process it does not belong to: main
\* closes acceptfd before it accepts the next.
LEMMA SocketsStep ==
  ASSUME IInv, [Next]_vars
  PROVE  Sockets'
<1>0. /\ ProcsOK /\ Sockets /\ Server \in Procs /\ Conns \subseteq Procs
      /\ Server \notin Conns /\ LISTEN \notin Conns
  BY AesdSocketForkAssumption DEF IInv, Procs
<1>1. ASSUME NEW c \in Conns, Connect(c) \/ ClientSend(c) \/ ClientLeave(c)
      PROVE  Sockets'
  BY <1>0, <1>1, SocketsKept DEF Connect, ClientSend, ClientLeave, procs
<1>2. CASE setupsigaction \/ open_connection \/ start_daemon
  <2>1. /\ mpc \in {"setupsigaction", "open_connection", "start_daemon"}
        /\ \E opened \in {{}, {LISTEN}} :
             \/ fds' = [fds EXCEPT ![Server] = @ \union opened]
             \/ fds' = [fds EXCEPT ![Server] = {}]
        /\ pc' = pc
    BY <1>2 DEF setupsigaction, open_connection, start_daemon, StartUp, Exits, procs
  <2>2. \A p \in Procs, d \in Conns : d \in fds'[p] => d \in fds[p]
    <3>1. PICK opened \in {{}, {LISTEN}} :
                 \/ fds' = [fds EXCEPT ![Server] = @ \union opened]
                 \/ fds' = [fds EXCEPT ![Server] = {}]
      BY <2>1
    <3>2. \A p \in Procs : fds'[p] \subseteq fds[p] \union {LISTEN}
      <4>1. fds'[Server] \subseteq fds[Server] \union {LISTEN}
        BY <1>0, <3>1 DEF ProcsOK
      <4>2. \A p \in Procs \ {Server} : fds'[p] = fds[p]
        BY <1>0, <3>1 DEF ProcsOK
      <4> QED
        BY <4>1, <4>2
    <3> QED
      BY <1>0, <3>2
  <2>3. ConnectionHeldByOwnChild'
    BY <1>0, <2>1, <2>2 DEF Sockets, ConnectionHeldByOwnChild
  <2>4. NotAcceptedYet'
    BY <1>0, <2>1, <2>2 DEF Sockets, NotAcceptedYet
  <2> QED
    BY <2>3, <2>4 DEF Sockets
<1>3. ASSUME NEW c \in Conns, accept(c)
      PROVE  Sockets'
  <2>0. mpc = "accept" /\ pc[c] = "none"
    BY <1>3 DEF accept
  <2>1. \A d \in Conns : d \notin fds[Server]
    BY <1>0, <2>0 DEF Sockets, ConnectionHeldByOwnChild
  <2>2. CASE /\ mpc' = "forked" /\ acceptfd' = c
             /\ fds' = [fds EXCEPT ![Server] = @ \union {c},
                                   ![c] = fds[Server] \union {c}]
             /\ pc' = [pc EXCEPT ![c] = "start"]
    <3>1. /\ fds'[Server] = fds[Server] \union {c}
          /\ fds'[c] = fds[Server] \union {c}
          /\ \A p \in Procs \ {Server, c} : fds'[p] = fds[p]
          /\ \A d \in Conns : pc'[d] = IF d = c THEN "start" ELSE pc[d]
      BY <1>0, <2>2 DEF ProcsOK
    <3>2. ConnectionHeldByOwnChild'
      <4> SUFFICES ASSUME NEW p \in Procs, NEW d \in Conns, d \in fds'[p]
                   PROVE  \/ p = d /\ pc'[d] # "exited"
                          \/ p = Server /\ mpc' = "forked" /\ acceptfd' = d
        BY DEF ConnectionHeldByOwnChild
      <4>1. CASE p = Server
        <5>1. d = c
          BY <2>1, <3>1, <4>1
        <5> QED
          BY <2>2, <4>1, <5>1
      <4>2. CASE p = c
        <5>1. d = c
          BY <2>1, <3>1, <4>2
        <5> QED
          BY <3>1, <4>2, <5>1
      <4>3. CASE p \notin {Server, c}
        <5>1. d \in fds[p]
          BY <3>1, <4>3
        <5>2. p = d /\ pc[d] # "exited"
          BY <1>0, <2>0, <5>1 DEF Sockets, ConnectionHeldByOwnChild
        <5> QED
          BY <3>1, <4>3, <5>2
      <4> QED
        BY <4>1, <4>2, <4>3
    <3>3. NotAcceptedYet'
      <4> SUFFICES ASSUME NEW d \in Conns, pc'[d] = "none"
                   PROVE  d \notin fds'[d]
        BY DEF NotAcceptedYet
      <4>1. d # c /\ pc[d] = "none" /\ d \in Procs \ {Server, c}
        BY <1>0, <3>1
      <4>2. d \notin fds[d]
        BY <1>0, <4>1 DEF Sockets, NotAcceptedYet
      <4> QED
        BY <3>1, <4>1, <4>2
    <3> QED
      BY <3>2, <3>3 DEF Sockets
  <2>3. CASE /\ mpc' = "gone" /\ Exits(Server)
             /\ pc' = [pc EXCEPT ![c] = "exited"]
    <3>1. /\ fds'[Server] = {}
          /\ \A p \in Procs \ {Server} : fds'[p] = fds[p]
          /\ \A d \in Conns : pc'[d] = IF d = c THEN "exited" ELSE pc[d]
      BY <1>0, <2>3 DEF ProcsOK, Exits
    <3>2. c \notin fds[c]
      BY <1>0, <2>0 DEF Sockets, NotAcceptedYet
    <3>3. ConnectionHeldByOwnChild'
      BY <1>0, <2>0, <2>3, <3>1, <3>2 DEF Sockets, ConnectionHeldByOwnChild
    <3>4. NotAcceptedYet'
      BY <1>0, <2>0, <2>3, <3>1 DEF Sockets, NotAcceptedYet
    <3> QED
      BY <3>3, <3>4 DEF Sockets
  <2> QED
    BY <1>3, <2>2, <2>3 DEF accept
<1>4. CASE close_acceptfd
  <2>1. /\ mpc = "forked" /\ pc' = pc
        /\ fds'[Server] = fds[Server] \ {acceptfd}
        /\ \A p \in Procs \ {Server} : fds'[p] = fds[p]
    BY <1>0, <1>4 DEF ProcsOK, close_acceptfd, CloseInServer, procs
  <2>2. ConnectionHeldByOwnChild'
    BY <1>0, <2>1 DEF Sockets, ConnectionHeldByOwnChild
  <2>3. NotAcceptedYet'
    BY <1>0, <2>1 DEF Sockets, NotAcceptedYet
  <2> QED
    BY <2>2, <2>3 DEF Sockets
<1>5. CASE sigetrm_handler
  <2>1. /\ pc' = pc /\ fds'[Server] = {}
        /\ \A p \in Procs \ {Server} : fds'[p] = fds[p]
    BY <1>0, <1>5 DEF ProcsOK, sigetrm_handler, Exits, procs
  <2>2. ConnectionHeldByOwnChild'
    BY <1>0, <2>1 DEF Sockets, ConnectionHeldByOwnChild
  <2>3. NotAcceptedYet'
    BY <1>0, <2>1 DEF Sockets, NotAcceptedYet
  <2> QED
    BY <2>2, <2>3 DEF Sockets
<1>6. ASSUME NEW c \in Conns, child_dies(c) \/ closeActiveConnection(c)
      PROVE  Sockets'
  BY <1>0, <1>6, GoneCloses DEF child_dies, closeActiveConnection
<1>7. ASSUME NEW c \in Conns,
             \/ start(c) \/ recv(c) \/ handle_seekto(c) \/ handle_text(c)
             \/ sendfile_open(c) \/ sendfile_read(c)
      PROVE  Sockets'
  <2>1. /\ UNCHANGED <<server, fds>>
        /\ \/ UNCHANGED pc
           \/ \E label \in {"recv", "joined", "handle", "sendfile", "reading"} :
                pc' = [pc EXCEPT ![c] = label]
    BY <1>7 DEF start, recv, handle_seekto, handle_text, sendfile_open,
                sendfile_read, SendfileReturns, Goto
  <2>2. CASE UNCHANGED pc
    BY <1>0, <2>1, <2>2, SocketsKept
  <2>3. CASE \E label \in {"recv", "joined", "handle", "sendfile", "reading"} :
               pc' = [pc EXCEPT ![c] = label]
    BY <1>0, <2>1, <2>3, ChildMoves, SocketsKept
  <2> QED
    BY <2>1, <2>2, <2>3
<1>8. CASE UNCHANGED vars
  BY <1>0, <1>8, SocketsKept DEF vars, procs
<1> QED
  BY <1>1, <1>2, <1>3, <1>4, <1>5, <1>6, <1>7, <1>8
  DEF Next, main_step, child, recieve_text

-----------------------------------------------------------------------------
(***************************************************************************)
(* Resets, and the chunk in hand                                           *)
(***************************************************************************)

\* A connection that was reset, seeked, lost a write or sent a NUL stays on
\* record.
LEMMA UpsetGrows ==
  ASSUME IInv, [Next]_vars
  PROVE  upset \subseteq upset'
<1>1. ASSUME NEW c \in Conns, Connect(c) \/ ClientSend(c) \/ ClientLeave(c)
      PROVE  upset \subseteq upset'
  BY <1>1 DEF Connect, ClientSend, ClientLeave, ClientConnects, ClientSends,
              ClientCloses, ClientResets
<1>2. ASSUME NEW c \in Conns, handle_text(c)
      PROVE  upset \subseteq upset'
  <2>1. ProcsOK /\ StoreOK
    BY DEF IInv
  <2> QED
    BY <1>2, <2>1, TerminatedType, StoreAdds DEF handle_text, savetofile
<1>3. ASSUME NEW c \in Conns, handle_seekto(c)
      PROVE  upset \subseteq upset'
  BY <1>3 DEF handle_seekto
<1>4. ASSUME NEW c \in Conns,
             \/ accept(c) \/ child_dies(c) \/ start(c)
             \/ sendfile_open(c) \/ sendfile_read(c) \/ closeActiveConnection(c)
      PROVE  upset' = upset
  BY <1>4 DEF accept, child_dies, start, sendfile_open, sendfile_read,
              closeActiveConnection
<1>5. CASE \/ setupsigaction \/ open_connection \/ start_daemon \/ close_acceptfd
           \/ sigetrm_handler \/ UNCHANGED vars
  BY <1>5 DEF setupsigaction, open_connection, start_daemon, StartUp,
              close_acceptfd, sigetrm_handler, vars
<1>6. ASSUME NEW c \in Conns, recv(c)
      PROVE  upset \subseteq upset'
  BY <1>6 DEF recv, Arrived, Ended, Failed
<1> QED
  BY <1>1, <1>2, <1>3, <1>4, <1>5, <1>6 DEF Next, main_step, child, recieve_text

\* A reset puts the connection on record.
LEMMA ResetStep ==
  ASSUME IInv, [Next]_vars
  PROVE  ResetIsUpset'
<1>0. ProcsOK /\ ClientsOK /\ ResetIsUpset /\ upset \subseteq upset'
  BY UpsetGrows DEF IInv
<1>1. SUFFICES ASSUME NEW d \in Conns, peer'[d] = "reset", peer[d] # "reset"
               PROVE  d \in upset'
  BY <1>0 DEF ResetIsUpset
<1>2. ASSUME NEW c \in Conns, Connect(c) \/ ClientSend(c) \/ ClientLeave(c)
      PROVE  d \in upset'
  <2>1. CASE ClientResets(c)
    <3>1. d = c
      BY <1>0, <1>1, <2>1 DEF ClientResets, ClientsOK
    <3> QED
      BY <2>1, <3>1 DEF ClientResets
  <2>2. CASE ClientConnects(c) \/ ClientSends(c) \/ ClientCloses(c)
    BY <1>0, <1>1, <2>2 DEF ClientConnects, ClientSends, ClientCloses, ClientsOK
  <2> QED
    BY <1>2, <2>1, <2>2 DEF Connect, ClientSend, ClientLeave
<1>3. CASE sigetrm_handler
  BY <1>0, <1>1, <1>3, ShutdownKeeps DEF sigetrm_handler, ProcsOK
<1>4. ASSUME NEW c \in Conns, child_dies(c)
      PROVE  d \in upset'
  BY <1>0, <1>1, <1>4, ShutdownKeeps DEF child_dies
<1>5. ASSUME NEW c \in Conns, recv(c)
      PROVE  d \in upset'
  <2>1. peer' = peer \/ peer' = [peer EXCEPT ![c] = "closed"]
    BY <1>5 DEF recv, Arrived, Ended, Failed, clients
  <2> QED
    BY <1>0, <1>1, <2>1 DEF ClientsOK
<1>6. ASSUME NEW c \in Conns,
             \/ accept(c) \/ start(c) \/ handle_seekto(c) \/ handle_text(c)
             \/ sendfile_open(c) \/ sendfile_read(c) \/ closeActiveConnection(c)
      PROVE  peer' = peer
  BY <1>6 DEF accept, start, handle_seekto, handle_text, sendfile_open,
              sendfile_read, closeActiveConnection, clients
<1>7. CASE \/ setupsigaction \/ open_connection \/ start_daemon \/ close_acceptfd
           \/ UNCHANGED vars
  <2>1. peer' = peer
    BY <1>7 DEF setupsigaction, open_connection, start_daemon, StartUp,
                close_acceptfd, vars, clients
  <2> QED
    BY <1>1, <2>1
<1> QED
  BY <1>1, <1>2, <1>3, <1>4, <1>5, <1>6, <1>7
  DEF Next, main_step, child, recieve_text

\* What recv leaves in the buffer is the chunk, and then what was there.
LEMMA RecvFills ==
  ASSUME ProcsOK, ClientsOK, NEW c \in Conns, NEW k \in 1 .. MAXBUFFER,
         Arrived(c, k),
         buffer' = [buffer EXCEPT ![c] = Overwritten(@, SubSeq(sock[c], 1, k))]
  PROVE  \A i \in 1 .. k : /\ buffer'[c][i] = SubSeq(sock[c], 1, k)[i]
                           /\ buffer'[c][i] \in Byte
<1> DEFINE chunk == SubSeq(sock[c], 1, k)
<1>1. chunk \in Seq(Byte) /\ Len(chunk) = k
  BY ArrivedTakes
<1>2. \A i \in 1 .. k : chunk[i] \in Byte
  BY <1>1, ElementOfSeq
<1> HIDE DEF chunk
<1>3. buffer'[c] = Overwritten(buffer[c], chunk) /\ DOMAIN buffer[c] = 1 .. MAXBUFFER + 1
  BY DEF ProcsOK, Memory, chunk
<1>4. \A i \in 1 .. k : i \in 1 .. MAXBUFFER + 1 /\ i <= k
  BY ServerWorldAssumption
<1>5. \A i \in 1 .. k : buffer'[c][i] = chunk[i]
  BY <1>1, <1>3, <1>4 DEF Overwritten
<1> QED
  BY <1>2, <1>5 DEF chunk

\* Nobody but the thread itself touches the chunk in hand.
LEMMA ChunkStep ==
  ASSUME IInv, [Next]_vars
  PROVE  ChunkInHand'
<1>0. /\ ProcsOK /\ ClientsOK /\ ResetIsUpset /\ ChunkInHand
      /\ upset \subseteq upset'
  BY UpsetGrows DEF IInv
<1>1. SUFFICES ASSUME NEW d \in Conns, d \notin upset', pc'[d] = "handle"
               PROVE  /\ got'[d] \in 1 .. MAXBUFFER
                      /\ \A i \in 1 .. got'[d] : buffer'[d][i] # NUL
  BY DEF ChunkInHand
<1> DEFINE Goal == /\ got'[d] \in 1 .. MAXBUFFER
                   /\ \A i \in 1 .. got'[d] : buffer'[d][i] # NUL
<1>2. CASE pc[d] = pc'[d] /\ got'[d] = got[d] /\ buffer'[d] = buffer[d]
  BY <1>0, <1>1, <1>2 DEF ChunkInHand
<1>3. ASSUME NEW c \in Conns, Connect(c) \/ ClientSend(c) \/ ClientLeave(c)
      PROVE  Goal
  BY <1>2, <1>3 DEF Connect, ClientSend, ClientLeave, procs
<1>4. CASE \/ setupsigaction \/ open_connection \/ start_daemon \/ close_acceptfd
           \/ sigetrm_handler \/ UNCHANGED vars
  BY <1>2, <1>4 DEF setupsigaction, open_connection, start_daemon, StartUp,
              close_acceptfd, sigetrm_handler, vars, procs
<1>5. ASSUME NEW c \in Conns, recv(c)
      PROVE  Goal
  <2>1. CASE d # c
    BY <1>0, <1>2, <1>5, <2>1 DEF recv, Goto, ProcsOK
  <2>2. CASE d = c
    <3>1. CASE Ended(c) /\ Goto(c, "joined")
      BY <1>0, <1>1, <2>2, <3>1 DEF Goto, ProcsOK
    <3>2. CASE Failed(c)
      BY <1>0, <1>1, <2>2, <3>2 DEF Failed, ResetIsUpset
    <3>3. CASE \E k \in 1 .. MAXBUFFER :
                 /\ Arrived(c, k)
                 /\ buffer' = [buffer EXCEPT ![c] = Overwritten(@, SubSeq(sock[c], 1, k))]
                 /\ got' = [got EXCEPT ![c] = k]
      <4>1. PICK k \in 1 .. MAXBUFFER :
                   /\ Arrived(c, k)
                   /\ buffer' = [buffer EXCEPT ![c] = Overwritten(@, SubSeq(sock[c], 1, k))]
                   /\ got' = [got EXCEPT ![c] = k]
        BY <3>3
      <4>2. \A i \in 1 .. k : buffer'[c][i] = SubSeq(sock[c], 1, k)[i]
        BY <1>0, <4>1, RecvFills
      <4>3. \A i \in 1 .. k : SubSeq(sock[c], 1, k)[i] # NUL
        BY <1>0, <1>1, <2>2, <4>1, ArrivedTakes
      <4>4. got'[c] = k
        BY <1>0, <4>1 DEF ProcsOK
      <4> QED
        BY <2>2, <4>2, <4>3, <4>4
    <3> QED
      BY <1>5, <3>1, <3>2, <3>3 DEF recv
  <2> QED
    BY <2>1, <2>2
<1>6. ASSUME NEW c \in Conns,
             \/ accept(c) \/ child_dies(c) \/ start(c) \/ handle_seekto(c)
             \/ handle_text(c) \/ sendfile_open(c) \/ sendfile_read(c)
             \/ closeActiveConnection(c)
      PROVE  Goal
  <2>1. /\ d # c => got'[d] = got[d] /\ buffer'[d] = buffer[d] /\ pc'[d] = pc[d]
        /\ pc'[c] # "handle"
    <3>1. CASE accept(c) \/ start(c)
      BY <1>0, <3>1 DEF accept, start, Goto, ProcsOK
    <3>2. CASE child_dies(c) \/ closeActiveConnection(c)
      BY <1>0, <3>2 DEF child_dies, closeActiveConnection, Gone, ProcsOK
    <3>3. CASE handle_seekto(c) \/ handle_text(c)
      BY <1>0, <3>3 DEF handle_seekto, handle_text, Goto, ProcsOK
    <3>4. CASE sendfile_open(c) \/ sendfile_read(c)
      BY <1>0, <3>4 DEF sendfile_open, sendfile_read, SendfileReturns, Goto, ProcsOK
    <3> QED
      BY <1>6, <3>1, <3>2, <3>3, <3>4
  <2>2. d # c
    BY <1>1, <2>1
  <2> QED
    BY <1>2, <2>1, <2>2
<1> QED
  BY <1>3, <1>4, <1>5, <1>6 DEF Next, main_step, child, recieve_text

-----------------------------------------------------------------------------
\* The state before setupsigaction.
LEMMA InitInv == Init => IInv
<1> SUFFICES ASSUME Init PROVE IInv
  OBVIOUS
<1>1. ClientsOK /\ StoreOK
  BY WorldStart DEF Init
<1>2. ProcsOK
  <2>1. Garbage \in Memory /\ << >> \in Seq(Byte) /\ 0 \in -1 .. MAXBUFFER
    BY AesdSocketForkAssumption, ServerWorldAssumption, EmptySeq DEF Memory
  <2> QED
    BY <2>1 DEF Init, ProcsOK, Labels
<1>3. Sockets
  BY DEF Init, Sockets, ConnectionHeldByOwnChild, NotAcceptedYet, Procs
<1>4. ResetIsUpset
  BY DEF Init, WorldInit, ResetIsUpset
<1>5. ChunkInHand
  BY DEF Init, ChunkInHand
<1> QED
  BY <1>1, <1>2, <1>3, <1>4, <1>5 DEF IInv

\* The inductive invariant of the processes of aesdsocket.c holds always.
THEOREM Invariance == Spec => []IInv
<1>1. IInv /\ [Next]_vars => IInv'
  <2> SUFFICES ASSUME IInv, [Next]_vars PROVE IInv'
    OBVIOUS
  <2> QED
    BY TypesStep, SocketsStep, ResetStep, ChunkStep DEF IInv
<1> QED
  BY <1>1, InitInv, PTL DEF Spec

\* The state of the processes of aesdsocket.c, of the clients and of the
\* device always has the shape that TypeOK states; the receive buffer is
\* never written outside.
THEOREM TypeCorrect == Spec => []TypeOK
<1>1. IInv => TypeOK
  BY TypeParts DEF IInv
<1> QED
  BY <1>1, Invariance, PTL

\* A connection is open in its own child and, between accept and
\* close(acceptfd), in the server, and in no other process, however many
\* connections there are and whenever a process ends.
THEOREM ConnectionsStayOwn == Spec => []ConnectionHeldByOwnChild
<1>1. IInv => ConnectionHeldByOwnChild
  BY DEF IInv, Sockets
<1> QED
  BY <1>1, Invariance, PTL

-----------------------------------------------------------------------------
(***************************************************************************)
(* What was sent is what is stored                                         *)
(***************************************************************************)

\* the chunk that recv has returned and the loop has not stored yet
InHand(c) == IF pc[c] = "handle" THEN SubSeq(buffer[c], 1, got[c]) ELSE << >>

\* what is stored, in hand and under way
Accounted(c) == StoredText(c) \o InHand(c) \o sock[c]

\* The account of one connection.  Behind the end of its process the rest of
\* the text is gone.
Balanced(c) ==
  \/ c \in upset
  \/ pc[c] # "exited" /\ Accounted(c) = sent[c]
  \/ pc[c] = "exited" /\ IsPrefix(StoredText(c), sent[c])

\* The property, by connection.
LEMMA AccountParts ==
  StoredIsWhatWasSent <=> \A c \in Conns : Balanced(c)
<1>1. \A c \in Conns :
        Balanced(c) <=>
          \/ c \in upset
          \/ IF pc[c] = "exited" THEN IsPrefix(StoredText(c), sent[c])
             ELSE StoredText(c) \o InHand(c) \o sock[c] = sent[c]
  BY DEF Balanced, Accounted
<1> QED
  BY <1>1 DEF StoredIsWhatWasSent, InHand

\* The parts are sequences of pieces.
LEMMA AccountType ==
  ASSUME IInv, NEW c \in Conns, c \notin upset
  PROVE  /\ StoredText(c) \in Seq(Byte) /\ InHand(c) \in Seq(Byte)
         /\ sock[c] \in Seq(Byte) /\ sent[c] \in Seq(Byte)
         /\ pc[c] = "handle" => Received(c) = InHand(c)
<1>0. ProcsOK /\ ClientsOK /\ StoreOK /\ ChunkInHand
  BY DEF IInv
<1>1. StoredText(c) \in Seq(Byte)
  <2>1. StoredText(c) = FlattenSeq(TextsOf(c, stored))
    BY DEF StoredText, TextsOf
  <2> QED
    BY <1>0, <2>1, TextsType DEF StoreOK
<1>2. CASE pc[c] = "handle"
  <2> DEFINE k == got[c]
             m == buffer[c]
  <2>1. k \in 1 .. MAXBUFFER /\ m \in Memory /\ \A i \in 1 .. k : m[i] # NUL
    BY <1>0, <1>2 DEF ChunkInHand, ProcsOK
  <2>2. ~(k < 0)
    BY <2>1
  <2>3. Terminated(c) = [m EXCEPT ![k + 1] = NUL]
    BY <2>2 DEF Terminated
  <2>4. InHand(c) = SubSeq(m, 1, k)
    BY <1>2 DEF InHand
  <2> HIDE DEF k, m
  <2>5. /\ SubSeq(m, 1, k) \in Seq(Byte)
        /\ String([m EXCEPT ![k + 1] = NUL]) = SubSeq(m, 1, k)
    BY <2>1, StringUpTo
  <2>6. InHand(c) \in Seq(Byte) /\ Received(c) = InHand(c)
    BY <2>3, <2>4, <2>5 DEF Received
  <2> QED
    BY <1>0, <1>1, <2>6 DEF ClientsOK
<1>3. CASE pc[c] # "handle"
  BY <1>0, <1>1, <1>3, EmptySeq DEF InHand, ClientsOK
<1> QED
  BY <1>2, <1>3

\* A process that ends, or is never forked, leaves out the end of the text.
LEMMA EndingBalances ==
  ASSUME IInv, NEW d \in Conns, Balanced(d), stored' = stored, pc'[d] = "exited",
         sent'[d] = sent[d], upset \subseteq upset'
  PROVE  Balanced(d)'
<1>1. CASE d \in upset
  BY <1>1 DEF Balanced
<1>2. CASE d \notin upset
  <2> DEFINE s == StoredText(d)
             h == InHand(d)
             t == sock[d]
  <2>1. s \in Seq(Byte) /\ h \in Seq(Byte) /\ t \in Seq(Byte) /\ StoredText(d)' = s
    BY <1>2, AccountType, StoredTextStays DEF IInv
  <2>2. IsPrefix(s, sent[d]) \/ sent[d] = s \o h \o t
    BY <1>2 DEF Balanced, Accounted
  <2> HIDE DEF s, h, t
  <2>3. IsPrefix(s, s \o h)
    BY <2>1, ConcatStartsWith
  <2>4. s \o h \in Seq(Byte)
    BY <2>1, ConcatProperties
  <2>5. IsPrefix(s, s \o h \o t)
    <3> DEFINE u == s \o h
    <3>1. u \in Seq(Byte) /\ IsPrefix(s, u)
      BY <2>3, <2>4
    <3> HIDE DEF u
    <3>2. IsPrefix(s, u \o t)
      BY <2>1, <3>1, StartStays
    <3> QED
      BY <3>2 DEF u
  <2>6. IsPrefix(s, sent'[d])
    BY <2>2, <2>5
  <2> QED
    BY <2>1, <2>6 DEF Balanced
<1> QED
  BY <1>1, <1>2

\* A client sends some more.
LEMMA SendingBalances ==
  ASSUME IInv, NEW c \in Conns, Balanced(c), ClientSends(c), stored' = stored,
         UNCHANGED procs
  PROVE  Balanced(c)'
<1>0. ClientsOK /\ StoreOK
  BY DEF IInv
<1>1. PICK m \in Messages : /\ sock' = [sock EXCEPT ![c] = @ \o m]
                            /\ sent' = [sent EXCEPT ![c] = @ \o m]
  BY DEF ClientSends
<1>2. /\ m \in Seq(Byte) /\ sock'[c] = sock[c] \o m /\ sent'[c] = sent[c] \o m
      /\ upset' = upset
  BY <1>0, <1>1, ServerWorldAssumption DEF ClientsOK, ClientSends
<1>3. CASE c \in upset
  BY <1>2, <1>3 DEF Balanced
<1>4. CASE c \notin upset
  <2> DEFINE s == StoredText(c)
             h == InHand(c)
             t == sock[c]
             u == s \o h
  <2>1. /\ s \in Seq(Byte) /\ h \in Seq(Byte) /\ t \in Seq(Byte)
        /\ sent[c] \in Seq(Byte) /\ u \in Seq(Byte)
        /\ StoredText(c)' = s /\ InHand(c)' = h /\ pc' = pc
    <3>1. s \in Seq(Byte) /\ h \in Seq(Byte) /\ t \in Seq(Byte) /\ sent[c] \in Seq(Byte)
      BY <1>4, AccountType
    <3>2. StoredText(c)' = s
      BY <1>0, StoredTextStays
    <3>3. InHand(c)' = h /\ pc' = pc
      BY DEF InHand, procs
    <3> HIDE DEF s, h, t
    <3> QED
      BY <3>1, <3>2, <3>3, ConcatProperties
  <2>2. Accounted(c) = u \o t /\ Accounted(c)' = u \o (t \o m)
    BY <1>2, <2>1 DEF Accounted
  <2> HIDE DEF s, h, t, u
  <2>3. CASE pc[c] # "exited"
    <3>1. Accounted(c) = sent[c]
      BY <1>4, <2>3 DEF Balanced
    <3>2. Associative(u, t, m)
      BY <1>2, <2>1, JoinAssociative
    <3>3. Accounted(c)' = sent'[c]
      BY <1>2, <2>2, <3>1, <3>2, Zenon DEF Associative
    <3> QED
      BY <2>1, <2>3, <3>3 DEF Balanced
  <2>4. CASE pc[c] = "exited"
    <3> DEFINE x == sent[c]
    <3>1. IsPrefix(s, x) /\ x \in Seq(Byte)
      BY <1>4, <2>1, <2>4 DEF Balanced, s
    <3>2. sent'[c] = x \o m
      BY <1>2
    <3> HIDE DEF x
    <3>3. IsPrefix(s, x \o m)
      BY <1>2, <2>1, <3>1, StartStays
    <3> QED
      BY <2>1, <2>4, <3>2, <3>3 DEF Balanced
  <2> QED
    BY <2>3, <2>4
<1> QED
  BY <1>3, <1>4

\* recv takes a chunk off what is under way.
LEMMA ReceivingBalances ==
  ASSUME IInv, NEW c \in Conns, Balanced(c), pc[c] = "recv", stored' = stored,
         NEW k \in 1 .. MAXBUFFER, Arrived(c, k), Goto(c, "handle"),
         buffer' = [buffer EXCEPT ![c] = Overwritten(@, SubSeq(sock[c], 1, k))],
         got' = [got EXCEPT ![c] = k], ProcsOK'
  PROVE  Balanced(c)'
<1>0. ProcsOK /\ ClientsOK /\ StoreOK
  BY DEF IInv
<1>1. CASE c \in upset'
  BY <1>1 DEF Balanced
<1>2. CASE c \notin upset'
  <2> DEFINE s == StoredText(c)
             chunk == SubSeq(sock[c], 1, k)
             t == sock'[c]
             m == buffer'[c]
  <2>0. c \notin upset /\ \A i \in 1 .. k : chunk[i] # NUL
    BY <1>0, <1>2, ArrivedTakes
  <2>1. /\ chunk \in Seq(Byte) /\ Len(chunk) = k /\ chunk \o t = sock[c]
        /\ t \in Seq(Byte) /\ sent' = sent
    BY <1>0, ArrivedTakes DEF Arrived, ClientsOK
  <2>2. s \in Seq(Byte) /\ StoredText(c)' = s
    BY <1>0, <2>0, AccountType, StoredTextStays
  <2>3. InHand(c) = << >> /\ pc'[c] = "handle" /\ got'[c] = k
    BY <1>0 DEF InHand, Goto, ProcsOK
  <2>4. InHand(c)' = SubSeq(m, 1, k)
    BY <2>3 DEF InHand
  <2>5. SubSeq(m, 1, k) = chunk
    <3>1. \A i \in 1 .. k : m[i] = chunk[i] /\ m[i] \in Byte
      BY <1>0, RecvFills
    <3>2. m \in Memory
      BY DEF ProcsOK
    <3> HIDE DEF m, chunk
    <3>3. \A i \in 1 .. k : m[i] # NUL
      BY <2>0, <3>1
    <3>4. /\ SubSeq(m, 1, k) \in Seq(Byte) /\ Len(SubSeq(m, 1, k)) = k
          /\ \A i \in 1 .. k : SubSeq(m, 1, k)[i] = m[i]
      BY <3>2, <3>3, StringUpTo
    <3>5. \A i \in 1 .. k : SubSeq(m, 1, k)[i] = chunk[i]
      BY <3>1, <3>4
    <3> QED
      BY <2>1, <3>4, <3>5, SeqEqual
  <2>6. Accounted(c) = (s \o << >>) \o sock[c] /\ Accounted(c)' = (s \o chunk) \o t
    BY <2>2, <2>3, <2>4, <2>5 DEF Accounted
  <2> HIDE DEF s, chunk, t, m
  <2>7. s \o << >> = s /\ Associative(s, chunk, t)
    BY <2>1, <2>2, ConcatEmptySeq, JoinAssociative
  <2>8. Accounted(c)' = Accounted(c)
    BY <2>1, <2>6, <2>7, Zenon DEF Associative
  <2> QED
    BY <2>0, <2>1, <2>3, <2>8 DEF Balanced
<1> QED
  BY <1>1, <1>2

\* savetofile stores the chunk in hand, and nothing of what an earlier one has
\* left in the buffer.
LEMMA StoringBalances ==
  ASSUME IInv, NEW c \in Conns, \A d \in Conns : Balanced(d), handle_text(c)
  PROVE  \A d \in Conns : Balanced(d)'
<1>0. ProcsOK /\ ClientsOK /\ StoreOK
  BY DEF IInv
<1>1. Received(c) \in Seq(Byte) /\ Store(c, Received(c))
  BY <1>0, TerminatedType DEF handle_text, savetofile
<1>2. /\ upset \subseteq upset'
      /\ StoredText(c)' = StoredText(c) \o Received(c) \/ c \in upset'
      /\ \A d \in Conns : d # c => StoredText(d)' = StoredText(d)
  BY <1>0, <1>1, StoreAdds
<1>3. /\ pc[c] = "handle" /\ pc'[c] \in {"sendfile", "recv"}
      /\ \A d \in Conns : d # c => /\ pc'[d] = pc[d] /\ got'[d] = got[d]
                                   /\ buffer'[d] = buffer[d]
      /\ UNCHANGED <<sock, sent>>
  BY <1>0 DEF handle_text, Goto, ProcsOK, clients
<1> TAKE d \in Conns
<1>4. Balanced(d)
  OBVIOUS
<1>5. CASE d # c
  BY <1>2, <1>3, <1>4, <1>5 DEF Balanced, Accounted, InHand
<1>6. CASE d = c /\ c \in upset'
  BY <1>6 DEF Balanced
<1>7. CASE d = c /\ c \notin upset'
  <2> DEFINE s == StoredText(c)
             h == InHand(c)
             t == sock[c]
  <2>1. c \notin upset
    BY <1>2, <1>7
  <2>2. s \in Seq(Byte) /\ h \in Seq(Byte) /\ Received(c) = h
    BY <1>3, <2>1, AccountType
  <2>3. StoredText(c)' = s \o h
    BY <1>2, <1>7, <2>2
  <2>4. InHand(c)' = << >> /\ pc'[c] # "exited"
    BY <1>3 DEF InHand
  <2>5. Accounted(c) = s \o h \o t /\ Accounted(c)' = (s \o h) \o << >> \o t
    BY <1>3, <2>3, <2>4 DEF Accounted
  <2> HIDE DEF s, h, t
  <2>6. (s \o h) \o << >> = s \o h
    BY <2>2, ConcatProperties, ConcatEmptySeq
  <2>7. Accounted(c)' = Accounted(c)
    BY <2>5, <2>6, Zenon
  <2>8. Accounted(c) = sent[c]
    BY <1>3, <1>4, <1>7, <2>1 DEF Balanced
  <2> QED
    BY <1>3, <1>7, <2>4, <2>7, <2>8 DEF Balanced
<1> QED
  BY <1>5, <1>6, <1>7

\* Nothing happened to the account of one connection.
LEMMA BalanceKept ==
  ASSUME IInv, NEW d \in Conns, Balanced(d), stored' = stored,
         InHand(d)' = InHand(d), pc'[d] = "exited" <=> pc[d] = "exited",
         sock'[d] = sock[d], sent'[d] = sent[d], upset \subseteq upset'
  PROVE  Balanced(d)'
<1>1. StoredText(d)' = StoredText(d)
  BY StoredTextStays DEF IInv
<1> QED
  BY <1>1 DEF Balanced, Accounted

\* Every step of a process moves its client's text on and loses none of it,
\* until the process ends.
LEMMA AccountStep ==
  ASSUME IInv, IInv', StoredIsWhatWasSent, [Next]_vars
  PROVE  StoredIsWhatWasSent'
<1>0. /\ ProcsOK /\ ClientsOK /\ StoreOK /\ ResetIsUpset /\ ProcsOK'
      /\ upset \subseteq upset'
  BY UpsetGrows DEF IInv
<1>1. \A d \in Conns : Balanced(d)
  BY AccountParts
<1> SUFFICES \A d \in Conns : Balanced(d)'
  <2>1. \A c \in Conns :
          Balanced(c)' <=>
            \/ c \in upset'
            \/ IF pc'[c] = "exited" THEN IsPrefix(StoredText(c)', sent'[c])
               ELSE StoredText(c)' \o InHand(c)' \o sock'[c] = sent'[c]
    BY DEF Balanced, Accounted
  <2>2. \A c \in Conns :
          InHand(c)' = IF pc'[c] = "handle" THEN SubSeq(buffer'[c], 1, got'[c]) ELSE << >>
    BY DEF InHand
  <2> QED
    BY <2>1, <2>2 DEF StoredIsWhatWasSent
<1>2. ASSUME NEW c \in Conns, handle_text(c)
      PROVE  \A d \in Conns : Balanced(d)'
  BY <1>1, <1>2, StoringBalances
<1>3. CASE \A c \in Conns : ~handle_text(c)
  <2> SUFFICES ASSUME NEW d \in Conns PROVE Balanced(d)'
    OBVIOUS
  <2>0. Balanced(d)
    BY <1>1
  <2> DEFINE Still == /\ stored' = stored /\ InHand(d)' = InHand(d)
                      /\ pc'[d] = "exited" <=> pc[d] = "exited"
                      /\ sock'[d] = sock[d] /\ sent'[d] = sent[d]
  <2>1. Still => Balanced(d)'
    BY <1>0, <2>0, BalanceKept
  <2>2. ASSUME NEW c \in Conns, Connect(c) \/ ClientSend(c) \/ ClientLeave(c)
        PROVE  Balanced(d)'
    <3>1. stored' = stored /\ pc' = pc /\ InHand(d)' = InHand(d) /\ UNCHANGED procs
      BY <2>2 DEF Connect, ClientSend, ClientLeave, procs, InHand
    <3>2. CASE d # c \/ ClientConnects(c) \/ ClientCloses(c)
      <4>1. sock'[d] = sock[d] /\ sent'[d] = sent[d]
        BY <1>0, <2>2, <3>2
           DEF Connect, ClientSend, ClientLeave, ClientConnects, ClientSends,
               ClientCloses, ClientResets, ClientsOK
      <4> QED
        BY <2>1, <3>1, <4>1
    <3>3. CASE d = c /\ ClientSends(c)
      BY <2>0, <3>1, <3>3, SendingBalances
    <3>4. CASE d = c /\ ClientResets(c)
      BY <3>4 DEF ClientResets, Balanced
    <3> QED
      BY <2>2, <3>2, <3>3, <3>4 DEF Connect, ClientSend, ClientLeave
  <2>3. CASE \/ setupsigaction \/ open_connection \/ start_daemon \/ close_acceptfd
             \/ UNCHANGED vars
    BY <2>1, <2>3 DEF setupsigaction, open_connection, start_daemon, StartUp,
                      close_acceptfd, vars, procs, clients, InHand
  <2>4. CASE sigetrm_handler
    BY <2>1, <2>4 DEF sigetrm_handler, procs, InHand
  <2>5. ASSUME NEW c \in Conns, child_dies(c) \/ closeActiveConnection(c)
        PROVE  Balanced(d)'
    <3>1. /\ stored' = stored /\ UNCHANGED <<sock, sent>> /\ pc'[c] = "exited"
          /\ d # c => pc'[d] = pc[d] /\ got'[d] = got[d] /\ buffer'[d] = buffer[d]
      BY <1>0, <2>5 DEF child_dies, closeActiveConnection, Gone, ProcsOK, clients
    <3>2. CASE d = c
      BY <1>0, <2>0, <3>1, <3>2, EndingBalances
    <3>3. CASE d # c
      BY <2>1, <3>1, <3>3 DEF InHand
    <3> QED
      BY <3>2, <3>3
  <2>6. ASSUME NEW c \in Conns, accept(c)
        PROVE  Balanced(d)'
    <3>1. /\ stored' = stored /\ UNCHANGED <<sock, sent, buffer, got>>
          /\ pc[c] = "none" /\ pc'[c] \in {"start", "exited"}
          /\ d # c => pc'[d] = pc[d]
      BY <1>0, <2>6 DEF accept, ProcsOK, clients
    <3>2. CASE d = c /\ pc'[c] = "exited"
      BY <1>0, <2>0, <3>1, <3>2, EndingBalances
    <3>3. CASE d # c \/ pc'[c] = "start"
      BY <2>1, <3>1, <3>3 DEF InHand
    <3> QED
      BY <3>1, <3>2, <3>3
  <2>7. ASSUME NEW c \in Conns, start(c) \/ sendfile_open(c) \/ sendfile_read(c)
        PROVE  Balanced(d)'
    <3>1. /\ stored' = stored /\ UNCHANGED <<sock, sent, buffer, got>>
          /\ pc[c] \in {"start", "sendfile", "reading"}
          /\ pc'[c] \in {"recv", "joined", "reading"}
          /\ d # c => pc'[d] = pc[d]
      BY <1>0, <2>7 DEF start, sendfile_open, sendfile_read, SendfileReturns, Goto,
                        ProcsOK, clients
    <3> QED
      BY <2>1, <3>1 DEF InHand
  <2>8. ASSUME NEW c \in Conns, handle_seekto(c)
        PROVE  Balanced(d)'
    <3>1. /\ stored' = stored /\ UNCHANGED <<sock, sent, buffer>> /\ c \in upset'
          /\ d # c => pc'[d] = pc[d] /\ got'[d] = got[d]
      BY <1>0, <2>8 DEF handle_seekto, Goto, ProcsOK, clients
    <3>2. CASE d = c
      BY <3>1, <3>2 DEF Balanced
    <3>3. CASE d # c
      BY <2>1, <3>1, <3>3 DEF InHand
    <3> QED
      BY <3>2, <3>3
  <2>9. ASSUME NEW c \in Conns, recv(c)
        PROVE  Balanced(d)'
    <3>0. /\ stored' = stored /\ upset \subseteq upset' /\ sent' = sent
          /\ pc[c] = "recv" /\ pc'[c] \in {"handle", "joined"}
          /\ d # c => /\ pc'[d] = pc[d] /\ got'[d] = got[d] /\ buffer'[d] = buffer[d]
      BY <1>0, <2>9 DEF recv, Goto, ProcsOK, Arrived, Ended, Failed, clients
    <3>1. CASE \E k \in 1 .. MAXBUFFER :
                 /\ Arrived(c, k)
                 /\ buffer' = [buffer EXCEPT ![c] = Overwritten(@, SubSeq(sock[c], 1, k))]
                 /\ got' = [got EXCEPT ![c] = k]
                 /\ Goto(c, "handle")
      <4>1. CASE d = c
        BY <1>0, <2>0, <3>0, <3>1, <4>1, ReceivingBalances
      <4>2. CASE d # c
        <5>1. sock'[d] = sock[d]
          BY <1>0, <3>1, <4>2, ArrivedTakes
        <5> QED
          BY <2>1, <3>0, <4>2, <5>1 DEF InHand
      <4> QED
        BY <4>1, <4>2
    <3>2. CASE Ended(c) /\ Goto(c, "joined")
      <4>1. sock' = sock /\ pc'[c] = "joined"
        BY <1>0, <3>2 DEF Ended, clients, Goto, ProcsOK
      <4> QED
        BY <2>1, <3>0, <4>1 DEF InHand
    <3>3. CASE Failed(c)
      <4>1. sock' = sock /\ c \in upset
        BY <1>0, <3>3 DEF Failed, ResetIsUpset
      <4>2. CASE d = c
        BY <3>0, <4>1, <4>2 DEF Balanced
      <4>3. CASE d # c
        BY <2>1, <3>0, <4>1, <4>3 DEF InHand
      <4> QED
        BY <4>2, <4>3
    <3> QED
      BY <2>9, <3>1, <3>2, <3>3 DEF recv
  <2> HIDE DEF Still
  <2> QED
    BY <1>3, <2>2, <2>3, <2>4, <2>5, <2>6, <2>7, <2>8, <2>9
    DEF Next, main_step, child, recieve_text
<1> QED
  BY <1>2, <1>3

\* Each process of the forking server hands on what its client sent, in order
\* and once, however recv cuts it and whatever the other processes do;
\* nothing that an earlier chunk has left in the buffer gets into the device.
\* Connections that were reset, seeked, lost a write or sent a NUL, behind
\* which the rest of the chunk is dropped, are excepted.
THEOREM TextIsPassedOn == Spec => []StoredIsWhatWasSent
<1>1. Init => StoredIsWhatWasSent
  <2> SUFFICES ASSUME Init PROVE StoredIsWhatWasSent
    OBVIOUS
  <2>1. \A c \in Conns : StoredText(c) = << >>
    <3> TAKE c \in Conns
    <3> DEFINE t == TextsOf(c, stored)
    <3>1. Len(stored) = 0
      BY EmptySeq DEF Init, WorldInit
    <3>2. t = << >>
      BY <3>1 DEF TextsOf
    <3>3. FlattenSeq(t) = << >>
      BY <3>2, EmptySeq, FlattenEmpty
    <3> QED
      BY <3>3 DEF StoredText, TextsOf
  <2>2. << >> \o << >> \o << >> = << >>
    BY EmptySeq, ConcatEmptySeq
  <2>3. \A c \in Conns : Balanced(c)
    BY <2>1, <2>2 DEF Init, WorldInit, Balanced, Accounted, InHand
  <2> QED
    BY <2>3, AccountParts
<1> QED
  BY <1>1, AccountStep, Invariance, PTL DEF Spec

-----------------------------------------------------------------------------
(***************************************************************************)
(* Whole lines                                                             *)
(***************************************************************************)

\* The device has no more commands than were written.
LogWritten == Len(Log(circular_buffer)) <= Len(stored)

\* A write of a line makes a command of it, when the device is between two
\* commands.
LEMMA StoreKeepsLines ==
  ASSUME StoreOK, StoreOK', WholeLinesStayWhole, LogWritten, NEW c \in Conns,
         NEW text \in Seq(Byte), Store(c, text)
  PROVE  WholeLinesStayWhole' /\ LogWritten'
<1> DEFINE b   == circular_buffer
           e   == Extended(text)
           r   == [conn |-> c, text |-> text]
           old == Log(b)
           n   == Len(stored)
<1>1. CASE UNCHANGED <<device, stored>>
  BY <1>1 DEF WholeLinesStayWhole, LogWritten, device
<1>2. CASE text # << >> /\ aesd_write(text) /\ stored' = Append(stored, r)
  <2>1. /\ e \in Entry /\ e.size > 0 /\ e.size <= Len(e.buffptr)
        /\ Bytes(e) = Bytes(entry) \o text
    BY <1>2, ExtendedType DEF Entry
  <2>2. b \in Buffer /\ Consistent(b)
    BY DEF StoreOK, DeviceOK
  <2>3. /\ r \in Records /\ n \in Nat /\ Len(stored') = n + 1
        /\ stored'[n + 1] = r /\ \A i \in 1 .. n : stored'[i] = stored[i]
    <3>1. r \in Records /\ stored \in Seq(Records)
      BY DEF Records, StoreOK
    <3> HIDE DEF r
    <3> QED
      BY <1>2, <3>1, AppendProperties, LenProperties
  <2> DEFINE new == Log(aesd_circular_buffer_add_entry(b, e))
  <2>4. PICK d \in {0, 1} :
               /\ Len(old) \in Nat /\ d <= Len(old) /\ Len(new) = Len(old) + 1 - d
               /\ \A k \in 1 .. Len(new) - 1 : new[k] = old[k + d]
               /\ new[Len(new)] = e
    <3> HIDE DEF e, b
    <3> QED
      BY <2>1, <2>2, AddEntryShifts
  <2>5. LogWritten'
    <3>1. Len(old) <= n
      BY DEF LogWritten
    <3>2. Log(circular_buffer') \in {old, new}
      BY <1>2 DEF aesd_write
    <3> HIDE DEF old, new, n
    <3>3. Len(old) <= n + 1 /\ Len(new) <= n + 1
      BY <2>3, <2>4, <3>1
    <3> QED
      BY <2>3, <3>2, <3>3 DEF LogWritten
  <2>6. ASSUME \A i \in 1 .. Len(stored') : Last(stored'[i].text) = NEWLINE
        PROVE  /\ entry' = NoEntry
               /\ \A k \in 1 .. Len(Log(circular_buffer')) :
                    Bytes(Log(circular_buffer')[k])
                      = stored'[Len(stored') - Len(Log(circular_buffer')) + k].text
    <3>1. \A i \in 1 .. n : Last(stored[i].text) = NEWLINE
      BY <2>3, <2>6
    <3>2. /\ entry = NoEntry
          /\ \A k \in 1 .. Len(old) : Bytes(old[k]) = stored[n - Len(old) + k].text
      BY <3>1 DEF WholeLinesStayWhole
    <3>3. Contains(text, NEWLINE)
      <4>1. Last(text) = NEWLINE
        BY <2>3, <2>6
      <4>2. Len(text) \in 1 .. Len(text)
        BY <1>2, LenProperties, EmptySeq
      <4> QED
        BY <4>1, <4>2 DEF Last, Contains
    <3>4. circular_buffer' = aesd_circular_buffer_add_entry(b, e) /\ entry' = NoEntry
      BY <1>2, <3>3, LineIsCommitted
    <3>5. Bytes(e) = text
      <4>1. Bytes(entry) = << >>
        <5>1. SubSeq(<< >>, 1, 0) = << >>
          BY SubSeqEmpty
        <5> QED
          BY <3>2, <5>1 DEF Bytes, NoEntry, NULL
      <4>2. << >> \o text = text
        BY ConcatEmptySeq
      <4>3. Bytes(e) = Bytes(entry) \o text
        BY <2>1
      <4> HIDE DEF e
      <4> QED
        BY <4>1, <4>2, <4>3, Zenon
    <3>6. Log(circular_buffer') = new
      BY <3>4
    <3>7. Len(old) <= n
      BY DEF LogWritten
    <3>8. r.text = text
      OBVIOUS
    <3> HIDE DEF old, new, n, r, e
    <3>9. ASSUME NEW k \in 1 .. Len(new)
          PROVE  Bytes(new[k]) = stored'[Len(stored') - Len(new) + k].text
      <4>1. Len(stored') - Len(new) + k = n - Len(old) + (k + d)
        <5> DEFINE x == Len(old)
                   y == Len(new)
                   z == Len(stored')
        <5>1. d \in Int /\ x \in Int /\ n \in Int
          BY <2>3, <2>4
        <5>2. z = n + 1 /\ y = x + 1 - d
          BY <2>3, <2>4
        <5> HIDE DEF x, y, z
        <5>3. y \in Int /\ z \in Int
          BY <5>1, <5>2
        <5>4. k \in Int
          BY <5>3 DEF y
        <5>5. z - y + k = n - x + (k + d)
          BY <5>1, <5>2, <5>3, <5>4
        <5> QED
          BY <5>5 DEF x, y, z
      <4>2. CASE k = Len(new)
        <5>1. n - Len(old) + (k + d) = n + 1
          BY <2>3, <2>4, <4>2
        <5> QED
          BY <2>3, <2>4, <3>5, <3>8, <4>1, <4>2, <5>1
      <4>3. CASE k # Len(new)
        <5> DEFINE i == k + d
        <5>1. /\ k \in 1 .. Len(new) - 1 /\ i \in 1 .. Len(old)
              /\ n - Len(old) + i \in 1 .. n
          BY <2>3, <2>4, <3>7, <4>3
        <5>2. new[k] = old[i]
          BY <2>4, <5>1
        <5> HIDE DEF i
        <5>3. Bytes(old[i]) = stored[n - Len(old) + i].text
          BY <3>2, <5>1 DEF old, n
        <5>4. stored'[n - Len(old) + i] = stored[n - Len(old) + i]
          BY <2>3, <5>1
        <5> QED
          BY <4>1, <5>2, <5>3, <5>4 DEF i
      <4> QED
        BY <4>2, <4>3
    <3> QED
      BY <3>4, <3>6, <3>9
  <2> QED
    BY <2>5, <2>6 DEF WholeLinesStayWhole
<1> QED
  BY <1>1, <1>2 DEF Store

\* Only savetofile changes the device.
LEMMA DeviceStays ==
  ASSUME [Next]_vars, \A c \in Conns : ~handle_text(c)
  PROVE  UNCHANGED <<device, stored>>
<1>1. ASSUME NEW c \in Conns,
             \/ Connect(c) \/ ClientSend(c) \/ ClientLeave(c) \/ accept(c)
             \/ child_dies(c) \/ start(c) \/ recv(c) \/ handle_seekto(c)
             \/ sendfile_open(c) \/ sendfile_read(c) \/ closeActiveConnection(c)
      PROVE  UNCHANGED <<device, stored>>
  BY <1>1 DEF Connect, ClientSend, ClientLeave, accept, child_dies, start, recv,
              handle_seekto, sendfile_open, sendfile_read, closeActiveConnection
<1>2. CASE \/ setupsigaction \/ open_connection \/ start_daemon \/ close_acceptfd
           \/ sigetrm_handler \/ UNCHANGED vars
  BY <1>2 DEF setupsigaction, open_connection, start_daemon, StartUp,
              close_acceptfd, sigetrm_handler, vars
<1> QED
  BY <1>1, <1>2 DEF Next, main_step, child, recieve_text

\* As long as every chunk that the processes write ends a line, the commands
\* in the device are the chunks themselves, in the order of the writes: the
\* driver keeps the processes apart, though they have no lock in common.
THEOREM LinesStayWhole == Spec => []WholeLinesStayWhole
<1>1. Init => WholeLinesStayWhole /\ LogWritten
  <2> SUFFICES ASSUME Init PROVE WholeLinesStayWhole /\ LogWritten
    OBVIOUS
  <2>1. circular_buffer \in Buffer /\ Consistent(circular_buffer)
    BY InitType, InitConsistent DEF Init, WorldInit
  <2>2. Len(Log(circular_buffer)) = 0
    <3>1. Occupied(circular_buffer) = 0
      BY DEF Init, WorldInit, aesd_circular_buffer_init, Occupied
    <3> QED
      BY <2>1, <3>1, LogLength
  <2>3. Len(stored) = 0 /\ entry = NoEntry
    BY EmptySeq DEF Init, WorldInit
  <2> QED
    BY <2>2, <2>3 DEF WholeLinesStayWhole, LogWritten
<1>2. IInv /\ IInv' /\ WholeLinesStayWhole /\ LogWritten /\ [Next]_vars
        => WholeLinesStayWhole' /\ LogWritten'
  <2> SUFFICES ASSUME IInv, IInv', WholeLinesStayWhole, LogWritten, [Next]_vars
               PROVE  WholeLinesStayWhole' /\ LogWritten'
    OBVIOUS
  <2>0. ProcsOK /\ StoreOK /\ StoreOK'
    BY DEF IInv
  <2>1. ASSUME NEW c \in Conns, handle_text(c)
        PROVE  WholeLinesStayWhole' /\ LogWritten'
    <3> DEFINE text == Received(c)
    <3>1. text \in Seq(Byte) /\ Store(c, text)
      BY <2>0, <2>1, TerminatedType DEF handle_text, savetofile
    <3> HIDE DEF text
    <3> QED
      BY <2>0, <3>1, StoreKeepsLines
  <2>2. CASE \A c \in Conns : ~handle_text(c)
    <3>1. UNCHANGED <<device, stored>>
      BY <2>2, DeviceStays
    <3> QED
      BY <3>1 DEF WholeLinesStayWhole, LogWritten, device
  <2> QED
    BY <2>1, <2>2
<1> QED
  BY <1>1, <1>2, Invariance, PTL DEF Spec

-----------------------------------------------------------------------------
(***************************************************************************)
(* Replies                                                                 *)
(***************************************************************************)

\* backstream is at the start of the device, and nothing was sent, until the
\* first read.
FreshStart == \A c \in Conns : pc[c] # "reading" => reply[c] = << >> /\ backpos[c] = 0

\* As long as no command was dropped since its write, what a process has sent
\* is the content up to its position.
ReadSoFar ==
  \A c \in steady :
    /\ pc[c] \in {"sendfile", "reading"}
    /\ backpos[c] <= Len(Content(circular_buffer))
    /\ reply[c] = SubSeq(Content(circular_buffer), 1, backpos[c])

\* number m is the last write of c, and a command ends with it
LineAt(c, m) ==
  /\ stored[m].conn = c
  /\ \A i \in m + 1 .. Len(stored) : stored[i].conn # c
  /\ \E k \in 1 .. Len(Log(circular_buffer)) :
       IsSuffix(stored[m].text, Bytes(Log(circular_buffer)[k]))

\* And the line it answers is still in the device.
LineIsThere ==
  \A c \in steady \ upset : \E m \in 1 .. Len(stored) : LineAt(c, m)

Reading == FreshStart /\ ReadSoFar /\ LineIsThere

\* A write that drops nothing puts something behind the content and behind
\* the log, or leaves them alone.
LEMMA WriteAppends ==
  ASSUME StoreOK, NEW text \in Seq(Byte), text # << >>, aesd_write(text),
         circular_buffer.full => circular_buffer' = circular_buffer
  PROVE  /\ \E more \in Seq(Byte) :
              Content(circular_buffer') = Content(circular_buffer) \o more
         /\ Len(Log(circular_buffer)) \in Nat
         /\ Len(Log(circular_buffer')) >= Len(Log(circular_buffer))
         /\ \A k \in 1 .. Len(Log(circular_buffer)) :
              Log(circular_buffer')[k] = Log(circular_buffer)[k]
<1> DEFINE b == circular_buffer
           e == Extended(text)
           C == Content(b)
<1>1. b \in Buffer /\ Consistent(b) /\ C \in Seq(Byte) /\ Len(Log(b)) \in Nat
  BY ContentType, LogLength, OccupiedType DEF StoreOK, DeviceOK
<1>2. CASE circular_buffer' = b
  <2>1. << >> \in Seq(Byte) /\ C \o << >> = C
    BY <1>1, EmptySeq, ConcatEmptySeq
  <2>2. Content(circular_buffer') = C /\ Log(circular_buffer') = Log(b)
    BY <1>2
  <2>3. \E more \in Seq(Byte) : Content(circular_buffer') = C \o more
    BY <2>1, <2>2, Zenon
  <2> HIDE DEF b, C
  <2>4. Len(Log(circular_buffer')) >= Len(Log(b))
    BY <1>1, <2>2
  <2>5. \A k \in 1 .. Len(Log(b)) : Log(circular_buffer')[k] = Log(b)[k]
    BY <2>2
  <2> QED
    BY <1>1, <2>3, <2>4, <2>5 DEF b, C
<1>3. CASE ~b.full /\ circular_buffer' = aesd_circular_buffer_add_entry(b, e)
  <2> DEFINE n == aesd_circular_buffer_add_entry(b, e)
             o == b.entry[b.in_offs]
  <2>1. e \in Entry /\ e.size > 0 /\ e.size <= Len(e.buffptr)
    BY ExtendedType DEF Entry
  <2>2. Bytes(e) \in Seq(Byte)
    BY <2>1, BytesType
  <2>3. PICK d \in {0, 1} :
               /\ d = 1 <=> b.full
               /\ Len(Log(b)) \in Nat /\ Len(Log(n)) = Len(Log(b)) + 1 - d
               /\ \A k \in 1 .. Len(Log(n)) - 1 : Log(n)[k] = Log(b)[k + d]
    <3> HIDE DEF b, e
    <3> QED
      BY <1>1, <2>1, AddEntryShifts
  <2>4. PICK rest \in Seq(Byte) :
               /\ C = Bytes(o) \o rest /\ Content(n) = rest \o Bytes(e)
               /\ Bytes(o) \in Seq(Byte) /\ Len(Bytes(o)) = o.size
    <3> HIDE DEF b, e
    <3> QED
      BY <1>1, <2>1, ContentAdd
  <2>5. o.size = 0
    <3> DEFINE i == b.in_offs
    <3>1. i \in Slots /\ b.entry[i] \in Entry
      BY <1>1 DEF Buffer
    <3>2. b.entry[i].size > 0 <=> b.full \/ i < b.in_offs
      BY <1>1, <3>1 DEF Consistent
    <3>3. i \in Int /\ b.entry[i].size \in Nat
      BY <3>1, MaxWriteOperationsAssumption DEF Slots, Entry
    <3>4. ~(i < b.in_offs)
      BY <3>3
    <3> QED
      BY <1>3, <3>2, <3>3, <3>4
  <2>6. Bytes(o) = << >>
    BY <2>4, <2>5, EmptySeq
  <2>7. << >> \o rest = rest
    BY ConcatEmptySeq
  <2> HIDE DEF b, e, n, o, C
  <2>8. Content(n) = C \o Bytes(e)
    BY <2>4, <2>6, <2>7, Zenon
  <2>9. d = 0
    BY <1>3, <2>3
  <2>10. /\ Len(Log(n)) >= Len(Log(b))
         /\ \A k \in 1 .. Len(Log(b)) : Log(n)[k] = Log(b)[k]
    <3>1. Len(Log(n)) = Len(Log(b)) + 1
      BY <2>3, <2>9
    <3>2. \A k \in 1 .. Len(Log(b)) : k \in 1 .. Len(Log(n)) - 1 /\ k + d = k
      BY <2>3, <2>9, <3>1
    <3> QED
      BY <2>3, <3>1, <3>2
  <2>11. circular_buffer' = n
    BY <1>3 DEF n
  <2> QED
    BY <2>2, <2>3, <2>8, <2>10, <2>11 DEF b, C
<1> QED
  BY <1>2, <1>3 DEF aesd_write

\* The line of a process that others write behind stays where it is.
LEMMA LineStays ==
  ASSUME StoreOK, NEW c \in Conns, NEW d \in Conns, d # c, NEW text \in Seq(Byte),
         Store(c, text), circular_buffer.full => circular_buffer' = circular_buffer,
         NEW m \in 1 .. Len(stored), LineAt(d, m)
  PROVE  m \in 1 .. Len(stored') /\ LineAt(d, m)'
<1>1. CASE UNCHANGED <<device, stored>>
  BY <1>1 DEF LineAt, device
<1>2. CASE /\ text # << >> /\ aesd_write(text)
           /\ stored' = Append(stored, [conn |-> c, text |-> text])
  <2> DEFINE r == [conn |-> c, text |-> text]
             n == Len(stored)
  <2>1. /\ n \in Nat /\ Len(stored') = n + 1 /\ stored'[n + 1] = r
        /\ \A i \in 1 .. n : stored'[i] = stored[i]
    <3>1. r \in Records /\ stored \in Seq(Records)
      BY DEF Records, StoreOK
    <3> HIDE DEF r
    <3>2. stored' = Append(stored, r)
      BY <1>2 DEF r
    <3> QED
      BY <3>1, <3>2, AppendProperties, LenProperties
  <2>2. r.conn = c
    OBVIOUS
  <2> HIDE DEF r
  <2>3. stored'[m] = stored[m] /\ m \in 1 .. Len(stored')
    BY <2>1
  <2>4. \A i \in m + 1 .. Len(stored') : stored'[i].conn # d
    <3> TAKE i \in m + 1 .. Len(stored')
    <3>1. CASE i = n + 1
      BY <2>1, <2>2, <3>1
    <3>2. CASE i # n + 1
      <4>1. i \in m + 1 .. n /\ i \in 1 .. n
        BY <2>1, <3>2
      <4> QED
        BY <2>1, <4>1 DEF LineAt
    <3> QED
      BY <3>1, <3>2
  <2>5. \E k \in 1 .. Len(Log(circular_buffer')) :
          IsSuffix(stored'[m].text, Bytes(Log(circular_buffer')[k]))
    <3>1. PICK k \in 1 .. Len(Log(circular_buffer)) :
                 IsSuffix(stored[m].text, Bytes(Log(circular_buffer)[k]))
      BY DEF LineAt
    <3> DEFINE x == Len(Log(circular_buffer))
               y == Len(Log(circular_buffer'))
    <3>2. x \in Nat /\ y >= x /\ Log(circular_buffer')[k] = Log(circular_buffer)[k]
          /\ y \in Nat
      <4>1. x \in Nat /\ y >= x /\ Log(circular_buffer')[k] = Log(circular_buffer)[k]
        BY <1>2, <3>1, WriteAppends
      <4>2. circular_buffer' \in Buffer /\ Consistent(circular_buffer')
        BY <1>2, WriteKeepsDevice DEF DeviceOK
      <4>3. y \in Nat
        <5> DEFINE q == circular_buffer'
        <5>1. q \in Buffer /\ Consistent(q)
          BY <4>2
        <5> HIDE DEF q
        <5>2. Len(Log(q)) \in Nat
          BY <5>1, LogLength, OccupiedType
        <5> QED
          BY <5>2 DEF q
      <4> QED
        BY <4>1, <4>3
    <3> HIDE DEF x, y
    <3>3. k \in 1 .. y
      BY <3>1, <3>2 DEF x
    <3>4. IsSuffix(stored'[m].text, Bytes(Log(circular_buffer')[k]))
      BY <2>3, <3>1, <3>2
    <3> QED
      BY <3>3, <3>4 DEF y
  <2> QED
    BY <2>3, <2>4, <2>5 DEF LineAt
<1> QED
  BY <1>1, <1>2 DEF Store

\* The line that was just saved ends the newest command.
LEMMA LineIsNew ==
  ASSUME StoreOK, NEW c \in Conns, NEW text \in Seq(Byte), Store(c, text),
         Contains(text, NEWLINE), c \notin upset'
  PROVE  \E m \in 1 .. Len(stored') : LineAt(c, m)'
<1> DEFINE r   == [conn |-> c, text |-> text]
           n   == Len(stored)
           b   == circular_buffer
           e   == Extended(text)
           old == Bytes(entry)
<1>1. text # << >>
  BY EmptySeq DEF Contains
<1>2. aesd_write(text) /\ stored' = Append(stored, r)
  BY <1>1 DEF Store
<1>3. circular_buffer' = aesd_circular_buffer_add_entry(b, e)
  BY <1>2, LineIsCommitted
<1>4. e \in Entry /\ Bytes(e) = old \o text /\ old \in Seq(Byte)
  BY <1>1, ExtendedType, BytesType DEF StoreOK, DeviceOK
<1>5. IsSuffix(text, Bytes(e))
  <2> HIDE DEF old, e
  <2>1. IsSuffix(text, old \o text)
    BY <1>4, ConcatEndsWith
  <2> QED
    BY <1>4, <2>1, Zenon
<1>6. n \in Nat /\ Len(stored') = n + 1 /\ stored'[n + 1] = r
  <2>1. r \in Records /\ stored \in Seq(Records)
    BY DEF Records, StoreOK
  <2> HIDE DEF r
  <2> QED
    BY <1>2, <2>1, AppendProperties, LenProperties
<1>7. r.conn = c /\ r.text = text
  OBVIOUS
<1> DEFINE q == aesd_circular_buffer_add_entry(b, e)
<1>8. \E k \in 1 .. Len(Log(q)) : Log(q)[k] = e
  <2>1. b \in Buffer /\ Consistent(b)
    BY DEF StoreOK, DeviceOK
  <2> HIDE DEF b, e
  <2>2. PICK d \in {0, 1} : /\ Len(Log(b)) \in Nat /\ d <= Len(Log(b))
                            /\ Len(Log(q)) = Len(Log(b)) + 1 - d
                            /\ Log(q)[Len(Log(q))] = e
    BY <1>4, <2>1, AddEntryShifts
  <2> HIDE DEF q
  <2>3. Len(Log(q)) \in 1 .. Len(Log(q))
    BY <2>2
  <2> QED
    BY <2>2, <2>3
<1> HIDE DEF r, b, e, q
<1>9. \E k \in 1 .. Len(Log(q)) : IsSuffix(stored'[n + 1].text, Bytes(Log(q)[k]))
  BY <1>5, <1>6, <1>7, <1>8
<1>10. ASSUME NEW m \in Nat, m = n + 1
       PROVE  m \in 1 .. Len(stored') /\ LineAt(c, m)'
  <2>1. m \in 1 .. Len(stored') /\ \A i \in m + 1 .. Len(stored') : FALSE
    BY <1>6, <1>10
  <2>2. /\ stored'[m].conn = c
        /\ \A i \in m + 1 .. Len(stored') : stored'[i].conn # c
        /\ \E k \in 1 .. Len(Log(circular_buffer')) :
             IsSuffix(stored'[m].text, Bytes(Log(circular_buffer')[k]))
    BY <1>3, <1>6, <1>7, <1>9, <1>10, <2>1 DEF q
  <2> QED
    BY <2>1, <2>2 DEF LineAt
<1>11. PICK m \in Nat : m = n + 1
  BY <1>6
<1> QED
  BY <1>10, <1>11

\* savetofile and the start of an answer.
LEMMA StoringReads ==
  ASSUME IInv, IInv', Reading, NEW c \in Conns, handle_text(c)
  PROVE  Reading'
<1> DEFINE text == Received(c)
           line == Contains(text, NEWLINE)
           dropped == circular_buffer.full /\ circular_buffer' # circular_buffer
<1>0. ProcsOK /\ StoreOK /\ StoreOK'
  BY DEF IInv
<1>1. text \in Seq(Byte) /\ Store(c, text)
  BY <1>0, TerminatedType DEF handle_text, savetofile
<1>2. /\ pc[c] = "handle" /\ pc'[c] = IF line THEN "sendfile" ELSE "recv"
      /\ \A d \in Conns : d # c => pc'[d] = pc[d]
      /\ steady' = (IF dropped THEN {} ELSE steady) \union (IF line THEN {c} ELSE {})
      /\ reply' = reply /\ backpos' = backpos
  BY <1>0 DEF handle_text, Goto, ProcsOK
<1>3. c \notin steady /\ upset \subseteq upset'
  BY <1>0, <1>1, <1>2, StoreAdds DEF Reading, ReadSoFar
<1>4. \A d \in steady' : \/ d = c /\ line
                         \/ d # c /\ d \in steady /\ ~dropped
  BY <1>2, <1>3
<1> HIDE DEF text
<1>5. FreshStart'
  BY <1>2 DEF Reading, FreshStart
<1> DEFINE C == Content(circular_buffer)
           N == Content(circular_buffer')
<1>6. C \in Seq(Byte) /\ N \in Seq(Byte) /\ Len(C) \in Nat /\ Len(N) \in Nat
  <2> DEFINE q == circular_buffer'
  <2>1. circular_buffer \in Buffer /\ Consistent(circular_buffer)
        /\ q \in Buffer /\ Consistent(q)
    BY <1>0 DEF StoreOK, DeviceOK
  <2> HIDE DEF q
  <2>2. Content(circular_buffer) \in Seq(Byte) /\ Content(q) \in Seq(Byte)
    BY <2>1, ContentType
  <2> QED
    BY <2>2, LenProperties DEF q
<1>7. ASSUME ~dropped
      PROVE  \E more \in Seq(Byte) : N = C \o more
  <2>1. CASE UNCHANGED <<device, stored>>
    <3>1. << >> \in Seq(Byte) /\ C \o << >> = C /\ N = C
      BY <1>6, <2>1, EmptySeq, ConcatEmptySeq DEF device
    <3> HIDE DEF C, N
    <3> QED
      BY <3>1, Zenon
  <2>2. CASE text # << >> /\ aesd_write(text)
    BY <1>0, <1>1, <1>7, <2>2, WriteAppends
  <2> QED
    BY <1>1, <2>1, <2>2 DEF Store
<1>8. ReadSoFar'
  <2> SUFFICES ASSUME NEW d \in steady'
               PROVE  /\ pc'[d] \in {"sendfile", "reading"}
                      /\ backpos'[d] <= Len(N)
                      /\ reply'[d] = SubSeq(N, 1, backpos'[d])
    BY DEF ReadSoFar
  <2>0. d \in Conns /\ backpos[d] \in Nat
    BY <1>0, <1>4 DEF ProcsOK
  <2>1. CASE d = c /\ line
    <3>1. reply[c] = << >> /\ backpos[c] = 0
      BY <1>2 DEF Reading, FreshStart
    <3> HIDE DEF C, N
    <3>2. SubSeq(N, 1, 0) = << >>
      BY SubSeqEmpty
    <3> QED
      BY <1>2, <1>6, <2>1, <3>1, <3>2
  <2>2. CASE d # c /\ d \in steady /\ ~dropped
    <3> DEFINE m == backpos[d]
    <3>1. /\ pc[d] \in {"sendfile", "reading"} /\ m <= Len(C)
          /\ reply[d] = SubSeq(C, 1, m)
      BY <2>2 DEF Reading, ReadSoFar
    <3>2. PICK more \in Seq(Byte) : N = C \o more
      BY <1>7, <2>2
    <3> HIDE DEF C, N
    <3>3. m \in 0 .. Len(C)
      BY <1>6, <2>0, <3>1
    <3> HIDE DEF m
    <3>4. m \in 0 .. Len(C \o more) /\ SubSeq(C \o more, 1, m) = SubSeq(C, 1, m)
      BY <1>6, <3>3, PrefixStays
    <3>5. m \in 0 .. Len(N) /\ SubSeq(N, 1, m) = SubSeq(C, 1, m)
      BY <3>2, <3>4, Zenon
    <3>6. m <= Len(N)
      BY <1>6, <3>5
    <3>7. backpos'[d] = m /\ reply'[d] = reply[d] /\ pc'[d] = pc[d]
      BY <1>2, <2>0, <2>2 DEF m
    <3> QED
      BY <3>1, <3>5, <3>6, <3>7
  <2> QED
    BY <1>4, <2>1, <2>2
<1>9. LineIsThere'
  <2> SUFFICES ASSUME NEW d \in steady', d \notin upset'
               PROVE  \E m \in 1 .. Len(stored') : LineAt(d, m)'
    BY DEF LineIsThere
  <2>0. d \in Conns
    BY <1>0, <1>4 DEF ProcsOK
  <2>1. CASE d = c /\ line
    BY <1>0, <1>1, <2>1, LineIsNew
  <2>2. CASE d # c /\ d \in steady /\ ~dropped
    <3>1. PICK m \in 1 .. Len(stored) : LineAt(d, m)
      BY <1>3, <2>2 DEF Reading, LineIsThere
    <3>2. m \in 1 .. Len(stored') /\ LineAt(d, m)'
      BY <1>0, <1>1, <2>0, <2>2, <3>1, LineStays
    <3> QED
      BY <3>2
  <2> QED
    BY <1>4, <2>1, <2>2
<1> QED
  BY <1>5, <1>8, <1>9 DEF Reading

\* sendfile passes on what the next aesd_read returns.
LEMMA AdvancingReads ==
  ASSUME IInv, NEW c \in Conns, pc[c] = "reading",
         reply[c] = SubSeq(Content(circular_buffer), 1, backpos[c]),
         backpos[c] <= Len(Content(circular_buffer)),
         ReadAt(backpos[c]) # << >>
  PROVE  /\ backpos[c] + Len(ReadAt(backpos[c])) <= Len(Content(circular_buffer))
         /\ reply[c] \o ReadAt(backpos[c])
              = SubSeq(Content(circular_buffer), 1,
                       backpos[c] + Len(ReadAt(backpos[c])))
<1> DEFINE C   == Content(circular_buffer)
           pos == backpos[c]
           out == ReadAt(pos)
           n   == Len(out)
<1>1. StoreOK /\ pos \in Nat /\ C \in Seq(Byte)
  BY ContentType DEF IInv, StoreOK, DeviceOK, ProcsOK
<1>2. n \in Nat /\ pos + n <= Len(C) /\ out = SubSeq(C, pos + 1, pos + n)
  <2> HIDE DEF pos
  <2> QED
    BY <1>1, ReadAtReads DEF pos
<1> HIDE DEF C, pos, out, n
<1>3. SubSeq(C, 1, pos) \o SubSeq(C, pos + 1, pos + n) = SubSeq(C, 1, pos + n)
  BY <1>1, <1>2, PrefixGrows
<1>4. reply[c] = SubSeq(C, 1, pos)
  BY DEF C, pos
<1>5. reply[c] \o out = SubSeq(C, 1, pos + n)
  BY <1>2, <1>3, <1>4, Zenon
<1> QED
  BY <1>2, <1>5 DEF C, pos, out, n

\* Every step keeps what is known about the answers.
LEMMA ReadingStep ==
  ASSUME IInv, IInv', Reading, [Next]_vars
  PROVE  Reading'
<1>0. ProcsOK /\ StoreOK /\ upset \subseteq upset'
  BY UpsetGrows DEF IInv
<1>1. ASSUME NEW c \in Conns, handle_text(c)
      PROVE  Reading'
  BY <1>1, StoringReads
<1>2. CASE \A c \in Conns : ~handle_text(c)
  <2>0. circular_buffer' = circular_buffer /\ stored' = stored
    BY <1>2, DeviceStays DEF device
  <2>1. steady' \subseteq steady => LineIsThere'
    BY <1>0, <2>0 DEF Reading, LineIsThere, LineAt
  <2>2. ASSUME UNCHANGED <<pc, reply, backpos, steady>>
        PROVE  Reading'
    <3>1. FreshStart'
      BY <2>2 DEF Reading, FreshStart
    <3>2. ReadSoFar'
      BY <2>0, <2>2 DEF Reading, ReadSoFar
    <3> QED
      BY <2>1, <2>2, <3>1, <3>2 DEF Reading
  <2>3. ASSUME NEW c \in Conns,
               \A d \in Conns : d # c => /\ pc'[d] = pc[d] /\ reply'[d] = reply[d]
                                         /\ backpos'[d] = backpos[d],
               reply'[c] = << >>, backpos'[c] = 0, steady' \subseteq steady \ {c}
        PROVE  Reading'
    <3>1. FreshStart'
      BY <2>3 DEF Reading, FreshStart
    <3>2. ReadSoFar'
      BY <1>0, <2>0, <2>3 DEF Reading, ReadSoFar, ProcsOK
    <3> QED
      BY <2>1, <2>3, <3>1, <3>2 DEF Reading
  <2>4. ASSUME NEW c \in Conns, Connect(c) \/ ClientSend(c) \/ ClientLeave(c)
        PROVE  Reading'
    BY <2>2, <2>4 DEF Connect, ClientSend, ClientLeave, procs
  <2>5. CASE \/ setupsigaction \/ open_connection \/ start_daemon \/ close_acceptfd
             \/ sigetrm_handler \/ UNCHANGED vars
    BY <2>2, <2>5 DEF setupsigaction, open_connection, start_daemon, StartUp,
                      close_acceptfd, sigetrm_handler, vars, procs
  <2>6. ASSUME NEW c \in Conns, child_dies(c) \/ closeActiveConnection(c)
        PROVE  Reading'
    <3>1. Gone(c)
      BY <2>6 DEF child_dies, closeActiveConnection
    <3>2. /\ \A d \in Conns : d # c => /\ pc'[d] = pc[d] /\ reply'[d] = reply[d]
                                       /\ backpos'[d] = backpos[d]
          /\ reply'[c] = << >> /\ backpos'[c] = 0 /\ steady' \subseteq steady \ {c}
      BY <1>0, <3>1 DEF Gone, ProcsOK
    <3> QED
      BY <2>3, <3>2
  <2>7. ASSUME NEW c \in Conns,
               accept(c) \/ start(c) \/ recv(c) \/ handle_seekto(c)
        PROVE  Reading'
    <3>1. /\ pc[c] \in {"none", "start", "recv", "handle"} /\ steady' = steady
          /\ reply' = reply /\ backpos' = backpos
          /\ \A d \in Conns : d # c => pc'[d] = pc[d]
      BY <1>0, <2>7 DEF accept, start, recv, handle_seekto, Goto, ProcsOK
    <3>2. reply[c] = << >> /\ backpos[c] = 0 /\ c \notin steady
      BY <3>1 DEF Reading, FreshStart, ReadSoFar
    <3> QED
      BY <2>3, <3>1, <3>2
  <2>8. ASSUME NEW c \in Conns, SendfileReturns(c)
        PROVE  Reading'
    <3>1. /\ \A d \in Conns : d # c => /\ pc'[d] = pc[d] /\ reply'[d] = reply[d]
                                       /\ backpos'[d] = backpos[d]
          /\ reply'[c] = << >> /\ backpos'[c] = 0 /\ steady' \subseteq steady \ {c}
      BY <1>0, <2>8 DEF SendfileReturns, Goto, ProcsOK
    <3> QED
      BY <2>3, <3>1
  <2>9. ASSUME NEW c \in Conns, sendfile_open(c)
        PROVE  Reading'
    <3>1. CASE Goto(c, "reading") /\ UNCHANGED <<backpos, reply, steady>>
      <4>1. pc'[c] = "reading" /\ \A d \in Conns : d # c => pc'[d] = pc[d]
        BY <1>0, <3>1 DEF Goto, ProcsOK
      <4>2. FreshStart'
        BY <3>1, <4>1 DEF Reading, FreshStart
      <4>3. ReadSoFar'
        BY <1>0, <2>0, <3>1, <4>1 DEF Reading, ReadSoFar, ProcsOK
      <4> QED
        BY <2>1, <3>1, <4>2, <4>3 DEF Reading
    <3> QED
      BY <2>8, <2>9, <3>1 DEF sendfile_open
  <2>10. ASSUME NEW c \in Conns, sendfile_read(c)
         PROVE  Reading'
    <3> DEFINE out == ReadAt(backpos[c])
    <3>1. CASE /\ out # << >> /\ pc[c] = "reading"
               /\ reply' = [reply EXCEPT ![c] = @ \o out]
               /\ backpos' = [backpos EXCEPT ![c] = @ + Len(out)]
               /\ UNCHANGED <<pc, steady>>
      <4>1. /\ reply'[c] = reply[c] \o out /\ backpos'[c] = backpos[c] + Len(out)
            /\ \A d \in Conns : d # c => /\ reply'[d] = reply[d]
                                         /\ backpos'[d] = backpos[d]
        BY <1>0, <3>1 DEF ProcsOK
      <4>2. FreshStart'
        BY <3>1, <4>1 DEF Reading, FreshStart
      <4>3. c \in steady =>
              /\ backpos'[c] <= Len(Content(circular_buffer))
              /\ reply'[c] = SubSeq(Content(circular_buffer), 1, backpos'[c])
        BY <3>1, <4>1, AdvancingReads DEF Reading, ReadSoFar
      <4> HIDE DEF out
      <4>4. ReadSoFar'
        <5> SUFFICES ASSUME NEW d \in steady'
                     PROVE  /\ pc'[d] \in {"sendfile", "reading"}
                            /\ backpos'[d] <= Len(Content(circular_buffer'))
                            /\ reply'[d] = SubSeq(Content(circular_buffer'), 1, backpos'[d])
          BY DEF ReadSoFar
        <5>1. /\ d \in steady /\ d \in Conns /\ pc'[d] = pc[d]
              /\ Content(circular_buffer') = Content(circular_buffer)
          BY <1>0, <2>0, <3>1 DEF ProcsOK
        <5>2. CASE d = c
          BY <3>1, <4>3, <5>1, <5>2
        <5>3. CASE d # c
          BY <4>1, <5>1, <5>3 DEF Reading, ReadSoFar
        <5> QED
          BY <5>2, <5>3
      <4> QED
        BY <2>1, <3>1, <4>2, <4>4 DEF Reading
    <3> QED
      BY <2>8, <2>10, <3>1 DEF sendfile_read, Advance
  <2> QED
    BY <1>2, <2>4, <2>5, <2>6, <2>7, <2>9, <2>10
    DEF Next, main_step, child, recieve_text
<1> QED
  BY <1>1, <1>2

\* Only its own process ends an answer.
LEMMA OwnAnswerEnds ==
  ASSUME IInv, [Next]_vars, NEW c \in Conns, pc[c] = "reading", pc'[c] = "recv",
         peer[c] = "open"
  PROVE  ReadAt(backpos[c]) = << >>
<1>0. ProcsOK
  BY DEF IInv
<1>1. ASSUME NEW d \in Conns, Connect(d) \/ ClientSend(d) \/ ClientLeave(d)
      PROVE  FALSE
  BY <1>1 DEF Connect, ClientSend, ClientLeave, procs
<1>2. CASE \/ setupsigaction \/ open_connection \/ start_daemon \/ close_acceptfd
           \/ sigetrm_handler \/ UNCHANGED vars
  BY <1>2 DEF setupsigaction, open_connection, start_daemon, StartUp,
              close_acceptfd, sigetrm_handler, vars, procs
<1>3. ASSUME NEW d \in Conns,
             \/ child_dies(d) \/ closeActiveConnection(d) \/ accept(d) \/ start(d)
             \/ recv(d) \/ handle_seekto(d) \/ handle_text(d) \/ sendfile_open(d)
      PROVE  FALSE
  <2>1. CASE child_dies(d) \/ closeActiveConnection(d)
    BY <1>0, <2>1 DEF child_dies, closeActiveConnection, Gone, ProcsOK
  <2>2. CASE accept(d) \/ start(d) \/ recv(d)
    BY <1>0, <2>2 DEF accept, start, recv, Goto, ProcsOK
  <2>3. CASE handle_seekto(d) \/ handle_text(d) \/ sendfile_open(d)
    BY <1>0, <2>3 DEF handle_seekto, handle_text, sendfile_open, SendfileReturns,
                      Goto, ProcsOK
  <2> QED
    BY <1>3, <2>1, <2>2, <2>3
<1>4. ASSUME NEW d \in Conns, sendfile_read(d)
      PROVE  ReadAt(backpos[c]) = << >>
  <2>1. CASE d # c
    BY <1>0, <1>4, <2>1 DEF sendfile_read, SendfileReturns, Goto, ProcsOK
  <2>2. CASE d = c
    BY <1>4, <2>2 DEF sendfile_read
  <2> QED
    BY <2>1, <2>2
<1> QED
  BY <1>1, <1>2, <1>3, <1>4 DEF Next, main_step, child, recieve_text

\* sendfile reads the device in several calls while other processes write.
\* Unless a command was dropped since the line was saved, what a client that
\* is still there has been sent at the end is all that the device then holds,
\* and one of the commands ends with the client's line.
THEOREM RepliesAreWhole == Spec => ReplyIsWhole
<1> DEFINE A == \A c \in steady \ upset :
                  pc[c] = "reading" /\ pc'[c] = "recv" /\ peer[c] = "open" =>
                    /\ reply[c] = Content(circular_buffer)
                    /\ \E k \in DOMAIN Log(circular_buffer) :
                         IsSuffix(stored[Max(OwnTexts(c))].text,
                                  Bytes(Log(circular_buffer)[k]))
<1>1. Init => Reading
  BY DEF Init, Reading, FreshStart, ReadSoFar, LineIsThere
<1>2. IInv /\ Reading /\ [Next]_vars => [A]_vars
  <2> SUFFICES ASSUME IInv, Reading, [Next]_vars, NEW c \in steady \ upset,
                      pc[c] = "reading", pc'[c] = "recv", peer[c] = "open"
               PROVE  /\ reply[c] = Content(circular_buffer)
                      /\ \E k \in DOMAIN Log(circular_buffer) :
                           IsSuffix(stored[Max(OwnTexts(c))].text,
                                    Bytes(Log(circular_buffer)[k]))
    OBVIOUS
  <2>0. ProcsOK /\ StoreOK /\ c \in Conns
    BY DEF IInv, ProcsOK
  <2>1. reply[c] = Content(circular_buffer)
    <3> DEFINE C   == Content(circular_buffer)
               pos == backpos[c]
    <3>1. pos <= Len(C) /\ reply[c] = SubSeq(C, 1, pos) /\ pos \in Nat
      BY <2>0 DEF Reading, ReadSoFar, ProcsOK
    <3>2. pos >= Len(C)
      BY <2>0, <3>1, OwnAnswerEnds, ReadAtReads
    <3>3. C \in Seq(Byte) /\ Len(C) \in Nat
      BY <2>0, ContentType, LenProperties DEF StoreOK, DeviceOK
    <3> HIDE DEF C, pos
    <3>4. pos = Len(C)
      BY <3>1, <3>2, <3>3
    <3>5. SubSeq(C, 1, Len(C)) = C
      BY <3>3, SubSeqFull
    <3> QED
      BY <3>1, <3>4, <3>5 DEF C
  <2>2. PICK m \in 1 .. Len(stored) : LineAt(c, m)
    BY DEF Reading, LineIsThere
  <2>3. Max(OwnTexts(c)) = m
    <3>1. Len(stored) \in Nat
      BY <2>0, StoredRecords
    <3>2. m \in OwnTexts(c) /\ \A i \in OwnTexts(c) : i \in Int /\ m >= i
      BY <2>2, <3>1 DEF OwnTexts, LineAt
    <3> HIDE DEF OwnTexts
    <3>3. /\ Max(OwnTexts(c)) \in OwnTexts(c)
          /\ \A i \in OwnTexts(c) : Max(OwnTexts(c)) >= i
      BY <3>2 DEF Max
    <3> DEFINE x == Max(OwnTexts(c))
    <3>4. x \in Int /\ m >= x /\ x >= m /\ m \in Int
      BY <3>2, <3>3
    <3> HIDE DEF x
    <3>5. x = m
      BY <3>4
    <3> QED
      BY <3>5 DEF x
  <2>4. DOMAIN Log(circular_buffer) = 1 .. Len(Log(circular_buffer))
    <3>0. NoEntry \in Entry
      BY EmptySeq DEF NoEntry, Entry, NULL
    <3>1. Log(circular_buffer) \in Seq(Entry)
      BY <2>0, <3>0, AddEntryCommits DEF StoreOK, DeviceOK
    <3> QED
      BY <3>1, LenProperties
  <2> QED
    BY <2>1, <2>2, <2>3, <2>4 DEF LineAt
<1> QED
  BY <1>1, <1>2, ReadingStep, Invariance, PTL DEF Spec, ReplyIsWhole

=============================================================================
