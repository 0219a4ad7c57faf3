------------------------- MODULE AesdSocketProofs -------------------------
(***************************************************************************)
(* Theorems about AesdSocket for any number of connections and elements:   *)
(* who owns the mutex and the elements, that text is stored as it was      *)
(* sent, what replies consist of, and that the threads together implement  *)
(* SerialServer.                                                           *)
(***************************************************************************)
EXTENDS AesdSocket, ServerWorldProofs

\* the part of TypeOK that is not about the clients and the device
ServerOK ==
  /\ alive \in BOOLEAN
  /\ mpc \in {"setupsigaction", "open_connection", "start_daemon", "accept",
              "insert"}
  /\ newthread \in Nodes \union {NoNode} /\ thread_id \in Conns \union {NoConn}
  /\ head \subseteq Nodes /\ freed \subseteq Nodes
  /\ istream \in [Nodes -> Conns \union {NoConn}]
  /\ pid \in [Nodes -> Conns \union {NoConn}] /\ done \in [Nodes -> BOOLEAN]
  /\ pc \in [Conns -> Labels] /\ params \in [Conns -> Nodes \union {NoNode}]
  /\ mutex \in Conns \union {NoConn}
  /\ buffer \in [Conns -> Seq(Byte)] /\ outbox \in [Conns -> Seq(Byte)]
  /\ sendpos \in [Conns -> Nat \union {NoStream}] /\ eof \in [Conns -> BOOLEAN]

\* The three parts are TypeOK and the state of the device.
LEMMA TypeParts == TypeOK /\ DeviceOK <=> ServerOK /\ ClientsOK /\ StoreOK
  BY WorldParts DEF TypeOK, ServerOK

-----------------------------------------------------------------------------
(***************************************************************************)
(* What is read from the device                                            *)
(***************************************************************************)

\* The device from a position on: pieces, and a stretch of the content
\* however few of them are taken.
LEMMA FromType ==
  ASSUME NEW b \in Buffer, Consistent(b), NEW pos \in Nat
  PROVE  /\ From(b, pos) \in Seq(Byte) /\ Len(From(b, pos)) \in Nat
         /\ \A k \in 0 .. Len(From(b, pos)) :
              /\ SubSeq(From(b, pos), 1, k) \in Seq(Byte)
              /\ \E i, j \in 0 .. Len(Content(b)) :
                   SubSeq(From(b, pos), 1, k) = SubSeq(Content(b), i + 1, j)
<1> DEFINE s == Content(b)
           f == From(b, pos)
<1>1. s \in Seq(Byte) /\ Len(s) \in Nat /\ \A i \in 1 .. Len(s) : s[i] \in Byte
  BY ContentType, LenProperties, ElementOfSeq
<1>2. f = SubSeq(s, pos + 1, Len(s))
  BY DEF From
<1> HIDE DEF s, f
<1>3. /\ f \in Seq(Byte)
      /\ Len(f) = IF pos + 1 <= Len(s) THEN Len(s) - pos ELSE 0
      /\ \A i \in 1 .. Len(s) - pos : f[i] = s[pos + i]
  <2>1. \A i \in pos + 1 .. Len(s) : s[i] \in Byte
    BY <1>1
  <2>2. /\ SubSeq(s, pos + 1, Len(s)) \in Seq(Byte)
        /\ Len(SubSeq(s, pos + 1, Len(s))) =
             IF pos + 1 <= Len(s) THEN Len(s) - (pos + 1) + 1 ELSE 0
        /\ \A i \in 1 .. Len(s) - (pos + 1) + 1 :
             SubSeq(s, pos + 1, Len(s))[i] = s[(pos + 1) + i - 1]
    BY <1>1, <2>1, SubSeqProperties
  <2>3. \A i \in 1 .. Len(s) - pos : (pos + 1) + i - 1 = pos + i
    BY <1>1
  <2>4. Len(s) - (pos + 1) + 1 = Len(s) - pos
    BY <1>1
  <2> QED
    BY <1>1, <1>2, <2>2, <2>3, <2>4
<1>4. ASSUME NEW k \in 0 .. Len(f)
      PROVE  /\ SubSeq(f, 1, k) \in Seq(Byte)
             /\ \E i, j \in 0 .. Len(s) : SubSeq(f, 1, k) = SubSeq(s, i + 1, j)
  <2>1. /\ SubSeq(f, 1, k) \in Seq(Byte) /\ Len(SubSeq(f, 1, k)) = k
        /\ \A i \in 1 .. k : SubSeq(f, 1, k)[i] = f[i]
    BY <1>3, SequenceCut
  <2>2. CASE k = 0
    <3>1. SubSeq(f, 1, k) = << >> /\ SubSeq(s, 0 + 1, 0) = << >>
      BY <2>2, SubSeqEmpty
    <3>2. 0 \in 0 .. Len(s)
      BY <1>1
    <3> QED
      BY <2>1, <3>1, <3>2
  <2>3. CASE k # 0
    <3>1. pos + 1 <= Len(s) /\ pos + k <= Len(s) /\ k \in Nat
      BY <1>1, <1>3, <2>3
    <3>2. \A i \in pos + 1 .. pos + k : s[i] \in Byte
      BY <1>1, <3>1
    <3>3. /\ SubSeq(s, pos + 1, pos + k) \in Seq(Byte)
          /\ Len(SubSeq(s, pos + 1, pos + k)) = k
          /\ \A i \in 1 .. k : SubSeq(s, pos + 1, pos + k)[i] = s[pos + i]
      <4>1. /\ SubSeq(s, pos + 1, pos + k) \in Seq(Byte)
            /\ Len(SubSeq(s, pos + 1, pos + k)) =
                 IF pos + 1 <= pos + k THEN pos + k - (pos + 1) + 1 ELSE 0
            /\ \A i \in 1 .. pos + k - (pos + 1) + 1 :
                 SubSeq(s, pos + 1, pos + k)[i] = s[(pos + 1) + i - 1]
        BY <3>1, <3>2, SubSeqProperties
      <4>2. pos + k - (pos + 1) + 1 = k /\ pos + 1 <= pos + k
        BY <2>3, <3>1
      <4>3. \A i \in 1 .. k : (pos + 1) + i - 1 = pos + i
        OBVIOUS
      <4> QED
        BY <4>1, <4>2, <4>3
    <3>4. \A i \in 1 .. k : SubSeq(f, 1, k)[i] = SubSeq(s, pos + 1, pos + k)[i]
      <4> TAKE i \in 1 .. k
      <4>1. i \in 1 .. Len(s) - pos
        BY <1>1, <3>1
      <4> QED
        BY <1>3, <2>1, <3>3, <4>1
    <3>5. SubSeq(f, 1, k) = SubSeq(s, pos + 1, pos + k)
      BY <2>1, <3>3, <3>4, SeqEqual
    <3>6. pos \in 0 .. Len(s) /\ pos + k \in 0 .. Len(s)
      BY <1>1, <3>1
    <3> QED
      BY <2>1, <3>5, <3>6
  <2> QED
    BY <2>2, <2>3
<1> QED
  BY <1>1, <1>3, <1>4, LenProperties DEF s, f

\* sendfile sends some first part of what is left, unless nothing comes at all.
LEMMA SendfileSends ==
  ASSUME ServerOK, circular_buffer' \in Buffer, Consistent(circular_buffer'),
         NEW c \in Conns, sendfile(c)
  PROVE  /\ alive' \in BOOLEAN
         /\ \/ outbox' = outbox /\ sendpos' = sendpos /\ eof' = eof
            \/ /\ sendpos[c] \in Nat
               /\ \E k \in 0 .. Len(Reply(c)), pos \in Nat, end \in BOOLEAN :
                    /\ outbox' = [outbox EXCEPT ![c] = @ \o SubSeq(Reply(c), 1, k)]
                    /\ sendpos' = [sendpos EXCEPT ![c] = pos]
                    /\ eof' = [eof EXCEPT ![c] = end]
<1> DEFINE out == Reply(c)
<1>1. ASSUME sendpos[c] # NoStream
      PROVE  sendpos[c] \in Nat /\ out \in Seq(Byte) /\ Len(out) \in Nat
  <2>1. sendpos[c] \in Nat
    BY <1>1 DEF ServerOK
  <2> QED
    BY <2>1, FromType DEF Reply
<1>2. alive \in BOOLEAN /\ MAXBUFFER \in Nat \ {0}
  BY ServerWorldAssumption DEF ServerOK
<1>3. CASE /\ sendpos[c] # NoStream
           /\ outbox' = [outbox EXCEPT ![c] = @ \o SubSeq(out, 1, Len(out))]
           /\ sendpos' = [sendpos EXCEPT ![c] = @ + Len(out)]
           /\ eof' = [eof EXCEPT ![c] = TRUE]
           /\ UNCHANGED alive
  <2>1. sendpos[c] + Len(out) \in Nat /\ Len(out) \in 0 .. Len(out)
    BY <1>1, <1>3
  <2> HIDE DEF out
  <2> QED
    BY <1>1, <1>2, <1>3, <2>1 DEF out
<1>4. CASE /\ sendpos[c] # NoStream
           /\ \E full \in {k \in 0 .. Len(out) - 1 : k % MAXBUFFER = 0} :
                LET read == Min({full + MAXBUFFER, Len(out)})
                IN  /\ outbox' = [outbox EXCEPT ![c] = @ \o SubSeq(out, 1, full)]
                    /\ sendpos' = [sendpos EXCEPT ![c] = @ + read]
                    /\ eof' = [eof EXCEPT ![c] = eof[c] \/ read < full + MAXBUFFER]
           /\ alive' \in BOOLEAN
  <2> DEFINE read(full) == Min({full + MAXBUFFER, Len(out)})
  <2>1. PICK full \in 0 .. Len(out) - 1 :
               /\ outbox' = [outbox EXCEPT ![c] = @ \o SubSeq(out, 1, full)]
               /\ sendpos' = [sendpos EXCEPT ![c] = @ + read(full)]
               /\ eof' = [eof EXCEPT ![c] = eof[c] \/ read(full) < full + MAXBUFFER]
    BY <1>4
  <2> HIDE DEF out
  <2>2. full \in 0 .. Len(out) /\ full + MAXBUFFER \in Nat /\ Len(out) \in Nat
    BY <1>1, <1>2, <1>4
  <2>3. read(full) \in Nat
    BY <2>2, MinOfTwo
  <2> HIDE DEF read
  <2>4. sendpos[c] + read(full) \in Nat
    BY <1>1, <1>4, <2>3
  <2>5. (eof[c] \/ read(full) < full + MAXBUFFER) \in BOOLEAN
    OBVIOUS
  <2> QED
    BY <1>1, <1>4, <2>1, <2>2, <2>4, <2>5 DEF out
<1>5. CASE alive' \in BOOLEAN /\ UNCHANGED <<outbox, sendpos, eof>>
  BY <1>5
<1> QED
  BY <1>2, <1>3, <1>4, <1>5 DEF sendfile

\* The same for the reply to a seek.
LEMMA SeekSends ==
  ASSUME ServerOK, circular_buffer \in Buffer, Consistent(circular_buffer),
         NEW c \in Conns, handle_seekto(c)
  PROVE  /\ alive' \in BOOLEAN
         /\ \/ outbox' = outbox
            \/ \E pos \in Nat : \E k \in 0 .. Len(From(circular_buffer, pos)) :
                 outbox' =
                   [outbox EXCEPT ![c] = @ \o SubSeq(From(circular_buffer, pos), 1, k)]
<1> DEFINE off == SeekOffset(buffer[c])
           pos == CommandStart(circular_buffer, WriteCmd) + off
           out == From(circular_buffer, pos)
<1>1. CASE UNCHANGED <<alive, outbox>>
  BY <1>1 DEF ServerOK
<1>2. CASE /\ SeektoValid(circular_buffer, WriteCmd, off)
           /\ \/ /\ outbox' = [outbox EXCEPT ![c] = @ \o out]
                 /\ UNCHANGED alive
              \/ /\ alive' \in BOOLEAN
                 /\ \E k \in 0 .. Len(out) - 1 :
                      outbox' = [outbox EXCEPT ![c] = @ \o SubSeq(out, 1, k)]
  <2>1. pos \in Nat
    <3>1. off \in Nat
      BY SeekOffsetType DEF handle_seekto, ServerOK
    <3> HIDE DEF off
    <3> QED
      BY <1>2, <3>1, CommandStartType, AesdSocketAssumption DEF SeektoValid
  <2> HIDE DEF pos
  <2>2. out \in Seq(Byte) /\ Len(out) \in Nat
    BY <2>1, FromType
  <2>3. SubSeq(out, 1, Len(out)) = out /\ Len(out) \in 0 .. Len(out)
    BY <2>2, SubSeqFull
  <2>4. \E k \in 0 .. Len(out) : outbox' = [outbox EXCEPT ![c] = @ \o SubSeq(out, 1, k)]
    <3>1. CASE outbox' = [outbox EXCEPT ![c] = @ \o out]
      <4>1. outbox' = [outbox EXCEPT ![c] = @ \o SubSeq(out, 1, Len(out))]
        BY <2>3, <3>1, Zenon
      <4> QED
        BY <2>3, <4>1, Zenon
    <3>2. CASE \E k \in 0 .. Len(out) - 1 :
                 outbox' = [outbox EXCEPT ![c] = @ \o SubSeq(out, 1, k)]
      <4>1. \A k \in 0 .. Len(out) - 1 : k \in 0 .. Len(out)
        BY <2>2
      <4> QED
        BY <3>2, <4>1, Zenon
    <3> QED
      BY <1>2, <3>1, <3>2
  <2>5. alive' \in BOOLEAN
    BY <1>2 DEF ServerOK
  <2> QED
    BY <2>1, <2>4, <2>5
<1> QED
  BY <1>1, <1>2 DEF handle_seekto

-----------------------------------------------------------------------------
(***************************************************************************)
(* The inductive invariant                                                 *)
(***************************************************************************)

\* the thread of c is between its pthread_mutex_lock and its unlock
InLoop(c) == pc[c] \in {"recv", "handle", "last"}

\* the thread of c has left its loop
Through(c) == pc[c] \in {"closing", "gone"}

\* mutex belongs to the thread that is in its loop.
LockHeld == \A c \in Conns : mutex = c <=> InLoop(c)

\* The element that main is about to put on the list is there, and when it is
\* in use, thread_id is its thread.
ElementInHand ==
  mpc = "insert" =>
    /\ newthread \in Nodes
    /\ \A c \in Conns : Running(c) /\ params[c] = newthread => thread_id = c

\* A thread that runs has an element.
HasElement == \A c \in Conns : Running(c) => params[c] \in Nodes

\* What is stored was stored by threads that have had the mutex.
WritersKnown ==
  \A i \in 1 .. Len(stored) : InLoop(stored[i].conn) \/ Through(stored[i].conn)

\* Since the holder's first write nobody else has written.
HolderIsLast ==
  \A i \in 1 .. Len(stored) : \A j \in i .. Len(stored) :
    InLoop(stored[i].conn) => stored[j].conn = stored[i].conn

Elements ==
  ElementInHand /\ HasElement /\ ElementsAreOwn /\ FinishedElementsAreFree

Turns == LockHeld /\ WritersKnown /\ HolderIsLast /\ ConnectionsDoNotInterleave

IInv == ServerOK /\ ClientsOK /\ StoreOK /\ Elements /\ Turns /\ ResetIsUpset

\* No walk of the list comes by anything: the list is walked only when it is
\* empty.
LEMMA WalksFindNothing ==
  ASSUME NEW list
  PROVE  Walked(list) = {}
  BY DEF Walked

\* A client is sent some pieces.
LEMMA OutboxType ==
  ASSUME ServerOK, NEW c \in Conns, NEW text \in Seq(Byte),
         outbox' = [outbox EXCEPT ![c] = @ \o text]
  PROVE  outbox' \in [Conns -> Seq(Byte)]
<1>1. outbox[c] \o text \in Seq(Byte)
  BY ConcatProperties DEF ServerOK
<1> QED
  BY <1>1 DEF ServerOK

\* Every step keeps the types, and the ring in step with itself.
LEMMA TypesStep ==
  ASSUME IInv, [Next]_vars
  PROVE  ServerOK' /\ ClientsOK' /\ StoreOK'
<1>0. ServerOK /\ ClientsOK /\ StoreOK
  BY DEF IInv
<1>1. ASSUME NEW c \in Conns,
             Connect(c) \/ ClientSend(c) \/ ClientClose(c) \/ ClientReset(c)
      PROVE  ServerOK' /\ ClientsOK' /\ StoreOK'
  <2>1. /\ ClientConnects(c) \/ ClientSends(c) \/ ClientCloses(c) \/ ClientResets(c)
        /\ UNCHANGED <<alive, main, threads, device, stored, outbox>>
    BY <1>1 DEF Connect, ClientSend, ClientClose, ClientReset
  <2>2. ClientsOK' /\ upset' \subseteq Conns
    BY <1>0, <2>1, ClientStepType DEF StoreOK
  <2>3. ServerOK'
    BY <1>0, <2>1 DEF ServerOK, main, threads
  <2>4. StoreOK'
    BY <1>0, <2>1, <2>2 DEF StoreOK, DeviceOK, device
  <2> QED
    BY <2>2, <2>3, <2>4
<1>2. CASE setupsigaction \/ open_connection \/ start_daemon
  <2>1. ServerOK'
    BY <1>0, <1>2
       DEF ServerOK, setupsigaction, open_connection, start_daemon, StartUp, threads, history
  <2> QED
    BY <1>0, <1>2, <2>1, WorldStays
       DEF setupsigaction, open_connection, start_daemon, StartUp, history
<1>3. CASE insert
  <2>1. newthread \in Nodes
    BY <1>3 DEF IInv, Elements, ElementInHand, insert
  <2>2. head' = head \union {newthread} /\ freed' = freed
    BY <1>3, WalksFindNothing DEF insert, check_completed_threads, delElement
  <2>3. ServerOK'
    BY <1>0, <1>3, <2>1, <2>2 DEF ServerOK, insert, threads, history
  <2> QED
    BY <1>0, <1>3, <2>3, WorldStays DEF insert, history
<1>4. ASSUME NEW c \in Conns, NEW n \in Nodes, accept(c, n)
      PROVE  ServerOK' /\ ClientsOK' /\ StoreOK'
  <2>1. pc' \in [Conns -> Labels]
    <3>1. PICK label \in {"start", "failed"} : pc' = [pc EXCEPT ![c] = label]
      BY <1>4 DEF accept
    <3> QED
      BY <1>0, <3>1 DEF ServerOK, Labels
  <2>2. thread_id' \in Conns \union {NoConn}
    BY <1>4 DEF accept
  <2>3. ServerOK'
    BY <1>0, <1>4, <2>1, <2>2 DEF ServerOK, accept, newElement, history
  <2> QED
    BY <1>0, <1>4, <2>3, WorldStays DEF accept, history
<1>5. CASE sigetrm_handler
  <2>1. Walked(head) \subseteq Nodes
    BY <1>0 DEF Walked, ServerOK
  <2>2. ServerOK'
    BY <1>0, <1>5, <2>1
       DEF ServerOK, sigetrm_handler, closeconnection, delElement, threads, history
  <2> QED
    BY <1>0, <1>5, <2>2, WorldStays DEF sigetrm_handler, history
<1>6. ASSUME NEW c \in Conns, accept_crash(c)
      PROVE  ServerOK' /\ ClientsOK' /\ StoreOK'
  <2>1. ServerOK'
    BY <1>0, <1>6 DEF ServerOK, accept_crash, main, threads, history
  <2> QED
    BY <1>0, <1>6, <2>1, WorldStays DEF accept_crash, history
<1>7. ASSUME NEW c \in Conns, open_files(c)
      PROVE  ServerOK' /\ ClientsOK' /\ StoreOK'
  <2>1. pc' \in [Conns -> Labels]
    BY <1>0, <1>7 DEF ServerOK, open_files, Goto, Labels
  <2>2. sendpos' \in [Conns -> Nat \union {NoStream}]
    <3> DEFINE P == Nat \union {NoStream}
    <3>1. \/ sendpos' = sendpos
          \/ \E pos \in {0, NoStream} : sendpos' = [sendpos EXCEPT ![c] = pos]
      BY <1>7 DEF open_files
    <3>2. 0 \in P /\ NoStream \in P /\ sendpos \in [Conns -> P]
      BY <1>0 DEF ServerOK
    <3> HIDE DEF P
    <3>3. sendpos' \in [Conns -> P]
      BY <3>1, <3>2
    <3> QED
      BY <3>3 DEF P
  <2>3. ServerOK'
    BY <1>0, <1>7, <2>1, <2>2 DEF ServerOK, open_files, main, history
  <2> QED
    BY <1>0, <1>7, <2>3, WorldStays DEF open_files, history
<1>8. ASSUME NEW c \in Conns, lock(c)
      PROVE  ServerOK' /\ ClientsOK' /\ StoreOK'
  <2>1. ServerOK'
    BY <1>0, <1>8 DEF ServerOK, lock, LockMutex, Goto, Labels, main, history
  <2> QED
    BY <1>0, <1>8, <2>1, WorldStays DEF lock, history
<1>9. ASSUME NEW c \in Conns, recv(c)
      PROVE  ServerOK' /\ ClientsOK' /\ StoreOK'
  <2>0. upset \subseteq Conns
    BY <1>0 DEF StoreOK
  <2>1. /\ ClientsOK' /\ upset' \subseteq Conns
        /\ buffer' \in [Conns -> Seq(Byte)]
        /\ pc' \in [Conns -> Labels]
    <3>1. ASSUME NEW k, Arrived(c, k), Goto(c, "handle"),
                 buffer' = [buffer EXCEPT ![c] = Terminated(@, SubSeq(sock[c], 1, k))]
          PROVE  /\ ClientsOK' /\ upset' \subseteq Conns
                 /\ buffer' \in [Conns -> Seq(Byte)]
                 /\ pc' \in [Conns -> Labels]
      <4> DEFINE text == Terminated(buffer[c], SubSeq(sock[c], 1, k))
      <4>1. /\ ClientsOK' /\ SubSeq(sock[c], 1, k) \in Seq(Byte)
            /\ upset' \subseteq Conns
        BY <1>0, <2>0, <3>1, ArrivedTakes
      <4>2. text \in Seq(Byte)
        BY <4>1, StringType DEF Terminated
      <4>3. buffer' = [buffer EXCEPT ![c] = text]
        BY <3>1
      <4> HIDE DEF text
      <4> QED
        BY <1>0, <3>1, <4>1, <4>2, <4>3 DEF ServerOK, Goto, Labels
    <3>2. CASE /\ Ended(c) /\ Goto(c, "last")
               /\ buffer' = [buffer EXCEPT ![c] = << >>]
      <4>1. ClientsOK' /\ << >> \in Seq(Byte)
        BY <1>0, <3>2, NothingTaken, EmptySeq
      <4> QED
        BY <1>0, <2>0, <3>2, <4>1, NothingTaken DEF ServerOK, Goto, Labels
    <3>3. CASE Failed(c) /\ Goto(c, "handle") /\ UNCHANGED buffer
      <4>1. ClientsOK'
        BY <1>0, <3>3, NothingTaken
      <4> QED
        BY <1>0, <2>0, <3>3, <4>1, NothingTaken DEF ServerOK, Goto, Labels
    <3> QED
      BY <1>9, <3>1, <3>2, <3>3 DEF recv
  <2>2. ServerOK'
    BY <1>0, <1>9, <2>1 DEF ServerOK, recv, main
  <2>3. StoreOK'
    BY <1>0, <1>9, <2>1 DEF StoreOK, DeviceOK, recv, device
  <2> QED
    BY <2>1, <2>2, <2>3
<1>10. ASSUME NEW c \in Conns, handle_text(c)
       PROVE  ServerOK' /\ ClientsOK' /\ StoreOK'
  <2>1. StoreOK'
    BY <1>0, <1>10, StoreType DEF handle_text, savetofile, ServerOK
  <2>2. /\ alive' \in BOOLEAN
        /\ outbox' \in [Conns -> Seq(Byte)]
        /\ sendpos' \in [Conns -> Nat \union {NoStream}] /\ eof' \in [Conns -> BOOLEAN]
    <3>1. CASE UNCHANGED <<alive, outbox, sendpos, eof>>
      BY <1>0, <3>1 DEF ServerOK
    <3>2. CASE sendfile(c)
      <4>1. circular_buffer' \in Buffer /\ Consistent(circular_buffer')
        BY <2>1 DEF StoreOK, DeviceOK
      <4>2. /\ alive' \in BOOLEAN
            /\ \/ outbox' = outbox /\ sendpos' = sendpos /\ eof' = eof
               \/ /\ sendpos[c] \in Nat
                  /\ \E k \in 0 .. Len(Reply(c)), pos \in Nat, end \in BOOLEAN :
                       /\ outbox' = [outbox EXCEPT ![c] = @ \o SubSeq(Reply(c), 1, k)]
                       /\ sendpos' = [sendpos EXCEPT ![c] = pos]
                       /\ eof' = [eof EXCEPT ![c] = end]
        BY <1>0, <3>2, <4>1, SendfileSends
      <4>3. ASSUME sendpos[c] \in Nat, NEW k \in 0 .. Len(Reply(c)),
                   outbox' = [outbox EXCEPT ![c] = @ \o SubSeq(Reply(c), 1, k)]
            PROVE  outbox' \in [Conns -> Seq(Byte)]
        <5>1. SubSeq(Reply(c), 1, k) \in Seq(Byte)
          BY <4>1, <4>3, FromType DEF Reply
        <5> QED
          BY <1>0, <4>3, <5>1, OutboxType
      <4>4. sendpos' \in [Conns -> Nat \union {NoStream}] /\ eof' \in [Conns -> BOOLEAN]
        BY <1>0, <4>2, ZenonT(30) DEF ServerOK
      <4>5. outbox' = outbox => outbox' \in [Conns -> Seq(Byte)]
        BY <1>0 DEF ServerOK
      <4> QED
        BY <4>2, <4>3, <4>4, <4>5
    <3> QED
      BY <1>10, <3>1, <3>2 DEF handle_text
  <2>3. ServerOK'
    BY <1>0, <1>10, <2>2 DEF ServerOK, handle_text, Goto, Labels, main
  <2> QED
    BY <1>0, <1>10, <2>1, <2>3, WorldStays DEF handle_text
<1>11. ASSUME NEW c \in Conns, handle_seekto(c)
       PROVE  ServerOK' /\ ClientsOK' /\ StoreOK'
  <2>1. circular_buffer \in Buffer /\ Consistent(circular_buffer)
    BY <1>0 DEF StoreOK, DeviceOK
  <2>2. /\ alive' \in BOOLEAN
        /\ \/ outbox' = outbox
           \/ \E pos \in Nat : \E k \in 0 .. Len(From(circular_buffer, pos)) :
                outbox' =
                  [outbox EXCEPT ![c] = @ \o SubSeq(From(circular_buffer, pos), 1, k)]
    BY <1>0, <1>11, <2>1, SeekSends
  <2>3. ASSUME NEW pos \in Nat, NEW k \in 0 .. Len(From(circular_buffer, pos)),
               outbox' =
                 [outbox EXCEPT ![c] = @ \o SubSeq(From(circular_buffer, pos), 1, k)]
        PROVE  outbox' \in [Conns -> Seq(Byte)]
    <3>1. SubSeq(From(circular_buffer, pos), 1, k) \in Seq(Byte)
      BY <2>1, FromType
    <3> QED
      BY <1>0, <2>3, <3>1, OutboxType
  <2>4. outbox' \in [Conns -> Seq(Byte)]
    <3>1. outbox' = outbox => outbox' \in [Conns -> Seq(Byte)]
      BY <1>0 DEF ServerOK
    <3> QED
      BY <2>2, <2>3, <3>1
  <2>5. ServerOK'
    BY <1>0, <1>11, <2>2, <2>4 DEF ServerOK, handle_seekto, Goto, Labels, main
  <2>6. StoreOK'
    BY <1>0, <1>11 DEF StoreOK, DeviceOK, handle_seekto, device
  <2> QED
    BY <1>0, <1>11, <2>5, <2>6, WorldStays DEF handle_seekto
<1>12. ASSUME NEW c \in Conns, leave(c)
       PROVE  ServerOK' /\ ClientsOK' /\ StoreOK'
  <2>1. ServerOK'
    BY <1>0, <1>12 DEF ServerOK, leave, UnlockMutex, Goto, Labels, main, history
  <2> QED
    BY <1>0, <1>12, <2>1, WorldStays DEF leave, history
<1>13. ASSUME NEW c \in Conns, cleanup(c)
       PROVE  ServerOK' /\ ClientsOK' /\ StoreOK'
  <2>1. params[c] \in Nodes
    BY <1>13 DEF IInv, Elements, HasElement, Running, cleanup
  <2>2. ServerOK'
    BY <1>0, <1>13, <2>1 DEF ServerOK, cleanup, Goto, Labels, history
  <2> QED
    BY <1>0, <1>13, <2>2, WorldStays DEF cleanup, history
<1>14. CASE UNCHANGED vars
  <2>1. ServerOK'
    BY <1>0, <1>14 DEF ServerOK, vars, main, threads, history
  <2> QED
    BY <1>0, <1>14, <2>1, WorldStays DEF vars, history
<1> QED
  BY <1>1, <1>2, <1>3, <1>4, <1>5, <1>6, <1>7, <1>8, <1>9, <1>10, <1>11, <1>12,
     <1>13, <1>14
     DEF Next, main_step, recieve_text

-----------------------------------------------------------------------------
(***************************************************************************)
(* Elements                                                                *)
(***************************************************************************)

\* Nothing happened to the elements, and no thread was started.
LEMMA ElementsKept ==
  ASSUME Elements,
         newthread' = newthread, thread_id' = thread_id, freed' = freed,
         istream' = istream, pid' = pid, params' = params,
         mpc' = "insert" => mpc = "insert",
         \A d \in Conns : /\ Running(d)' => Running(d)
                          /\ Running(d) \/ pc[d] = "failed" =>
                               Running(d)' \/ pc'[d] = "failed"
  PROVE  Elements'
<1>1. ElementInHand'
  BY DEF Elements, ElementInHand
<1>2. HasElement'
  BY DEF Elements, HasElement
<1>3. ElementsAreOwn'
  BY DEF Elements, ElementsAreOwn
<1>4. FinishedElementsAreFree'
  BY DEF Elements, FinishedElementsAreFree
<1> QED
  BY <1>1, <1>2, <1>3, <1>4 DEF Elements

\* A thread that runs goes from one place to another.
LEMMA ThreadMoves ==
  ASSUME ServerOK, NEW c \in Conns,
         NEW label \in {"locking", "recv", "handle", "last", "closing", "failed"},
         Goto(c, label), Running(c)
  PROVE  \A d \in Conns : /\ Running(d)' => Running(d)
                          /\ Running(d) \/ pc[d] = "failed" =>
                               Running(d)' \/ pc'[d] = "failed"
<1> TAKE d \in Conns
<1>1. CASE d = c
  BY <1>1 DEF Goto, Running, ServerOK
<1>2. CASE d # c
  BY <1>2 DEF Goto, Running, ServerOK
<1> QED
  BY <1>1, <1>2

\* Every step leaves each running thread its element.
LEMMA ElementsStep ==
  ASSUME IInv, [Next]_vars
  PROVE  Elements'
<1>0. ServerOK /\ Elements
  BY DEF IInv
<1>1. ASSUME NEW c \in Conns,
             Connect(c) \/ ClientSend(c) \/ ClientClose(c) \/ ClientReset(c)
      PROVE  Elements'
  <2>1. UNCHANGED <<main, threads>>
    BY <1>1 DEF Connect, ClientSend, ClientClose, ClientReset
  <2> QED
    BY <1>0, <2>1, ElementsKept DEF main, threads, Running
<1>2. CASE setupsigaction \/ open_connection \/ start_daemon
  BY <1>0, <1>2, ElementsKept
     DEF setupsigaction, open_connection, start_daemon, StartUp, threads, Running
<1>3. CASE insert
  <2>1. /\ newthread \in Nodes /\ mpc' = "accept"
        /\ \A c \in Conns : Running(c) /\ params[c] = newthread => thread_id = c
        /\ pid' = [pid EXCEPT ![newthread] = thread_id]
        /\ freed' = freed /\ UNCHANGED <<istream, pc, params>>
    BY <1>0, <1>3, WalksFindNothing
       DEF insert, Elements, ElementInHand, check_completed_threads, delElement,
           threads
  <2>2. ElementInHand' /\ HasElement'
    BY <1>0, <2>1 DEF Elements, ElementInHand, HasElement, Running
  <2>3. ASSUME NEW d \in Conns, Running(d)'
        PROVE  /\ params[d] \notin freed /\ istream[params[d]] = d
               /\ pid'[params[d]] \in {NoConn, d}
    <3>1. Running(d) /\ params[d] \in Nodes
      BY <1>0, <2>1, <2>3 DEF Running, Elements, HasElement
    <3>2. /\ params[d] \notin freed /\ istream[params[d]] = d
          /\ pid[params[d]] \in {NoConn, d}
      BY <1>0, <3>1 DEF Elements, ElementsAreOwn
    <3> QED
      BY <1>0, <2>1, <3>1, <3>2 DEF ServerOK
  <2>4. ElementsAreOwn'
    BY <2>1, <2>3 DEF ElementsAreOwn
  <2>5. FinishedElementsAreFree'
    BY <1>0, <2>1 DEF Elements, FinishedElementsAreFree, Running
  <2> QED
    BY <2>2, <2>4, <2>5 DEF Elements
<1>4. ASSUME NEW c \in Conns, NEW n \in Nodes, accept(c, n)
      PROVE  Elements'
  <2>1. /\ n \in freed /\ freed' = freed \ {n} /\ newthread' = n
        /\ pid' = [pid EXCEPT ![n] = NoConn]
        /\ istream' = [istream EXCEPT ![n] = c]
        /\ params' = [params EXCEPT ![c] = n]
        /\ pc[c] = "none" /\ pc'[c] \in {"start", "failed"}
        /\ pc'[c] = "start" => thread_id' = c
        /\ \A d \in Conns : d # c => pc'[d] = pc[d]
    BY <1>0, <1>4 DEF accept, newElement, ServerOK
  <2>3. params'[c] = n /\ istream'[n] = c /\ pid'[n] = NoConn
    BY <1>0, <2>1 DEF ServerOK
  <2>4. ASSUME NEW d \in Conns, Running(d)', d # c
        PROVE  /\ params'[d] \in Nodes /\ params'[d] \notin freed'
               /\ istream'[params'[d]] = d
               /\ pid'[params'[d]] \in {NoConn, d}
    <3>1. Running(d) /\ params'[d] = params[d]
      BY <1>0, <2>1, <2>4 DEF Running, ServerOK
    <3>2. /\ params[d] \in Nodes /\ params[d] \notin freed
          /\ istream[params[d]] = d /\ pid[params[d]] \in {NoConn, d}
      BY <1>0, <3>1 DEF Elements, ElementsAreOwn, HasElement
    <3>3. params[d] # n
      BY <2>1, <3>2
    <3> QED
      BY <1>0, <2>1, <3>1, <3>2, <3>3 DEF ServerOK
  <2>5. HasElement' /\ ElementsAreOwn'
    BY <2>1, <2>3, <2>4 DEF HasElement, ElementsAreOwn
  <2>6. ElementInHand'
    <3>1. ASSUME NEW d \in Conns, Running(d)', params'[d] = n
          PROVE  thread_id' = d
      <4>1. d = c
        BY <1>0, <2>1, <2>4, <3>1 DEF Elements, ElementsAreOwn, Running, ServerOK
      <4> QED
        BY <2>1, <3>1, <4>1 DEF Running
    <3> QED
      BY <2>1, <3>1 DEF ElementInHand
  <2>7. ASSUME NEW m \in Nodes, m \notin freed'
        PROVE  \E d \in Conns : params'[d] = m /\ (Running(d)' \/ pc'[d] = "failed")
    <3>1. CASE m = n
      BY <2>1, <2>3, <3>1 DEF Running
    <3>2. CASE m # n
      <4>1. PICK d \in Conns : params[d] = m /\ (Running(d) \/ pc[d] = "failed")
        BY <1>0, <2>1, <2>7, <3>2 DEF Elements, FinishedElementsAreFree
      <4>2. d # c
        BY <2>1, <4>1 DEF Running
      <4> QED
        BY <1>0, <2>1, <4>1, <4>2 DEF Running, ServerOK
    <3> QED
      BY <3>1, <3>2
  <2>8. FinishedElementsAreFree'
    BY <2>7 DEF FinishedElementsAreFree
  <2> QED
    BY <2>5, <2>6, <2>8 DEF Elements
<1>5. CASE sigetrm_handler
  <2>1. freed' = freed
    BY <1>5, WalksFindNothing DEF sigetrm_handler, closeconnection, delElement
  <2> QED
    BY <1>0, <1>5, <2>1, ElementsKept
       DEF sigetrm_handler, closeconnection, threads, Running
<1>6. ASSUME NEW c \in Conns, accept_crash(c)
      PROVE  Elements'
  BY <1>0, <1>6, ElementsKept DEF accept_crash, main, threads, Running
<1>7. ASSUME NEW c \in Conns, open_files(c)
      PROVE  Elements'
  <2>1. Running(c) /\ \E label \in {"locking", "recv", "handle", "last", "closing",
                                    "failed"} : Goto(c, label)
    BY <1>7 DEF open_files, Running
  <2> QED
    BY <1>0, <1>7, <2>1, ThreadMoves, ElementsKept DEF open_files, main
<1>8. ASSUME NEW c \in Conns, lock(c)
      PROVE  Elements'
  <2>1. Running(c) /\ \E label \in {"locking", "recv", "handle", "last", "closing",
                                    "failed"} : Goto(c, label)
    BY <1>8 DEF lock, Running
  <2> QED
    BY <1>0, <1>8, <2>1, ThreadMoves, ElementsKept DEF lock, main
<1>9. ASSUME NEW c \in Conns, recv(c)
      PROVE  Elements'
  <2>1. Running(c) /\ \E label \in {"locking", "recv", "handle", "last", "closing",
                                    "failed"} : Goto(c, label)
    BY <1>9 DEF recv, Running
  <2> QED
    BY <1>0, <1>9, <2>1, ThreadMoves, ElementsKept DEF recv, main
<1>10. ASSUME NEW c \in Conns, handle_text(c) \/ handle_seekto(c)
       PROVE  Elements'
  <2>1. Running(c) /\ Goto(c, "recv") /\ UNCHANGED <<main, params>>
    BY <1>10 DEF handle_text, handle_seekto, Running
  <2> QED
    BY <1>0, <2>1, ThreadMoves, ElementsKept DEF main
<1>11. ASSUME NEW c \in Conns, leave(c)
       PROVE  Elements'
  <2>1. Running(c) /\ \E label \in {"locking", "recv", "handle", "last", "closing",
                                    "failed"} : Goto(c, label)
    BY <1>11 DEF leave, Running
  <2> QED
    BY <1>0, <1>11, <2>1, ThreadMoves, ElementsKept DEF leave, main
<1>12. ASSUME NEW c \in Conns, cleanup(c)
       PROVE  Elements'
  <2>1. CASE UNCHANGED <<freed, params, pc>>
    BY <1>0, <1>12, <2>1, ElementsKept DEF cleanup, Running
  <2>2. CASE /\ freed' = freed \union {params[c]}
             /\ params' = [params EXCEPT ![c] = NoNode]
             /\ Goto(c, "gone")
    <3>1. /\ UNCHANGED <<mpc, newthread, thread_id, istream, pid>>
          /\ Running(c) /\ ~Running(c)'
          /\ \A d \in Conns : d # c => pc'[d] = pc[d] /\ params'[d] = params[d]
      BY <1>0, <1>12, <2>2 DEF cleanup, Running, Goto, ServerOK
    <3>2. ElementInHand'
      <4>1. \A d \in Conns : Running(d)' => d # c /\ Running(d) /\ params'[d] = params[d]
        BY <3>1 DEF Running
      <4> QED
        BY <1>0, <3>1, <4>1 DEF Elements, ElementInHand
    <3>3. istream[params[c]] = c
      BY <1>0, <3>1 DEF Elements, ElementsAreOwn
    <3>4. ASSUME NEW d \in Conns, Running(d)'
          PROVE  /\ params'[d] \in Nodes /\ params'[d] \notin freed'
                 /\ istream[params'[d]] = d /\ pid[params'[d]] \in {NoConn, d}
      <4>1. d # c /\ Running(d) /\ params'[d] = params[d]
        BY <1>0, <2>2, <3>4 DEF Running, Goto, ServerOK
      <4>2. /\ params[d] \in Nodes /\ params[d] \notin freed
            /\ istream[params[d]] = d /\ pid[params[d]] \in {NoConn, d}
        BY <1>0, <4>1 DEF Elements, ElementsAreOwn, HasElement
      <4> QED
        BY <2>2, <3>3, <4>1, <4>2
    <3>5. HasElement' /\ ElementsAreOwn'
      BY <3>1, <3>4 DEF HasElement, ElementsAreOwn
    <3>6. ASSUME NEW m \in Nodes, m \notin freed'
          PROVE  \E d \in Conns : params'[d] = m /\ (Running(d)' \/ pc'[d] = "failed")
      <4>1. PICK d \in Conns : params[d] = m /\ (Running(d) \/ pc[d] = "failed")
        BY <1>0, <2>2, <3>6 DEF Elements, FinishedElementsAreFree
      <4>2. d # c
        BY <2>2, <3>6, <4>1
      <4> QED
        BY <3>1, <4>1, <4>2 DEF Running
    <3>7. FinishedElementsAreFree'
      BY <3>6 DEF FinishedElementsAreFree
    <3> QED
      BY <3>2, <3>5, <3>7 DEF Elements
  <2> QED
    BY <1>12, <2>1, <2>2 DEF cleanup
<1>13. CASE UNCHANGED vars
  BY <1>0, <1>13, ElementsKept DEF vars, main, threads, Running
<1> QED
  BY <1>1, <1>2, <1>3, <1>4, <1>5, <1>6, <1>7, <1>8, <1>9, <1>10, <1>11, <1>12,
     <1>13
     DEF Next, main_step, recieve_text

-----------------------------------------------------------------------------
(***************************************************************************)
(* Turns                                                                   *)
(***************************************************************************)

\* Nobody entered or left the loop, and nothing was stored.
LEMMA TurnsKept ==
  ASSUME Turns, StoreOK, mutex' = mutex, stored' = stored,
         \A d \in Conns : /\ InLoop(d)' <=> InLoop(d)
                          /\ Through(d) => Through(d)'
  PROVE  Turns'
<1>0. \A i \in 1 .. Len(stored) : stored[i].conn \in Conns
  BY StoredRecords
<1>1. LockHeld'
  BY DEF Turns, LockHeld
<1>2. WritersKnown'
  BY <1>0 DEF Turns, WritersKnown, InLoop, Through
<1>3. HolderIsLast'
  BY <1>0 DEF Turns, HolderIsLast, InLoop
<1>4. ConnectionsDoNotInterleave'
  BY DEF Turns, ConnectionsDoNotInterleave
<1> QED
  BY <1>1, <1>2, <1>3, <1>4 DEF Turns

\* One thread goes on, on the same side of lock and unlock.
LEMMA SameSide ==
  ASSUME ServerOK, NEW c \in Conns, NEW label, Goto(c, label),
         label \in {"recv", "handle", "last"} <=> InLoop(c),
         Through(c) => label \in {"closing", "gone"}
  PROVE  \A d \in Conns : /\ InLoop(d)' <=> InLoop(d)
                          /\ Through(d) => Through(d)'
<1> TAKE d \in Conns
<1>1. pc'[c] = label /\ (d # c => pc'[d] = pc[d])
  BY DEF Goto, ServerOK
<1> QED
  BY <1>1 DEF InLoop, Through

\* The holder of the mutex stores one more chunk.
LEMMA HolderStores ==
  ASSUME Turns, StoreOK, NEW c \in Conns, InLoop(c), mutex' = mutex,
         NEW r \in Records, r.conn = c, stored' = Append(stored, r),
         \A d \in Conns : /\ InLoop(d)' <=> InLoop(d)
                          /\ Through(d) => Through(d)'
  PROVE  Turns'
<1> DEFINE n == Len(stored)
<1>0. /\ n \in Nat /\ Len(stored') = n + 1 /\ stored'[n + 1] = r
      /\ \A i \in 1 .. n : stored'[i] = stored[i] /\ stored[i].conn \in Conns
  <2>1. stored \in Seq(Records)
    BY DEF StoreOK
  <2> QED
    BY <2>1, AppendProperties, StoredRecords
<1>1. \A i \in 1 .. n + 1 : i = n + 1 \/ i \in 1 .. n
  BY <1>0
<1>2. \A d \in Conns : InLoop(d) => d = c
  BY DEF Turns, LockHeld
<1> HIDE DEF n
<1>3. LockHeld'
  BY DEF Turns, LockHeld
<1>4. WritersKnown'
  <2>1. ASSUME NEW i \in 1 .. n + 1
        PROVE  pc'[stored'[i].conn] \in {"recv", "handle", "last", "closing", "gone"}
    <3>1. CASE i = n + 1
      BY <1>0, <3>1 DEF InLoop
    <3>2. CASE i \in 1 .. n
      <4>1. InLoop(stored[i].conn) \/ Through(stored[i].conn)
        BY <3>2 DEF Turns, WritersKnown, n
      <4> QED
        BY <1>0, <3>2, <4>1 DEF InLoop, Through
    <3> QED
      BY <1>1, <3>1, <3>2
  <2> QED
    BY <1>0, <2>1 DEF WritersKnown, InLoop, Through
<1>5. ASSUME NEW i \in 1 .. n, stored[i].conn = c, NEW j \in i .. n + 1
      PROVE  stored'[j].conn = c
  <2>1. CASE j = n + 1
    BY <1>0, <2>1
  <2>2. CASE j # n + 1
    <3>1. j \in i .. n /\ j \in 1 .. n
      BY <1>0, <2>2
    <3> QED
      BY <1>0, <1>5, <3>1 DEF Turns, HolderIsLast, n
  <2> QED
    BY <2>1, <2>2
<1>6. HolderIsLast'
  <2>1. ASSUME NEW i \in 1 .. n + 1, NEW j \in i .. n + 1,
               pc'[stored'[i].conn] \in {"recv", "handle", "last"}
        PROVE  stored'[j].conn = stored'[i].conn
    <3>1. CASE i = n + 1
      <4>1. j = n + 1
        BY <1>0, <3>1
      <4> QED
        BY <3>1, <4>1
    <3>2. CASE i \in 1 .. n
      <4>1. stored'[i].conn = stored[i].conn /\ stored[i].conn = c
        BY <1>0, <1>2, <2>1, <3>2 DEF InLoop
      <4> QED
        BY <1>5, <3>2, <4>1
    <3> QED
      BY <1>1, <3>1, <3>2
  <2> QED
    BY <1>0, <2>1 DEF HolderIsLast, InLoop
<1>7. ConnectionsDoNotInterleave'
  <2>1. ASSUME NEW i \in 1 .. n + 1, NEW k \in 1 .. n + 1,
               stored'[i].conn = stored'[k].conn, NEW j \in i .. k
        PROVE  stored'[j].conn = stored'[i].conn
    <3>1. CASE i = n + 1
      <4>1. j = n + 1
        BY <1>0, <3>1
      <4> QED
        BY <3>1, <4>1
    <3>2. CASE i \in 1 .. n /\ k = n + 1
      <4>1. stored'[i].conn = stored[i].conn /\ stored[i].conn = c
        BY <1>0, <2>1, <3>2
      <4> QED
        BY <1>5, <3>2, <4>1
    <3>3. CASE i \in 1 .. n /\ k \in 1 .. n
      <4>1. j \in 1 .. n
        BY <1>0, <3>3
      <4>2. stored[i].conn = stored[k].conn
        BY <1>0, <2>1, <3>3
      <4>3. stored[j].conn = stored[i].conn
        BY <3>3, <4>2 DEF Turns, ConnectionsDoNotInterleave, n
      <4> QED
        BY <1>0, <3>3, <4>1, <4>3
    <3> QED
      BY <1>1, <3>1, <3>2, <3>3
  <2> QED
    BY <1>0, <2>1 DEF ConnectionsDoNotInterleave
<1> QED
  BY <1>3, <1>4, <1>6, <1>7 DEF Turns

\* Every step keeps the turns.
LEMMA TurnsStep ==
  ASSUME IInv, [Next]_vars
  PROVE  Turns'
<1>0. ServerOK /\ StoreOK /\ Turns
  BY DEF IInv
<1>1. ASSUME UNCHANGED <<pc, mutex, stored>>
      PROVE  Turns'
  BY <1>0, <1>1, TurnsKept DEF InLoop, Through
<1>2. ASSUME NEW c \in Conns,
             Connect(c) \/ ClientSend(c) \/ ClientClose(c) \/ ClientReset(c)
      PROVE  Turns'
  BY <1>1, <1>2 DEF Connect, ClientSend, ClientClose, ClientReset, threads
<1>3. CASE setupsigaction \/ open_connection \/ start_daemon
  BY <1>1, <1>3
     DEF setupsigaction, open_connection, start_daemon, StartUp, threads, history
<1>4. CASE insert
  BY <1>1, <1>4 DEF insert, threads, history
<1>5. ASSUME NEW c \in Conns, NEW n \in Nodes, accept(c, n)
      PROVE  Turns'
  <2>1. PICK label \in {"start", "failed"} : Goto(c, label)
    BY <1>5 DEF accept, Goto
  <2>2. \A d \in Conns : (InLoop(d)' <=> InLoop(d)) /\ (Through(d) => Through(d)')
    BY <1>0, <1>5, <2>1, SameSide DEF accept, InLoop, Through
  <2> QED
    BY <1>0, <1>5, <2>2, TurnsKept DEF accept, history
<1>6. CASE sigetrm_handler
  BY <1>1, <1>6 DEF sigetrm_handler, closeconnection, threads, history
<1>7. ASSUME NEW c \in Conns, accept_crash(c)
      PROVE  Turns'
  BY <1>1, <1>7 DEF accept_crash, threads, history
<1>8. ASSUME NEW c \in Conns, open_files(c)
      PROVE  Turns'
  <2>1. PICK label \in {"locking", "failed"} : Goto(c, label)
    BY <1>8 DEF open_files
  <2>2. \A d \in Conns : (InLoop(d)' <=> InLoop(d)) /\ (Through(d) => Through(d)')
    BY <1>0, <1>8, <2>1, SameSide DEF open_files, InLoop, Through
  <2> QED
    BY <1>0, <1>8, <2>2, TurnsKept DEF open_files, history
<1>9. ASSUME NEW c \in Conns, lock(c)
      PROVE  Turns'
  <2>1. /\ mutex = NoConn /\ mutex' = c /\ stored' = stored
        /\ pc[c] = "locking" /\ pc' = [pc EXCEPT ![c] = "recv"]
    BY <1>9 DEF lock, LockMutex, Goto, history
  <2>2. \A d \in Conns : ~InLoop(d)
    BY <1>0, <2>1, ServerWorldAssumption DEF Turns, LockHeld
  <2>3. \A d \in Conns : /\ InLoop(d)' <=> d = c
                         /\ Through(d) => Through(d)'
    BY <1>0, <2>1, <2>2 DEF InLoop, Through, ServerOK
  <2>4. \A i \in 1 .. Len(stored) : stored[i].conn \in Conns
    BY <1>0, StoredRecords
  <2>5. \A i \in 1 .. Len(stored) : Through(stored[i].conn) /\ stored[i].conn # c
    BY <1>0, <2>1, <2>2, <2>4 DEF Turns, WritersKnown, Through
  <2>6. LockHeld'
    BY <2>1, <2>3 DEF LockHeld
  <2>7. WritersKnown'
    BY <2>1, <2>3, <2>4, <2>5 DEF WritersKnown, InLoop, Through
  <2>8. HolderIsLast'
    BY <2>1, <2>3, <2>4, <2>5 DEF HolderIsLast, InLoop
  <2>9. ConnectionsDoNotInterleave'
    BY <1>0, <2>1 DEF Turns, ConnectionsDoNotInterleave
  <2> QED
    BY <2>6, <2>7, <2>8, <2>9 DEF Turns
<1>10. ASSUME NEW c \in Conns, recv(c)
       PROVE  Turns'
  <2>1. PICK label \in {"handle", "last"} : Goto(c, label)
    BY <1>10 DEF recv
  <2>2. \A d \in Conns : (InLoop(d)' <=> InLoop(d)) /\ (Through(d) => Through(d)')
    BY <1>0, <1>10, <2>1, SameSide DEF recv, InLoop, Through
  <2> QED
    BY <1>0, <1>10, <2>2, TurnsKept DEF recv
<1>11. ASSUME NEW c \in Conns, handle_text(c)
       PROVE  Turns'
  <2>1. pc[c] = "handle" /\ Goto(c, "recv") /\ mutex' = mutex /\ Store(c, buffer[c])
    BY <1>11 DEF handle_text, savetofile
  <2>2. \A d \in Conns : (InLoop(d)' <=> InLoop(d)) /\ (Through(d) => Through(d)')
    BY <1>0, <2>1, SameSide DEF InLoop, Through
  <2>3. CASE stored' = stored
    BY <1>0, <2>1, <2>2, <2>3, TurnsKept
  <2>4. CASE stored' = Append(stored, [conn |-> c, text |-> buffer[c]])
    <3> DEFINE r == [conn |-> c, text |-> buffer[c]]
    <3>1. r \in Records /\ r.conn = c /\ InLoop(c)
      BY <1>0, <2>1 DEF Records, ServerOK, InLoop
    <3> HIDE DEF r
    <3> QED
      BY <1>0, <2>1, <2>2, <2>4, <3>1, HolderStores DEF r
  <2> QED
    BY <2>1, <2>3, <2>4 DEF Store
<1>12. ASSUME NEW c \in Conns, handle_seekto(c)
       PROVE  Turns'
  <2>1. pc[c] = "handle" /\ Goto(c, "recv") /\ UNCHANGED <<mutex, stored>>
    BY <1>12 DEF handle_seekto
  <2>2. \A d \in Conns : (InLoop(d)' <=> InLoop(d)) /\ (Through(d) => Through(d)')
    BY <1>0, <2>1, SameSide DEF InLoop, Through
  <2> QED
    BY <1>0, <2>1, <2>2, TurnsKept
<1>13. ASSUME NEW c \in Conns, leave(c)
       PROVE  Turns'
  <2>1. /\ mutex' = NoConn /\ stored' = stored
        /\ pc[c] = "last" /\ pc' = [pc EXCEPT ![c] = "closing"]
    BY <1>13 DEF leave, UnlockMutex, Goto, history
  <2>2. \A d \in Conns : InLoop(d) <=> d = c
    <3>1. mutex = c
      BY <1>0, <2>1 DEF Turns, LockHeld, InLoop
    <3> QED
      BY <1>0, <3>1 DEF Turns, LockHeld
  <2>3. \A d \in Conns : /\ ~InLoop(d)'
                         /\ InLoop(d) \/ Through(d) => Through(d)'
    BY <1>0, <2>1, <2>2 DEF InLoop, Through, ServerOK
  <2>4. \A i \in 1 .. Len(stored) : stored[i].conn \in Conns
    BY <1>0, StoredRecords
  <2>5. LockHeld'
    BY <2>1, <2>3, ServerWorldAssumption DEF LockHeld
  <2>6. WritersKnown'
    BY <1>0, <2>1, <2>3, <2>4 DEF Turns, WritersKnown, InLoop, Through
  <2>7. HolderIsLast'
    BY <2>1, <2>3, <2>4 DEF HolderIsLast, InLoop
  <2>8. ConnectionsDoNotInterleave'
    BY <1>0, <2>1 DEF Turns, ConnectionsDoNotInterleave
  <2> QED
    BY <2>5, <2>6, <2>7, <2>8 DEF Turns
<1>14. ASSUME NEW c \in Conns, cleanup(c)
       PROVE  Turns'
  <2>1. CASE UNCHANGED pc
    BY <1>1, <1>14, <2>1 DEF cleanup, history
  <2>2. CASE Goto(c, "gone")
    <3>1. \A d \in Conns : (InLoop(d)' <=> InLoop(d)) /\ (Through(d) => Through(d)')
      BY <1>0, <1>14, <2>2, SameSide DEF cleanup, InLoop, Through
    <3> QED
      BY <1>0, <1>14, <3>1, TurnsKept DEF cleanup, history
  <2> QED
    BY <1>14, <2>1, <2>2 DEF cleanup
<1>15. CASE UNCHANGED vars
  BY <1>1, <1>15 DEF vars, threads, history
<1> QED
  BY <1>2, <1>3, <1>4, <1>5, <1>6, <1>7, <1>8, <1>9, <1>10, <1>11, <1>12, <1>13,
     <1>14, <1>15
     DEF Next, main_step, recieve_text

\* A connection is upset when its client resets it, and stays so.
LEMMA ResetStep ==
  ASSUME IInv, [Next]_vars
  PROVE  ResetIsUpset'
<1>0. ServerOK /\ ClientsOK /\ StoreOK /\ ResetIsUpset
  BY DEF IInv
<1>1. ASSUME peer' = peer, upset \subseteq upset'
      PROVE  ResetIsUpset'
  BY <1>0, <1>1 DEF ResetIsUpset
<1>2. ASSUME NEW c \in Conns,
             Connect(c) \/ ClientSend(c) \/ ClientClose(c) \/ ClientReset(c)
      PROVE  ResetIsUpset'
  <2>1. CASE ClientConnects(c)
    BY <1>0, <2>1 DEF ClientConnects, ResetIsUpset, ClientsOK
  <2>2. CASE ClientSends(c)
    BY <1>1, <2>2 DEF ClientSends
  <2>3. CASE ClientCloses(c)
    BY <1>0, <2>3 DEF ClientCloses, ResetIsUpset, ClientsOK
  <2>4. CASE ClientResets(c)
    BY <1>0, <2>4 DEF ClientResets, ResetIsUpset, ClientsOK
  <2> QED
    BY <1>2, <2>1, <2>2, <2>3, <2>4 DEF Connect, ClientSend, ClientClose, ClientReset
<1>3. CASE setupsigaction \/ open_connection \/ start_daemon
  BY <1>1, <1>3
     DEF setupsigaction, open_connection, start_daemon, StartUp, clients, history
<1>4. CASE insert
  BY <1>1, <1>4 DEF insert, clients, history
<1>5. ASSUME NEW c \in Conns, NEW n \in Nodes, accept(c, n)
      PROVE  ResetIsUpset'
  BY <1>1, <1>5 DEF accept, clients, history
<1>6. CASE sigetrm_handler
  BY <1>1, <1>6 DEF sigetrm_handler, clients, history
<1>7. ASSUME NEW c \in Conns,
             accept_crash(c) \/ open_files(c) \/ lock(c) \/ leave(c) \/ cleanup(c)
      PROVE  ResetIsUpset'
  BY <1>1, <1>7 DEF accept_crash, open_files, lock, leave, cleanup, clients, history
<1>8. ASSUME NEW c \in Conns, recv(c)
      PROVE  ResetIsUpset'
  <2>1. \/ peer' = peer
        \/ peer' = [peer EXCEPT ![c] = "closed"]
    BY <1>8 DEF recv, Arrived, Ended, Failed, clients
  <2>2. upset \subseteq upset'
    BY <1>8 DEF recv, Arrived, Ended, Failed
  <2> QED
    BY <1>0, <2>1, <2>2 DEF ResetIsUpset, ClientsOK
<1>9. ASSUME NEW c \in Conns, handle_text(c)
      PROVE  ResetIsUpset'
  <2>1. upset \subseteq upset' /\ peer' = peer
    BY <1>0, <1>9, StoreAdds DEF handle_text, savetofile, ServerOK, clients
  <2> QED
    BY <1>1, <2>1
<1>10. ASSUME NEW c \in Conns, handle_seekto(c)
       PROVE  ResetIsUpset'
  BY <1>1, <1>10 DEF handle_seekto, clients
<1>11. CASE UNCHANGED vars
  BY <1>1, <1>11 DEF vars, clients, history
<1> QED
  BY <1>2, <1>3, <1>4, <1>5, <1>6, <1>7, <1>8, <1>9, <1>10, <1>11
     DEF Next, main_step, recieve_text

\* The initial state.
LEMMA InitInv == Init => IInv
<1> SUFFICES ASSUME Init PROVE IInv
  OBVIOUS
<1>1. ClientsOK /\ StoreOK
  BY WorldStart DEF Init
<1>2. ServerOK
  <2>1. << >> \in Seq(Byte) /\ Garbage \in Seq(Byte)
    BY EmptySeq, AesdSocketAssumption
  <2> QED
    BY <2>1 DEF Init, ServerOK, Labels
<1>3. Elements
  BY DEF Init, Elements, ElementInHand, HasElement, ElementsAreOwn,
         FinishedElementsAreFree, Running
<1>4. Turns
  <2>1. Len(stored) = 0
    BY EmptySeq DEF Init, WorldInit
  <2>2. LockHeld
    BY ServerWorldAssumption DEF Init, LockHeld, InLoop
  <2> QED
    BY <2>1, <2>2
       DEF Turns, WritersKnown, HolderIsLast, ConnectionsDoNotInterleave
<1>5. ResetIsUpset
  BY DEF Init, WorldInit, ResetIsUpset
<1> QED
  BY <1>1, <1>2, <1>3, <1>4, <1>5 DEF IInv

\* The inductive invariant of the server.
THEOREM Invariance == Spec => []IInv
<1>1. IInv /\ [Next]_vars => IInv'
  BY TypesStep, ElementsStep, TurnsStep, ResetStep DEF IInv
<1> QED
  BY <1>1, InitInv, PTL DEF Spec

\* The state keeps its shape: main, the connection threads of recieve_text,
\* the elements, the clients and the device.
THEOREM TypeCorrect == Spec => []TypeOK
<1>1. IInv => TypeOK
  BY TypeParts DEF IInv
<1> QED
  BY <1>1, Invariance, PTL

\* All the writes of one connection reach the device in one run: mutex is held
\* around the whole receive loop of recieve_text, for any number of
\* connections and however recv cuts what they send.
THEOREM WritesComeInOneRun == Spec => []ConnectionsDoNotInterleave
<1>1. IInv => ConnectionsDoNotInterleave
  BY DEF IInv, Turns
<1> QED
  BY <1>1, Invariance, PTL

\* A thread's element is its own while the thread runs, main's late store to
\* newthread->pid included: newElement, insert and the free at the end of
\* recieve_text.
THEOREM ElementsStayOwn == Spec => []ElementsAreOwn
<1>1. IInv => ElementsAreOwn
  BY DEF IInv, Elements
<1> QED
  BY <1>1, Invariance, PTL

\* No element is lost but for connections that were given up at the start:
\* however main's insert falls between the steps of the thread, cleanup at the
\* end of recieve_text has given back the element of every connection that is
\* through.
THEOREM ElementsAreGivenBack == Spec => []FinishedElementsAreFree
<1>1. IInv => FinishedElementsAreFree
  BY DEF IInv, Elements
<1> QED
  BY <1>1, Invariance, PTL

-----------------------------------------------------------------------------
(***************************************************************************)
(* What was sent is what is stored                                         *)
(***************************************************************************)

\* the chunk that recv has returned and the loop has not stored yet
InHand(c) == IF pc[c] = "handle" THEN buffer[c] ELSE << >>

\* what is stored, in hand and under way
Accounted(c) == StoredText(c) \o InHand(c) \o sock[c]

\* The parts are sequences of pieces.
LEMMA AccountType ==
  ASSUME ServerOK, ClientsOK, StoreOK, NEW c \in Conns
  PROVE  /\ StoredText(c) \in Seq(Byte) /\ InHand(c) \in Seq(Byte)
         /\ sock[c] \in Seq(Byte) /\ sent[c] \in Seq(Byte) /\ buffer[c] \in Seq(Byte)
<1>1. StoredText(c) = FlattenSeq(TextsOf(c, stored))
  BY DEF StoredText, TextsOf
<1>2. StoredText(c) \in Seq(Byte)
  BY <1>1, TextsType DEF StoreOK
<1> QED
  BY <1>2, EmptySeq DEF InHand, ServerOK, ClientsOK

\* The property, by connection.
LEMMA AccountParts ==
  StoredIsWhatWasSent <=> \A c \in Conns : c \in upset \/ Accounted(c) = sent[c]
  BY DEF StoredIsWhatWasSent, Accounted, InHand

\* Nothing happened to the account of one connection.
LEMMA AccountKept ==
  ASSUME NEW d \in Conns, StoredText(d)' = StoredText(d), InHand(d)' = InHand(d),
         sock'[d] = sock[d], sent'[d] = sent[d], upset \subseteq upset',
         d \in upset \/ Accounted(d) = sent[d]
  PROVE  d \in upset' \/ Accounted(d)' = sent'[d]
  BY DEF Accounted

\* Every step of the receive loop moves text on and loses none of it.
LEMMA AccountStep ==
  ASSUME IInv, StoredIsWhatWasSent, [Next]_vars
  PROVE  StoredIsWhatWasSent'
<1> DEFINE Fine(d) == d \in upset \/ Accounted(d) = sent[d]
<1>0. ServerOK /\ ClientsOK /\ StoreOK /\ ResetIsUpset
  BY DEF IInv
<1>00. \A d \in Conns : Fine(d)
  BY AccountParts
<1> SUFFICES \A d \in Conns : d \in upset' \/ Accounted(d)' = sent'[d]
  BY DEF StoredIsWhatWasSent, Accounted, InHand
<1> TAKE d \in Conns
<1> DEFINE Goal == d \in upset' \/ Accounted(d)' = sent'[d]
<1> SUFFICES Goal
  OBVIOUS
<1>01. Fine(d)
  BY <1>00
<1> HIDE DEF Goal, Fine
<1>1. ASSUME stored' = stored, InHand(d)' = InHand(d), sock'[d] = sock[d],
             sent'[d] = sent[d], upset \subseteq upset'
      PROVE  Goal
  <2>1. StoredText(d)' = StoredText(d)
    BY <1>0, <1>1, StoredTextStays
  <2> QED
    BY <1>01, <1>1, <2>1, AccountKept DEF Goal, Fine
<1>2. ASSUME NEW c \in Conns,
             Connect(c) \/ ClientSend(c) \/ ClientClose(c) \/ ClientReset(c)
      PROVE  Goal
  <2>1. stored' = stored /\ InHand(d)' = InHand(d)
    BY <1>2 DEF Connect, ClientSend, ClientClose, ClientReset, threads, InHand
  <2>2. CASE ClientConnects(c)
    BY <1>1, <2>1, <2>2 DEF ClientConnects
  <2>3. CASE ClientSends(c)
    <3>1. PICK m \in Messages : /\ sock' = [sock EXCEPT ![c] = @ \o m]
                                /\ sent' = [sent EXCEPT ![c] = @ \o m]
                                /\ upset' = upset
      BY <2>3 DEF ClientSends
    <3>2. CASE d # c
      <4>1. sock'[d] = sock[d] /\ sent'[d] = sent[d]
        BY <1>0, <3>1, <3>2 DEF ClientsOK
      <4> QED
        BY <1>1, <2>1, <3>1, <4>1
    <3>3. CASE d = c
      <4>1. sock'[d] = sock[d] \o m /\ sent'[d] = sent[d] \o m
        BY <1>0, <3>1, <3>3 DEF ClientsOK
      <4>2. StoredText(d)' = StoredText(d)
        BY <1>0, <2>1, StoredTextStays
      <4> DEFINE s == StoredText(d)
                 h == InHand(d)
                 k == sock[d]
      <4>3. s \in Seq(Byte) /\ h \in Seq(Byte) /\ k \in Seq(Byte) /\ m \in Seq(Byte)
        BY <1>0, AccountType, ServerWorldAssumption
      <4>4. Accounted(d) = (s \o h) \o k /\ Accounted(d)' = (s \o h) \o (k \o m)
        BY <2>1, <4>1, <4>2 DEF Accounted
      <4> HIDE DEF s, h, k
      <4>5. s \o h \in Seq(Byte)
        BY <4>3, ConcatProperties
      <4>6. ((s \o h) \o k) \o m = (s \o h) \o (k \o m)
        BY <4>3, <4>5, ConcatAssociative, SMTT(30)
      <4>7. d \in upset \/ Accounted(d)' = sent'[d]
        BY <1>01, <4>1, <4>4, <4>6, Zenon DEF Fine
      <4> QED
        BY <3>1, <4>7 DEF Goal
    <3> QED
      BY <3>2, <3>3
  <2>4. CASE ClientCloses(c)
    BY <1>1, <2>1, <2>4 DEF ClientCloses
  <2>5. CASE ClientResets(c)
    <3>1. CASE d = c
      BY <2>5, <3>1 DEF ClientResets, Goal
    <3>2. CASE d # c
      <4>1. sock'[d] = sock[d] /\ sent'[d] = sent[d] /\ upset \subseteq upset'
        BY <1>0, <2>5, <3>2 DEF ClientResets, ClientsOK
      <4> QED
        BY <1>1, <2>1, <4>1
    <3> QED
      BY <3>1, <3>2
  <2> QED
    BY <1>2, <2>2, <2>3, <2>4, <2>5 DEF Connect, ClientSend, ClientClose, ClientReset
<1>3. CASE setupsigaction \/ open_connection \/ start_daemon
  BY <1>1, <1>3 DEF setupsigaction, open_connection, start_daemon, StartUp, threads,
                    clients, history, InHand
<1>4. CASE insert
  BY <1>1, <1>4 DEF insert, threads, clients, history, InHand
<1>5. ASSUME NEW c \in Conns, NEW n \in Nodes, accept(c, n)
      PROVE  Goal
  <2>1. InHand(d)' = InHand(d)
    BY <1>0, <1>5 DEF accept, InHand, ServerOK
  <2> QED
    BY <1>1, <1>5, <2>1 DEF accept, clients, history
<1>6. CASE sigetrm_handler
  BY <1>1, <1>6 DEF sigetrm_handler, closeconnection, threads, clients, history, InHand
<1>7. ASSUME NEW c \in Conns, accept_crash(c)
      PROVE  Goal
  BY <1>1, <1>7 DEF accept_crash, threads, clients, history, InHand
<1>8. ASSUME NEW c \in Conns, open_files(c)
      PROVE  Goal
  <2>1. InHand(d)' = InHand(d)
    BY <1>0, <1>8 DEF open_files, Goto, InHand, ServerOK
  <2> QED
    BY <1>1, <1>8, <2>1 DEF open_files, clients, history
<1>9. ASSUME NEW c \in Conns, lock(c)
      PROVE  Goal
  <2>1. InHand(d)' = InHand(d)
    BY <1>0, <1>9 DEF lock, Goto, InHand, ServerOK
  <2> QED
    BY <1>1, <1>9, <2>1 DEF lock, clients, history
<1>10. ASSUME NEW c \in Conns, recv(c)
       PROVE  Goal
  <2>0. /\ pc[c] = "recv" /\ stored' = stored /\ upset \subseteq upset'
        /\ InHand(c) = << >>
        /\ \A l : pc' = [pc EXCEPT ![c] = l] => pc'[c] = l /\ (d # c => pc'[d] = pc[d])
    BY <1>0, <1>10 DEF recv, Arrived, Ended, Failed, InHand, ServerOK
  <2>1. ASSUME NEW k, Arrived(c, k), Goto(c, "handle"),
               buffer' = [buffer EXCEPT ![c] = Terminated(@, SubSeq(sock[c], 1, k))]
        PROVE  Goal
    <3> DEFINE chunk == SubSeq(sock[c], 1, k)
    <3>1. /\ chunk \in Seq(Byte) /\ chunk \o sock'[c] = sock[c]
          /\ sock'[c] \in Seq(Byte)
          /\ d # c => sock'[d] = sock[d]
          /\ sent' = sent
      BY <1>0, <2>1, ArrivedTakes DEF Arrived, ClientsOK
    <3>2. buffer'[c] = String(chunk) /\ (d # c => buffer'[d] = buffer[d])
      BY <1>0, <2>1 DEF Terminated, ServerOK
    <3>3. CASE d # c
      <4>1. InHand(d)' = InHand(d)
        BY <2>0, <2>1, <3>2, <3>3 DEF InHand, Goto
      <4> QED
        BY <1>1, <2>0, <3>1, <3>3, <4>1
    <3>4. CASE d = c /\ c \notin upset'
      <4>0. String(chunk) = chunk
        <5>1. Len(chunk) = k /\ \A i \in 1 .. k : chunk[i] # NUL
          BY <1>0, <2>1, <3>4, ArrivedTakes
        <5> HIDE DEF chunk
        <5> QED
          BY <3>1, <5>1, StringType
      <4>1. InHand(d)' = chunk
        BY <2>0, <2>1, <3>2, <3>4, <4>0 DEF InHand, Goto
      <4>2. StoredText(d)' = StoredText(d) /\ StoredText(d) \in Seq(Byte)
        BY <1>0, <2>0, StoredTextStays
      <4> DEFINE s == StoredText(d)
                 t == sock'[d]
      <4>3. Accounted(d) = (s \o << >>) \o sock[d] /\ Accounted(d)' = (s \o chunk) \o t
        BY <2>0, <3>4, <4>1, <4>2 DEF Accounted
      <4> HIDE DEF s, t, chunk
      <4>4. s \o << >> = s /\ (s \o chunk) \o t = s \o (chunk \o t)
        <5>1. s \in Seq(Byte) /\ t \in Seq(Byte) /\ chunk \in Seq(Byte)
          BY <3>1, <3>4, <4>2 DEF s, t
        <5> QED
          BY <5>1, ConcatEmptySeq, ConcatAssociative
      <4>5. chunk \o t = sock[d]
        BY <3>1, <3>4 DEF t
      <4>6. Accounted(d)' = Accounted(d)
        BY <4>3, <4>4, <4>5, Zenon
      <4> QED
        BY <1>01, <2>0, <3>1, <4>6 DEF Goal, Fine
    <3>5. CASE d = c /\ c \in upset'
      BY <3>5 DEF Goal
    <3> QED
      BY <3>3, <3>4, <3>5
  <2>2. CASE /\ Ended(c) /\ Goto(c, "last")
             /\ buffer' = [buffer EXCEPT ![c] = << >>]
    <3>1. InHand(d)' = InHand(d)
      BY <1>0, <2>0, <2>2 DEF InHand, Goto, ServerOK
    <3> QED
      BY <1>0, <1>1, <2>0, <2>2, <3>1, NothingTaken
  <2>3. CASE Failed(c) /\ Goto(c, "handle") /\ UNCHANGED buffer
    <3>1. CASE d = c
      BY <1>0, <2>0, <2>3, <3>1 DEF Failed, ResetIsUpset, Goal
    <3>2. CASE d # c
      <4>1. InHand(d)' = InHand(d)
        BY <2>0, <2>3, <3>2 DEF InHand, Goto
      <4> QED
        BY <1>0, <1>1, <2>0, <2>3, <4>1, NothingTaken
    <3> QED
      BY <3>1, <3>2
  <2> QED
    BY <1>10, <2>1, <2>2, <2>3 DEF recv
<1>11. ASSUME NEW c \in Conns, handle_text(c)
       PROVE  Goal
  <2>1. /\ pc[c] = "handle" /\ Goto(c, "recv") /\ Store(c, buffer[c])
        /\ buffer' = buffer /\ sock' = sock /\ sent' = sent
    BY <1>11 DEF handle_text, savetofile, clients
  <2>2. pc'[c] = "recv" /\ (d # c => pc'[d] = pc[d])
    BY <1>0, <2>1 DEF Goto, ServerOK
  <2>3. buffer[c] \in Seq(Byte)
    BY <1>0 DEF ServerOK
  <2>4. /\ upset \subseteq upset'
        /\ StoredText(c)' = StoredText(c) \o buffer[c] \/ c \in upset'
        /\ d # c => StoredText(d)' = StoredText(d)
        /\ StoredText(c) \in Seq(Byte)
    BY <1>0, <2>1, <2>3, StoreAdds
  <2>5. CASE d # c
    <3>1. InHand(d)' = InHand(d)
      BY <2>1, <2>2, <2>5 DEF InHand
    <3> QED
      BY <1>01, <2>1, <2>4, <2>5, <3>1, AccountKept DEF Goal, Fine
  <2>6. CASE d = c /\ c \notin upset'
    <3> DEFINE s == StoredText(d)
               t == buffer[d]
    <3>1. InHand(d) = t /\ InHand(d)' = << >> /\ StoredText(d)' = s \o t
      BY <2>1, <2>2, <2>4, <2>6 DEF InHand
    <3>2. Accounted(d) = (s \o t) \o sock[d] /\ Accounted(d)' = ((s \o t) \o << >>) \o sock[d]
      BY <2>1, <3>1 DEF Accounted
    <3> HIDE DEF s, t
    <3>3. s \o t \in Seq(Byte)
      BY <2>3, <2>4, <2>6, ConcatProperties DEF s, t
    <3>4. (s \o t) \o << >> = s \o t
      BY <3>3, ConcatEmptySeq
    <3>5. Accounted(d)' = Accounted(d)
      BY <3>2, <3>4, Zenon
    <3> QED
      BY <1>01, <2>1, <2>4, <2>6, <3>5 DEF Goal, Fine
  <2> QED
    BY <2>5, <2>6 DEF Goal
<1>12. ASSUME NEW c \in Conns, handle_seekto(c)
       PROVE  Goal
  <2>1. CASE d = c
    BY <1>12, <2>1 DEF handle_seekto, Goal
  <2>2. CASE d # c
    <3>1. InHand(d)' = InHand(d)
      BY <1>0, <1>12, <2>2 DEF handle_seekto, Goto, InHand, ServerOK
    <3> QED
      BY <1>1, <1>12, <3>1 DEF handle_seekto, clients
  <2> QED
    BY <2>1, <2>2
<1>13. ASSUME NEW c \in Conns, leave(c)
       PROVE  Goal
  <2>1. InHand(d)' = InHand(d)
    BY <1>0, <1>13 DEF leave, Goto, InHand, ServerOK
  <2> QED
    BY <1>1, <1>13, <2>1 DEF leave, clients, history
<1>14. ASSUME NEW c \in Conns, cleanup(c)
       PROVE  Goal
  <2>1. InHand(d)' = InHand(d)
    BY <1>0, <1>14 DEF cleanup, Goto, InHand, ServerOK
  <2> QED
    BY <1>1, <1>14, <2>1 DEF cleanup, clients, history
<1>15. CASE UNCHANGED vars
  BY <1>1, <1>15 DEF vars, threads, clients, history, InHand
<1> QED
  BY <1>2, <1>3, <1>4, <1>5, <1>6, <1>7, <1>8, <1>9, <1>10, <1>11, <1>12, <1>13,
     <1>14, <1>15
     DEF Next, main_step, recieve_text

\* However recv cuts the stream, the receive loop of recieve_text passes on
\* what the client sent, in order and once, unless the connection was reset,
\* seeked, lost a write, or sent a NUL: up to that the chunk is passed on, the
\* rest of it is not.
THEOREM TextIsPassedOn == Spec => []StoredIsWhatWasSent
<1>1. Init => StoredIsWhatWasSent
  <2> SUFFICES ASSUME Init, NEW c \in Conns
               PROVE  Accounted(c) = sent[c]
    BY AccountParts
  <2>1. StoredText(c) = FlattenSeq(TextsOf(c, << >>))
    BY DEF Init, WorldInit, StoredText, TextsOf
  <2>2. Len(TextsOf(c, << >>)) = 0 /\ TextsOf(c, << >>) = << >>
    BY EmptySeq DEF TextsOf
  <2>3. StoredText(c) = << >>
    BY <2>1, <2>2, FlattenEmpty
  <2>4. InHand(c) = << >> /\ sock[c] = << >> /\ sent[c] = << >>
    BY DEF Init, WorldInit, InHand
  <2>5. << >> \o << >> = << >>
    BY EmptySeq, ConcatEmptySeq
  <2> QED
    BY <2>3, <2>4, <2>5, Zenon DEF Accounted
<1>2. IInv /\ StoredIsWhatWasSent /\ [Next]_vars => StoredIsWhatWasSent'
  BY AccountStep
<1> QED
  BY <1>1, <1>2, Invariance, PTL DEF Spec

-----------------------------------------------------------------------------
(***************************************************************************)
(* Replies                                                                 *)
(***************************************************************************)

\* Only its own thread handles what a connection received, and only that
\* sends to its client.
LEMMA OwnThreadHandles ==
  ASSUME IInv, [Next]_vars, NEW c \in Conns,
         (pc[c] = "handle" /\ pc'[c] = "recv") \/ outbox'[c] # outbox[c]
  PROVE  handle_text(c) \/ handle_seekto(c)
<1>0. ServerOK /\ StoreOK
  BY DEF IInv
<1>1. ASSUME NEW d \in Conns, NEW label, pc' = [pc EXCEPT ![d] = label],
             outbox' = outbox, pc[d] # "handle"
      PROVE  FALSE
  BY <1>0, <1>1 DEF ServerOK
<1>2. ASSUME pc' = pc, outbox' = outbox
      PROVE  FALSE
  BY <1>2
<1>3. ASSUME NEW d \in Conns,
             Connect(d) \/ ClientSend(d) \/ ClientClose(d) \/ ClientReset(d)
      PROVE  FALSE
  BY <1>2, <1>3 DEF Connect, ClientSend, ClientClose, ClientReset, threads
<1>4. CASE setupsigaction \/ open_connection \/ start_daemon
  BY <1>2, <1>4
     DEF setupsigaction, open_connection, start_daemon, StartUp, threads, history
<1>5. CASE insert
  BY <1>2, <1>5 DEF insert, threads, history
<1>6. ASSUME NEW d \in Conns, NEW n \in Nodes, accept(d, n)
      PROVE  FALSE
  <2>1. \E label \in {"start", "failed"} : pc' = [pc EXCEPT ![d] = label]
    BY <1>6 DEF accept
  <2> QED
    BY <1>1, <1>6, <2>1 DEF accept, history
<1>7. CASE sigetrm_handler
  BY <1>2, <1>7 DEF sigetrm_handler, closeconnection, threads, history
<1>8. ASSUME NEW d \in Conns, accept_crash(d)
      PROVE  FALSE
  BY <1>2, <1>8 DEF accept_crash, threads, history
<1>9. ASSUME NEW d \in Conns, open_files(d)
      PROVE  FALSE
  <2>1. \E label : pc' = [pc EXCEPT ![d] = label]
    BY <1>9 DEF open_files, Goto
  <2> QED
    BY <1>1, <1>9, <2>1 DEF open_files, history
<1>10. ASSUME NEW d \in Conns, lock(d) \/ leave(d)
       PROVE  FALSE
  <2>1. \E label : pc' = [pc EXCEPT ![d] = label]
    BY <1>10 DEF lock, leave, Goto
  <2> QED
    BY <1>1, <1>10, <2>1 DEF lock, leave, history
<1>11. ASSUME NEW d \in Conns, recv(d)
       PROVE  FALSE
  <2>1. \E label : pc' = [pc EXCEPT ![d] = label]
    BY <1>11 DEF recv, Goto
  <2> QED
    BY <1>1, <1>11, <2>1 DEF recv
<1>12. ASSUME NEW d \in Conns, cleanup(d)
       PROVE  FALSE
  <2>1. pc' = pc \/ \E label : pc' = [pc EXCEPT ![d] = label]
    BY <1>12 DEF cleanup, Goto
  <2> QED
    BY <1>1, <1>2, <1>12, <2>1 DEF cleanup, history
<1>13. ASSUME NEW d \in Conns, d # c, handle_text(d)
       PROVE  FALSE
  <2>1. pc'[c] = pc[c]
    BY <1>0, <1>13 DEF handle_text, Goto, ServerOK
  <2>2. outbox' = outbox \/ \E text : outbox' = [outbox EXCEPT ![d] = @ \o text]
    <3>1. CASE sendfile(d)
      <4>1. StoreOK'
        BY <1>0, <1>13, StoreType DEF handle_text, savetofile, ServerOK
      <4> QED
        BY <1>0, <3>1, <4>1, SendfileSends DEF StoreOK, DeviceOK
    <3> QED
      BY <1>13, <3>1 DEF handle_text
  <2> QED
    BY <1>0, <1>13, <2>1, <2>2 DEF ServerOK
<1>14. ASSUME NEW d \in Conns, d # c, handle_seekto(d)
       PROVE  FALSE
  <2>1. pc'[c] = pc[c]
    BY <1>0, <1>14 DEF handle_seekto, Goto, ServerOK
  <2>2. outbox' = outbox \/ \E text : outbox' = [outbox EXCEPT ![d] = @ \o text]
    BY <1>0, <1>14, SeekSends DEF StoreOK, DeviceOK
  <2> QED
    BY <1>0, <1>14, <2>1, <2>2 DEF ServerOK
<1>15. CASE UNCHANGED vars
  BY <1>2, <1>15 DEF vars, threads, history
<1> QED
  BY <1>3, <1>4, <1>5, <1>6, <1>7, <1>8, <1>9, <1>10, <1>11, <1>12, <1>13, <1>14,
     <1>15
     DEF Next, main_step, recieve_text

\* A line that was not refused is the end of the content when it has been
\* written.
LEMMA LineIsStored ==
  ASSUME StoreOK, NEW c \in Conns, NEW text \in Seq(Byte), Store(c, text),
         Contains(text, NEWLINE), stored' # stored
  PROVE  IsSuffix(text, Content(circular_buffer'))
<1> DEFINE e == Extended(text)
           b == circular_buffer
           old == Bytes(entry)
<1>1. text # << >>
  BY EmptySeq DEF Contains
<1>2. /\ e \in Entry /\ e.size > 0 /\ e.size = Len(e.buffptr)
      /\ e.buffptr = old \o text /\ Bytes(e) = old \o text
  BY <1>1, ExtendedType
<1>3. old \in Seq(Byte)
  BY BytesType DEF StoreOK, DeviceOK
<1>5. circular_buffer' = aesd_circular_buffer_add_entry(b, e)
  <2>1. aesd_write(text)
    BY <1>1 DEF Store
  <2> QED
    BY <2>1, LineIsCommitted
<1>6. b \in Buffer /\ Consistent(b) /\ e.size <= Len(e.buffptr)
  BY <1>2 DEF StoreOK, DeviceOK, Entry
<1> HIDE DEF e, b
<1>7. PICK rest \in Seq(Byte) :
             Content(aesd_circular_buffer_add_entry(b, e)) = rest \o Bytes(e)
  BY <1>2, <1>6, ContentAdd
<1> HIDE DEF old
<1>8. rest \o old \in Seq(Byte) /\ rest \o (old \o text) = (rest \o old) \o text
  BY <1>3, ConcatProperties, ConcatAssociative, SMTT(30)
<1>9. Content(circular_buffer') = (rest \o old) \o text
  BY <1>2, <1>5, <1>7, <1>8, Zenon
<1>10. IsSuffix(text, (rest \o old) \o text)
  BY <1>8, ConcatEndsWith
<1> QED
  BY <1>9, <1>10, Zenon

\* The first reply of recieve_text to a client that is still there, when it
\* reaches the end of the device, is the whole content and ends with the text
\* just received, unless the write was refused.
THEOREM FirstReplyIsComplete == Spec => FirstReplyComplete
<1> DEFINE A == \A c \in Conns :
                  /\ pc[c] = "handle" /\ pc'[c] = "recv" /\ ~IsSeekto(buffer[c])
                  /\ Contains(buffer[c], NEWLINE) /\ sendpos[c] = 0 /\ ~eof[c] /\ eof'[c]
                  /\ peer[c] = "open" /\ stored' # stored
                  => /\ outbox'[c] = outbox[c] \o Content(circular_buffer')
                     /\ IsSuffix(buffer[c], Content(circular_buffer'))
<1>1. IInv /\ [Next]_vars => [A]_vars
  <2> SUFFICES ASSUME IInv, [Next]_vars, NEW c \in Conns,
                      pc[c] = "handle", pc'[c] = "recv", ~IsSeekto(buffer[c]),
                      Contains(buffer[c], NEWLINE), sendpos[c] = 0, ~eof[c], eof'[c],
                      peer[c] = "open", stored' # stored
               PROVE  /\ outbox'[c] = outbox[c] \o Content(circular_buffer')
                      /\ IsSuffix(buffer[c], Content(circular_buffer'))
    OBVIOUS
  <2>0. ServerOK /\ StoreOK /\ buffer[c] \in Seq(Byte)
    BY DEF IInv, ServerOK
  <2>1. handle_text(c)
    BY OwnThreadHandles DEF handle_seekto
  <2>2. Store(c, buffer[c]) /\ sendfile(c)
    BY <2>1 DEF handle_text, savetofile
  <2>3. StoreOK'
    BY <2>0, <2>2, StoreType
  <2> DEFINE s == Content(circular_buffer')
  <2>4. s \in Seq(Byte)
    BY <2>3, ContentType DEF StoreOK, DeviceOK
  <2>5. Reply(c) = s
    <3>1. Reply(c) = SubSeq(s, 1, Len(s))
      BY DEF Reply, From
    <3> HIDE DEF s
    <3> QED
      BY <2>4, <3>1, SubSeqFull
  <2>6. outbox' = [outbox EXCEPT ![c] = @ \o SubSeq(Reply(c), 1, Len(Reply(c)))]
    <3>1. sendpos[c] # NoStream
      BY DEF NoStream
    <3> QED
      BY <2>2, <3>1, Zenon DEF sendfile
  <2>7. outbox'[c] = outbox[c] \o SubSeq(s, 1, Len(s))
    BY <2>0, <2>5, <2>6 DEF ServerOK
  <2>8. outbox'[c] = outbox[c] \o s
    <3> HIDE DEF s
    <3> QED
      BY <2>4, <2>7, SubSeqFull
  <2> QED
    BY <2>0, <2>2, <2>8, LineIsStored
<1> QED
  BY <1>1, Invariance, PTL DEF Spec, FirstReplyComplete

\* A client that is answered after a seek gets the rest of the command it
\* named, from the offset that sscanf found in the chunk, and every later
\* command, as long as the ring has not wrapped: AESDCHAR_IOCSEEKTO and the
\* read loop behind it.  Where recv has cut the number, that offset is the one
\* the first digits make.
THEOREM SeekReplyIsTheCommand == Spec => SeekReplyIsCommand
<1> DEFINE b == circular_buffer
           w == WriteCmd
           named == Bytes(Log(b)[w + 1])
           later == FlattenSeq([i \in 1 .. Len(Log(b)) - w - 1 |->
                                  Bytes(Log(b)[w + 1 + i])])
           A == \A c \in Conns :
                  /\ pc[c] = "handle" /\ IsSeekto(buffer[c]) /\ peer[c] = "open"
                  /\ circular_buffer.out_offs = 0
                  /\ outbox'[c] # outbox[c]
                  => LET log == Log(circular_buffer)
                         cmd == Bytes(log[WriteCmd + 1])
                         at  == SeekOffset(buffer[c])
                     IN  /\ at < Len(cmd)
                         /\ outbox'[c] =
                              outbox[c]
                                \o SubSeq(cmd, at + 1, Len(cmd))
                                \o FlattenSeq([i \in 1 .. Len(log) - WriteCmd - 1 |->
                                                 Bytes(log[WriteCmd + 1 + i])])
<1>1. IInv /\ [Next]_vars => [A]_vars
  <2> SUFFICES ASSUME IInv, [Next]_vars, NEW c \in Conns,
                      pc[c] = "handle", IsSeekto(buffer[c]), peer[c] = "open",
                      b.out_offs = 0, outbox'[c] # outbox[c]
               PROVE  /\ SeekOffset(buffer[c]) < Len(named)
                      /\ outbox'[c] =
                           outbox[c]
                             \o SubSeq(named, SeekOffset(buffer[c]) + 1, Len(named))
                             \o later
    OBVIOUS
  <2> DEFINE off == SeekOffset(buffer[c])
             rest == SubSeq(named, off + 1, Len(named))
  <2> SUFFICES off < Len(named) /\ outbox'[c] = outbox[c] \o rest \o later
    OBVIOUS
  <2>0. /\ ServerOK /\ b \in Buffer /\ Consistent(b)
        /\ w \in Nat /\ off \in Nat /\ outbox[c] \in Seq(Byte)
    BY SeekOffsetType, AesdSocketAssumption DEF IInv, StoreOK, DeviceOK, ServerOK
  <2>1. handle_seekto(c)
    BY OwnThreadHandles DEF handle_text
  <2> DEFINE out == From(b, CommandStart(b, w) + off)
  <2>2. SeektoValid(b, w, off) /\ outbox' = [outbox EXCEPT ![c] = @ \o out]
    BY <2>1 DEF handle_seekto
  <2> HIDE DEF b, out, off
  <2>3. w < Occupied(b) /\ Occupied(b) \in 0 .. MAX_WRITE_OPERATIONS
    BY <2>0, <2>2, BreakAtEnd, OccupiedType DEF SeektoValid
  <2>4. w \in 0 .. Occupied(b) - 1 /\ w + 1 \in 1 .. Occupied(b) /\ w \in Slots
    BY <2>0, <2>3, MaxWriteOperationsAssumption DEF Slots
  <2>5. Log(b)[w + 1] = b.entry[w]
    <3>1. Log(b)[w + 1] = b.entry[Visited(b, (w + 1) - 1)]
      BY <2>0, <2>4, OccupiedType
    <3>2. Visited(b, (w + 1) - 1) = w
      <4>1. (w + 1) - 1 = w /\ 0 + w = w
        BY <2>0
      <4>2. w % MAX_WRITE_OPERATIONS = w
        BY <2>4, MaxWriteOperationsAssumption DEF Slots
      <4> QED
        BY <4>1, <4>2 DEF Visited
    <3> QED
      BY <3>1, <3>2
  <2>6. Len(named) = b.entry[w].size /\ named \in Seq(Byte)
    <3>1. b.entry[w] \in Entry /\ b.entry[w].size <= Len(b.entry[w].buffptr)
      BY <2>0, <2>4 DEF Buffer, Consistent
    <3> QED
      BY <2>5, <3>1, BytesType
  <2>7. off < Len(named) /\ off \in 0 .. Len(named)
    BY <2>0, <2>2, <2>6, LenProperties DEF SeektoValid
  <2>8. out = rest \o later
    BY <2>0, <2>4, <2>7, ContentFromCommand DEF From, out
  <2> HIDE DEF named
  <2>9. rest \in Seq(Byte)
    BY <2>6, <2>7, SequenceCut
  <2>10. later \in Seq(Byte)
    <3> DEFINE Q == Seq(Byte)
               m == Occupied(b)
    <3>1. Len(Commands(b)) = m /\ \A k \in 1 .. m : Bytes(Log(b)[k]) \in Q
      <4>1. \A k \in 1 .. m : /\ Log(b)[k] \in Entry
                              /\ Log(b)[k].size <= Len(Log(b)[k].buffptr)
        BY <2>0, CommandsType
      <4> QED
        BY <2>0, <4>1, CommandsType, BytesType
    <3>2. Len(Log(b)) = m
      BY <2>0, LogLength
    <3>3. m - w - 1 \in Nat /\ \A i \in 1 .. m - w - 1 : w + 1 + i \in 1 .. m
      BY <2>3, <2>4
    <3>4. \A i \in 1 .. m - w - 1 : Bytes(Log(b)[w + 1 + i]) \in Q
      BY <3>1, <3>3
    <3> HIDE DEF Q, m
    <3>5. [i \in 1 .. m - w - 1 |-> Bytes(Log(b)[w + 1 + i])] \in Seq(Q)
      BY <3>3, <3>4, IsASeq
    <3> QED
      BY <3>2, <3>5, FlattenType DEF Q
  <2> HIDE DEF rest, later
  <2>11. Associative(outbox[c], rest, later)
    BY <2>0, <2>9, <2>10, JoinAssociative
  <2>12. outbox'[c] = outbox[c] \o out
    BY <2>0, <2>2 DEF ServerOK
  <2>13. outbox'[c] = (outbox[c] \o rest) \o later
    BY <2>8, <2>11, <2>12, Zenon DEF Associative
  <2> QED
    BY <2>7, <2>13
<1> QED
  BY <1>1, Invariance, PTL DEF Spec, SeekReplyIsCommand

-----------------------------------------------------------------------------
(***************************************************************************)
(* The threads implement a serial server                                   *)
(***************************************************************************)

\* Every step leaves the device with the end of what was stored.
LEMMA EndStep ==
  ASSUME IInv, DeviceHoldsTheEnd, [Next]_vars
  PROVE  DeviceHoldsTheEnd'
<1>0. ServerOK /\ StoreOK
  BY DEF IInv
<1>1. ASSUME NEW c \in Conns, handle_text(c)
      PROVE  DeviceHoldsTheEnd'
  BY <1>0, <1>1, StoreKeepsEnd DEF handle_text, savetofile, ServerOK
<1>2. ASSUME NEW c \in Conns,
             \/ Connect(c) \/ ClientSend(c) \/ ClientClose(c) \/ ClientReset(c)
             \/ accept_crash(c) \/ open_files(c) \/ lock(c) \/ recv(c)
             \/ handle_seekto(c) \/ leave(c) \/ cleanup(c)
      PROVE  DeviceHoldsTheEnd'
  <2>1. UNCHANGED <<device, stored>>
    BY <1>2 DEF Connect, ClientSend, ClientClose, ClientReset, accept_crash,
                open_files, lock, recv, handle_seekto, leave, cleanup, history
  <2> QED
    BY <2>1, EndStays
<1>3. CASE \/ setupsigaction \/ open_connection \/ start_daemon \/ insert
           \/ sigetrm_handler \/ UNCHANGED vars
  <2>1. UNCHANGED <<device, stored>>
    BY <1>3 DEF setupsigaction, open_connection, start_daemon, StartUp, insert,
                sigetrm_handler, vars, history
  <2> QED
    BY <2>1, EndStays
<1>4. ASSUME NEW c \in Conns, NEW n \in Nodes, accept(c, n)
      PROVE  DeviceHoldsTheEnd'
  <2>1. UNCHANGED <<device, stored>>
    BY <1>4 DEF accept, history
  <2> QED
    BY <2>1, EndStays
<1> QED
  BY <1>1, <1>2, <1>3, <1>4 DEF Next, main_step, recieve_text

\* What is read from the device in one go is a stretch of what was stored.
LEMMA ReadsAreStretches ==
  ASSUME NEW log, NEW b \in Buffer, Consistent(b), NEW gone \in Seq(Byte),
         NEW rest \in Seq(Byte), IsJoin(AllText(log), gone, Content(b), rest),
         NEW pos \in Nat, NEW k \in 0 .. Len(From(b, pos))
  PROVE  \E i, j \in 0 .. Len(AllText(log)) :
           SubSeq(From(b, pos), 1, k) = SubSeq(AllText(log), i + 1, j)
<1>1. PICK x, y \in 0 .. Len(Content(b)) :
             SubSeq(From(b, pos), 1, k) = SubSeq(Content(b), x + 1, y)
  BY FromType
<1>2. Content(b) \in Seq(Byte)
  BY ContentType
<1> DEFINE C == Content(b)
           all == AllText(log)
<1> HIDE DEF C, all
<1>3. C \in Seq(Byte) /\ IsJoin(all, gone, C, rest)
      /\ x \in 0 .. Len(C) /\ y \in 0 .. Len(C)
  BY <1>2 DEF C, all
<1>4. \E i, j \in 0 .. Len(all) : SubSeq(C, x + 1, y) = SubSeq(all, i + 1, j)
  BY <1>3, StretchOfMiddle, SMTT(30)
<1> QED
  BY <1>1, <1>4 DEF C, all

\* The stream of the serial server is the text of everything stored.
LEMMA SameStream ==
  ASSUME NEW log
  PROVE  Serial!Stream(log) = AllText(log)
BY DEF Serial!Stream, AllText, FlattenSeq, Serial!FlattenSeq

\* The serial server's Front and Last are the usual ones.
LEMMA SameEnds ==
  ASSUME NEW log
  PROVE  Serial!Front(log) = Front(log) /\ Serial!Last(log) = Last(log)
BY DEF Serial!Front, Serial!Last, Front, Last

\* Sending such a stretch is an answer of the serial server, or nothing.
LEMMA SendingAnswers ==
  ASSUME ServerOK, NEW c \in Conns, NEW text,
         \E i, j \in 0 .. Len(AllText(stored')) :
           text = SubSeq(AllText(stored'), i + 1, j),
         outbox' = [outbox EXCEPT ![c] = @ \o text]
  PROVE  Serial!Answer(c) \/ outbox' = outbox
<1>1. CASE outbox'[c] = outbox[c]
  <2>1. outbox' = [outbox EXCEPT ![c] = outbox[c]]
    <3>1. outbox'[c] = outbox[c] \o text
      BY DEF ServerOK
    <3> QED
      BY <1>1, <3>1
  <2> QED
    BY <2>1 DEF ServerOK
<1>2. CASE outbox'[c] # outbox[c]
  <2>1. Serial!Stream(stored') = AllText(stored')
    BY SameStream
  <2> QED
    BY <1>2, <2>1 DEF Serial!Answer
<1> QED
  BY <1>1, <1>2

\* What one connection's thread does to the loop is what the serial server
\* sees of it: handle_text is Handle.
LEMMA HandleTextIsHandle ==
  ASSUME IInv, DeviceHoldsTheEnd', StoreOK', NEW c \in Conns, handle_text(c)
  PROVE  Serial!Handle(c)
<1>0. ServerOK /\ StoreOK /\ buffer[c] \in Seq(Byte)
  BY DEF IInv, ServerOK
<1>1. /\ pc[c] = "handle" /\ pc' = [pc EXCEPT ![c] = "recv"] /\ mutex' = mutex
      /\ Store(c, buffer[c])
      /\ sendfile(c) \/ UNCHANGED outbox
  BY DEF handle_text, savetofile, Goto
<1>2. mutex = c
  BY <1>1 DEF IInv, Turns, LockHeld, InLoop
<1>3. \/ stored' = stored
      \/ /\ stored' # << >> /\ stored = Front(stored')
         /\ Last(stored').conn = c
  <2>1. CASE stored' = Append(stored, [conn |-> c, text |-> buffer[c]])
    <3> DEFINE r == [conn |-> c, text |-> buffer[c]]
    <3>1. r \in Records /\ r.conn = c /\ stored \in Seq(Records)
      BY <1>0 DEF Records, StoreOK
    <3> HIDE DEF r
    <3>2. stored' = Append(stored, r)
      BY <2>1 DEF r
    <3>3. stored' # << >> /\ Front(stored') = stored /\ Last(stored') = r
      BY <3>1, <3>2, FrontOfAppend
    <3> QED
      BY <3>1, <3>3
  <2> QED
    BY <1>1, <2>1 DEF Store
<1>4. {d \in Conns : pc'[d] \in {"closing", "gone"}}
        = {d \in Conns : pc[d] \in {"closing", "gone"}}
  BY <1>0, <1>1 DEF ServerOK
<1>5. Serial!Answer(c) \/ outbox' = outbox
  <2>1. CASE outbox' = outbox
    BY <2>1
  <2>2. CASE /\ sendpos[c] \in Nat
             /\ \E k \in 0 .. Len(Reply(c)) :
                  outbox' = [outbox EXCEPT ![c] = @ \o SubSeq(Reply(c), 1, k)]
    <3>1. PICK k \in 0 .. Len(Reply(c)) :
                 outbox' = [outbox EXCEPT ![c] = @ \o SubSeq(Reply(c), 1, k)]
      BY <2>2
    <3>3. PICK gone \in Seq(Byte) :
                 IsJoin(AllText(stored'), gone, Content(circular_buffer'), Bytes(entry'))
      BY DEF DeviceHoldsTheEnd
    <3>4. /\ circular_buffer' \in Buffer /\ Consistent(circular_buffer')
          /\ Bytes(entry') \in Seq(Byte)
      BY BytesType DEF StoreOK, DeviceOK
    <3>5. \E i, j \in 0 .. Len(AllText(stored')) :
            SubSeq(Reply(c), 1, k) = SubSeq(AllText(stored'), i + 1, j)
      <4> DEFINE b    == circular_buffer'
                 rest == Bytes(entry')
                 log  == stored'
                 pos  == sendpos[c]
      <4>1. /\ b \in Buffer /\ Consistent(b) /\ rest \in Seq(Byte)
            /\ IsJoin(AllText(log), gone, Content(b), rest)
            /\ pos \in Nat /\ k \in 0 .. Len(From(b, pos))
        BY <2>2, <3>3, <3>4 DEF Reply
      <4>2. Reply(c) = From(b, pos)
        BY DEF Reply
      <4> SUFFICES \E i, j \in 0 .. Len(AllText(log)) :
                     SubSeq(Reply(c), 1, k) = SubSeq(AllText(log), i + 1, j)
        OBVIOUS
      <4> HIDE DEF b, rest, log, pos
      <4>3. \E i, j \in 0 .. Len(AllText(log)) :
              SubSeq(From(b, pos), 1, k) = SubSeq(AllText(log), i + 1, j)
        BY <4>1, ReadsAreStretches, SMTT(60)
      <4> QED
        BY <4>2, <4>3
    <3>6. Serial!Answer(c) \/ outbox' = outbox
      <4> DEFINE text == SubSeq(Reply(c), 1, k)
      <4>1. \E i, j \in 0 .. Len(AllText(stored')) :
              text = SubSeq(AllText(stored'), i + 1, j)
        BY <3>5
      <4>2. outbox' = [outbox EXCEPT ![c] = @ \o text]
        BY <3>1
      <4> HIDE DEF text
      <4> QED
        BY <1>0, <4>1, <4>2, SendingAnswers
    <3> QED
      BY <3>6
  <2>3. circular_buffer' \in Buffer /\ Consistent(circular_buffer')
    BY DEF StoreOK, DeviceOK
  <2> QED
    BY <1>0, <1>1, <2>1, <2>2, <2>3, SendfileSends
<1>6. \/ UNCHANGED stored
      \/ /\ stored' # << >> /\ stored = Serial!Front(stored')
         /\ Serial!Last(stored').conn = c
  <2>1. Serial!Front(stored') = Front(stored') /\ Serial!Last(stored') = Last(stored')
    BY SameEnds
  <2> QED
    BY <1>3, <2>1
<1>7. {d \in Conns : pc[d] \in {"closing", "gone"}}'
        = {d \in Conns : pc[d] \in {"closing", "gone"}}
  BY <1>4
<1> QED
  BY <1>1, <1>2, <1>5, <1>6, <1>7 DEF Serial!Handle

\* Of a seek command the serial server sees the answer, if there is one.
LEMMA HandleSeektoIsHandle ==
  ASSUME IInv, DeviceHoldsTheEnd, NEW c \in Conns, handle_seekto(c)
  PROVE  Serial!Handle(c)
<1>0. /\ ServerOK /\ circular_buffer \in Buffer /\ Consistent(circular_buffer)
      /\ Bytes(entry) \in Seq(Byte)
  BY BytesType DEF IInv, StoreOK, DeviceOK
<1>1. /\ pc[c] = "handle" /\ pc' = [pc EXCEPT ![c] = "recv"]
      /\ UNCHANGED <<mutex, stored>>
  BY DEF handle_seekto, Goto
<1>2. mutex = c
  BY <1>1 DEF IInv, Turns, LockHeld, InLoop
<1>3. {d \in Conns : pc[d] \in {"closing", "gone"}}'
        = {d \in Conns : pc[d] \in {"closing", "gone"}}
  BY <1>0, <1>1 DEF ServerOK
<1>4. Serial!Answer(c) \/ outbox' = outbox
  <2>1. CASE outbox' = outbox
    BY <2>1
  <2>2. CASE \E pos \in Nat : \E k \in 0 .. Len(From(circular_buffer, pos)) :
               outbox' =
                 [outbox EXCEPT ![c] = @ \o SubSeq(From(circular_buffer, pos), 1, k)]
    <3>0. PICK pos \in Nat :
             \E k \in 0 .. Len(From(circular_buffer, pos)) :
               outbox' =
                 [outbox EXCEPT ![c] = @ \o SubSeq(From(circular_buffer, pos), 1, k)]
      BY <2>2
    <3>1. PICK k \in 0 .. Len(From(circular_buffer, pos)) :
                 outbox' =
                   [outbox EXCEPT ![c] = @ \o SubSeq(From(circular_buffer, pos), 1, k)]
      BY <3>0
    <3>2. PICK gone \in Seq(Byte) :
                 IsJoin(AllText(stored), gone, Content(circular_buffer), Bytes(entry))
      BY DEF DeviceHoldsTheEnd
    <3> DEFINE text == SubSeq(From(circular_buffer, pos), 1, k)
               rest == Bytes(entry)
    <3>3. rest \in Seq(Byte) /\ IsJoin(AllText(stored), gone, Content(circular_buffer), rest)
      BY <1>0, <3>2
    <3> HIDE DEF rest
    <3>4. \E i, j \in 0 .. Len(AllText(stored)) :
            text = SubSeq(AllText(stored), i + 1, j)
      BY <1>0, <3>3, ReadsAreStretches
    <3>5. \E i, j \in 0 .. Len(AllText(stored')) :
            text = SubSeq(AllText(stored'), i + 1, j)
      BY <1>1, <3>4
    <3>6. outbox' = [outbox EXCEPT ![c] = @ \o text]
      BY <3>1
    <3> HIDE DEF text
    <3> QED
      BY <1>0, <3>5, <3>6, SendingAnswers
  <2> QED
    BY <1>0, <2>1, <2>2, SeekSends
<1> QED
  BY <1>1, <1>2, <1>3, <1>4 DEF Serial!Handle

\* pthread_mutex_lock is where the service of a connection begins.
LEMMA LockIsServe ==
  ASSUME IInv, NEW c \in Conns, lock(c)
  PROVE  Serial!Serve(c)
<1>0. /\ ServerOK /\ pc[c] = "locking" /\ pc' = [pc EXCEPT ![c] = "recv"]
      /\ mutex = NoConn /\ mutex' = c /\ UNCHANGED <<stored, outbox>>
  BY DEF IInv, lock, LockMutex, Goto, history
<1>1. {d \in Conns : pc[d] \in {"closing", "gone"}}'
        = {d \in Conns : pc[d] \in {"closing", "gone"}}
  BY <1>0 DEF ServerOK
<1> QED
  BY <1>0, <1>1 DEF Serial!Serve

\* pthread_mutex_unlock is where it ends.
LEMMA LeaveIsLeave ==
  ASSUME IInv, NEW c \in Conns, leave(c)
  PROVE  Serial!Leave(c)
<1>0. /\ ServerOK /\ pc[c] = "last" /\ pc' = [pc EXCEPT ![c] = "closing"]
      /\ mutex' = NoConn /\ UNCHANGED <<stored, outbox>>
  BY DEF IInv, leave, UnlockMutex, Goto, history
<1>1. mutex = c
  BY <1>0 DEF IInv, Turns, LockHeld, InLoop
<1>2. {d \in Conns : pc[d] \in {"closing", "gone"}}'
        = {d \in Conns : pc[d] \in {"closing", "gone"}} \union {c}
  BY <1>0 DEF ServerOK
<1> QED
  BY <1>0, <1>1, <1>2 DEF Serial!Leave

\* The serial server sees nothing of a thread that does not cross the end of
\* its loop.
LEMMA UnseenMove ==
  ASSUME ServerOK, NEW c \in Conns, NEW label \in Labels,
         pc' = [pc EXCEPT ![c] = label],
         pc[c] \in {"closing", "gone"} <=> label \in {"closing", "gone"},
         UNCHANGED <<mutex, stored, outbox>>
  PROVE  UNCHANGED Serial!vars
<1>1. {d \in Conns : pc[d] \in {"closing", "gone"}}'
        = {d \in Conns : pc[d] \in {"closing", "gone"}}
  BY DEF ServerOK
<1> QED
  BY <1>1 DEF Serial!vars

\* It sees nothing of what leaves the threads alone, either.
LEMMA UnseenRest ==
  ASSUME UNCHANGED <<pc, mutex, stored, outbox>>
  PROVE  UNCHANGED Serial!vars
<1>1. {d \in Conns : pc[d] \in {"closing", "gone"}}'
        = {d \in Conns : pc[d] \in {"closing", "gone"}}
  OBVIOUS
<1> QED
  BY <1>1 DEF Serial!vars

\* Every step of the server is one of the serial server, or is not seen.
LEMMA SerialStep ==
  ASSUME IInv, IInv', DeviceHoldsTheEnd, DeviceHoldsTheEnd', [Next]_vars
  PROVE  [Serial!Next]_(Serial!vars)
<1>0. ServerOK
  BY DEF IInv
<1>1. ASSUME NEW c \in Conns, handle_text(c)
      PROVE  [Serial!Next]_(Serial!vars)
  <2>1. StoreOK'
    BY DEF IInv
  <2>2. Serial!Handle(c)
    BY <1>1, <2>1, HandleTextIsHandle
  <2> QED
    BY <2>2 DEF Serial!Next
<1>2. ASSUME NEW c \in Conns, handle_seekto(c)
      PROVE  [Serial!Next]_(Serial!vars)
  BY <1>2, HandleSeektoIsHandle DEF Serial!Next
<1>3. ASSUME NEW c \in Conns, lock(c)
      PROVE  [Serial!Next]_(Serial!vars)
  BY <1>3, LockIsServe DEF Serial!Next
<1>4. ASSUME NEW c \in Conns, leave(c)
      PROVE  [Serial!Next]_(Serial!vars)
  BY <1>4, LeaveIsLeave DEF Serial!Next
<1>5. ASSUME NEW c \in Conns, open_files(c)
      PROVE  [Serial!Next]_(Serial!vars)
  <2>1. PICK label \in {"failed", "locking"} : pc' = [pc EXCEPT ![c] = label]
    BY <1>5 DEF open_files, Goto
  <2>2. pc[c] = "start" /\ UNCHANGED <<mutex, stored, outbox>>
    BY <1>5 DEF open_files, history
  <2> QED
    BY <1>0, <2>1, <2>2, UnseenMove DEF Labels
<1>6. ASSUME NEW c \in Conns, recv(c)
      PROVE  [Serial!Next]_(Serial!vars)
  <2>1. PICK label \in {"handle", "last"} : pc' = [pc EXCEPT ![c] = label]
    BY <1>6 DEF recv, Goto
  <2>2. pc[c] = "recv" /\ UNCHANGED <<mutex, stored, outbox>>
    BY <1>6 DEF recv
  <2> QED
    BY <1>0, <2>1, <2>2, UnseenMove DEF Labels
<1>7. ASSUME NEW c \in Conns, cleanup(c)
      PROVE  [Serial!Next]_(Serial!vars)
  <2>1. pc[c] = "closing" /\ UNCHANGED <<mutex, stored, outbox>>
    BY <1>7 DEF cleanup, history
  <2>2. CASE pc' = [pc EXCEPT ![c] = "gone"]
    BY <1>0, <2>1, <2>2, UnseenMove DEF Labels
  <2>3. CASE pc' = pc
    BY <2>1, <2>3, UnseenRest
  <2> QED
    BY <1>7, <2>2, <2>3 DEF cleanup, Goto
<1>8. ASSUME NEW c \in Conns, NEW n \in Nodes, accept(c, n)
      PROVE  [Serial!Next]_(Serial!vars)
  <2>1. PICK label \in {"start", "failed"} : pc' = [pc EXCEPT ![c] = label]
    BY <1>8 DEF accept
  <2>2. pc[c] = "none" /\ UNCHANGED <<mutex, stored, outbox>>
    BY <1>8 DEF accept, history
  <2> QED
    BY <1>0, <2>1, <2>2, UnseenMove DEF Labels
<1>9. CASE \/ \E c \in Conns : \/ Connect(c) \/ ClientSend(c) \/ ClientClose(c)
                               \/ ClientReset(c) \/ accept_crash(c)
           \/ setupsigaction \/ open_connection \/ start_daemon \/ insert
           \/ sigetrm_handler \/ UNCHANGED vars
  <2>1. UNCHANGED <<pc, mutex, stored, outbox>>
    BY <1>9 DEF Connect, ClientSend, ClientClose, ClientReset, accept_crash,
                setupsigaction, open_connection, start_daemon, StartUp, insert,
                sigetrm_handler, closeconnection, vars, threads, history
  <2> QED
    BY <2>1, UnseenRest
<1> QED
  BY <1>1, <1>2, <1>3, <1>4, <1>5, <1>6, <1>7, <1>8, <1>9
  DEF Next, main_step, recieve_text

\* The threads of recieve_text together are a server that handles one
\* connection at a time, each once, and sends nothing but unbroken stretches
\* of what was stored, and those only to the client in service.
THEOREM Refinement == Spec => ImplementsSerialServer
<1>1. Init => Serial!Init
  BY DEF Init, WorldInit, Serial!Init
<1>2. Init => DeviceHoldsTheEnd
  BY EndAtStart DEF Init
<1>3. IInv /\ DeviceHoldsTheEnd /\ [Next]_vars => DeviceHoldsTheEnd'
  BY EndStep
<1>4. /\ IInv /\ IInv' /\ DeviceHoldsTheEnd /\ DeviceHoldsTheEnd'
      /\ [Next]_vars
      => [Serial!Next]_(Serial!vars)
  BY SerialStep
<1> QED
  BY <1>1, <1>2, <1>3, <1>4, Invariance, PTL
  DEF Spec, ImplementsSerialServer, Serial!Spec

=============================================================================
