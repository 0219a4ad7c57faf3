------------------------- MODULE ServerWorldProofs -------------------------
(***************************************************************************)
(* What the proofs about the two socket servers share: what a client, a    *)
(* recv and a write to the device do to the types, to the ring and to the  *)
(* text stored for a connection.                                           *)
(***************************************************************************)
EXTENDS ServerWorld, CircularBufferProofs

\* The device is as aesd_write leaves it: the ring is in step with itself and
\* the unfinished command fits its block.
DeviceOK ==
  /\ Consistent(circular_buffer)
  /\ entry.size <= Len(entry.buffptr)

\* WorldTypeOK, by who changes what
ClientsOK ==
  /\ sock \in [Conns -> Seq(Byte)] /\ sent \in [Conns -> Seq(Byte)]
  /\ peer \in [Conns -> {"none", "open", "closed", "reset"}]

Records == [conn : Conns, text : Seq(Byte)]

StoreOK ==
  /\ circular_buffer \in Buffer /\ entry \in Entry
  /\ stored \in Seq(Records)
  /\ upset \subseteq Conns
  /\ DeviceOK

\* The two parts together are the type invariant and the state of the device.
LEMMA WorldParts == WorldTypeOK /\ DeviceOK <=> ClientsOK /\ StoreOK
  BY DEF WorldTypeOK, ClientsOK, StoreOK, Records

\* Before anything has happened there is nothing stored and nothing to send.
LEMMA WorldStart ==
  ASSUME WorldInit
  PROVE  ClientsOK /\ StoreOK
<1>1. << >> \in Seq(Byte) /\ << >> \in Seq(Records)
  BY EmptySeq
<1>2. ClientsOK
  BY <1>1 DEF ClientsOK, WorldInit
<1>3. entry \in Entry /\ entry.size <= Len(entry.buffptr)
  BY <1>1, EmptySeq DEF WorldInit, NoEntry, Entry, NULL
<1>4. circular_buffer \in Buffer /\ Consistent(circular_buffer)
  BY InitType, InitConsistent DEF WorldInit
<1> QED
  BY <1>1, <1>2, <1>3, <1>4 DEF StoreOK, DeviceOK, WorldInit

\* Nothing happened to the clients, or to the device and its history.
LEMMA WorldStays ==
  /\ ClientsOK /\ UNCHANGED clients => ClientsOK'
  /\ StoreOK /\ UNCHANGED <<device, stored, upset>> => StoreOK'
  BY DEF ClientsOK, StoreOK, DeviceOK, clients, device

\* A connection that was reset is upset until recv reports the error, and
\* ever after.
ResetIsUpset == \A c \in Conns : peer[c] = "reset" => c \in upset

-----------------------------------------------------------------------------
(***************************************************************************)
(* Clients and recv                                                        *)
(***************************************************************************)

\* What a client does on its side of the connection.
LEMMA ClientStepType ==
  ASSUME ClientsOK, upset \subseteq Conns, NEW c \in Conns,
         ClientConnects(c) \/ ClientSends(c) \/ ClientCloses(c) \/ ClientResets(c)
  PROVE  ClientsOK' /\ upset' \subseteq Conns
<1> USE DEF ClientsOK
<1>1. CASE ClientConnects(c)
  BY <1>1 DEF ClientConnects
<1>2. CASE ClientSends(c)
  <2>1. PICK m \in Messages : /\ sock' = [sock EXCEPT ![c] = @ \o m]
                              /\ sent' = [sent EXCEPT ![c] = @ \o m]
    BY <1>2 DEF ClientSends
  <2>2. m \in Seq(Byte)
    BY ServerWorldAssumption
  <2>3. sock[c] \o m \in Seq(Byte) /\ sent[c] \o m \in Seq(Byte)
    BY <2>2, ConcatProperties
  <2> QED
    BY <1>2, <2>1, <2>3 DEF ClientSends
<1>3. CASE ClientCloses(c)
  BY <1>3 DEF ClientCloses
<1>4. CASE ClientResets(c)
  <2>1. PICK k \in 0 .. Len(sock[c]) : sock' = [sock EXCEPT ![c] = SubSeq(@, 1, k)]
    BY <1>4 DEF ClientResets
  <2>2. SubSeq(sock[c], 1, k) \in Seq(Byte)
    <3>1. sock[c] \in Seq(Byte) /\ Len(sock[c]) \in Nat
      BY LenProperties
    <3>2. \A i \in 1 .. k : sock[c][i] \in Byte
      BY <3>1, ElementOfSeq
    <3> QED
      BY <3>1, <3>2, SubSeqProperties
  <2> QED
    BY <1>4, <2>1, <2>2 DEF ClientResets
<1> QED
  BY <1>1, <1>2, <1>3, <1>4

\* The C string at the start of a piece of memory is made of pieces, and is
\* all of it when there is no NUL.
LEMMA StringType ==
  ASSUME NEW memory \in Seq(Byte)
  PROVE  /\ String(memory) \in Seq(Byte)
         /\ (\A i \in 1 .. Len(memory) : memory[i] # NUL) => String(memory) = memory
<1> DEFINE ends == {i \in DOMAIN memory : memory[i] = NUL}
<1>1. /\ Len(memory) \in Nat /\ DOMAIN memory = 1 .. Len(memory)
      /\ \A i \in 1 .. Len(memory) : memory[i] \in Byte
  BY LenProperties, ElementOfSeq
<1>2. CASE ends = {}
  BY <1>2 DEF String
<1>3. CASE ends # {}
  <2> DEFINE e == Min(ends)
             l == e - 1
  <2>1. ends \subseteq Nat /\ ends \subseteq 1 .. Len(memory)
    BY <1>1
  <2>2. ~ \A i \in 1 .. Len(memory) : memory[i] # NUL
    BY <1>1, <1>3
  <2>3. String(memory) = SubSeq(memory, 1, l)
    BY <1>3 DEF String
  <2> HIDE DEF ends
  <2>4. e \in ends
    BY <1>3, <2>1, MinOfNaturals
  <2>5. e \in 1 .. Len(memory)
    BY <2>1, <2>4
  <2> HIDE DEF e
  <2>6. l \in Int /\ \A i \in 1 .. l : memory[i] \in Byte
    BY <1>1, <2>5
  <2> HIDE DEF l
  <2>7. SubSeq(memory, 1, l) \in Seq(Byte)
    BY <2>6, SubSeqProperties
  <2> QED
    BY <2>2, <2>3, <2>7
<1> QED
  BY <1>2, <1>3

\* A recv with data takes the first k pieces off the connection.  Unless the
\* connection is upset by it there is no NUL among them.
LEMMA ArrivedTakes ==
  ASSUME ClientsOK, NEW c \in Conns, NEW k, Arrived(c, k)
  PROVE  /\ ClientsOK'
         /\ k \in 1 .. MAXBUFFER /\ k <= Len(sock[c])
         /\ SubSeq(sock[c], 1, k) \in Seq(Byte) /\ Len(SubSeq(sock[c], 1, k)) = k
         /\ SubSeq(sock[c], 1, k) \o sock'[c] = sock[c]
         /\ \A d \in Conns : d # c => sock'[d] = sock[d]
         /\ upset \subseteq upset' /\ (upset \subseteq Conns => upset' \subseteq Conns)
         /\ \/ c \in upset'
            \/ \A i \in 1 .. k : SubSeq(sock[c], 1, k)[i] # NUL
<1>1. sock[c] \in Seq(Byte) /\ Len(sock[c]) \in Nat /\ MAXBUFFER \in Nat
  BY LenProperties, ServerWorldAssumption DEF ClientsOK
<1>2. k \in 1 .. Len(sock[c]) /\ k \in 1 .. MAXBUFFER
  BY <1>1, MinOfTwo DEF Arrived
<1>3. /\ SubSeq(sock[c], 1, k) \in Seq(Byte) /\ Len(SubSeq(sock[c], 1, k)) = k
      /\ SubSeq(sock[c], k + 1, Len(sock[c])) \in Seq(Byte)
      /\ SubSeq(sock[c], 1, k) \o SubSeq(sock[c], k + 1, Len(sock[c])) = sock[c]
  BY <1>1, <1>2, SequenceCut
<1>4. sock' = [sock EXCEPT ![c] = SubSeq(sock[c], k + 1, Len(sock[c]))]
  BY DEF Arrived
<1>5. /\ sock'[c] = SubSeq(sock[c], k + 1, Len(sock[c]))
      /\ \A d \in Conns : d # c => sock'[d] = sock[d]
  BY <1>4 DEF ClientsOK
<1>6. ClientsOK'
  BY <1>3, <1>4 DEF ClientsOK, Arrived
<1>7. upset \subseteq upset' /\ (upset \subseteq Conns => upset' \subseteq Conns)
  BY DEF Arrived
<1>8. c \in upset' \/ ~ Contains(SubSeq(sock[c], 1, k), NUL)
  BY DEF Arrived
<1>9. c \in upset' \/ \A i \in 1 .. k : SubSeq(sock[c], 1, k)[i] # NUL
  <2> DEFINE chunk == SubSeq(sock[c], 1, k)
  <2>1. chunk \in Seq(Byte) /\ Len(chunk) = k
    BY <1>3
  <2> SUFFICES ASSUME ~ Contains(chunk, NUL) PROVE \A i \in 1 .. k : chunk[i] # NUL
    BY <1>8
  <2> HIDE DEF chunk
  <2> QED
    BY <2>1 DEF Contains
<1> QED
  BY <1>1, <1>2, <1>3, <1>5, <1>6, <1>7, <1>9

\* A recv without data leaves the connection as it is, but for the error.
LEMMA NothingTaken ==
  ASSUME ClientsOK, NEW c \in Conns, Ended(c) \/ Failed(c)
  PROVE  ClientsOK' /\ sock' = sock /\ sent' = sent /\ upset' = upset
  BY DEF ClientsOK, Ended, Failed, clients

\* What sscanf reads from a seek command is a number.
LEMMA SeekOffsetType ==
  ASSUME NEW text \in Seq(Byte), IsSeekto(text)
  PROVE  SeekOffset(text) \in Nat
<1> DEFINE ends == {i \in 1 .. Len(text) : SubSeq(text, 2, i) \in DOMAIN Number}
<1>1. Len(text) \in Nat /\ Len(text) # 0
  BY LenProperties, EmptySeq DEF IsSeekto
<1>2. SubSeq(text, 2, 1) = << >>
  BY SubSeqEmpty
<1>3. 1 \in ends /\ ends \subseteq 0 .. Len(text)
  <2>1. << >> \in DOMAIN Number /\ 1 \in 1 .. Len(text)
    BY <1>1, ServerWorldAssumption
  <2>2. SubSeq(text, 2, 1) \in DOMAIN Number
    BY <1>2, <2>1
  <2>3. 1 .. Len(text) \subseteq 0 .. Len(text)
    BY <1>1
  <2> QED
    BY <2>1, <2>2, <2>3
<1>4. Max(ends) \in ends
  <2> HIDE DEF ends
  <2> QED
    BY <1>1, <1>3, MaxOfNaturals
<1>5. SubSeq(text, 2, Max(ends)) \in DOMAIN Number
  BY <1>4
<1>6. SeekOffset(text) = Number[SubSeq(text, 2, Max(ends))]
  BY DEF SeekOffset
<1> HIDE DEF ends
<1> QED
  BY <1>5, <1>6, ServerWorldAssumption

-----------------------------------------------------------------------------
(***************************************************************************)
(* Writes to the device                                                    *)
(***************************************************************************)

\* krealloc and the copy behind what is there.
LEMMA ExtendedType ==
  ASSUME StoreOK, NEW text \in Seq(Byte), text # << >>
  PROVE  /\ Extended(text) \in Entry
         /\ Extended(text).size > 0
         /\ Extended(text).size = Len(Extended(text).buffptr)
         /\ Extended(text).buffptr = Bytes(entry) \o text
         /\ Bytes(Extended(text)) = Bytes(entry) \o text
<1> DEFINE old == Bytes(entry)
           all == old \o text
<1>1. old \in Seq(Byte) /\ Len(old) = entry.size /\ entry.size \in Nat
  BY BytesType DEF StoreOK, DeviceOK, Entry
<1>2. Len(text) \in Nat \ {0}
  BY EmptySeq
<1> HIDE DEF old
<1>3. all \in Seq(Byte) /\ Len(all) = entry.size + Len(text)
  BY <1>1, ConcatProperties
<1>4. Extended(text) = [buffptr |-> all, size |-> entry.size + Len(text)]
  BY DEF Extended, old
<1> HIDE DEF all
<1>5. /\ Extended(text) \in Entry /\ Extended(text).size > 0
      /\ Extended(text).size = Len(Extended(text).buffptr)
      /\ Extended(text).buffptr = all
  BY <1>1, <1>2, <1>3, <1>4 DEF Entry
<1>6. SubSeq(all, 1, Len(all)) = all
  BY <1>3, SubSeqFull
<1>7. Bytes(Extended(text)) = all
  BY <1>5, <1>6 DEF Bytes
<1> QED
  BY <1>5, <1>7 DEF all, old

\* aesd_write keeps the ring in step with itself.
LEMMA WriteKeepsDevice ==
  ASSUME StoreOK, NEW text \in Seq(Byte), text # << >>, aesd_write(text)
  PROVE  circular_buffer' \in Buffer /\ entry' \in Entry /\ DeviceOK'
<1> DEFINE e == Extended(text)
<1>1. e \in Entry /\ e.size > 0 /\ e.size = Len(e.buffptr)
  BY ExtendedType
<1>2. circular_buffer \in Buffer /\ entry \in Entry /\ Consistent(circular_buffer)
  BY DEF StoreOK, DeviceOK
<1>3. /\ aesd_circular_buffer_add_entry(circular_buffer, e) \in Buffer
      /\ Consistent(aesd_circular_buffer_add_entry(circular_buffer, e))
  <2> HIDE DEF e
  <2>1. e.size <= Len(e.buffptr)
    BY <1>1 DEF Entry
  <2> QED
    BY <1>1, <1>2, <2>1, AddEntryType, AddEntryConsistent
<1>4. NoEntry \in Entry /\ NoEntry.size <= Len(NoEntry.buffptr)
  BY EmptySeq DEF NoEntry, Entry, NULL
<1>5. CASE /\ circular_buffer' = aesd_circular_buffer_add_entry(circular_buffer, e)
           /\ entry' = NoEntry
  BY <1>3, <1>4, <1>5 DEF DeviceOK
<1>6. CASE circular_buffer' = circular_buffer /\ entry' = e
  <2> HIDE DEF e
  <2> QED
    BY <1>1, <1>2, <1>6 DEF DeviceOK, Entry
<1> QED
  BY <1>5, <1>6 DEF aesd_write

\* savetofile keeps the types and the ring.
LEMMA StoreType ==
  ASSUME StoreOK, NEW c \in Conns, NEW text \in Seq(Byte), Store(c, text)
  PROVE  StoreOK'
<1>1. CASE /\ text # << >> /\ aesd_write(text)
           /\ stored' = Append(stored, [conn |-> c, text |-> text])
           /\ UNCHANGED upset
  <2>1. [conn |-> c, text |-> text] \in Records
    BY DEF Records
  <2>2. stored' \in Seq(Records)
    BY <1>1, <2>1, AppendProperties DEF StoreOK
  <2> QED
    BY <1>1, <2>2, WriteKeepsDevice DEF StoreOK
<1>2. CASE UNCHANGED <<device, stored>> /\ upset' \subseteq Conns
  BY <1>2 DEF StoreOK, DeviceOK, device
<1> QED
  BY <1>1, <1>2 DEF Store, StoreOK

\* A text with a newline in it ends the command.
LEMMA LineIsCommitted ==
  ASSUME StoreOK, NEW text \in Seq(Byte), aesd_write(text), Contains(text, NEWLINE)
  PROVE  /\ text # << >>
         /\ circular_buffer' =
              aesd_circular_buffer_add_entry(circular_buffer, Extended(text))
         /\ entry' = NoEntry
<1> DEFINE e == Extended(text)
           old == Bytes(entry)
<1>1. text # << >>
  BY EmptySeq DEF Contains
<1>2. e.buffptr = old \o text
  BY <1>1, ExtendedType
<1>3. old \in Seq(Byte)
  BY BytesType DEF StoreOK, DeviceOK
<1>4. Contains(e.buffptr, NEWLINE)
  <2>1. PICK i \in 1 .. Len(text) : text[i] = NEWLINE
    BY DEF Contains
  <2> HIDE DEF e, old
  <2>2. (old \o text)[Len(old) + i] = NEWLINE
    BY <1>3, <2>1, ConcatRight
  <2>3. Len(old) + i \in 1 .. Len(old \o text)
    BY <1>3, ConcatProperties, LenProperties
  <2> QED
    BY <1>2, <2>2, <2>3 DEF Contains
<1> HIDE DEF e
<1> QED
  BY <1>1, <1>4 DEF aesd_write, e

-----------------------------------------------------------------------------
(***************************************************************************)
(* The text stored for a connection                                        *)
(***************************************************************************)

\* the chunks of log, those of other connections left empty
TextsOf(c, log) ==
  [i \in 1 .. Len(log) |-> IF log[i].conn = c THEN log[i].text ELSE << >>]

\* The chunks are sequences of pieces.
LEMMA TextsType ==
  ASSUME NEW log \in Seq(Records), NEW c
  PROVE  /\ TextsOf(c, log) \in Seq(Seq(Byte))
         /\ FlattenSeq(TextsOf(c, log)) \in Seq(Byte)
<1> DEFINE Q == Seq(Byte)
<1>1. << >> \in Q
  BY EmptySeq
<1>2. Len(log) \in Nat /\ \A i \in 1 .. Len(log) : log[i] \in Records
  BY LenProperties, ElementOfSeq
<1>3. \A i \in 1 .. Len(log) : (IF log[i].conn = c THEN log[i].text ELSE << >>) \in Q
  BY <1>1, <1>2 DEF Records
<1> HIDE DEF Q
<1>4. TextsOf(c, log) \in Seq(Q)
  BY <1>2, <1>3, IsASeq DEF TextsOf
<1> QED
  BY <1>4, FlattenType DEF Q

\* One more chunk.
LEMMA TextsAppend ==
  ASSUME NEW log \in Seq(Records), NEW c, NEW r \in Records
  PROVE  FlattenSeq(TextsOf(c, Append(log, r))) =
           FlattenSeq(TextsOf(c, log)) \o (IF r.conn = c THEN r.text ELSE << >>)
<1> DEFINE t == TextsOf(c, log)
           x == IF r.conn = c THEN r.text ELSE << >>
           u == TextsOf(c, Append(log, r))
           Q == Seq(Byte)
<1>1. t \in Seq(Q) /\ u \in Seq(Q)
  BY TextsType, AppendProperties
<1>2. x \in Q
  BY EmptySeq DEF Records
<1>3. /\ Len(log) \in Nat /\ Append(log, r) \in Seq(Records)
      /\ Len(Append(log, r)) = Len(log) + 1
      /\ \A i \in 1 .. Len(log) : Append(log, r)[i] = log[i]
      /\ Append(log, r)[Len(log) + 1] = r
  BY AppendProperties, LenProperties
<1>4. t = [i \in 1 .. Len(log) |-> IF log[i].conn = c THEN log[i].text ELSE << >>]
  BY DEF TextsOf
<1>5. u = [i \in 1 .. Len(log) + 1 |->
             IF Append(log, r)[i].conn = c THEN Append(log, r)[i].text ELSE << >>]
  BY <1>3 DEF TextsOf
<1>6. Len(t) = Len(log) /\ Len(u) = Len(log) + 1
  <2> HIDE DEF Q, t, u
  <2> QED
    BY <1>1, <1>3, <1>4, <1>5, LenProperties
<1>7. /\ \A i \in 1 .. Len(log) : u[i] = t[i]
      /\ u[Len(log) + 1] = x
  <2> HIDE DEF Q, t, u
  <2> QED
    BY <1>3, <1>4, <1>5
<1>8. u = Append(t, x)
  <2> HIDE DEF Q, t, u, x
  <2>1. /\ Append(t, x) \in Seq(Q) /\ Len(Append(t, x)) = Len(log) + 1
        /\ \A i \in 1 .. Len(log) : Append(t, x)[i] = t[i]
        /\ Append(t, x)[Len(log) + 1] = x
    BY <1>1, <1>2, <1>6, AppendProperties
  <2>2. \A i \in 1 .. Len(u) : u[i] = Append(t, x)[i]
    BY <1>3, <1>6, <1>7, <2>1
  <2> QED
    BY <1>1, <1>6, <2>1, <2>2, SeqEqual
<1> HIDE DEF t, u, x
<1>9. FlattenSeq(Append(t, x)) = FlattenSeq(t) \o x
  BY <1>1, <1>2, FlattenAppend DEF Q
<1> QED
  BY <1>8, <1>9 DEF t, u, x

\* savetofile adds its text to what is stored for its connection, or the
\* connection is upset, and what is stored for others stays.
LEMMA StoreAdds ==
  ASSUME StoreOK, NEW c \in Conns, NEW text \in Seq(Byte), Store(c, text)
  PROVE  /\ upset \subseteq upset'
         /\ StoredText(c)' = StoredText(c) \o text \/ c \in upset'
         /\ \A d \in Conns : d # c => StoredText(d)' = StoredText(d)
         /\ StoredText(c)' \in {StoredText(c), StoredText(c) \o text}
         /\ \A d \in Conns : StoredText(d) \in Seq(Byte)
<1>1. \A d \in Conns : StoredText(d) = FlattenSeq(TextsOf(d, stored))
  BY DEF StoredText, TextsOf
<1>2. \A d \in Conns : StoredText(d)' = FlattenSeq(TextsOf(d, stored'))
  BY DEF StoredText, TextsOf
<1>3. \A d \in Conns : StoredText(d) \in Seq(Byte)
  BY <1>1, TextsType DEF StoreOK
<1>4. CASE /\ stored' = Append(stored, [conn |-> c, text |-> text])
           /\ UNCHANGED upset
  <2> DEFINE r == [conn |-> c, text |-> text]
  <2>1. r \in Records /\ r.conn = c /\ r.text = text
    BY DEF Records
  <2>2. stored' = Append(stored, r) /\ stored \in Seq(Records)
    BY <1>4 DEF StoreOK
  <2> HIDE DEF r
  <2>3. ASSUME NEW d \in Conns
        PROVE  FlattenSeq(TextsOf(d, stored')) =
                 FlattenSeq(TextsOf(d, stored)) \o (IF r.conn = d THEN r.text ELSE << >>)
    BY <2>1, <2>2, TextsAppend
  <2>4. StoredText(c)' = StoredText(c) \o text
    BY <1>1, <1>2, <2>1, <2>3
  <2>5. ASSUME NEW d \in Conns, d # c
        PROVE  StoredText(d)' = StoredText(d)
    <3>1. StoredText(d)' = StoredText(d) \o << >>
      BY <1>1, <1>2, <2>1, <2>3, <2>5
    <3> QED
      BY <1>3, <3>1, ConcatEmptySeq
  <2> QED
    BY <1>3, <1>4, <2>4, <2>5
<1>5. CASE stored' = stored /\ upset' = upset \union {c}
  <2>1. \A d \in Conns : StoredText(d)' = StoredText(d)
    BY <1>1, <1>2, <1>5
  <2> QED
    BY <1>3, <1>5, <2>1
<1>6. CASE text = << >> /\ stored' = stored /\ upset' = upset
  <2>1. \A d \in Conns : StoredText(d)' = StoredText(d)
    BY <1>1, <1>2, <1>6
  <2>2. StoredText(c) \o text = StoredText(c)
    BY <1>3, <1>6, ConcatEmptySeq
  <2> QED
    BY <1>3, <1>6, <2>1, <2>2
<1> QED
  BY <1>4, <1>5, <1>6 DEF Store

\* Every chunk was stored for a connection.
LEMMA StoredRecords ==
  ASSUME StoreOK
  PROVE  /\ Len(stored) \in Nat
         /\ \A i \in 1 .. Len(stored) :
              /\ stored[i] \in Records /\ stored[i].conn \in Conns
              /\ stored[i].text \in Seq(Byte)
<1>1. stored \in Seq(Records)
  BY DEF StoreOK
<1>2. Len(stored) \in Nat /\ \A i \in 1 .. Len(stored) : stored[i] \in Records
  BY <1>1, LenProperties, ElementOfSeq
<1> QED
  BY <1>2 DEF Records

\* What is stored stays stored as long as nobody writes.
LEMMA StoredTextStays ==
  ASSUME StoreOK, stored' = stored
  PROVE  \A d \in Conns : StoredText(d)' = StoredText(d) /\ StoredText(d) \in Seq(Byte)
<1>1. \A d \in Conns : StoredText(d) = FlattenSeq(TextsOf(d, stored))
  BY DEF StoredText, TextsOf
<1>2. \A d \in Conns : StoredText(d) \in Seq(Byte)
  BY <1>1, TextsType DEF StoreOK
<1> QED
  BY <1>2 DEF StoredText

-----------------------------------------------------------------------------
(***************************************************************************)
(* All that was stored, and what the device has of it                      *)
(***************************************************************************)

\* everything stored, in order
AllText(log) == FlattenSeq([i \in 1 .. Len(log) |-> log[i].text])

\* One more chunk.
LEMMA AllTextAppend ==
  ASSUME NEW log \in Seq(Records), NEW r \in Records
  PROVE  /\ AllText(log) \in Seq(Byte)
         /\ AllText(Append(log, r)) = AllText(log) \o r.text
<1> DEFINE Q == Seq(Byte)
           t == [i \in 1 .. Len(log) |-> log[i].text]
           n == Append(log, r)
           u == [i \in 1 .. Len(n) |-> n[i].text]
           x == r.text
<1>1. /\ Len(log) \in Nat /\ Len(n) = Len(log) + 1
      /\ \A i \in 1 .. Len(log) : n[i] = log[i] /\ log[i] \in Records
      /\ n[Len(log) + 1] = r
  BY AppendProperties, LenProperties, ElementOfSeq
<1>2. x \in Q /\ \A i \in 1 .. Len(log) : log[i].text \in Q
  BY <1>1 DEF Records
<1> HIDE DEF Q, n, x
<1>3. t \in Seq(Q) /\ Len(t) = Len(log) /\ \A i \in 1 .. Len(log) : t[i] = log[i].text
  <2>1. t \in Seq(Q)
    BY <1>1, <1>2, IsASeq
  <2> QED
    BY <1>1, <2>1, LenProperties
<1>4. \A i \in 1 .. Len(n) : i = Len(log) + 1 \/ i \in 1 .. Len(log)
  BY <1>1
<1>5. \A i \in 1 .. Len(n) : n[i].text \in Q
  BY <1>1, <1>2, <1>4 DEF x
<1>6. u \in Seq(Q) /\ Len(u) = Len(log) + 1 /\ \A i \in 1 .. Len(n) : u[i] = n[i].text
  <2>1. Len(n) \in Nat
    BY <1>1
  <2>2. u \in Seq(Q)
    BY <1>5, <2>1, IsASeq
  <2> QED
    BY <1>1, <2>1, <2>2, LenProperties
<1> HIDE DEF t, u
<1>7. /\ Append(t, x) \in Seq(Q) /\ Len(Append(t, x)) = Len(log) + 1
      /\ \A i \in 1 .. Len(log) : Append(t, x)[i] = t[i]
      /\ Append(t, x)[Len(log) + 1] = x
  BY <1>2, <1>3, AppendProperties
<1>8. \A i \in 1 .. Len(u) : u[i] = Append(t, x)[i]
  BY <1>1, <1>3, <1>4, <1>6, <1>7 DEF x
<1>9. u = Append(t, x)
  BY <1>6, <1>7, <1>8, SeqEqual
<1>10. FlattenSeq(Append(t, x)) = FlattenSeq(t) \o x /\ FlattenSeq(t) \in Seq(Byte)
  BY <1>2, <1>3, FlattenAppend, FlattenType DEF Q
<1>11. AllText(log) = FlattenSeq(t) /\ AllText(n) = FlattenSeq(u)
  BY DEF AllText, t, u
<1> QED
  BY <1>9, <1>10, <1>11, Zenon DEF n, x

\* The device has the end of all that was stored: the commands in the ring,
\* and the unfinished one behind them.  What is missing in front was dropped.
DeviceHoldsTheEnd ==
  \E gone \in Seq(Byte) :
    IsJoin(AllText(stored), gone, Content(circular_buffer), Bytes(entry))

\* In the beginning both are empty.
LEMMA EndAtStart ==
  ASSUME WorldInit
  PROVE  DeviceHoldsTheEnd
<1>1. Content(circular_buffer) = << >>
  BY ContentInit DEF WorldInit
<1>2. Bytes(entry) = << >>
  <2>1. SubSeq(<< >>, 1, 0) = << >>
    BY SubSeqEmpty
  <2> QED
    BY <2>1 DEF WorldInit, Bytes, NoEntry, NULL
<1>3. AllText(stored) = << >>
  <2> DEFINE t == [i \in 1 .. Len(stored) |-> stored[i].text]
  <2>1. Len(stored) = 0
    BY EmptySeq DEF WorldInit
  <2>2. t = << >>
    BY <2>1
  <2>3. Len(t) = 0
    BY <2>2, EmptySeq
  <2> HIDE DEF t
  <2>4. FlattenSeq(t) = t
    BY <2>3, FlattenEmpty
  <2> QED
    BY <2>2, <2>4 DEF AllText, t
<1>4. << >> \in Seq(Byte) /\ (<< >> \o << >>) \o << >> = << >>
  BY EmptySeq, ConcatEmptySeq
<1> QED
  BY <1>1, <1>2, <1>3, <1>4, Zenon DEF DeviceHoldsTheEnd, IsJoin

\* Nothing was written.
LEMMA EndStays ==
  ASSUME DeviceHoldsTheEnd, UNCHANGED <<device, stored>>
  PROVE  DeviceHoldsTheEnd'
  BY DEF DeviceHoldsTheEnd, device

\* The content and the unfinished command are sequences of pieces.
LEMMA DeviceText ==
  ASSUME StoreOK
  PROVE  Content(circular_buffer) \in Seq(Byte) /\ Bytes(entry) \in Seq(Byte)
  BY ContentType, BytesType DEF StoreOK, DeviceOK

\* savetofile, however strchr ends, puts the text behind what is there; the
\* ring drops from the front.
LEMMA StoreKeepsEnd ==
  ASSUME StoreOK, DeviceHoldsTheEnd, NEW c \in Conns, NEW text \in Seq(Byte),
         Store(c, text)
  PROVE  DeviceHoldsTheEnd'
<1>1. CASE /\ text # << >> /\ aesd_write(text)
           /\ stored' = Append(stored, [conn |-> c, text |-> text])
  <2> DEFINE b == circular_buffer
             e == Extended(text)
             o == Bytes(entry)
             r == [conn |-> c, text |-> text]
             all == AllText(stored)
             C == Content(b)
  <2>1. PICK g \in Seq(Byte) : IsJoin(all, g, C, o)
    BY DEF DeviceHoldsTheEnd
  <2>2. AllText(stored') = all \o text
    <3>1. r \in Records /\ r.text = text /\ stored \in Seq(Records)
      BY DEF Records, StoreOK
    <3> HIDE DEF r
    <3>2. AllText(Append(stored, r)) = AllText(stored) \o r.text
      BY <3>1, AllTextAppend
    <3> QED
      BY <1>1, <3>1, <3>2 DEF r
  <2>3. C \in Seq(Byte) /\ o \in Seq(Byte)
    BY DeviceText
  <2>4. /\ e \in Entry /\ e.size > 0 /\ e.size <= Len(e.buffptr)
        /\ Bytes(e) = o \o text /\ b \in Buffer /\ Consistent(b)
    <3>1. e \in Entry /\ e.size > 0 /\ e.size = Len(e.buffptr) /\ Bytes(e) = o \o text
      BY <1>1, ExtendedType
    <3> HIDE DEF e
    <3> QED
      BY <3>1 DEF StoreOK, DeviceOK, Entry
  <2>5. CASE circular_buffer' = aesd_circular_buffer_add_entry(b, e) /\ entry' = NoEntry
    <3> DEFINE d == Bytes(b.entry[b.in_offs])
    <3> HIDE DEF b, e
    <3>1. PICK rest \in Seq(Byte) :
                 /\ Content(b) = d \o rest
                 /\ Content(aesd_circular_buffer_add_entry(b, e)) = rest \o Bytes(e)
                 /\ d \in Seq(Byte)
      BY <2>4, ContentAdd
    <3> HIDE DEF d, o, C, all
    <3>2. Regroups(g, d, rest, o, text)
      BY <2>3, <3>1, Regrouping
    <3>3. C = d \o rest /\ Content(circular_buffer') = rest \o (o \o text)
      BY <2>4, <2>5, <3>1, Zenon DEF C
    <3>4. AllText(stored') = (g \o d) \o Content(circular_buffer')
      BY <2>1, <2>2, <3>2, <3>3, Zenon DEF IsJoin, Regroups
    <3>5. Bytes(entry') = << >>
      <4>1. SubSeq(<< >>, 1, 0) = << >>
        BY SubSeqEmpty
      <4> QED
        BY <2>5, <4>1 DEF Bytes, NoEntry, NULL
    <3>6. g \o d \in Seq(Byte) /\ o \o text \in Seq(Byte)
      BY <2>3, <3>1, ConcatProperties
    <3> DEFINE gd == g \o d
               ot == o \o text
               new == rest \o ot
               sum == gd \o new
    <3> HIDE DEF gd, ot
    <3>7. new \in Seq(Byte)
      BY <3>6, ConcatProperties DEF ot
    <3> HIDE DEF new
    <3>8. sum \in Seq(Byte)
      BY <3>6, <3>7, ConcatProperties DEF gd
    <3> HIDE DEF sum
    <3>9. sum \o << >> = sum
      BY <3>8, ConcatEmptySeq
    <3>10. Content(circular_buffer') = new /\ AllText(stored') = sum
      BY <3>3, <3>4, Zenon DEF sum, new, gd, ot
    <3>11. IsJoin(AllText(stored'), gd, Content(circular_buffer'), Bytes(entry'))
      BY <3>5, <3>9, <3>10, Zenon DEF IsJoin, sum
    <3>12. gd \in Seq(Byte)
      BY <3>6 DEF gd
    <3> QED
      BY <3>11, <3>12, Zenon DEF DeviceHoldsTheEnd
  <2>6. CASE circular_buffer' = circular_buffer /\ entry' = e
    <3> HIDE DEF e, o, all, C
    <3> DEFINE gC == g \o C
    <3>1. gC \in Seq(Byte)
      BY <2>3, ConcatProperties
    <3> HIDE DEF gC
    <3>2. Associative(gC, o, text)
      BY <2>3, <3>1, JoinAssociative
    <3>3. AllText(stored') = gC \o (o \o text)
      BY <2>1, <2>2, <3>2, Zenon DEF IsJoin, Associative, gC
    <3>4. IsJoin(AllText(stored'), g, Content(circular_buffer'), Bytes(entry'))
      BY <2>4, <2>6, <3>3, Zenon DEF IsJoin, gC, C, b
    <3> QED
      BY <3>4, Zenon DEF DeviceHoldsTheEnd
  <2> QED
    BY <1>1, <2>5, <2>6 DEF aesd_write
<1>2. CASE UNCHANGED <<device, stored>>
  BY <1>2, EndStays
<1> QED
  BY <1>1, <1>2 DEF Store

-----------------------------------------------------------------------------
(***************************************************************************)
(* The device of the servers is the one that the driver implements         *)
(***************************************************************************)

\* Behind the block there may be a newline ...
AnyCommand(command) == TRUE

\* ... and one within the block is not missed.
WithoutNewline(command) == ~Contains(command, NEWLINE)

Promised ==
  INSTANCE AtomicDevice WITH
    Capacity <- MAX_WRITE_OPERATIONS, Files <- {}, Texts <- Seq(Byte),
    MayEnd <- AnyCommand, MayGoOn <- WithoutNewline,
    log <- Commands(circular_buffer), pending <- Bytes(entry), spoiled <- FALSE,
    pos <- << >>, got <- << >>

\* what aesd_write(text) may leave of the ring and of the unfinished command
Leaves(text, ring, e) ==
  \/ /\ ring = aesd_circular_buffer_add_entry(circular_buffer, Extended(text))
     /\ e = NoEntry
  \/ /\ ~Contains(Extended(text).buffptr, NEWLINE)
     /\ e = Extended(text)
     /\ ring = circular_buffer

\* The write that both servers are verified with is the atomic write that the
\* driver implements while no memory was lost: it allows the same outcomes, no
\* fewer and no more, as far as the commands stored and the unfinished one go.
THEOREM ServersUseAtomicWrite ==
  ASSUME StoreOK, NEW text \in Seq(Byte), text # << >>
  PROVE  /\ aesd_write(text) <=> Leaves(text, circular_buffer', entry')
         /\ Promised!Write(text) <=>
              \E ring, e : /\ Leaves(text, ring, e)
                           /\ Commands(ring) = Commands(circular_buffer')
                           /\ Bytes(e) = Bytes(entry')
<1> DEFINE b    == circular_buffer
           w    == Extended(text)
           n    == aesd_circular_buffer_add_entry(circular_buffer, Extended(text))
           all  == Bytes(entry) \o text
           Ends == /\ Commands(circular_buffer') = Append(Promised!Kept, all)
                   /\ Bytes(entry') = << >>
           Goes == /\ ~Contains(all, NEWLINE)
                   /\ Bytes(entry') = all
                   /\ Commands(circular_buffer') = Commands(b)
<1>1. aesd_write(text) <=> Leaves(text, circular_buffer', entry')
  BY DEF aesd_write, Leaves
<1>2. /\ b \in Buffer /\ Consistent(b)
      /\ w \in Entry /\ w.size > 0 /\ w.size = Len(w.buffptr)
      /\ w.buffptr = all /\ Bytes(w) = all
  BY ExtendedType DEF StoreOK, DeviceOK
<1>3. Bytes(NoEntry) = << >>
  BY SubSeqEmpty DEF Bytes, NoEntry, NULL
<1>4. Commands(n) = Append(Promised!Kept, all)
  <2> DEFINE log == Commands(b)
  <2>1. /\ ~b.full => Commands(n) = Append(log, Bytes(w))
        /\ b.full => Commands(n) = Append(Tail(log), Bytes(w))
    <3>1. w.size <= Len(w.buffptr)
      BY <1>2 DEF Entry
    <3> HIDE DEF w
    <3> QED
      BY <1>2, <3>1, CommandsAdd DEF w
  <2>2. b.full <=> ~(Len(log) < MAX_WRITE_OPERATIONS)
    BY <1>2, OccupiedType, CommandsType, MaxWriteOperationsAssumption
  <2>3. Promised!Kept = IF Len(log) < MAX_WRITE_OPERATIONS THEN log ELSE Tail(log)
    BY DEF Promised!Kept
  <2> HIDE DEF log, n, b, w, all
  <2> QED
    BY <1>2, <2>1, <2>2, <2>3
<1>5. Promised!Write(text) <=> Ends \/ Goes
  BY DEF Promised!Write, AnyCommand, WithoutNewline
<1>6. ASSUME Ends
      PROVE  /\ Leaves(text, n, NoEntry) /\ Commands(n) = Commands(circular_buffer')
             /\ Bytes(NoEntry) = Bytes(entry')
  BY <1>3, <1>4, <1>6 DEF Leaves
<1>7. ASSUME Goes
      PROVE  /\ Leaves(text, b, w) /\ Commands(b) = Commands(circular_buffer')
             /\ Bytes(w) = Bytes(entry')
  BY <1>2, <1>7 DEF Leaves
<1>8. ASSUME NEW ring, NEW e, Leaves(text, ring, e),
             Commands(ring) = Commands(circular_buffer'), Bytes(e) = Bytes(entry')
      PROVE  Ends \/ Goes
  <2>1. CASE ring = n /\ e = NoEntry
    BY <1>3, <1>4, <1>8, <2>1
  <2>2. CASE ~Contains(w.buffptr, NEWLINE) /\ e = w /\ ring = b
    BY <1>2, <1>8, <2>2
  <2> QED
    BY <1>8, <2>1, <2>2 DEF Leaves
<1> HIDE DEF Ends, Goes
<1> QED
  BY <1>1, <1>5, <1>6, <1>7, <1>8

=============================================================================
