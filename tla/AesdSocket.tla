---------------------------- MODULE AesdSocket ----------------------------
(***************************************************************************)
(* The server server/aesdsocket_linkedlists.c on top of /dev/aesdchar: the *)
(* start-up and the accept loop of main, and one thread in recieve_text    *)
(* per connection.                                                         *)
(*                                                                         *)
(* A connection thread holds mutex from its first recv to its last, so all *)
(* use of the device is serialised; what one loop iteration does between   *)
(* two recv calls is one step.  filemutex and sendmutex are only ever      *)
(* taken by the holder of mutex (the timer that would also write is never  *)
(* started) and are left out.                                              *)
(***************************************************************************)
EXTENDS ServerWorld

CONSTANTS
  Nodes, NoNode,     \* memory for struct Connections_t
  WriteCmd,          \* the number in SEEKTO
  Garbage            \* what malloc leaves in the receive buffer: a C string

ASSUME AesdSocketAssumption ==
  /\ NoNode \notin Nodes /\ Garbage \in Seq(Byte \ {NUL})
  /\ WriteCmd \in Nat

VARIABLES
  alive,            \* the process runs
  mpc, newthread, thread_id,   \* main: where it is, and two of its locals
  head,             \* the elements on the list
  freed, istream, pid, done,   \* elements: memory given back, three members
  pc, params,       \* connection threads: where, and the element
  mutex,            \* its holder or NoConn
  buffer,           \* receive buffers, the C string in them
  sendpos, eof,     \* sendfd: position in the device, end-of-file indicator
  outbox            \* history: pieces sent back

main    == <<mpc, newthread, thread_id, head, freed, istream, pid, done>>
threads == <<pc, params, mutex, buffer, sendpos, eof>>
history == <<stored, outbox, upset>>
vars    == <<alive, main, threads, device, clients, history>>

\* the position of a stream that fopen could not open
NoStream == -1

Init ==
  /\ alive = TRUE
  /\ mpc = "setupsigaction" /\ newthread = NoNode /\ thread_id = NoConn
  /\ head = {} /\ freed = Nodes
  /\ istream = [n \in Nodes |-> NoConn]
  /\ pid = [n \in Nodes |-> NoConn]
  /\ done = [n \in Nodes |-> FALSE]
  /\ pc = [c \in Conns |-> "none"]
  /\ params = [c \in Conns |-> NoNode]
  /\ mutex = NoConn
  /\ buffer = [c \in Conns |-> Garbage]
  /\ sendpos = [c \in Conns |-> 0]
  /\ eof = [c \in Conns |-> FALSE]
  /\ outbox = [c \in Conns |-> << >>]
  /\ WorldInit

-----------------------------------------------------------------------------
(***************************************************************************)
(* Mutated forms of definitions below, used only to show that the          *)
(* properties notice.                                                      *)
(***************************************************************************)

\* buffer[bytes_recieved] = '\0' is missing: the tail of the last chunk stays
MutUnterminated(old, chunk) ==
  String(chunk \o SubSeq(old, Len(chunk) + 1, Len(old)))

\* the thread does not wait for the mutex
MutNoLock(c) == mutex' = c

\* the loop is left with the mutex held
MutKeepMutex(c) == mutex' = mutex

\* free(params) comes before the files and the socket are closed
MutFreeFirst(c) ==
  /\ alive /\ pc[c] = "last"
  /\ mutex' = NoConn
  /\ pc' = [pc EXCEPT ![c] = "closing"]
  /\ freed' = freed \union {params[c]}
  /\ UNCHANGED <<alive, mpc, newthread, thread_id, head, istream, pid, done,
                 params, buffer, sendpos, eof, device, clients, history>>

\* free(params) is missing and left to check_completed_threads
MutNoFree(c) ==
  /\ alive /\ pc[c] = "closing"
  /\ done' = [done EXCEPT ![params[c]] = TRUE]
  /\ params' = [params EXCEPT ![c] = NoNode]
  /\ pc' = [pc EXCEPT ![c] = "gone"]
  /\ UNCHANGED <<alive, mpc, newthread, thread_id, head, freed, istream, pid,
                 mutex, buffer, sendpos, eof, device, clients, history>>

\* the reply is read before the text is saved
MutReplyFirst(c) ==
  SubSeq(Content(circular_buffer), sendpos[c] + 1, Len(Content(circular_buffer)))

-----------------------------------------------------------------------------
(***************************************************************************)
(* Clients and the network (external).  What a client does to a server     *)
(* that has ended is left out.                                             *)
(***************************************************************************)

\* listen has been called
Listening == mpc \in {"start_daemon", "accept", "insert"}

Connect(c) ==
  /\ alive /\ Listening
  /\ ClientConnects(c)
  /\ UNCHANGED <<alive, main, threads, device, stored, outbox>>

ClientSend(c) ==
  /\ alive /\ ClientSends(c)
  /\ UNCHANGED <<alive, main, threads, device, stored, outbox>>

ClientClose(c) ==
  /\ alive /\ ClientCloses(c)
  /\ UNCHANGED <<alive, main, threads, device, stored, outbox>>

ClientReset(c) ==
  /\ alive /\ ClientResets(c)
  /\ UNCHANGED <<alive, main, threads, device, stored, outbox>>

-----------------------------------------------------------------------------
(***************************************************************************)
(* main                                                                    *)
(***************************************************************************)

\* The steps before the loop: main goes on at label, or exits.
StartUp(step, label) ==
  /\ alive /\ mpc = step
  /\ \/ mpc' = label /\ UNCHANGED alive
     \/ alive' = FALSE /\ UNCHANGED mpc
  /\ UNCHANGED <<newthread, thread_id, head, freed, istream, pid, done, threads,
                 device, clients, history>>

\* both sigaction calls
setupsigaction == StartUp("setupsigaction", "open_connection")

\* getaddrinfo, socket, setsockopt, bind, listen
open_connection == StartUp("open_connection", "start_daemon")

\* with -d: fork, whose parent exits, and setsid.  Without -d nothing fails,
\* which is one of the outcomes here.
start_daemon == StartUp("start_daemon", "accept")

\* malloc of an element; done and pid are cleared
newElement(n) ==
  /\ n \in freed
  /\ freed' = freed \ {n}
  /\ pid' = [pid EXCEPT ![n] = NoConn]
  /\ done' = [done EXCEPT ![n] = FALSE]

\* accept, newElement and pthread_create: from here on the thread runs.  A
\* failure of pthread_create is a positive number and goes unnoticed: the
\* connection is kept, nobody serves it, and thread_id is not set.  A thread
\* is named by its connection.
accept(c, n) ==
  /\ alive /\ mpc = "accept"
  /\ peer[c] # "none" /\ pc[c] = "none"
  /\ newElement(n)
  /\ istream' = [istream EXCEPT ![n] = c]
  /\ newthread' = n
  /\ params' = [params EXCEPT ![c] = n]
  /\ \/ pc' = [pc EXCEPT ![c] = "start"] /\ thread_id' = c
     \/ /\ pc' = [pc EXCEPT ![c] = "failed"]
        /\ thread_id' \in Conns \union {NoConn}
  /\ mpc' = "insert"
  /\ UNCHANGED <<alive, head, mutex, buffer, sendpos, eof, device, clients,
                 history>>

\* newElement finds no memory, and its NULL is used.
accept_crash(c) ==
  /\ alive /\ mpc = "accept"
  /\ peer[c] # "none" /\ pc[c] = "none"
  /\ alive' = FALSE
  /\ UNCHANGED <<main, threads, device, clients, history>>

\* if (SLIST_EMPTY(&head)) SLIST_FOREACH(...): what the walks of the list come
\* by.  The test is the wrong way round.
Walked(list) == IF list = {} THEN list ELSE {}

\* for each of these elements: SLIST_REMOVE, close, fclose and free
delElement(list, elements) ==
  /\ head' = list \ elements
  /\ freed' = freed \union elements

\* of what it walks it deletes the elements that are done
check_completed_threads(list) == delElement(list, {n \in Walked(list) : done[n]})

\* newthread->pid = thread_id; SLIST_INSERT_HEAD.  The thread may be through
\* already and have freed the element.  Both locals are then out of scope.
insert ==
  /\ alive /\ mpc = "insert"
  /\ pid' = [pid EXCEPT ![newthread] = thread_id]
  /\ check_completed_threads(head \union {newthread})
  /\ mpc' = "accept"
  /\ newthread' = NoNode /\ thread_id' = NoConn
  /\ UNCHANGED <<alive, istream, done, threads, device, clients, history>>

\* It closes the listening socket, and cancels and deletes what the walk comes
\* by: nothing.  Threads are stopped by exit wherever they are.
closeconnection ==
  /\ delElement(head, Walked(head))
  /\ UNCHANGED <<mpc, newthread, thread_id, istream, pid, done, threads>>

\* SIGINT or SIGTERM
sigetrm_handler ==
  /\ alive
  /\ closeconnection
  /\ alive' = FALSE
  /\ UNCHANGED <<device, clients, history>>

-----------------------------------------------------------------------------
(***************************************************************************)
(* recieve_text                                                            *)
(***************************************************************************)

Goto(c, label) == pc' = [pc EXCEPT ![c] = label]

\* Without ostream or the buffer the thread returns and leaves its socket and
\* its element behind.  Without sendfd it goes on.
open_files(c) ==
  /\ alive /\ pc[c] = "start"
  /\ \/ Goto(c, "failed") /\ UNCHANGED sendpos
     \/ /\ Goto(c, "locking")
        /\ \E pos \in {0, NoStream} : sendpos' = [sendpos EXCEPT ![c] = pos]
  /\ UNCHANGED <<alive, main, params, mutex, buffer, eof, device, clients,
                 history>>

\* pthread_mutex_lock(&mutex)
LockMutex(c) == mutex = NoConn /\ mutex' = c

lock(c) ==
  /\ alive /\ pc[c] = "locking"
  /\ LockMutex(c)
  /\ Goto(c, "recv")
  /\ UNCHANGED <<alive, main, params, buffer, sendpos, eof, device, clients,
                 history>>

\* The buffer with what recv returned and the '\0' behind it.  A NUL in the
\* chunk ends the string for sscanf, fputs and strchr.
Terminated(old, chunk) == String(chunk)

\* recv returns data, 0, or -1.  -1 in a size_t is a large number: the stale
\* buffer is handled once more, and the loop goes on.  The '\0' then goes to
\* the byte in front of the buffer, which is 0 already.
recv(c) ==
  /\ alive /\ pc[c] = "recv"
  /\ \/ \E k \in 1 .. MAXBUFFER :
          /\ Arrived(c, k)
          /\ buffer' = [buffer EXCEPT ![c] = Terminated(@, SubSeq(sock[c], 1, k))]
          /\ Goto(c, "handle")
     \/ /\ Ended(c)
        /\ buffer' = [buffer EXCEPT ![c] = << >>]
        /\ Goto(c, "last")
     \/ /\ Failed(c)
        /\ Goto(c, "handle")
        /\ UNCHANGED buffer
  /\ UNCHANGED <<alive, main, params, mutex, sendpos, eof, device, stored, outbox>>

\* the device's content from position pos on
From(b, pos) == SubSeq(Content(b), pos + 1, Len(Content(b)))

\* fputs and fflush
savetofile(c, text) == Store(c, text)

\* what is left to read on sendfd, after the write
Reply(c) == From(circular_buffer', sendpos[c])

\* fread and send, MAXBUFFER at a time; a short fread sets the end-of-file
\* indicator.  A send to a client that is gone fails, or raises SIGPIPE, which
\* ends the process; so does sendfd NULL.  Nothing is read when the indicator
\* is set and the C library heeds it, or when malloc fails: fread is given
\* NULL, which is an error or a crash.
sendfile(c) ==
  LET out == Reply(c)
      SentBack(k) == outbox' = [outbox EXCEPT ![c] = @ \o SubSeq(out, 1, k)]
      Consumed(k, end) == /\ sendpos' = [sendpos EXCEPT ![c] = @ + k]
                          /\ eof' = [eof EXCEPT ![c] = end]
  IN  \/ /\ sendpos[c] # NoStream
         /\ SentBack(Len(out)) /\ Consumed(Len(out), TRUE)
         /\ UNCHANGED alive
      \/ /\ sendpos[c] # NoStream /\ peer[c] # "open"
         /\ \E full \in {k \in 0 .. Len(out) - 1 : k % MAXBUFFER = 0} :
              LET read == Min({full + MAXBUFFER, Len(out)})
              IN  SentBack(full) /\ Consumed(read, eof[c] \/ read < full + MAXBUFFER)
         /\ alive' \in BOOLEAN
      \/ /\ sendpos[c] # NoStream
         /\ alive' \in BOOLEAN
         /\ UNCHANGED <<outbox, sendpos, eof>>
      \/ /\ sendpos[c] = NoStream
         /\ alive' = FALSE
         /\ UNCHANGED <<outbox, sendpos, eof>>

\* the else branch of the loop
handle_text(c) ==
  /\ alive /\ pc[c] = "handle" /\ ~IsSeekto(buffer[c])
  /\ savetofile(c, buffer[c])
  /\ IF Contains(buffer[c], NEWLINE) THEN sendfile(c)
     ELSE UNCHANGED <<alive, outbox, sendpos, eof>>
  /\ Goto(c, "recv")
  /\ UNCHANGED <<main, params, mutex, buffer, clients>>

\* The ioctl branch, on a descriptor of its own.  open may fail, and the
\* ioctl refuses a command that is not there; both continue the loop.  What
\* stands behind the second number in the buffer is dropped.
handle_seekto(c) ==
  /\ alive /\ pc[c] = "handle" /\ IsSeekto(buffer[c])
  /\ \/ UNCHANGED <<alive, outbox>>
     \/ /\ SeektoValid(circular_buffer, WriteCmd, SeekOffset(buffer[c]))
        /\ LET start == CommandStart(circular_buffer, WriteCmd)
                          + SeekOffset(buffer[c])
               out   == From(circular_buffer, start)
           IN  \/ /\ outbox' = [outbox EXCEPT ![c] = @ \o out]
                  /\ UNCHANGED alive
               \/ /\ peer[c] # "open" /\ alive' \in BOOLEAN
                  /\ \E k \in 0 .. Len(out) - 1 :
                       outbox' = [outbox EXCEPT ![c] = @ \o SubSeq(out, 1, k)]
  /\ upset' = upset \union {c}
  /\ Goto(c, "recv")
  /\ UNCHANGED <<main, params, mutex, buffer, sendpos, eof, device, clients,
                 stored>>

\* pthread_mutex_unlock(&mutex)
UnlockMutex(c) == mutex' = NoConn

\* The iteration with the empty buffer stores nothing and ends the loop.
leave(c) ==
  /\ alive /\ pc[c] = "last"
  /\ UnlockMutex(c)
  /\ Goto(c, "closing")
  /\ UNCHANGED <<alive, main, params, buffer, sendpos, eof, device, clients,
                 history>>

\* fclose(sendfd), which crashes on NULL, close, fclose, done = 1 and
\* free(params)
cleanup(c) ==
  /\ alive /\ pc[c] = "closing"
  /\ \/ /\ sendpos[c] # NoStream
        /\ done' = [done EXCEPT ![params[c]] = TRUE]
        /\ freed' = freed \union {params[c]}
        /\ params' = [params EXCEPT ![c] = NoNode]
        /\ Goto(c, "gone")
        /\ UNCHANGED alive
     \/ /\ sendpos[c] = NoStream
        /\ alive' = FALSE
        /\ UNCHANGED <<done, freed, params, pc>>
  /\ UNCHANGED <<mpc, newthread, thread_id, head, istream, pid, mutex, buffer,
                 sendpos, eof, device, clients, history>>

recieve_text(c) ==
  \/ open_files(c) \/ lock(c) \/ recv(c) \/ handle_text(c) \/ handle_seekto(c)
  \/ leave(c) \/ cleanup(c)

-----------------------------------------------------------------------------
main_step ==
  \/ setupsigaction \/ open_connection \/ start_daemon
  \/ insert
  \/ \E c \in Conns, n \in Nodes : accept(c, n)

Next ==
  \/ \E c \in Conns : Connect(c) \/ ClientSend(c) \/ ClientClose(c) \/ ClientReset(c)
  \/ main_step
  \/ sigetrm_handler
  \/ \E c \in Conns : accept_crash(c)
  \/ \E c \in Conns : recieve_text(c)

Spec == Init /\ [][Next]_vars

\* The kernel runs main and every thread that can go on.  Clients leave some
\* day: without that a silent client keeps the mutex, and everybody waits.
Fairness ==
  /\ WF_vars(main_step)
  /\ \A c \in Conns :
       WF_vars(recieve_text(c)) /\ WF_vars(ClientClose(c) \/ ClientReset(c))

FairSpec == Spec /\ Fairness

-----------------------------------------------------------------------------
(***************************************************************************)
(* Properties                                                              *)
(***************************************************************************)

Labels == {"none", "start", "locking", "recv", "handle", "last", "closing",
           "gone", "failed"}

\* The shape of the server's, the clients' and the device's state.
TypeOK ==
  /\ alive \in BOOLEAN
  /\ mpc \in {"setupsigaction", "open_connection", "start_daemon", "accept",
              "insert"}
  /\ newthread \in Nodes \union {NoNode} /\ thread_id \in Conns \union {NoConn}
  /\ head \subseteq Nodes /\ freed \subseteq Nodes
  /\ istream \in [Nodes -> Conns \union {NoConn}]
  /\ pid \in [Nodes -> Conns \union {NoConn}] /\ done \in [Nodes -> BOOLEAN]
  /\ pc \in [Conns -> Labels] /\ params \in [Conns -> Nodes \union {NoNode}]
  /\ mutex \in Conns \union {NoConn}
  /\ buffer \in [Conns -> Seq(Byte)] /\ outbox \in [Conns -> Seq(Byte)]
  /\ sendpos \in [Conns -> Nat \union {NoStream}] /\ eof \in [Conns -> BOOLEAN]
  /\ WorldTypeOK

\* All the writes of one connection reach the device in one run, with nothing
\* of another connection between them: the lock around the whole receive loop
\* of recieve_text.
ConnectionsDoNotInterleave ==
  \A i, k \in 1 .. Len(stored) :
    stored[i].conn = stored[k].conn =>
      \A j \in i .. k : stored[j].conn = stored[i].conn

\* However recv cuts the stream, the receive loop passes on what the client
\* sent, in order and once: what was stored, the chunk in hand and what is
\* still under way make up what was sent.  (A reset, a seek, a refused write
\* or a NUL excepted: fputs stores what recv returned up to the NUL, and what
\* is behind it is gone, a newline too.)
StoredIsWhatWasSent ==
  \A c \in Conns \ upset :
    StoredText(c) \o (IF pc[c] = "handle" THEN buffer[c] ELSE << >>) \o sock[c]
      = sent[c]

\* The first reply of recieve_text to a client that is still there, when it
\* reaches the end of the device, is the whole content and ends with the text
\* just received, unless the write was refused: savetofile comes before
\* sendfile, under one lock.
FirstReplyComplete ==
  [][\A c \in Conns :
       /\ pc[c] = "handle" /\ pc'[c] = "recv" /\ ~IsSeekto(buffer[c])
       /\ Contains(buffer[c], NEWLINE) /\ sendpos[c] = 0 /\ ~eof[c] /\ eof'[c]
       /\ peer[c] = "open" /\ stored' # stored
       => /\ outbox'[c] = outbox[c] \o Content(circular_buffer')
          /\ IsSuffix(buffer[c], Content(circular_buffer'))]_vars

\* A client that is answered after a seek gets the rest of the command it
\* named, from the offset that sscanf found in the chunk, and every later
\* command: the position the ioctl sets is the one the read loop of
\* recieve_text starts from.  When recv cuts the second number, that offset
\* is the first part of it, and the client gets more or other text than it
\* asked for.  The property is about a ring that has not wrapped; after that
\* the driver may check the offset against another command.
SeekReplyIsCommand ==
  [][\A c \in Conns :
       /\ pc[c] = "handle" /\ IsSeekto(buffer[c]) /\ peer[c] = "open"
       /\ circular_buffer.out_offs = 0
       /\ outbox'[c] # outbox[c]
       => LET log   == Log(circular_buffer)
              named == Bytes(log[WriteCmd + 1])
              off   == SeekOffset(buffer[c])
          IN  /\ off < Len(named)
              /\ outbox'[c] =
                   outbox[c]
                     \o SubSeq(named, off + 1, Len(named))
                     \o FlattenSeq([i \in 1 .. Len(log) - WriteCmd - 1 |->
                                      Bytes(log[WriteCmd + 1 + i])])]_vars

Running(c) == pc[c] \in {"start", "locking", "recv", "handle", "last", "closing"}

\* A thread's element is its own for as long as the thread runs: it is not on
\* the free list, nobody else was handed it, and main's late store to
\* newthread->pid never lands in the element of another connection.
ElementsAreOwn ==
  \A c \in Conns : Running(c) =>
    /\ params[c] \notin freed
    /\ istream[params[c]] = c
    /\ pid[params[c]] \in {NoConn, c}

\* The memory of an element is lost only when its connection was given up at
\* the start.  The walks of the list that should give back the others are
\* skipped, so all rests on the thread, which frees its element at the end of
\* recieve_text; on every way out of the loop, and whatever main does to the
\* element at that time.
FinishedElementsAreFree ==
  \A n \in Nodes \ freed :
    \E c \in Conns : params[c] = n /\ (Running(c) \/ pc[c] = "failed")

Serial == INSTANCE SerialServer WITH
  serving  <- mutex,
  served   <- {c \in Conns : pc[c] \in {"closing", "gone"}},
  log      <- stored,
  reply    <- outbox

\* The threads of recieve_text together are a server that handles one
\* connection at a time, each once, and sends nothing but unbroken stretches
\* of what was stored, and those only to the client in service: the device is
\* read and written by the holder of mutex alone.
ImplementsSerialServer == Serial!Spec

\* Every client that connects is served to the end, or given up at once when
\* its thread or its files cannot be had, or the process ends: recieve_text
\* gives the mutex back on the way out of its loop.
ConnectionsFinish ==
  \A c \in Conns :
    peer[c] # "none" ~> pc[c] \in {"gone", "failed"} \/ ~alive

=============================================================================
