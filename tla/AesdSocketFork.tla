-------------------------- MODULE AesdSocketFork --------------------------
(***************************************************************************)
(* The older server server/aesdsocket.c on top of /dev/aesdchar: main      *)
(* forks a process for every connection, and that process runs             *)
(* recieve_text in a thread, waits for it and exits.  The makefile does    *)
(* not build it any more, and aesdsocket.h has moved on: it is read here   *)
(* with istream the pointer that aesdsocket.c takes it for, and without    *)
(* its debugging output.                                                   *)
(*                                                                         *)
(* A process is named by its connection, the server by Server.  mutex and  *)
(* filemutex are copied by fork, so every process has its own and nobody   *)
(* ever waits for one: they are left out.  The device is shared, and each  *)
(* call of the driver is a step.                                           *)
(***************************************************************************)
EXTENDS ServerWorld

CONSTANTS
  Server, LISTEN,   \* the first process, and its listening socket
  Garbage           \* what malloc leaves in the receive buffer

Procs == Conns \union {Server}

ASSUME AesdSocketForkAssumption ==
  /\ Server \notin Conns /\ LISTEN \notin Conns
  /\ Garbage \in [1 .. MAXBUFFER + 1 -> Byte]

VARIABLES
  mpc, acceptfd,    \* main: where it is, and the connection in hand
  fds,              \* for each process the sockets it has open
  pc,               \* for each connection where its process is
  buffer, got,      \* receive buffer, and what recv returned
  backpos,          \* backstream: position in the device
  reply, steady     \* history, while a line is answered: pieces sent back;
                    \*   processes since whose write no command was dropped

server == <<mpc, acceptfd>>
procs  == <<pc, buffer, got, backpos>>
vars   == <<server, fds, procs, reply, steady, device, clients, stored, upset>>

Init ==
  /\ mpc = "setupsigaction" /\ acceptfd = NoConn
  /\ fds = [p \in Procs |-> {}]
  /\ pc = [c \in Conns |-> "none"]
  /\ buffer = [c \in Conns |-> Garbage]
  /\ got = [c \in Conns |-> 0]
  /\ backpos = [c \in Conns |-> 0]
  /\ reply = [c \in Conns |-> << >>]
  /\ steady = {}
  /\ WorldInit

-----------------------------------------------------------------------------
(***************************************************************************)
(* Mutated forms of definitions below, used only to show that the          *)
(* properties notice.                                                      *)
(***************************************************************************)

\* the server keeps the connection open after the fork
MutKeepsFd(c) == fds' = fds

\* the position moves by what was asked for, not by what was read
MutAdvancesFar(c, k) == backpos' = [backpos EXCEPT ![c] = @ + MAXBUFFER]

\* the buffer is used as it is, not only as far as recv has filled it
MutWholeBuffer(c) == SelectSeq(buffer[c], LAMBDA x : x # NUL)

\* recv writes behind what is in the buffer already
MutAppends(old, chunk) == old \o chunk

-----------------------------------------------------------------------------
(***************************************************************************)
(* Clients (external)                                                      *)
(***************************************************************************)

Open(s) == \E p \in Procs : s \in fds[p]

\* A connection can be made for as long as any process has the listening
\* socket open, its copy in a child included.
Connect(c) ==
  /\ Open(LISTEN)
  /\ ClientConnects(c)
  /\ UNCHANGED <<server, fds, procs, reply, steady, device, stored>>

ClientSend(c) ==
  /\ ClientSends(c)
  /\ UNCHANGED <<server, fds, procs, reply, steady, device, stored>>

ClientLeave(c) ==
  /\ ClientCloses(c) \/ ClientResets(c)
  /\ UNCHANGED <<server, fds, procs, reply, steady, device, stored>>

-----------------------------------------------------------------------------
(***************************************************************************)
(* main, in the server                                                     *)
(***************************************************************************)

\* the end of a process closes what it has open
Exits(p) == fds' = [fds EXCEPT ![p] = {}]

StartUp(step, label, opened) ==
  /\ mpc = step
  /\ \/ mpc' = label /\ fds' = [fds EXCEPT ![Server] = @ \union opened]
     \/ mpc' = "gone" /\ Exits(Server)
  /\ UNCHANGED <<acceptfd, procs, reply, steady, device, clients, stored, upset>>

setupsigaction  == StartUp("setupsigaction", "open_connection", {})
open_connection == StartUp("open_connection", "start_daemon", {LISTEN})
start_daemon    == StartUp("start_daemon", "accept", {})

\* accept and fork: the child gets a copy of every descriptor.  When fork
\* fails, fclose(ctx->istream) has a NULL pointer and ends the server.
accept(c) ==
  /\ mpc = "accept"
  /\ peer[c] # "none" /\ pc[c] = "none"
  /\ \/ /\ mpc' = "forked" /\ acceptfd' = c
        /\ fds' = [fds EXCEPT ![Server] = @ \union {c},
                              ![c] = fds[Server] \union {c}]
        /\ pc' = [pc EXCEPT ![c] = "start"]
     \/ /\ mpc' = "gone" /\ Exits(Server)
        /\ pc' = [pc EXCEPT ![c] = "exited"]
        /\ UNCHANGED acceptfd
  /\ UNCHANGED <<buffer, got, backpos, reply, steady, device, clients, stored,
                 upset>>

\* close(acceptfd)
CloseInServer(c) == fds' = [fds EXCEPT ![Server] = @ \ {c}]

\* The server goes back to accept.  It never waits for a child.
close_acceptfd ==
  /\ mpc = "forked"
  /\ CloseInServer(acceptfd)
  /\ mpc' = "accept" /\ acceptfd' = NoConn
  /\ UNCHANGED <<procs, reply, steady, device, clients, stored, upset>>

\* shutdown of the connection in hand: neither side gets anything any more,
\* whichever process has it open
Shutdown(c) ==
  peer' = IF c # NoConn /\ peer[c] = "open" THEN [peer EXCEPT ![c] = "closed"]
          ELSE peer

\* SIGINT or SIGTERM in the server.  Its children go on.
sigetrm_handler ==
  /\ mpc # "gone"
  /\ mpc' = "gone" /\ acceptfd' = NoConn
  /\ Shutdown(acceptfd)
  /\ Exits(Server)
  /\ UNCHANGED <<procs, reply, steady, device, sock, sent, stored, upset>>

-----------------------------------------------------------------------------
(***************************************************************************)
(* A child: main behind the fork, and its thread in recieve_text           *)
(***************************************************************************)

Goto(c, label) == pc' = [pc EXCEPT ![c] = label]

\* The end of process c: its memory is gone.
Gone(c) ==
  /\ pc' = [pc EXCEPT ![c] = "exited"]
  /\ Exits(c)
  /\ buffer' = [buffer EXCEPT ![c] = Garbage]
  /\ got' = [got EXCEPT ![c] = 0] /\ backpos' = [backpos EXCEPT ![c] = 0]
  /\ reply' = [reply EXCEPT ![c] = << >>] /\ steady' = steady \ {c}

\* SIGINT or SIGTERM in a child, and every crash: malloc or fopen without
\* success (NULL is used), SIGPIPE.
child_dies(c) ==
  /\ pc[c] \notin {"none", "exited"}
  /\ Gone(c)
  /\ Shutdown(c) \/ UNCHANGED peer
  /\ UNCHANGED <<server, device, sock, sent, stored, upset>>

\* fopen, pthread_create, malloc, lock.  Without ostream, the buffer or the
\* thread nothing is served.
start(c) ==
  /\ pc[c] = "start"
  /\ Goto(c, "recv") \/ Goto(c, "joined")
  /\ UNCHANGED <<server, fds, buffer, got, backpos, reply, steady, device,
                 clients, stored, upset>>

\* the memory at the start of the buffer is overwritten, the rest stays
Overwritten(old, chunk) ==
  [i \in DOMAIN old |-> IF i <= Len(chunk) THEN chunk[i] ELSE old[i]]

\* -1 in a size_t is larger than 0: the loop goes on with the stale buffer.
recv(c) ==
  /\ pc[c] = "recv"
  /\ \/ \E k \in 1 .. MAXBUFFER :
          /\ Arrived(c, k)
          /\ buffer' = [buffer EXCEPT ![c] = Overwritten(@, SubSeq(sock[c], 1, k))]
          /\ got' = [got EXCEPT ![c] = k]
          /\ Goto(c, "handle")
     \/ /\ Ended(c)
        /\ Goto(c, "joined")
        /\ UNCHANGED <<buffer, got>>
     \/ /\ Failed(c)
        /\ got' = [got EXCEPT ![c] = -1]
        /\ Goto(c, "handle")
        /\ UNCHANGED buffer
  /\ UNCHANGED <<server, fds, backpos, reply, steady, device, stored>>

\* buffer[bytes_recieved] = '\0'.  With -1 the byte in front of the buffer is
\* cleared, which is 0 already.
Terminated(c) ==
  IF got[c] < 0 THEN buffer[c] ELSE [buffer[c] EXCEPT ![got[c] + 1] = NUL]

\* sscanf comes before the '\0' and sees what is left of earlier chunks.  The
\* ioctl is done on a descriptor of its own that is closed again: whether it
\* works or not, nothing comes of it.
handle_seekto(c) ==
  /\ pc[c] = "handle" /\ IsSeekto(String(buffer[c]))
  /\ upset' = upset \union {c}
  /\ got' = [got EXCEPT ![c] = 0]
  /\ Goto(c, "recv")
  /\ UNCHANGED <<server, fds, buffer, backpos, reply, steady, device, clients,
                 stored>>

Received(c) == String(Terminated(c))

\* fopen, fputs, fflush, fclose
savetofile(c) == Store(c, Received(c))

handle_text(c) ==
  /\ pc[c] = "handle" /\ ~IsSeekto(String(buffer[c]))
  /\ savetofile(c)
  /\ buffer' = [buffer EXCEPT ![c] = Terminated(c)]
  /\ got' = [got EXCEPT ![c] = 0]
  /\ LET line    == Contains(Received(c), NEWLINE)
         dropped == circular_buffer.full /\ circular_buffer' # circular_buffer
     IN  /\ Goto(c, IF line THEN "sendfile" ELSE "recv")
         /\ steady' = (IF dropped THEN {} ELSE steady)
                        \union (IF line THEN {c} ELSE {})
  /\ UNCHANGED <<server, fds, backpos, reply, clients>>

\* sendfile is left, with backstream closed or forgotten
SendfileReturns(c) ==
  /\ Goto(c, "recv")
  /\ backpos' = [backpos EXCEPT ![c] = 0]
  /\ reply' = [reply EXCEPT ![c] = << >>] /\ steady' = steady \ {c}

\* ctx->backstream = fopen(filename, "r")
sendfile_open(c) ==
  /\ pc[c] = "sendfile"
  /\ \/ SendfileReturns(c)
     \/ Goto(c, "reading") /\ UNCHANGED <<backpos, reply, steady>>
  /\ UNCHANGED <<server, fds, buffer, got, device, clients, stored, upset>>

\* The bytes one aesd_read returns: no more than the rest of one command.
ReadAt(pos) ==
  LET r == aesd_circular_buffer_find_entry_offset_for_fpos(circular_buffer, pos)
      e == circular_buffer.entry[r.slot]
  IN  IF r.found
      THEN SubSeq(e.buffptr, r.offset + 1, Min({r.offset + MAXBUFFER, e.size}))
      ELSE << >>

Advance(c, k) == backpos' = [backpos EXCEPT ![c] = @ + k]

\* fread calls aesd_read until that returns 0; in between send passes on what
\* has been read, or fails when the client is gone.
sendfile_read(c) ==
  LET out == ReadAt(backpos[c])
  IN  /\ pc[c] = "reading"
      /\ \/ /\ out # << >>
            /\ reply' = [reply EXCEPT ![c] = @ \o out]
            /\ Advance(c, Len(out))
            /\ UNCHANGED <<pc, steady>>
         \/ /\ out = << >> \/ peer[c] # "open"
            /\ SendfileReturns(c)
      /\ UNCHANGED <<server, fds, buffer, got, device, clients, stored, upset>>

\* pthread_join returns; closeActiveConnection and exit.
closeActiveConnection(c) ==
  /\ pc[c] = "joined"
  /\ Gone(c)
  /\ UNCHANGED <<server, device, clients, stored, upset>>

recieve_text(c) ==
  \/ recv(c) \/ handle_seekto(c) \/ handle_text(c)
  \/ sendfile_open(c) \/ sendfile_read(c)

child(c) == start(c) \/ recieve_text(c) \/ closeActiveConnection(c)

main_step ==
  \/ setupsigaction \/ open_connection \/ start_daemon
  \/ \E c \in Conns : accept(c)
  \/ close_acceptfd

Next ==
  \/ main_step \/ sigetrm_handler
  \/ \E c \in Conns :
       \/ Connect(c) \/ ClientSend(c) \/ ClientLeave(c)
       \/ child(c) \/ child_dies(c)

Spec == Init /\ [][Next]_vars

-----------------------------------------------------------------------------
(***************************************************************************)
(* Properties                                                              *)
(***************************************************************************)

\* The shape of the state of the processes of aesdsocket.c.
TypeOK ==
  /\ mpc \in {"setupsigaction", "open_connection", "start_daemon", "accept",
              "forked", "gone"}
  /\ acceptfd \in Conns \union {NoConn}
  /\ fds \in [Procs -> SUBSET (Conns \union {LISTEN})]
  /\ pc \in [Conns -> {"none", "start", "recv", "handle", "sendfile", "reading",
                       "joined", "exited"}]
  /\ buffer \in [Conns -> [1 .. MAXBUFFER + 1 -> Byte]]
  /\ got \in [Conns -> -1 .. MAXBUFFER] /\ backpos \in [Conns -> Nat]
  /\ reply \in [Conns -> Seq(Byte)] /\ steady \subseteq Conns
  /\ WorldTypeOK

\* Each process hands on what its client sent, in order and once, however
\* recv cuts it and whatever other processes write in between: nothing of an
\* earlier chunk that is still in the buffer gets into the device.  A process
\* that ends early leaves out the end.  (Seeks, resets, refused writes and
\* text with a NUL in it, which ends the string that fputs writes, excepted.)
StoredIsWhatWasSent ==
  \A c \in Conns \ upset :
    LET pending == IF pc[c] = "handle" THEN SubSeq(buffer[c], 1, got[c]) ELSE << >>
    IN  IF pc[c] = "exited" THEN IsPrefix(StoredText(c), sent[c])
        ELSE StoredText(c) \o pending \o sock[c] = sent[c]

\* Nothing but the driver keeps the processes apart, and that is enough for
\* whole lines: as long as every chunk that savetofile writes ends a line,
\* the commands in the device are the chunks themselves, in the order of the
\* writes, and none is made of the texts of two clients.
WholeLinesStayWhole ==
  (\A i \in 1 .. Len(stored) : Last(stored[i].text) = NEWLINE) =>
    LET log    == Log(circular_buffer)
        before == Len(stored) - Len(log)
    IN  /\ entry = NoEntry
        /\ \A k \in 1 .. Len(log) : Bytes(log[k]) = stored[before + k].text

OwnTexts(c) == {i \in 1 .. Len(stored) : stored[i].conn = c}

\* sendfile reads the device in several calls while other processes write.
\* Unless a command was dropped since the line was saved, what a client that
\* is still there has been sent at the end is all that the device then holds,
\* and one of the commands ends with the client's line.
ReplyIsWhole ==
  [][\A c \in steady \ upset :
       pc[c] = "reading" /\ pc'[c] = "recv" /\ peer[c] = "open" =>
         /\ reply[c] = Content(circular_buffer)
         /\ \E k \in DOMAIN Log(circular_buffer) :
              IsSuffix(stored[Max(OwnTexts(c))].text, Bytes(Log(circular_buffer)[k]))]_vars

\* A connection is open in its own child while that runs, in the server from
\* accept to close(acceptfd), and nowhere else: no child inherits the
\* connection of another, so a client sees the end of its connection when its
\* child exits.  The listening socket is different: children keep it open
\* after the server is gone, and connections can be made that nobody accepts.
ConnectionHeldByOwnChild ==
  \A p \in Procs, c \in Conns :
    c \in fds[p] =>
      (p = c /\ pc[c] # "exited") \/ (p = Server /\ mpc = "forked" /\ acceptfd = c)

=============================================================================
