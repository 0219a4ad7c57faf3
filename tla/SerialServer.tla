--------------------------- MODULE SerialServer ---------------------------
(***************************************************************************)
(* What the server promises its clients: connections are served one after  *)
(* the other, each once.  Only the connection in service adds to the log,  *)
(* and only it is sent anything: one unbroken stretch of the log at a      *)
(* time.                                                                   *)
(*                                                                         *)
(* AesdSocket implements this specification.                               *)
(***************************************************************************)
EXTENDS Naturals, Sequences, SequencesExt

CONSTANTS Conns, NoConn

VARIABLES
  serving,    \* the connection in service or NoConn
  served,     \* connections that are through
  log,        \* the texts stored, each with its connection, in order
  reply       \* what each client was sent

vars == <<serving, served, log, reply>>

Init ==
  /\ serving = NoConn /\ served = {}
  /\ log = << >>
  /\ reply = [c \in Conns |-> << >>]

Serve(c) ==
  /\ serving = NoConn /\ c \notin served
  /\ serving' = c
  /\ UNCHANGED <<served, log, reply>>

Stream(l) == FlattenSeq([i \in 1 .. Len(l) |-> l[i].text])

\* Client c, and no other, is sent one stretch of what is stored.
Answer(c) ==
  LET stream == Stream(log')
  IN  /\ reply'[c] # reply[c]
      /\ \E i, j \in 0 .. Len(stream) :
           reply' = [reply EXCEPT ![c] = @ \o SubSeq(stream, i + 1, j)]

\* A text or a command of the client.  Which text is added is not restricted:
\* it is the one found at the end.
Handle(c) ==
  /\ serving = c
  /\ \/ UNCHANGED log
     \/ /\ log' # << >> /\ log = Front(log')
        /\ Last(log').conn = c
  /\ Answer(c) \/ UNCHANGED reply
  /\ UNCHANGED <<serving, served>>

Leave(c) ==
  /\ serving = c
  /\ serving' = NoConn
  /\ served' = served \union {c}
  /\ UNCHANGED <<log, reply>>

Next == \E c \in Conns : Serve(c) \/ Handle(c) \/ Leave(c)

Spec == Init /\ [][Next]_vars

=============================================================================
