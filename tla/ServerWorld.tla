---------------------------- MODULE ServerWorld ----------------------------
(***************************************************************************)
(* What the two socket servers share: the clients with their connections   *)
(* (external), and /dev/aesdchar as a server sees it.                      *)
(*                                                                         *)
(* The bytes of CircularBuffer are here the pieces a client's text is made *)
(* of.  SEEKTO is the text "AESDCHAR_IOCSEEKTO:x,y" up to the first digit  *)
(* of y: the least that sscanf recognises.  The other digits of y follow   *)
(* in pieces of their own, which recv may cut off.  A command that recv    *)
(* cuts before that is text like any other.                                *)
(***************************************************************************)
EXTENDS CircularBuffer

CONSTANTS
  Conns,             \* connections, each made by a client at most once
  NoConn,
  NEWLINE, NUL, SEEKTO,
  Number,            \* what %u makes of the digits behind SEEKTO, for all
                     \*   the texts it takes for digits
  Messages,          \* what clients send
  MAXBUFFER,         \* pieces one recv or fread returns at most
  MaxSent, MaxTotal  \* bounds: pieces a client sends, and all together

ASSUME ServerWorldAssumption ==
  /\ NoConn \notin Conns
  /\ {NEWLINE, NUL, SEEKTO} \subseteq Byte /\ NEWLINE # NUL
  /\ Number \in [DOMAIN Number -> Nat] /\ << >> \in DOMAIN Number
  /\ Messages \subseteq Seq(Byte)
  /\ MAXBUFFER \in Nat \ {0} /\ MaxSent \in Nat /\ MaxTotal \in Nat

VARIABLES
  sock, peer,       \* pieces under way to the server; what the client did
  circular_buffer, entry,   \* the device
  sent, stored, upset
                    \* history: pieces sent by each client; chunks stored,
                    \*   with their connection; connections that were reset,
                    \*   seeked, lost a write or sent a NUL

device  == <<circular_buffer, entry>>
clients == <<sock, peer, sent>>

WorldInit ==
  /\ sock = [c \in Conns |-> << >>]
  /\ peer = [c \in Conns |-> "none"]
  /\ circular_buffer = aesd_circular_buffer_init
  /\ entry = NoEntry
  /\ sent = [c \in Conns |-> << >>]
  /\ stored = << >>
  /\ upset = {}

WorldTypeOK ==
  /\ sock \in [Conns -> Seq(Byte)] /\ sent \in [Conns -> Seq(Byte)]
  /\ peer \in [Conns -> {"none", "open", "closed", "reset"}]
  /\ circular_buffer \in Buffer /\ entry \in Entry
  /\ stored \in Seq([conn : Conns, text : Seq(Byte)])
  /\ upset \subseteq Conns

-----------------------------------------------------------------------------
(***************************************************************************)
(* Clients.                                                                *)
(***************************************************************************)

ClientConnects(c) ==
  /\ peer[c] = "none"
  /\ peer' = [peer EXCEPT ![c] = "open"]
  /\ UNCHANGED <<sock, sent, upset>>

ClientSends(c) ==
  /\ peer[c] = "open"
  /\ \E m \in Messages :
       /\ Len(sent[c]) + Len(m) <= MaxSent
       /\ SumFunction([d \in Conns |-> Len(sent[d])]) + Len(m) <= MaxTotal
       /\ sock' = [sock EXCEPT ![c] = @ \o m]
       /\ sent' = [sent EXCEPT ![c] = @ \o m]
  /\ UNCHANGED <<peer, upset>>

ClientCloses(c) ==
  /\ peer[c] = "open"
  /\ peer' = [peer EXCEPT ![c] = "closed"]
  /\ UNCHANGED <<sock, sent, upset>>

\* The end of what is under way may be lost with a reset.
ClientResets(c) ==
  /\ peer[c] = "open"
  /\ peer' = [peer EXCEPT ![c] = "reset"]
  /\ \E k \in 0 .. Len(sock[c]) : sock' = [sock EXCEPT ![c] = SubSeq(@, 1, k)]
  /\ upset' = upset \union {c}
  /\ UNCHANGED sent

\* recv returns the first k pieces that have arrived.  What stands behind a
\* NUL among them is lost: the servers use the buffer as a C string.
Arrived(c, k) ==
  /\ k \in 1 .. Min({Len(sock[c]), MAXBUFFER})
  /\ sock' = [sock EXCEPT ![c] = SubSeq(@, k + 1, Len(@))]
  /\ upset' = IF Contains(SubSeq(sock[c], 1, k), NUL) THEN upset \union {c}
              ELSE upset
  /\ UNCHANGED <<peer, sent>>

\* recv returns 0
Ended(c) ==
  /\ sock[c] = << >> /\ peer[c] = "closed"
  /\ UNCHANGED <<clients, upset>>

\* recv returns -1.  The error is reported only once, the next recv returns 0.
Failed(c) ==
  /\ sock[c] = << >> /\ peer[c] = "reset"
  /\ peer' = [peer EXCEPT ![c] = "closed"]
  /\ UNCHANGED <<sock, sent, upset>>

\* the C string at the start of memory
String(memory) ==
  LET ends == {i \in DOMAIN memory : memory[i] = NUL}
  IN  IF ends = {} THEN memory ELSE SubSeq(memory, 1, Min(ends) - 1)

-----------------------------------------------------------------------------
(***************************************************************************)
(* The device.                                                             *)
(***************************************************************************)

\* aesd_write does not reset dev->entry after the command was added.
MutKeepsEntry(text) ==
  LET e == [buffptr |-> Bytes(entry) \o text, size |-> entry.size + Len(text)]
  IN  /\ circular_buffer' = IF Contains(text, NEWLINE)
                            THEN aesd_circular_buffer_add_entry(circular_buffer, e)
                            ELSE circular_buffer
      /\ entry' = e

\* the unfinished command with text behind it
Extended(text) ==
  [buffptr |-> Bytes(entry) \o text, size |-> entry.size + Len(text)]

\* aesd_write of text, which is not empty.  strchr may run past the block and
\* find a newline there.
aesd_write(text) ==
  \/ /\ circular_buffer' =
          aesd_circular_buffer_add_entry(circular_buffer, Extended(text))
     /\ entry' = NoEntry
  \/ /\ ~Contains(Extended(text).buffptr, NEWLINE)
     /\ entry' = Extended(text)
     /\ UNCHANGED circular_buffer

\* The text is written, or refused by the device and gone: nobody looks at the
\* return value.
Store(c, text) ==
  \/ /\ text # << >>
     /\ aesd_write(text)
     /\ stored' = Append(stored, [conn |-> c, text |-> text])
     /\ UNCHANGED upset
  \/ /\ text # << >>
     /\ upset' = upset \union {c}
     /\ UNCHANGED <<device, stored>>
  \/ /\ text = << >>
     /\ UNCHANGED <<device, stored, upset>>

\* sscanf(buffer, "AESDCHAR_IOCSEEKTO:%u,%u", ...) == 2
IsSeekto(text) == text # << >> /\ text[1] = SEEKTO

\* seekto.write_cmd_offset: %u takes as many digits as there are.  When recv
\* has cut the number these are not all that the client sent.
SeekOffset(text) ==
  LET ends == {i \in 1 .. Len(text) : SubSeq(text, 2, i) \in DOMAIN Number}
  IN  Number[SubSeq(text, 2, Max(ends))]

-----------------------------------------------------------------------------
\* what was stored for connection c, in order
StoredText(c) ==
  FlattenSeq([i \in 1 .. Len(stored) |->
                IF stored[i].conn = c THEN stored[i].text ELSE << >>])

=============================================================================
