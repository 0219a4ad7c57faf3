# A TLA+ verification of /dev/aesdchar, aesdsocket and the examples

The repository builds a Linux character driver, `/dev/aesdchar`, that keeps
the last ten newline-terminated writes in a ring, and a TCP server,
`aesdsocket`, that stores what clients send in the device and sends the
device's content back; next to them stand two small example libraries. This
directory holds TLA+ models of these, TLC configurations that check them on
small instances, and TLAPS proofs about all of them for every size.

## Inventory

| Part | State | Operations | What makes it correct |
|---|---|---|---|
| Ring, `aesd-char-driver/aesd-circular-buffer.c` | `entry[10]`, `in_offs`, `out_offs`, `full` | init, add_entry, find_entry | the flag, the offsets and the sizes fit together over every wrap; a position finds its byte |
| Driver, `aesd-char-driver/main.c` | the ring, the unfinished command `entry`, `mtx`, file positions | load, unload, open, release, read, write, llseek, ioctl | lock and unlock are paired; copies stay in their blocks; no byte is lost; positions land where they should; calls return |
| Server, `server/aesdsocket_linkedlists.c` | connection elements, three mutexes, one buffer and two streams per thread | accept loop, `recieve_text` threads, signal handler | lines of two clients are not mixed; text is stored as sent; the reply has the client's own line; nobody is left waiting |
| Server, `server/aesdsocket.c` (older, not built by the makefile) | a process per connection, descriptors copied by `fork`, one buffer and one reply stream each | accept and fork, the child's `recieve_text`, signal handler | only the driver keeps the processes apart: whole lines stay whole, replies are complete, descriptors are closed where they must be |
| `examples/threading` | mutex, `thread_data` | start a thread, lock, unlock | ownership of `thread_data`, the mutex is handed on |
| `examples/systemcalls` | none of its own; the caller's stdio buffer, the output file | `do_system`, `do_exec`, `do_exec_redirect` | the return value says whether the command succeeded; children are reaped; what the caller printed and what the command wrote ends up where it should |
| `finder-app`, scripts, `examples/autotest-validate`, `student-test` | none between runs | | |

How they interact: server threads reach the driver through two buffered
streams per connection (`ostream` to write, `sendfd` to read) and, for the text
`AESDCHAR_IOCSEEKTO:x,y`, through a descriptor of its own and the ioctl. Inside
the driver every handler takes the one mutex `dev->mtx`. The kernel holds the
file position: `read` and `write` get a copy that is stored back after the
handler has returned, `llseek` and `ioctl` assign it under the mutex.

What is hard: handlers of several threads interleave at every lock and sleep
in allocations and user copies while holding it; allocations and copies fail
half-way; evictions shift the stream under readers; `recv` cuts the text
anywhere; clients reset; threads free memory that `main` still writes to;
`fork` copies mutexes, descriptors and buffers.
`PROJECT.json` lists these places as hazards, line by line.

## Modules

**CircularBuffer** gives the ring as operators on the value of a
`struct aesd_circular_buffer`. A memory block is the sequence of its bytes, and
the empty sequence is the NULL pointer. The loops of the C code become the
function `SizeBefore` (the running sum) and a choice of the iteration in which
they stop; `Log`, `Content` and `Consistent` are the reference definitions.

**BoundedLog** is what the device promises: a first-in first-out log of at most
`Capacity` commands.

**AtomicDevice** is a stronger promise, to programs that do not share their open
files: every write, read and seek on that log and on the unfinished command
takes effect in one step. What it leaves open is what the code leaves open.
`strchr` may find a newline behind the command (`MayEnd`, `MayGoOn`), the bytes
of the unfinished command are lost when `krealloc` fails (`Spoil`), and the
offset of a seek ioctl is one that *some* stored command has (`SeekTo`).

**AesdChar** is the driver. A system call is several steps of its thread:
entering the handler; taking the mutex and working up to the point where the
handler may sleep (`aesd_read_find`, `aesd_write_alloc`, `aesd_llseek`,
`aesd_ioctl`); the rest up to the unlock (`aesd_read_copy`, `aesd_write_copy`,
`aesd_llseek_set`); and leaving the kernel (`Return`). Modelled failures: both
allocations, both user copies (of `copy_from_user` every prefix), invalid
seeks. `strchr` runs over a block with no terminator, so `StrchrStops` lets it
find a newline or a NUL behind the block, and lets a byte never written
(`UNINIT`) be anything. Loading is one step, since `aesdchar_load` makes the
node only after `insmod`. `accepted`, `evicted`, `delivered` and `damaged` are
history and guard nothing, except that `accepted` carries the bound `MaxBytes`.
It implements BoundedLog and AtomicDevice. For the latter a write takes effect
at `aesd_write_copy`, a read at `aesd_read_copy` (the position of the file is
then the copy that the call still holds, `Position`, until `Return` stores it),
a seek when it assigns the position. Loading and a failing `krealloc` are steps
of their own (`Load`, `Spoil`); nothing else shows. `PrivateFiles`
are the files that one thread uses; a second user of a file can store an old
copy of the position over a newer one, so nothing of the kind holds for shared
files.

**ServerWorld** is what the two servers share: the clients and their
connections (external), and the device of CircularBuffer as a server sees it. It
takes or refuses a write as a whole here; how a write fails inside the driver is
AesdChar's business, and a device that has lost bytes of the unfinished command
to a failed `krealloc` is left out. Apart from that its `aesd_write` allows
exactly what `Write` of AtomicDevice allows, which is proved
(`ServersUseAtomicWrite`). Text is a sequence of pieces: ordinary text,
newlines, NUL bytes, `SEEKTO` (the seek command up to the first digit of its
second number, the least that `sscanf` recognises) and further digits. `recv`
cuts between any two pieces, so it can cut the second number; `SeekOffset` is
what `sscanf` then makes of it. `String` is the C string at the start of a
buffer, which a NUL ends: what a chunk has behind a NUL is lost to both servers,
a newline too.

**AesdSocket** is the server `aesdsocket_linkedlists.c`. Three start-up
steps that may fail come before the accept loop. `accept` and
`insert` are the two halves of the loop in `main`, cut at `pthread_create`,
because the thread can run to its end before `main` stores `newthread->pid`.
The steps of `recieve_text` are opening the files, locking, `recv`, one
iteration's handling (`handle_text` or `handle_seekto`), leaving the loop and
cleaning up. Modelled oddities: `-1` in a `size_t` makes the loop handle the old
buffer again; a short `fread` sets the end-of-file indicator for the rest of the
connection, and whether a later `fread` heeds it is left to the C library (both
outcomes are in `sendfile`); a missing `sendfd` or element crashes the process
when used, and so may the `malloc` of `sendfile` that nobody checks; a send to a
client that is gone may fail or raise SIGPIPE; `pthread_create` failing is not
noticed, and `thread_id` is then any value; elements stay on the list after
their threads have freed them. `insert` stores `main`'s local `thread_id` into
whatever the memory of the element is by then. `check_completed_threads` and
`closeconnection` delete (`delElement`) what their walks of the list come by
(`Walked`): nothing, because the `SLIST_EMPTY` in front of them is the wrong way
round.

**SerialServer** is what AesdSocket promises: one connection is served after the
other, each once; only the one in service adds to the log, and only it is sent
anything, one unbroken stretch of the log at a time. Whether a text is answered
is left open: after the first reply it depends on the C library. The mapping
takes `serving` from `mutex`, `served` from where the threads are, `log` from the
chunks stored and `reply` from what was sent back.

**AesdSocketFork** is the older server `aesdsocket.c`. It is not built any more
and `aesdsocket.h` has changed under it; the model reads `istream` as the pointer
that `aesdsocket.c` takes it for, and leaves its debugging output out. A process
is named by its connection. `mutex` and `filemutex` are not in the model: every
process has its own copy. So each call of the driver is a step of its own, also
each `aesd_read` behind the `fread` of `sendfile`. `fds` says which process has
which socket open; `fork` copies it. The receive buffer is memory here, with
what earlier chunks have left in it, because `sscanf` reads it before the
terminator is set; a NUL in it, of the client or of an earlier chunk, ends what
`sscanf` and `fputs` see.

**Threading** is `examples/threading`: `start_thread_obtaining_mutex` with its
two failures, the two halves of `threadfunc`, and a caller (external) that joins
and frees as `threading.h` asks. `thread_complete_success` starts as whatever
`malloc` left there. With `Checked` the mutex is one that may refuse to lock,
and then also refuses the unlock that `threadfunc` does all the same. A block is
lost when `pthread_create` fails, and comes back to the joiner otherwise.

**SystemCalls** is `examples/systemcalls`: for each call a parent that forks and
waits and a child that redirects, executes and ends, with every failure; the
wait status is reduced to exited with 0, exited otherwise, killed. The caller's
program prints through stdio (external); a child of `do_exec` or
`do_exec_redirect` has a copy of what is still in the buffer, which `execv`
discards and `exit(-1)` writes, to the terminal or, after `dup2`, to the file.
The output file is opened without `O_TRUNC`; each process writes at a position
of its own.

**MCAesdChar**, **MCAesdSocket**, **MCAesdSocketFork**, **MCThreading**,
**MCSystemCalls** hold the small instances;
**SequenceLemmas**, **CircularBufferProofs**, **AesdCharProofs**,
**ServerWorldProofs**, **AesdSocketProofs**, **AesdSocketForkProofs**,
**ThreadingProofs** and **SystemCallsProofs** the theorems.

## Runs

Ring size is 2 everywhere: it fills, wraps and evicts within three commands,
and with two slots out_offs takes both values. Two threads are enough for every
pair of handlers to interleave around the mutex.

| Run | Instance | Shows |
|---|---|---|
| `char_reader` | a writer and a reader with a file each, both also with an llseek and an ioctl; pieces, lone newlines and two-byte commands; reads of 1 and 2; 3 bytes written per load | type, ring, the found entry stays valid until copied, `find_entry` against the byte stream, reads return the right slice and never go back, refinement of AtomicDevice, every call returns |
| `char_writers` | two writers on one file; a whole command, a piece, a newline with a byte behind it, a newline behind a NUL | copies fit the block, no byte lost or reordered, refinement of BoundedLog |
| `char_seek` | a writer and a seeker with a file each, no reads; SEEK_SET, SEEK_CUR, SEEK_END, an invalid whence; ioctls inside, at the end of and beyond the stored commands | mutex paired, positions right |
| `char_krealloc` | as `char_writers` | violation: a failed `krealloc` leaves `entry.size` without bytes (main.c:102) |
| `char_seekto` | as `char_seek` | violation: after a wrap the offset is checked against the wrong command (main.c:191) |
| `socket_text` | two clients, 3 pieces together: lines of one and two pieces, a newline behind a NUL, a seek to command 0 with an offset of two digits, which recv may cut; 2 elements, chunks of 2 pieces | writes of a connection stay together, text stored as sent, elements not shared and all given back but those of connections given up at the start, first reply complete, the reply to a seek is the named command from the offset that sscanf found, refinement of SerialServer |
| `socket_liveness` | two clients with one line each | every client is served |
| `socket_fork` | two clients, 3 pieces together: lines, a NUL with text behind it, seek commands; chunks of 2 pieces | text stored as sent, whole lines stay whole without a lock, a connection is open only in its own child, replies are complete |
| `threading` | three threads, two blocks, a checked mutex | the mutex has one holder, the reported success is true, blocks are not shared and are lost only with failed starts, every thread returns |
| `system_calls` | two concurrent calls, each of any function; one text printed, up to 2 bytes of output, a file that is empty or longer than one output | `do_exec` reports the truth, children are reaped, every call returns and every child ends; a printed text is written once, and once more by each failing child that inherited it; output overwrites the start of the file and leaves the rest |
| `do_system_result` | the same | violation: true for a failed command (systemcalls.c:22) |
| `do_exec_redirect_result` | the same | violation: true whatever happened (systemcalls.c:129) |

Bounds: `MaxBytes` limits the bytes written between two loads of the module,
`MaxSent` and `MaxTotal` the pieces a client and all clients send, `MaxPrints`
and `MaxOutput` what the caller prints and a command writes; `Payloads`, `Counts`, `Seeks`, `Seektos`
and `Messages` are the inputs. Every property has a mutant in `PROJECT.json`, a
changed definition under which TLC finds it violated. The runs of the server
and of the examples switch the deadlock check off: the server may end (signals,
SIGPIPE), clients connect once, and a program makes each call once.

Symmetry is used where no property is temporal beyond single steps:
`char_writers` over the two threads, `socket_text` over connections and
elements, `socket_fork` over connections. Three pieces are enough in
`socket_fork` for a line of two pieces that `recv` cuts around the line of the
other client, for a reply of several reads with a write between them, and for
commands that are dropped; in `socket_text` for a second line on one connection,
for a stored command and a seek to it, whole or cut in its number, by the same
client or the other, for a NUL and the newline behind it in one chunk or in two,
and for commands that are dropped.

Fairness. `AesdChar!FairSpec`: a thread inside a handler goes on (weak), and
one that waits for `dev->mtx` gets it if the mutex is free again and again
(strong), which the kernel's mutex guarantees by handing the lock over to a
waiter that was passed by. Nothing makes user space call. `AesdSocket!FairSpec`:
`main` and the threads are scheduled (weak), which suffices for the pthread
mutex because every connection takes it once; and clients close or reset some
day (weak). The last one is about clients, not the server: `recieve_text` holds
the mutex while it waits for data, so a silent client does block all others.
`ConnectionsFinish` counts a connection as finished whose thread could not be
had or could not open its files; that `recieve_text` then never closes the
socket is not caught by it.
The examples: threads and processes are scheduled (weak; each thread takes the
mutex once), and a command that runs ends some day.

## Findings

1. `krealloc` failing in `aesd_write` overwrites the only pointer to the
   unfinished command while `entry.size` keeps counting its bytes
   (`char_krealloc`). The next write that succeeds stores bytes nobody wrote.
2. `aesd_ioctl` takes `write_cmd` as the n-th oldest command for the bound and
   the sum, but as a slot number for the size (`char_seekto`). Until the ring
   has wrapped both agree, which `SeektoStartsAtCommand` shows.
3. `do_system` never looks at the exit status, against its own comment
   (`do_system_result`).
4. `do_exec_redirect` returns true for every way the child can end, against
   "The rest of the behaviour is same as do_exec()" (`do_exec_redirect_result`).

## Proofs

Every safety invariant, action property and refinement that a passing run checks
is also a theorem (`PROJECT.json` lists them, and the property each one states).
They hold for any number of slots (at least one), threads, files, connections,
elements, processes, blocks, concurrent calls, byte values and inputs. What is
assumed of the constants stands in the ASSUMEs of the modules and says no more
than that null values are not members, that inputs are sequences of the right
kind (for SystemCalls: old file contents are sequences), and that sizes are
positive. Liveness is left to TLC.

**SequenceLemmas** has what the other modules need about sequences and the
library's operators. The library's induction theorems take an operator as a
parameter, which the provers cannot instantiate, so `SetInduction` states
induction over the natural numbers for a set: a set that holds 0 and is closed
under successor holds every number. With it `FlattenSeq` gets its equations
(`Flatten*`), and what is proved about `Content` rests on them. Equalities
between several joined sequences are wrapped in operators (`Associative`,
`Regroups`, `IsJoin`), so that a step can use one without unfolding it.

**CircularBufferProofs**: the operators of the ring.
- `FindEntryCorrect`: `find_entry` returns the entry whose share of the stream
  holds the byte, and NULL exactly past the end. It rests on `SizeBeforeDef`
  (the recursive function is well defined) and on `SizeBeforeMonotone`.
- `AddEntryCommits`: on a consistent ring `add_entry` is BoundedLog's `Commit`.
- `ContentAdd`, `FindEntryReadsContent`, `TotalSizeIsContent`,
  `CommandStartIsPrefix` connect the slots and running sums of the code with the
  byte stream `Content`: what `add_entry` does to the stream, that `find_entry`
  indexes it, and that the sums in llseek and ioctl are lengths of stretches of
  it.

**AesdCharProofs**: the driver.
- `IInv` is inductive (`Invariance`). The ring stays consistent only if each
  committed entry is non-empty and has its bytes, so `IInv` adds what is known
  about the write under way (`WriteFitsBlock`, `EntryHasItsBytes`), about the
  calls (`CallWellFormed`), that the mutex belongs to the one thread inside
  (`MutexPaired`, which keeps the device still between the two halves of a
  handler, hence `FoundEntryStaysValid`), and that no file is open while the
  module is out, so that loading meets no handler.
- `Refinement`: the driver implements BoundedLog under `log <- Log(ring)`.
- `AtomicityRefinement`: the driver implements AtomicDevice, for any number of
  threads and files, whatever else goes on at the files that threads share. The
  mapping cannot be read off `IInv`; the theorem rests on two more inductive
  facts next to `Stream`, `SeekChecked` and `InOrder` below. `CopiesInStep`: the
  copy of the position that a read or a write on a private file works with is
  still the position of the file. `EntryUnended`: unless bytes were lost, `strchr`
  has seen the whole unfinished command, and any newline in it stands behind a
  NUL, so that what the next write appends decides whether it ends. Further, `Moves` says what any step of a thread may touch, and from it
  `FileStep` gets that a step on one file leaves every other private file as it
  looks from outside. Then there is one lemma per step (`AllocAtomic`,
  `CopyAtomic`, `ReadAtomic`, `LlseekAtomic`, `IoctlAtomic`, `ReturnAtomic`,
  `EnterAtomic`, `ModuleAtomic`).
- `PlainCommandsEnd`: in text without NUL bytes `strchr` misses no newline. This
  is what the servers, whose text comes out of `fputs`, rely on.
- `NoByteIsLost` strengthens `NoByteLost` to `Stream`, which says the same
  between the two halves of a write too: until a `krealloc` fails, `accepted` is
  some evicted bytes of the counted length, the content, and the unfinished
  command.
- `SeeksStayInContent` needs `SeekChecked`: the bound that `aesd_llseek` has
  tested still holds when it stores the position, since the mutex is held.
- `ReadsGoForward` needs `InOrder`. The position of a file that one thread uses
  is not behind what the file was given, except between the end of a read and
  its return, when only the call's own copy of the position has moved.

**ServerWorldProofs**: what the two servers share. Clients and writes keep
`ClientsOK` and `StoreOK`, and `DeviceHoldsTheEnd`: the device has the end of
everything stored, the part in front having been dropped. `ServersUseAtomicWrite`
ties the servers to the driver: the write they are verified with has the
outcomes of AtomicDevice's `Write`, no more and no fewer.

**AesdSocketProofs**: the threaded server.
- `IInv` has the state's shape, `Elements` (a running thread has an element, no
  other thread has the same, what is not free belongs to somebody, and when
  `main`'s pending store goes to memory that is in use, `thread_id` is the thread
  that uses it: `ElementInHand`) and `Turns`. The latter
  is why connections do not interleave: the mutex belongs to the thread in its
  loop (`LockHeld`), all writers have had it (`WritersKnown`), and since the
  holder's first write nobody else has written (`HolderIsLast`).
- `ElementsAreGivenBack`: an element that is not free belongs to a thread that
  runs, or to a connection given up at its start. It is part of `Elements`.
- `TextIsPassedOn` keeps an account: what is stored, in hand and under way is
  together what was sent, unless the connection is upset: it was reset, it
  seeked, a write of it was refused, or it sent a NUL.
- `FirstReplyIsComplete`, `SeekReplyIsTheCommand` and `Refinement` follow from
  `DeviceHoldsTheEnd`: a reply is a stretch of the content, hence of the log. The
  offset of a seek reply is the one `sscanf` found in the chunk, which is a part
  of the client's number when `recv` has cut it.

**AesdSocketForkProofs**: the forking server. There is no lock, so everything
comes from the driver and from what a process has to itself.
- `ConnectionsStayOwn` needs that nobody has a connection open that was not
  accepted yet (`NotAcceptedYet`), or a `fork` could pass it on.
- `TextIsPassedOn` keeps the same account, with the same exceptions, until the
  process ends; the chunk in hand is cut out of the receive buffer. `ChunkInHand`
  says that no NUL is inside it (or the connection is upset), so `Received` gives
  all of it back and nothing of what an older chunk left behind.
- `LinesStayWhole` needs that the device has no more commands than were written.
- `RepliesAreWhole` needs `Reading`: a reply starts at the beginning
  (`FreshStart`); as long as nothing was dropped, what was sent is the content
  up to the position, and the writes of others only add behind it (`ReadSoFar`);
  and the line that is answered is still the end of some command
  (`LineIsThere`).

**ThreadingProofs**: `IInv` says who has which block and when
(`BlockWhileRunning`), that success follows the lock (`SuccessFollowsLock`), and
that the verdict stored in the block is still the thread's own when it is read
(`VerdictStored`). `LossIsBounded` counts: lost blocks are at most as many as
failed starts.

**SystemCallsProofs**: `CallState` relates how far the parent and the child of a
call have come; the return values and the reaping follow. `PrintInv` counts the
copies of every printed text on the terminal and in the buffer against the
children that flush theirs. `FileInv` says that a child alone on the file
writes where it stopped, over what it found.

Only model-checked: `CallsReturn`, `ConnectionsFinish`, `ThreadsReturn` and
`EveryCallReturns`, which are liveness under fairness and outside the prover's
reach.

## Plan

All components have their runs, and every safety property, action property and
refinement its proof. What could be added:
1. Open files shared between threads: AtomicDevice says nothing of them. A
   specification would have to let a call that returns store an older position.
2. Abstract specifications of the examples (what a caller of `do_exec` and of
   `start_thread_obtaining_mutex` may rely on) and their refinement.

## Not modelled

- The timer of both servers: `setuptimer` is never called in
  `aesdsocket_linkedlists.c` (the call is commented out), and the code itself is
  commented out in `aesdsocket.c`. `deleteFile`, whose calls are commented out.
- Liveness of the fork variant: its children wait for nobody, so all there is to
  say is that a scheduled process goes on. A restart of it, next to children
  that still have the old listening socket.
- Memory the driver leaks when it overwrites an entry, and zombies of the fork
  variant: nothing in the state of the programs depends on them.
- Writes of zero bytes, which make the driver fault, and opens while the module
  is still being initialised, which `aesdchar_load` excludes by making the node
  afterwards.
- Clients that stop reading, so that `send` blocks.
- The shell scripts (`aesdchar_load`, `aesdchar_unload`,
  `aesdsocket-start-stop`, the test and image scripts): straight lines of tool
  calls. The finder application and the autotest example, which keep no state
  and have one thread.
