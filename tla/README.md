# Verification of the Raspberry Pi Linux course programs

The repository is a course's collection of standalone C programs, one directory per
day. Each has a `main()` of its own and most are a page long; what makes some of them
hard is that they talk to each other: servers with `select()`, with `epoll`, with
threads, and processes that share memory, semaphores and devices. This directory holds
TLA+ models of those programs, TLC configurations, and proofs for TLAPS. There are no
tests and no documents in the repository; its comments are the only statements about
the programs, and where one of them disagrees with the code, a run shows it.

`PROJECT.json` lists the components, the runs, for every property a change of the code
that breaks it, the lines every definition stands for, the hazards and the theorems.

## 1. The system

| component | state | operations | talks to |
|---|---|---|---|
| chat server, `0617/selet_server.c` | `client_fd[5]`, `client_index`, `maxfd`, `readfd`, the scan's index | accept and announce, relay a line, announce a departure, remove a client, stop at five clients | select clients, over TCP |
| echo server, `0617/select_server.c` | the same | accept, echo, remove, stop at five | select clients |
| select client, `0617/selet_client.c` | a socket | write a line, wait for one `read()`, quit | either server |
| epoll server, `0618/epoll_server2.c` | `socklist`, `nfds`, `events`, `mesg`, the kernel's interest list | accept, read and send to all | epoll client |
| epoll client, `0618/epoll_client2.c` | a socket, edges not yet reported | send a line, read once per edge, leave | epoll server |
| web servers, `0618/webserver.c`, `webserver2.c` | per thread the request line and the file's name; `strtok()`'s hidden variable | accept, parse, send a file or an error, close | browsers |
| sensor threads, `0616/rpi5.c`, `r.c` | `is_run`, two mutexes, two descriptors, the sensors' registers | measure, read the joystick, join, switch off | devices |
| shared memory, `0616/shm_sem.c` | a segment, a semaphore, `SEM_UNDO` counts | P, V, remove | its own child, the next launch |
| signal-driven semaphore, `0616/sem.c` | `cnt`, a private semaphore, the active calls | P in `main()`, P and V in two handlers | signals |
| named semaphore, `0616/thread.c` | a semaphore that outlives the process | P and V in a thread, join, unlink | other launches |
| message queue, `0613/msg_server.c`, `msg_client.c` | a queue that outlives both | send a line and a stop, receive, remove | each other |
| fifo, `0613/fifo_server.c`, `fifo_client.c` | a name, a pipe | make, open, copy, read until the end | each other |
| iterative TCP server, `0617/tcp_server.c`, `tcp_client.c`, `tcp_shutdown.c` | a socket, `mesg` | serve one line per connection | each other |
| UDP echo, `0617/udp_server.c`, `udp_client.c` | `mesg` | send a line, wait for a datagram | each other |
| sensor console, `0612/rpi4.c` | the sensors' registers | on a key: take a sample, read it by bytes, compute | two sensors on an I2C bus |
| directory listing, `0612/list.c` | the working directory, the calls' buffers | list, descend, climb | the file system |
| pipe, socket pair, mutex, process, signal, file and terminal examples | none of their own | straight-line system calls | the shell |

What is hard about them:

* a server with one thread that calls a blocking `read()` on the word of an earlier
  `select()`, and changes its table while it scans it;
* a broadcast that is a loop of `write()`s while its receivers leave, with `SIGPIPE` at
  its default action;
* a client that waits for a response without a timeout;
* edge-triggered events that are reported once, in an array that is scanned too far;
* threads that share a hidden variable, and one process-wide signal that ends them all;
* a flag for the end of three threads, one of which blocks in `read()`;
* processes that are killed and leave IPC objects behind, and `SEM_UNDO`;
* browsers that close or reset a connection before, while and after they are answered, or
  never read the answer;
* names (of a queue, a fifo, a semaphore) that are removed or taken over while others use
  what they named;
* signal handlers that interrupt `main()`, each other, and a system call that waits;
* results of `chdir()`, of `fork()`, of transfers on a bus and of `fgets()` that nobody tests.

## 2. The modules

| module | models | state and actions in the code |
|---|---|---|
| `StreamSocket` | TCP connections as these programs use them (external) | `up`, `down`: bytes in either direction; `peer`: what the client's end has done (FIN, RST); `held`: the server's descriptor; `backlog`, `listening`; `Write` says when a write is lost, when it provokes a RST and, as `Fatal`, when it raises SIGPIPE |
| `SelectClient` | `selet_client.c` | `phase` is the place in `main()`, `sent` how many lines were written |
| `SelectTable` | the loop the two select servers share | `client_fd`, `maxfd`, `start_index` as in the code, `fd` the descriptor numbers the kernel gives, `ready` the copy of the bits in `readfd`, `pc` the place in the loop |
| `EchoServer` | `select_server.c` | adds `mesg`, what was read and is written back |
| `ChatServer` | `selet_server.c` | adds `i` and `mesg`: a broadcast is one `Tell` per `write()` |
| `ChatRoom` | abstract | what a chat server promises: each event reaches all other members in one step |
| `Loopback` | abstract | what an echo server promises: each connection is a pipe back to its client |
| `EpollClient2`, `EpollServer2` | `epoll_client2.c`, `epoll_server2.c` | `events` with its stale and never assigned entries, `socklist`, `mesg`, loop variables `i`, `j`; `edge` and `news` are the kernel's not yet reported edges; at `overrun`, `main()` has gone beyond an array |
| `WebServer` | `webserver.c` and `webserver2.c` | `stage` is where each thread is, `saved` is strtok's variable; `program` says which of the two runs; `asked` records what each browser has done, and `MayBlock` says when a `write()` may wait for it |
| `SensorThreads` | `rpi5.c` and `r.c` | `pc`, `joystick` and `main` are the places of the four threads |
| `ShmSem` | `shm_sem.c` | `pc` of the two processes of each launch, `sem`, `val`, `seg`: the kernel's objects under the two keys, `undo` its SEM_UNDO counts |
| `MessageQueue` | `msg_server.c`, `msg_client.c` | `server`, `sender`: places in both `main()`s; `queue`: which server's queue is under the key, `messages`: what is in it; `msqid` what each client has found; `accepted`, `printed`, `stopper` record what the queue took and the server did with it |
| `SignalSemaphore` | `sem.c` | `calls` is the stack of active calls of `p()` and `v()`, each with its instruction and the register that `cnt` was loaded into; `semval`, `cnt`; `pending` signals; `torn` records a handler where nothing protects `cnt` |
| `LineServer` | `tcp_server.c` with `tcp_client.c` and `tcp_shutdown.c`, on `StreamSocket` | `tcpd`, `tcp`: places in the loops; `csock`, `mesg` as in the code; `kind` says which client a process runs |
| `UdpEcho` | `udp_server.c`, `udp_client.c` | `text` is the client's `mesg`; `net` the datagrams on their way; `asked`, `faults` record what was sent and what the network did |
| `DirectoryWalk` | `list.c` | `frames`: the active calls of `listDir()`, with `dirName` as places in the stream's buffer; `cwd`, `stat` (`statBuf`), `listed` |
| `SensorConsole` | `rpi4.c` and, external, the two sensors | `power`, `oneshot`, `sample`, `chip`: the registers; `bytes` what was read for the key; `Reading` is the arithmetic, in whole numbers |
| `NamedPipe` | `fifo_server.c`, `fifo_client.c` | `fifo`: whose fifo has the name; `reads`, `writes`: which one each process found; `pipe` what is in each |
| `NamedSemaphore` | `thread.c` | `thread`: the place of each launch; `named`, `uses`, `value`: the semaphores, the name, and who has which |
| `MCChat`, `MCEcho`, `MCEpoll`, `MCWeb` | names for the clients, symmetry | |
| `MCPrograms` | one instance of the eight modules above and `ShmSem` | `program` says which of them a behaviour is about |
| `SelectTableProofs`, `EchoServerProofs`, `ChatServerProofs` | proofs about the select servers | |
| `EpollServer2Proofs`, `WebServerProofs`, `SensorThreadsProofs` | proofs about the modules they are named after | |
| `NetworkProofs` | proofs about `UdpEcho` and `LineServer` | |
| `ProgramsProofs` | proofs about `NamedPipe`, `SignalSemaphore`, `MessageQueue`, `SensorConsole`, `ShmSem`, `DirectoryWalk` and `NamedSemaphore`, and about `MCPrograms` as a whole | |

Composition: `EchoServer` and `ChatServer` extend `SelectTable`, which extends
`SelectClient`, which extends `StreamSocket`; their `Next` is a step of the server, of a
client or of the network. `EpollServer2` extends `EpollClient2` in the same way, and
`LineServer` extends `StreamSocket`.

`MCPrograms` is no composition: the nine small systems share nothing, and a behaviour is
one of one of them, chosen in the initial state. One run checks them all, with each
property stated in the module it is about. Only their liveness properties are taken
together, in `NobodyWaitsForEver`: for k from 1 to 4, if the k-th client, thread or launch
of the program that runs waits, it is served. Since `program` never changes, this is the
conjunction of `SendersEnd`, `AnsweredUnlessBusy`, `AnsweredUnlessLost`, `KeyAnswered`,
`OpenReturns`, `ThreadEnds` and `BothEnd` of the modules.

A line is a pair of a client and a number, and number 0 a line that begins with `q`.
Wording, addresses, the numbers in front of a relayed line and the length of buffers
are left out. A `write()` on a stream is one element for the chat and the epoll server, so
that what one read() returns is any number of whole texts; lines are never split.

What the operating system does is modelled from how it is used: a close with the peer's
data unread resets the connection; a write to a connection whose peer has closed is
accepted once and answered by a RST, and the next raises SIGPIPE; `accept()` gives the
lowest free descriptor. The select client reads all there is before it writes again, and
a RST from a server's close with its data unread is not told from the end of the stream,
which the client treats alike (`selet_client.c:75`).

## 3. The runs

| run | instance | what it shows |
|---|---|---|
| `chat_pass` | three clients, one of whom talks, four slots | type invariant, `ReadNeverBlocks`, `NobodySkipped`, and that the server implements `ChatRoom` |
| `chat_live` | two clients, two lines each | what is sent is read, who leaves is removed, who connects is accepted |
| `chat_full` | three clients, a table of two | `TableExact` at the limit: no slot beyond the last; nobody left blocked |
| `chat_sigpipe` | as `chat_pass` | violated: `KeepsRunning`; a client that has gone is written to twice |
| `chat_reply` | two clients | violated: `ResponseArrives`; a client alone in the room waits for ever |
| `echo_pass` | two clients, two lines each | `ResponseMatches`, `SurvivesItsClients`, `ResponseOnItsWay`: client and server never wait for each other; the server implements `Loopback`, responses arrive, slots are freed; what the table promises is proved for it (section 5) |
| `web_pass` | two browsers, four descriptors, both programs | requests are not mixed up with `sscanf()`, answers are whole, the two ways to kill the process, whoever has asked or gone gives the thread back, unless it stays and never reads a large file |
| `epoll_pass` | three clients, one of whom may leave, two lines in all, arrays of three | all hear the same; who writes is heard while all stay; nothing is read or written beyond an array before `socklist` is full |
| `epoll_leave` | two clients, both may leave | violated: `LeaverIsClosed`; the branch that closes is never reached |
| `epoll_notice` | as `epoll_leave` | violated: `DisconnectIsNoticed`; a text hides the end of the stream behind it |
| `sensors_pass` | three joystick events, both programs | a sensor is on while it is measured, all is clean at the end, Enter ends the program |
| `programs_pass` | nine small systems | see below |

What `programs_pass` shows, by system:

| system | instance | property, and what it says |
|---|---|---|
| message queue | three clients, two servers, room for two stops | `OwnLineFirst`: lines are printed once, in order, and the client whose stop ends the server has had its own line printed; others' may be lost. `SendersEnd`: a client waiting for room is woken when the queue is removed |
| `sem.c` | value 2, four signals | `CountIsValue`: whenever `main()` tests `cnt`, it agrees with the semaphore, but after a handler between a load and its store, or before `SETVAL` |
| TCP | two clients of either kind, two lines each, `accept()` that may fail | `FirstLineOnly`: a connection carries one line and its answer; `AnsweredUnlessBusy`: who waits is answered, or the server sits in `read()` for a silent client |
| UDP | two clients, one line each and `q`, one fault | `AnswersInStep`: the answer is to the last line, but after a duplicate; `AnsweredUnlessLost` |
| `list.c` | two trees, one directory closed to the user in one of three ways, owners without a name | `WalksTheTree`: the working directory is the one being listed, none is listed twice, all are listed |
| `rpi4.c` | two sensors, three samples (all three bytes of a pressure, both signs of temperature and humidity), one failed transfer per key | `ReadingIsSample`: what is printed is one fresh sample, with its sign, on the chip's line; `KeyAnswered` |
| fifo | two clients, two servers | `LostOnlyIfMissed`: data is lost and SIGPIPE raised only for who opened between the last `read()` and `close()`; `OpenReturns` |
| `thread.c` | four launches, two permits | `PermitsKept`: a permit is at the semaphore or with one launch, alive or dead; `ThreadEnds`: every thread gets through, as long as fewer launches than permits died in the section |
| `shm_sem.c` | two launches, `fork()` that may fail | `InStep`, `NothingLeft`, `BothEnd`: parent and child stay in step, end, and leave nothing behind |

Killed at any point are the server and the clients of the message queue and of the fifo, the
clients of TCP, the launches of `thread.c`, and parent and child of `shm_sem.c`. The TCP and
UDP servers are not killed: they keep nothing, and a restart would be the initial state.

Bounds. `MaxLines`, `MaxSpeakers`: the lines the users type; two lines per client are
enough for one to be in the connection while the other is answered, and for a second
write after a reset. Three clients are the fewest with a member that is neither the
sender nor the one who leaves, and with a removal before, at and behind the scan's place.
`MaxClients` is 5 in the code; 2 makes the table full with a client in the backlog, 4
leaves room for all three. `FdLimit` stands for the process's limit; `maxfd`, which the
code raises in each pass, stops there, from where `select()` sees no difference. A client
process connects once. `MAX_EVENT` is 32 in the code; 3 is the number of entries that two
connections and the listening socket need: with it the third client fills `socklist`, and
the scan and the broadcast go beyond the arrays (`Overrun`; its third way, an `accept()` with
all entries taken, is in the proofs only, since it takes a client more). `Leavers` are the
clients that ever leave; one, in `epoll_pass`, is enough for a hole in the broadcast. `Descriptors` = 4
lets two connections run into the limit at `dup()` and at `open()`. Three events cover
one before, at and after Enter. Two launches are a crash and a restart.

In `programs_pass`: `QueueBytes` is Linux's limit, which two stops of `BUFSIZ` fill, so that
the third client waits for room; `Servers` = 2 is one that was killed and one that comes
behind it. The semaphore of `sem.c` is 8 in the code; with 2, and four signals, it
reaches 0 under `main()`'s own P, a waiting call is interrupted and gives up, and handlers
nest as deep as they can. `MaxFaults` = 1: one loss or one duplicate is enough for a client
to wait or to be one behind. The first tree has a directory with
two subdirectories, one of which has one of its own, and fits the buffer (`Buffered` = 3);
the second tree's does not. `Runs` = 4 with two permits: two die in the section, a third waits, and the
fourth comes after the name was removed; `Permits` is 7 and `Rounds` 10 in the code.

Every run says `CHECK_DEADLOCK FALSE`: the users may stop typing, and the programs end.

Fairness. The servers, the threads and the processes are run by the operating system
(weak fairness of each one's step as a whole: every loop waits in a system call that
returns when it can). Of the clients only what a process does without its user is fair
(in `epoll_pass` not even that, `ServerSpec`: its property needs the server alone):
reading a response, noticing a close, closing. Nobody has to type, quit or connect, and
the RST of the network need not come. Datagrams and samples that are not lost do arrive:
weak fairness of the UDP server's answer, of a client's receipt, and of a sensor that is on.
A thread of the web servers is fair only while it does not wait in a
`write()`: the kernel may or may not have room for the rest of a large file behind what a
browser that stays has not read (`MayBlock`), so the thread may go on there and need not.
A failed `accept()`, `fork()`, `getpwuid()` or transfer may happen and need not.
The modules with a specification of their own state the same fairness there;
`MCPrograms` conjoins it for the program that runs. `SignalSemaphore` and `DirectoryWalk`
have safety properties only, and no fairness.

## 4. The findings

* `selet_server.c` ends by SIGPIPE when a client that has gone is written to a second time
  before the scan has come to it (`chat_sigpipe`; line 173 promises to run indefinitely).
  `select_server.c` does not: theorem `EchoSurvivesItsClients`.
* `selet_client.c` waits for a response to each line, which the chat server sends to all
  but the sender (`chat_reply`).
* `epoll_server2.c` never closes a connection: the branch is inside `n > 0` (`epoll_leave`).
* `epoll_client2.c` may miss the end of the stream, as its own comment warns
  (`epoll_notice`).

Smaller ones that need no run are under "hazards" in `PROJECT.json`: the second argument
of `strtok()` in `webserver.c`, which the mutant of `ServesWhatIsAsked` shows; lengths
of buffers; the comment "1로 설정" (set to 1) beside the value 0 in `shm_sem.c:56`, with
which `InStep` would not hold (its mutant), and beside the value 8 in `sem.c:70`. Where
one of the properties of `programs_pass` has an exception, the exception is what the
code does wrong or leaves to chance: `udp_client.c:39` is one answer behind after a
duplicate, `list.c:33` goes astray below a directory it cannot enter and `list.c:81`
reads overwritten names in a large one, a file whose owner has no name ends the listing
(`list.c:97`), a `fork()` that fails leaves `shm_sem.c:115` with a number that was never
assigned, `rpi4.c:182` takes a failed read for a byte of 255, a killed `msg_server`
leaves a queue at which `msg_server.c:19` fails ever after, a killed `thread.c` leaves a
permit less, and a `p()` in SIGTSTP's handler that interrupts SIGINT's (`sem.c:43`)
waits with both signals masked.

## 5. What is proved

Each theorem is about the specification of its module and holds for every value of the
constants that the assumptions next to them allow: any set of clients, any number of
lines, slots, launches, descriptors, events and signals, any sample and calibration, any
finite tree. The assumptions say of what type a constant is, and no more: a sample has all
24 bits of a pressure and both signs of temperature and humidity (`SampleAssumption`), there
may be more clients than the epoll server's `MAX_EVENT`, and `WalkAssumption` says what a
tree is: every path but the root's is a directory's with a name behind it, and no name is
`"."`.

| theorem | property |
|---|---|
| `EchoTypeOK`, `ChatTypeOK` | the type invariants |
| `EchoTableExact`, `ChatTableExact` | the table holds exactly the open connections |
| `EchoReadNeverBlocks`, `ChatReadNeverBlocks` | no `read()` blocks |
| `EchoNobodySkipped`, `ChatNobodySkipped` | the scan skips nobody and turns to nobody twice |
| `EchoSurvivesItsClients` | no client can kill the echo server |
| `EchoResponseMatches` | the response is to the line it follows |
| `EchoImplementsLoopback` | the echo server is a set of pipes back to their clients |
| `ChatImplementsRoom` | the chat server is a room: each event reaches all other members, in one order |
| `EpollTypeOK` | the scan, the broadcast and `accept()` stay within their arrays until `socklist` is full |
| `EpollAllHearTheSame` | who stays hears everything since it was accepted, in one order |
| `WebTypeOK` | a connection is open as long as its thread runs |
| `WebServesWhatIsAsked` | `webserver2.c` does not mix up requests |
| `WebAnswerIsWhole` | a GET that was sent to the end is answered to the end |
| `WebTwoWaysToKill` | SIGPIPE needs a client that goes from a large file, or resets behind the line of a GET |
| `SensorsTypeOK`, `SensorsMeasureWhenOn`, `SensorsEndClean` | a sensor is on while it is measured, and all is off at the end |
| `LineFirstLineOnly` | a connection of the iterative server carries one line and its answer |
| `UdpAnswersInStep` | the answer a UDP client shows is to its last line |
| `PipeLosesOnlyMissed` | a fifo loses only what was written by who came too late |
| `SignalCountIsValue` | `cnt` is what the semaphore of `sem.c` lacks |
| `QueueOwnLineFirst` | who stops the queue's server has had its own line printed |
| `ConsoleReadingIsSample` | the console prints one fresh sample, with its sign, on the chip's line |
| `ShmInStep` | the child never does more than the parent has let it |
| `ShmNothingLeft` | the last launch to end leaves no IPC object |
| `WalkListsTheTree` | a tree is listed in its own directories, once, and as a whole |
| `NamedPermitsKept` | no permit of the named semaphore is made, or lost but with a launch that dies inside |
| `NamedSomeoneInside` | who waits for the named semaphore waits for somebody who is inside |
| `EchoResponseOnItsWay` | while a client of the echo server waits, its line or the echo is on the way, or the connection closed |
| `UdpOnItsWay` | the same of a UDP client, unless the network has lost one of its datagrams |
| `PipeNoLostWakeUp` | nobody waits in `open()` on a fifo whose other end is open |
| `QueueWaitsForServer` | no server leaves a queue in which a client may wait, unless it was killed |
| `ShmNotBothWait` | parent and child never wait for each other |
| `ProgramsTypeOK` | the variables of all nine small programs have their types |

### The select servers

`TableExact` is not inductive: that a slot is entered once needs that nobody
who waits in the backlog is in the table, that its number is new needs that the open
connections have numbers from 4 up which are all different and fewer than the slots, and
that `maxfd` covers them needs that it covers every number given so far. This is
`TableInv` in `SelectTableProofs`, with one lemma per part of the loop that both servers
use (`Select_Inv`, `Accept_Inv`, `Remove_Inv`, `Outside_Inv`, ...). `ServedInv` says that
whoever is in `ready` and not yet scanned is still in the table and readable; a removal
keeps it because it shifts only slots the scan has not come to, together with its index.
Each server's invariant (`EchoInv`, `ChatInv`) adds what holds in the middle of serving a
connection, and one lemma per action preserves it. The action property `NobodySkipped`
follows from the same invariants: both ways the scan moves on, to the next slot and back
by one after a removal, take exactly the connection it is at off the work list, because
the table has no duplicates (`Rest_Next`).

`EchoSurvivesItsClients` and `EchoResponseMatches` rest on `LockStep`: at any time there is
at most one line of a client between its `write()` and its `read()`, in the connection, in
the server's hands or on its way back, and it is the last it has sent. A connection that
is reset has none left, so that nothing is ever written to it.

The refinements are proved action by action. For `Loopback`, the abstract pipe of a client is
what is on its way to the server, then what the server holds of it in `mesg`, then what is on
its way back (`Pipe`), until it is cut (`IsCut`): a `read()` or `write()` of the server moves
text within the pipe and is a stutter, what a client does is a step. For `ChatRoom`, a step of
the room is the server's `accept()` or `read()`, which makes the whole text appear in the
inbox of every member at once; the `write()`s that follow stutter, since `Inbox` counts what
the broadcast still has to send to those behind `i` as if it were there (`Member`,
`Unread`). `RoomInv` is `ChatInv` and `StoppedInv`: once the server has stopped, at its limit or
by SIGPIPE, every connection there ever was is closed.

### The epoll and web servers

`EpollInv` is `TypeOK` with `DataInv`, `PlacesInv` (a connection is in the backlog or in
`socklist`, once), `HeldInv` (nothing is sent on a connection without a descriptor) and
`HearInv`: what a client that stays has seen and has before it is `said` from where it was
accepted on, less the last text while the broadcast has not come to it (`Told`).
That an entry of `events` is stale does not matter to it, because what `read()` finds in the
connection decides whether there is a broadcast, and what it finds is sent: at every place outside a
broadcast, the end of the process by overrun included, those that stay have heard all
(`Epoll_Heard`). Nothing bounds the number of clients. That `epoll_wait()` has finitely many
edges to report although there may be any number of clients is due to `socklist`: an edge is
of a connection in it (`FiniteRange`).

`WebInv` has, per connection, `PeerInv` (what the two ends know of each other at each place
of the thread), `RequestInv` (what of the request line is parsed, and what of it is left) and
`FileInv`, which is about `webserver2.c` only: the thread's `filename` is what was asked, and
all that was sent is of that file. (In `webserver.c`, where `strtok()`'s variable is shared,
it may be another's.) `BacklogInv` keeps a connection from having two threads;
`KilledInv` remembers, after SIGPIPE, who did it: somebody that has gone from a large file, or
that has reset its connection, the line that was read from it being a GET's (`Early`). That there is no third way needs `PeerInv`: a reset that comes
with or before the line ends the thread in its first `fgets()`, an answer other than a large
file is one `write()`, and the first `write()` to a peer that has only closed is accepted.

### Threads, processes and devices

`SensorInv` is `TypeOK`, `ThreadsInv` (a thread whose `pthread_join()` has returned is done),
`DevicesInv` (a descriptor is open, and a register may be set, exactly until `main()` switches
the sensor off) and `LocksInv` (a mutex is held from its lock to its unlock, and the register
is set when the thread measures). `MeasuresWhenOn` needs all three: nobody switches off
while a thread may still measure, since that comes behind the join.

`PipeLosesOnlyMissed` is about the end of a fifo, and what makes it so is decided earlier:
`ClosingInv` says that once a server has read 0 and not yet closed, all that have its fifo
open have opened it since, and `AbandonedInv` that this is still so when nobody reads it;
who gets SIGPIPE then is one of them (`BrokenInv`). `UdpAnswersInStep` rests on
`OneInFlight`: a client none of whose datagrams was duplicated has at most one on its way,
for its last line, while it waits, and none otherwise. For `SignalCountIsValue`, each active
call owes `cnt` what it has done to the semaphore; `Balance` says that what the semaphore
lacks is `cnt` and what is owed, and `StoreOnTop` that a call at its store has loaded the
present `cnt`. There are three calls at most, since a handler does not interrupt itself
(`Distinct`); `Signal_Pop` and `Signal_Top` say once what a return and a step of the
innermost call do to the debt.

`LineInv` has `SocketInv` (the server has one connection, the one it accepted last) and, for
each client, what its process has done (`EndsInv`), whose turn it is on its connection
(`TurnInv`) and where its first line and the answer are (`AnswerInv`). `QueueInv` says who
made the queue that has the key and what each client may have found (`QueueNames`), that
what was printed is a prefix of what was accepted and the rest still in the queue
(`PrintedInOrder`, `RestIsQueued`), and that a client's line is accepted before its stop
(`OwnInv`). `ConsoleInv` says that while no transfer has failed the bytes read so far are
those of the registers of the sensor (`ReadSoFar`), which hold a sample taken since the key
(`HasSample`); that the arithmetic on them gives the sample back is a set of lemmas about
two's complement, the two bits that a calibration shares a byte for, and the line through
two points (`Short_HiLo`, `TenthBits`, `OnLine_Points`).

`ShmInStep` and `ShmNothingLeft` have to do with what other launches may do meanwhile.
`ShmInv` is `LaunchOrder` and `ForkInv` (a launch begins when the parents of all before it have
ended or were killed, a child is there after the `fork()` and over after `waitpid()`),
`LaunchTurnInv` (what SEM_UNDO will take back of a process is at most what its turns have done),
`KeysInv` (what is under the two keys is the last launch's, or gone; `LastLaunch`), `MadeInv` (a
segment that its parent has still to make is nobody's; between `shmget()` and `shmat()` it may
be removed again) and `AloneInv`, which says, as long as
no parent was killed, whose segment and set there are and how far the child's additions are
at each place of the two processes. `Shm_Sole` is the lemma the steps use for it: then one
launch at most is busy.

`WalksTheTree` is about a recursion, and its invariant about the stack of calls: each call
is of the subdirectory its caller is at (`Nested`), so that `chdir("..")` leads back to
where the caller was; what a call has read is in its buffer once each, and `dirName` points at
the directories in it (`EntriesRead`, `Once`, `SubsFound`); and of what is below the directory
of an active call only the subdirectories up to its index have been listed (`ListedOK`), so
that the next is new. Completeness is `DoneOK`: a directory that was listed and has no
active call any more has all its subdirectories listed. That then every directory is
listed follows from a least counterexample, one of least depth (`Walk_All`, `Least`).

`NamedPermitsKept` counts: `NamedInv` adds to it that every semaphore in use, or under the
name, was made by the launch it is called after (`MadeBefore`), so that who opens the name
finds no permit of its own taken, and that one that `sem_unlink()` has hidden from new
launches keeps its count for those that have it. It also bounds the value: the type says
`value` is at most `Permits`, and a `v()` keeps it so only because the permit that comes
back was counted as taken.

Six theorems say that whoever waits has somebody, or something, to wait for. Each is the
safety half of a liveness property that the runs check: what must be so in every state, for
any number of processes, if the fairness is to be enough. `NamedSomeoneInside`, for
`ThreadEnds`: at value 0, if fewer than `Permits` launches have died inside, one that is
alive is. `ShmNotBothWait`, for
`BothEnd`: a child whose `semop()` waits has a parent with turns left, since a parent in
`waitpid()` has made all of them (`AllTurns`). `PipeNoLostWakeUp`, for `OpenReturns`, is
inductive with the types alone: every `open()` that lets its caller on wakes all that wait
at the other end. `QueueWaitsForServer`, for `SendersEnd`, needs that a server that is in its
loop still owns the queue that has the key (`ServersQueue`). `UdpOnItsWay`, for
`AnsweredUnlessLost`, and `EchoResponseOnItsWay`, for `ResponseArrives` (also an invariant of
`echo_pass`), follow a line through
the network and the server; the second needs `LockStep`, which says that a client that waits
has not been heard to leave, so that the echo is delivered.

`ProgramsTypeOK` is about `MCPrograms`: a step of it is a step of one of the nine `Next`s and
leaves the variables of the others alone (`Programs_Step`), so that the conjunction
`EachInv` of the nine invariants is inductive. Eight of them are those of the theorems
above. That of the directory listing is another, `WalkTypeInv`, since `WalkInv` says nothing
of a tree with a closed or a large directory: there the listing goes astray, and what is
shown is that even then the working directory is a directory of the tree (its directories
are closed under `chdir("..")`, `Walk_Up`), and every name a call goes on with lies in the
part of the buffer that was filled (`BufferedCall`, `Buffer_Put`), overwritten or not.

The invariants of the epoll server, the web servers, the shared memory (with three launches)
and the directory listing were checked by TLC on an instance before they were proved.

Every invariant and action property of the passing runs is now a theorem, and both
refinements are. Only model-checked: liveness under fairness and whatever depends on
ENABLED, which the prover does not handle.

## 6. The plan

Done, in this order: the select servers and their client, their abstract specifications
and proofs; the web servers; the epoll pair; the sensor threads; the shared memory; the
message queue, the signal-driven semaphore, the TCP and UDP pairs, the console, the
directory listing, the fifo and the named semaphore.

The proofs, in this order: the table of the select servers, both servers, the fifo, UDP and
the signal-driven semaphore; the sensor threads; the web servers; the epoll server; the
two refinements; the message queue, the console and the iterative server; the shared
memory; the directory listing; the named semaphore; the types of the small programs.

Left: what the remaining liveness properties rest on, in the way `NamedSomeoneInside` is what
`ThreadEnds` rests on: for the chat server and the epoll pair what keeps a client from being
overlooked for ever, for `tcp_server.c` whom the server waits for, and for the console that
a conversion it waits for is under way.

## 7. What is not modelled

Failures of `socket()`, `bind()`, `listen()`, `select()`, `epoll_wait()`, `malloc()`,
`pthread_create()`, of `accept()` but in `tcp_server.c` and, for want of descriptors, in the web
servers, and of the IPC calls for want of memory or rights: the programs end or report, and
nothing else happens. A `write()` that waits because the peer does not read, but of a large
file in the web servers (`MayBlock`): the other programs' lines are short, and their clients
read before they write again; a chat client that is stopped long enough for its socket's
buffer to fill would hold up the server. Lengths: `sprintf()` into buffers of the same size, a
terminator behind a full buffer, lines split by TCP, the rest of an earlier line that
`fifo_server.c:26` prints behind a shorter one. What lies behind the arrays of
`epoll_server2.c` once it goes beyond them (the model ends there, in `overrun`), `list.c`'s
255 names, and `maxfd` after 2^31 passes. Descriptors in never assigned variables that
happen to be open, and a `shmid` that was never assigned and names a segment of other
programs. The registers of the
sensors in `rpi5.c` and `r.c`, whose access functions are stubs in the source. A division by
zero in `rpi4.c:256`, when both calibration points have the same reading (in `double`, no
error). Processes that share a socket, and clients that connect twice. The
programs listed as not modelled in `PROJECT.json`, for the reasons there.
