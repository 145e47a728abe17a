---------------------------- MODULE MessageQueue ----------------------------
(***************************************************************************)
(* src/0613/msg_server.c and msg_client.c: a server that prints what it    *)
(* receives from a System V message queue until it receives a stop, and    *)
(* clients that each send a line and then a stop.  The queue has a life of *)
(* its own: it is found by its key, outlives a killed server, and is       *)
(* removed under clients that still wait to send.                          *)
(***************************************************************************)
EXTENDS Integers, Sequences, SequencesExt, Functions

CONSTANTS
  Senders,      \* the processes that run msg_client.c
  Servers,      \* bound: how often msg_server.c is started, one after the other
  QueueBytes    \* what one queue takes, in bytes (MSGMNB)
ASSUME QueueAssumption == Servers \in Nat /\ QueueBytes \in Nat

VARIABLES
  server,       \* server[s]: where the s-th msg_server is in main()
  sender,       \* sender[c]: where client c is in main()
  msqid,        \* msqid[c]: the queue c has found, named by the server that made it
  queue,        \* the queue there is under the key now, or NoQueue
  messages,     \* what is in it, oldest first
  accepted,     \* the lines it has taken so far, named by their clients
  printed,      \* those of them that its server has printed
  stopper       \* the client whose stop its server has received, or NoQueue

queuevars == <<server, sender, msqid, queue, messages, accepted, printed, stopper>>

NoQueue    == 0
QueueEnd   == {"done", "failed", "killed"}
Message    == [mtype : {1, 2}, from : Senders]

QueueInit ==
  /\ server = [s \in 1..Servers |-> "none"] /\ sender = [c \in Senders |-> "none"]
  /\ msqid = [c \in Senders |-> NoQueue] /\ queue = NoQueue
  /\ messages = <<>> /\ accepted = <<>> /\ printed = <<>> /\ stopper = NoQueue

QueueTypeOK ==
  /\ server \in [1..Servers -> {"none", "receive", "remove"} \cup QueueEnd]
  /\ sender \in [Senders -> {"none", "line", "stop"} \cup QueueEnd]
  /\ msqid \in [Senders -> 0..Servers] /\ queue \in 0..Servers
  /\ messages \in Seq(Message) /\ accepted \in Seq(Senders) /\ printed \in Seq(Senders)
  /\ stopper \in Senders \cup {NoQueue}

-----------------------------------------------------------------------------
(* msg_server.c                                                            *)

ServerAt(s, from, to) == server[s] = from /\ server' = [server EXCEPT ![s] = to]

\* msgget() with IPC_EXCL: a queue that is still there makes it fail
CreateQueue(s) ==
  /\ \A r \in 1..(s - 1) : server[r] \in QueueEnd
  /\ queue = NoQueue
  /\ ServerAt(s, "none", "receive")
  /\ queue' = s /\ accepted' = <<>> /\ printed' = <<>> /\ stopper' = NoQueue
  /\ UNCHANGED <<sender, msqid, messages>>
QueueExists(s) ==
  /\ \A r \in 1..(s - 1) : server[r] \in QueueEnd
  /\ queue # NoQueue
  /\ ServerAt(s, "none", "failed")
  /\ UNCHANGED <<sender, msqid, queue, messages, accepted, printed, stopper>>

\* msgrcv() of the oldest message, whatever its type
ReceiveLine(s) ==
  /\ messages # <<>> /\ Head(messages).mtype = 1
  /\ ServerAt(s, "receive", "receive")
  /\ printed' = Append(printed, Head(messages).from) /\ messages' = Tail(messages)
  /\ UNCHANGED <<sender, msqid, queue, accepted, stopper>>
ReceiveStop(s) ==
  /\ messages # <<>> /\ Head(messages).mtype = 2
  /\ ServerAt(s, "receive", "remove")
  /\ stopper' = Head(messages).from /\ messages' = Tail(messages)
  /\ UNCHANGED <<sender, msqid, queue, accepted, printed>>

\* (mutant: the server ends without IPC_RMID)
LeaveQueue  == UNCHANGED <<queue, messages>>
\* msgctl(IPC_RMID): with the queue go the messages in it
DropQueue   == queue' = NoQueue /\ messages' = <<>>
RemoveQueue(s) ==
  /\ ServerAt(s, "remove", "done") /\ DropQueue
  /\ UNCHANGED <<sender, msqid, accepted, printed, stopper>>

\* the only way to end a server that nobody sends a stop: the queue stays
KillServer(s) ==
  /\ server[s] \in {"receive", "remove"}
  /\ server' = [server EXCEPT ![s] = "killed"]
  /\ UNCHANGED <<sender, msqid, queue, messages, accepted, printed, stopper>>

-----------------------------------------------------------------------------
(* msg_client.c                                                            *)

SenderAt(c, from, to) == sender[c] = from /\ sender' = [sender EXCEPT ![c] = to]

FindQueue(c) ==
  /\ SenderAt(c, "none", IF queue = NoQueue THEN "failed" ELSE "line")
  /\ msqid' = [msqid EXCEPT ![c] = queue]
  /\ UNCHANGED <<server, queue, messages, accepted, printed, stopper>>

\* "hello world\n" with its terminator, and all of mtext (BUFSIZ)
Size(m)  == IF m.mtype = 1 THEN 13 ELSE 8192
Bytes(q) == FoldFunction(LAMBDA m, sum : Size(m) + sum, 0, q)
Fits(m)  == Bytes(messages) + Size(m) <= QueueBytes

\* msgsnd() waits for room in the queue
Put(c, type) ==
  LET m == [mtype |-> type, from |-> c]
  IN  msqid[c] = queue /\ Fits(m) /\ messages' = Append(messages, m)

\* (mutant: the stop is sent first)
StopFirst  == <<2, 1>>
TypesSent  == <<1, 2>>

SendMessage(c, k) ==
  /\ Put(c, TypesSent[k])
  /\ accepted' = IF TypesSent[k] = 1 THEN Append(accepted, c) ELSE accepted
  /\ UNCHANGED <<server, msqid, queue, printed, stopper>>
SendFirst(c)  == SenderAt(c, "line", "stop") /\ SendMessage(c, 1)
SendSecond(c) == SenderAt(c, "stop", "done") /\ SendMessage(c, 2)

\* msgsnd() fails when the queue has been removed, also if it was waiting in it
QueueIsGone(c) ==
  /\ sender[c] \in {"line", "stop"} /\ msqid[c] # queue
  /\ sender' = [sender EXCEPT ![c] = "failed"]
  /\ UNCHANGED <<server, msqid, queue, messages, accepted, printed, stopper>>

KillSender(c) ==
  /\ sender[c] \in {"line", "stop"}
  /\ sender' = [sender EXCEPT ![c] = "killed"]
  /\ UNCHANGED <<server, msqid, queue, messages, accepted, printed, stopper>>

-----------------------------------------------------------------------------
QueueServerStep(s) == ReceiveLine(s) \/ ReceiveStop(s) \/ RemoveQueue(s)
QueueSenderStep(c) == SendFirst(c) \/ SendSecond(c) \/ QueueIsGone(c)

QueueNext ==
  \/ \E s \in 1..Servers :
       CreateQueue(s) \/ QueueExists(s) \/ QueueServerStep(s) \/ KillServer(s)
  \/ \E c \in Senders : FindQueue(c) \/ QueueSenderStep(c) \/ KillSender(c)

\* the operating system runs every process; nobody has to start one
QueueFairness ==
  /\ \A s \in 1..Servers : WF_queuevars(QueueServerStep(s))
  /\ \A c \in Senders : WF_queuevars(QueueSenderStep(c))

QueueSpec == QueueInit /\ [][QueueNext]_queuevars /\ QueueFairness

-----------------------------------------------------------------------------
(* What must hold.                                                         *)

\* The server prints lines in the order the queue took them, each once, and the
\* client whose stop ends it has had its own line printed before (msg_server.c:24,
\* msg_client.c:34-45), whoever else's lines are lost behind that stop, and
\* whatever an earlier, killed server had left.
OwnLineFirst ==
  /\ IsPrefix(printed, accepted)
  /\ stopper # NoQueue => \E k \in 1..Len(printed) : printed[k] = stopper

\* A client ends, also one that waits in msgsnd() at a queue that two stops have
\* filled: the first of them removes the queue, and that wakes who waits in it
\* (msg_server.c:30, msg_client.c:45), unless its server is killed.
SenderWaits(c)  == sender[c] \in {"line", "stop"}
SenderServed(c) == sender[c] \in QueueEnd \/ \E s \in 1..Servers : msqid[c] = s /\ server[s] = "killed"
SendersEnd      == \A c \in Senders : SenderWaits(c) ~> SenderServed(c)
=============================================================================
