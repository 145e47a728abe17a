---------------------------- MODULE EpollClient2 ----------------------------
(***************************************************************************)
(* src/0618/epoll_client2.c: a chat client that waits for its keyboard and *)
(* its socket at once.  The socket is edge-triggered: epoll_wait() reports *)
(* it once for whatever has arrived since, and the code then reads once.   *)
(***************************************************************************)
EXTENDS StreamSocket, Functions

CONSTANTS
  MaxLines,    \* bound: lines the users type in all, "q" excluded
  Leavers      \* bound: the clients that ever leave
ASSUME MaxLinesAssumption == MaxLines \in Nat

VARIABLES
  news,      \* news[c]: something has arrived at c's socket since it was reported
  typed,     \* typed[c]: how many lines c has written
  seen       \* seen[c]: how many of the server's messages are behind c, read or missed

clientvars == <<news, typed, seen>>

\* the k-th line of c's user; k = 0 is a line that begins with q and is longer
Line == Clients \X Nat
IsQuit(line) == line[2] = 0

ClientInit ==
  /\ news  = [c \in Clients |-> FALSE]
  /\ typed = [c \in Clients |-> 0]
  /\ seen  = [c \in Clients |-> 0]

\* the server's process has written to c, or ended
Report(S) == news' = [c \in Clients |-> news[c] \/ c \in S]

Connect(c) ==
  /\ peer[c] = "idle" /\ listening
  /\ Establish(c)
  /\ UNCHANGED <<up, down, held, listening, clientvars>>

MayType == FoldFunction(+, 0, typed) < MaxLines

\* a line from stdin; at a closed connection it is answered by a reset
Type(c) ==
  /\ peer[c] = "open" /\ MayType
  /\ typed' = [typed EXCEPT ![c] = @ + 1]
  /\ \E k \in {0, typed[c] + 1} : SendUp(c, <<c, k>>)
  /\ Report(IF held[c] = "closed" THEN {c} ELSE {})
  /\ UNCHANGED <<down, peer, held, backlog, listening, seen>>

\* exactly "q", which is not sent, the end of stdin, or the process is killed
Quit(c) ==
  /\ peer[c] = "open" /\ c \in Leavers
  /\ CloseClientEnd(c)
  /\ UNCHANGED <<up, held, backlog, listening, clientvars>>

\* one read() per report takes the text there is, and no end of file behind it
ReadSocket(c) ==
  /\ peer[c] = "open" /\ news[c] /\ down[c] # <<>>
  /\ seen' = [seen EXCEPT ![c] = @ + Len(down[c])]
  /\ TakeDown(c, Len(down[c]))
  /\ news' = [news EXCEPT ![c] = FALSE]
  /\ UNCHANGED <<up, peer, held, backlog, listening, typed>>

\* the server has closed: leave the loop
Disconnected(c) ==
  /\ peer[c] = "open" /\ news[c] /\ down[c] = <<>> /\ held[c] = "closed"
  /\ CloseClientEnd(c)
  /\ UNCHANGED <<up, held, backlog, listening, clientvars>>

\* EAGAIN: an earlier read() took it already
Nothing(c) ==
  /\ peer[c] = "open" /\ news[c] /\ down[c] = <<>> /\ held[c] # "closed"
  /\ news' = [news EXCEPT ![c] = FALSE]
  /\ UNCHANGED <<netvars, typed, seen>>

ClientStep(c) == ReadSocket(c) \/ Disconnected(c) \/ Nothing(c)
ClientNext(c) == Connect(c) \/ Type(c) \/ Quit(c) \/ ClientStep(c)
=============================================================================
