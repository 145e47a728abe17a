---------------------------- MODULE SelectTable ----------------------------
(***************************************************************************)
(* The loop of the two select() servers of src/0617, select_server.c and   *)
(* selet_server.c, which share it line for line: the table client_fd, the  *)
(* set of descriptors to wait for, accept(), and the scan of what select() *)
(* reported with its removals.  What a server does with what it reads is   *)
(* in EchoServer and ChatServer.                                           *)
(***************************************************************************)
EXTENDS SelectClient

CONSTANTS
  MaxClients,   \* the length of client_fd (5 in the code)
  FdLimit       \* select() looks at no descriptor from FdLimit on (RLIMIT_NOFILE)

Ssock == 3      \* the first descriptor after stdin, stdout and stderr

ASSUME MaxClientsAssumption == MaxClients \in Nat \ {0}
ASSUME FdLimitAssumption    == FdLimit \in Nat /\ FdLimit > Ssock + MaxClients

VARIABLES
  pc,           \* where the server is in main()
  client_fd,    \* client_fd[0..client_index-1], each named by its connection
  fd,           \* fd[c]: the number of c's descriptor, 0 before accept()
  maxfd,        \* the variable of that name
  ready,        \* the connections whose bit select() left set in readfd
  start_index   \* the scan's loop variable (counted from 1)

tablevars == <<pc, client_fd, fd, maxfd, ready, start_index>>

client_index == Len(client_fd)

(***************************************************************************)
(* select, accept and scan are the parts of the loop.  A server adds where *)
(* it is in the middle of serving a connection: joined, relay and left, or *)
(* echo and left.  exit: the loop was left at the limit of the table.      *)
(* killed: SIGPIPE ended the process.                                      *)
(***************************************************************************)
InScan  == pc \in {"scan", "relay", "echo", "left"}
Stopped == pc \in {"exit", "killed"}
Label   == {"select", "accept", "joined", "scan", "relay", "echo", "left", "exit", "killed"}

TableInit ==
  /\ pc = "select" /\ client_fd = <<>> /\ fd = [c \in Clients |-> 0]
  /\ maxfd = Ssock /\ ready = {} /\ start_index = 1

TableTypeOK ==
  /\ peer \in [Clients -> PeerState] /\ held \in [Clients -> HeldState]
  /\ backlog \in Seq(Clients) /\ listening \in BOOLEAN
  /\ phase \in [Clients -> Phase] /\ sent \in [Clients -> 0..MaxLines]
  /\ up \in [Clients -> Seq(Line)]
  /\ pc \in Label /\ client_fd \in Seq(Clients) /\ fd \in [Clients -> 0..(FdLimit - 1)]
  /\ maxfd \in Ssock..FdLimit /\ ready \in SUBSET Clients
  /\ start_index \in Nat \ {0}

Table == {client_fd[k] : k \in 1..client_index}

-----------------------------------------------------------------------------
(* One pass: the set, the wait.                                            *)

\* the loop that sets the bits and raises maxfd to the highest number
Numbers    == {maxfd} \cup {fd[c] : c \in Table}
Highest(m) == \A n \in Numbers : n <= m

\* (mutants: maxfd + 1 forgotten; maxfd computed once, for the listening socket)
NoPlusOne(m)    == m
ListenerOnly(m) == Ssock + 1
\* maxfd + 1 at each pass; select() sees no difference from FdLimit on
PlusOne(m)      == IF m < FdLimit THEN m + 1 ELSE FdLimit

\* the listening socket is readable, and among what select() looks at
Incoming(m) == backlog # <<>> /\ Ssock < m

\* select() returns with a copy of what was readable at that moment
Select ==
  /\ pc = "select"
  /\ \E m \in Numbers : Highest(m) /\ maxfd' = PlusOne(m)
  /\ ready' = {c \in Table : Readable(c) /\ fd[c] < maxfd'}
  /\ ready' # {} \/ Incoming(maxfd')
  /\ pc' = IF Incoming(maxfd') THEN "accept" ELSE "scan"
  /\ UNCHANGED <<netvars, clientvars, client_fd, fd, start_index>>

\* FD_ZERO, and start_index = 0
NewPass == ready' = {} /\ start_index' = 1

\* the kernel gives accept() the lowest number no open descriptor has
Free(n)       == \A c \in Clients : held[c] = "open" => fd[c] # n
LowestFree(d) == Free(d) /\ \A n \in (Ssock + 1)..(d - 1) : ~Free(n)

\* accept() and the next slot of the table
AcceptNext ==
  /\ LET c == Head(backlog)
     IN  /\ held' = [held EXCEPT ![c] = "open"]
         /\ \E d \in (Ssock + 1)..(Ssock + client_index + 1) :
              LowestFree(d) /\ fd' = [fd EXCEPT ![c] = d]
         /\ client_fd' = Append(client_fd, c)
  /\ backlog' = Tail(backlog)
  /\ UNCHANGED <<up, down, peer, listening, clientvars, maxfd>>

\* (mutant: an off-by-one at the limit)
FullTooLate == client_index > MaxClients
Full        == client_index = MaxClients

-----------------------------------------------------------------------------
(* The scan.                                                               *)

Current  == client_fd[start_index]
Scanning == pc = "scan" /\ start_index <= client_index

Skip ==
  /\ Scanning /\ Current \notin ready
  /\ start_index' = start_index + 1
  /\ UNCHANGED <<netvars, clientvars, pc, client_fd, fd, maxfd, ready>>

\* n < 0: nothing but perror()
ReceiveError ==
  /\ Scanning /\ Current \in ready /\ ReadError(Current)
  /\ start_index' = start_index + 1
  /\ UNCHANGED <<up, down, held, backlog, listening, clientvars,
                 pc, client_fd, fd, maxfd, ready>>

EndOfScan ==
  /\ pc = "scan" /\ start_index > client_index
  /\ pc' = "select" /\ NewPass
  /\ UNCHANGED <<netvars, clientvars, client_fd, fd, maxfd>>

\* (mutant: client_index-- without the loop that closes the gap)
RemoveLast(s, k) == SubSeq(s, 1, Len(s) - 1)
\* the loop that closes the gap, and client_index--
RemoveAt(s, k)   == [j \in 1..(Len(s) - 1) |-> IF j < k THEN s[j] ELSE s[j + 1]]

\* (mutants: start_index-- forgotten, or done twice)
SkipOne   == start_index' = start_index + 1
StepBack  == start_index' = start_index - 1
\* start_index-- and the loop's start_index++
SameIndex == start_index' = start_index

\* close(), the removal from the table, and on to the next connection
RemoveCurrent ==
  /\ CloseServerEnd(Current)
  /\ client_fd' = RemoveAt(client_fd, start_index)
  /\ SameIndex
  /\ UNCHANGED <<down, peer, backlog, listening, clientvars, fd, maxfd, ready>>

-----------------------------------------------------------------------------
(* What the clients and the network do while the server is anywhere.       *)

Outside ==
  \/ \E c \in Clients : ClientNext(c) /\ UNCHANGED tablevars
  \/ \E c \in Clients : RstArrives(c) /\ UNCHANGED <<clientvars, tablevars>>

-----------------------------------------------------------------------------
(* What must hold of the loop in both servers; the lines are those of      *)
(* select_server.c, and in brackets those of selet_server.c.               *)

\* The table holds exactly the connections the server has accepted and not
\* closed, each once, and has room for the next accept() (88-92, 112-116,
\* 125-129 [91-100, 129-134, 160-165]): no descriptor leaks, none is closed
\* twice or served after its close().
TableExact ==
  ~Stopped =>
    /\ Table = {c \in Clients : held[c] = "open"}
    /\ \A j, k \in 1..client_index : client_fd[j] = client_fd[k] => j = k
    /\ pc # "joined" => client_index < MaxClients

\* read() at line 100 [109] blocks, and is called on the word of a select()
\* that returned before the departures of this same scan moved the table and
\* the index under it: whoever it is called for, it has something to return.
ReadNeverBlocks == Scanning /\ Current \in ready => Readable(Current)

\* The scan's work list: whom it still has to look at
Rest == {client_fd[k] : k \in start_index..client_index}

\* A step within the scan puts nobody on its work list, and takes nobody off but
\* the connection it is at
NextInRest == InScan /\ InScan' => Rest' = Rest \/ Rest' = Rest \ {Current}

\* The scan turns from each connection to the next, though departures shift the
\* table and the index under it (112-116 [129-134]).
NobodySkipped == [][NextInRest]_tablevars

\* What a client has sent is read, or it is removed, or the server stops: no
\* order of arrivals, departures and scans starves a connection, although a
\* pass that accepts reads from nobody (76-93 [78-102]).
HeardInTheEnd ==
  \A c \in Clients : held[c] = "open" /\ up[c] # <<>> ~> up[c] = <<>>

\* A departure frees its slot: whoever has closed its end is removed by a later
\* pass (106-129 [114-165]), also when read() first reports an error and the
\* server does nothing about it ([166-170]).
SlotFreedInTheEnd ==
  \A c \in Clients : held[c] = "open" /\ peer[c] # "open" ~> held[c] = "closed"

\* Whoever has connected is accepted, or the server stops.
AcceptedInTheEnd == \A c \in Clients : peer[c] # "idle" ~> held[c] # "none"

\* A server that stops, at the limit of the table (91 [100]) or because a write
\* killed it, leaves no client waiting for a response for ever.
ReleasedInTheEnd ==
  \A c \in Clients : Stopped /\ phase[c] = "reply" ~> phase[c] # "reply"

\* selet_client.c:72, "receive the response from the server": the response to a
\* line arrives, or the connection ends, or the process does.
ResponseArrives == \A c \in Clients : phase[c] = "reply" ~> phase[c] # "reply"
=============================================================================
