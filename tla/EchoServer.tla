----------------------------- MODULE EchoServer -----------------------------
(***************************************************************************)
(* src/0617/select_server.c: a single-threaded echo server.  It shares its *)
(* loop with the chat server (SelectTable) and its client too; what it     *)
(* reads it writes back, and a text that begins with q ends a connection.  *)
(***************************************************************************)
EXTENDS SelectTable

VARIABLE
  mesg          \* what was read and is being written back; dead elsewhere

vars == <<netvars, clientvars, tablevars, mesg>>

Init == NetInit /\ ClientInit /\ TableInit /\ mesg = <<>>

TypeOK ==
  /\ TableTypeOK /\ pc \notin {"joined", "relay"}
  /\ down \in [Clients -> Seq(Line)]
  /\ mesg \in Seq(Line)
  /\ pc = "echo" => mesg # <<>>

-----------------------------------------------------------------------------
\* a full table: leave the loop and return, the connection just accepted with it
Accept ==
  /\ pc = "accept"
  /\ IF client_index + 1 = MaxClients
       THEN /\ pc' = "exit" /\ ServerEnds
            /\ UNCHANGED <<down, peer, clientvars, client_fd, fd, maxfd>>
       ELSE /\ pc' = "select" /\ AcceptNext
  /\ NewPass
  /\ UNCHANGED mesg

\* n > 0
Receive ==
  /\ Scanning /\ Current \in ready
  /\ \E n \in 1..Len(up[Current]) :
       ReadData(Current, n) /\ mesg' = SubSeq(up[Current], 1, n)
  /\ pc' = "echo"
  /\ UNCHANGED <<down, peer, held, backlog, listening, clientvars,
                 client_fd, fd, maxfd, ready, start_index>>

\* (mutants: what was read is written twice, or with a length of 0)
AnswerTwice(lines)   == lines \o lines
AnswerNothing(lines) == <<>>
Answer(lines)        == lines

\* the lines of one write() arrive as one, and may be read in part
WriteAll(c, lines) ==
  /\ down' = [down EXCEPT ![c] = IF peer[c] = "open" THEN @ \o lines ELSE @]
  /\ peer' = [peer EXCEPT ![c] = CASE @ = "fin"   -> "finrst"
                                   [] @ = "reset" -> "dead"
                                   [] OTHER       -> @]

Echo ==
  /\ pc = "echo"
  /\ IF Fatal(Current)
       THEN /\ pc' = "killed" /\ ServerEnds
            /\ UNCHANGED <<down, peer, start_index>>
       ELSE /\ WriteAll(Current, Answer(mesg))
            /\ IF IsQuit(mesg[1])
                 THEN pc' = "left" /\ UNCHANGED start_index
                 ELSE pc' = "scan" /\ start_index' = start_index + 1
            /\ UNCHANGED <<up, held, backlog, listening>>
  /\ mesg' = <<>>
  /\ UNCHANGED <<clientvars, client_fd, fd, maxfd, ready>>

Quit == pc = "left" /\ RemoveCurrent /\ pc' = "scan" /\ UNCHANGED mesg

\* (mutant: the end of file is not looked at)
IgnoreEnd ==
  /\ Scanning /\ Current \in ready /\ ReadEnd(Current)
  /\ start_index' = start_index + 1
  /\ UNCHANGED <<netvars, clientvars, pc, client_fd, fd, maxfd, ready, mesg>>
\* n = 0
ReceiveEnd ==
  /\ Scanning /\ Current \in ready /\ ReadEnd(Current)
  /\ RemoveCurrent
  /\ UNCHANGED <<pc, mesg>>

ServerStep ==
  \/ Select /\ UNCHANGED mesg
  \/ Accept
  \/ Skip /\ UNCHANGED mesg
  \/ Receive \/ Echo \/ Quit \/ ReceiveEnd
  \/ ReceiveError /\ UNCHANGED mesg
  \/ EndOfScan /\ UNCHANGED mesg

Next == ServerStep \/ (Outside /\ UNCHANGED mesg)

\* the operating system runs the server, and each client up to its user's next line
Fairness ==
  /\ WF_vars(ServerStep)
  /\ \A c \in Clients : WF_vars(ClientStep(c) /\ UNCHANGED <<tablevars, mesg>>)

Spec == Init /\ [][Next]_vars /\ Fairness

-----------------------------------------------------------------------------
(* What must hold of this server, besides what SelectTable states.         *)

\* The client reads once per line and takes what it gets for the response
\* (selet_client.c:67-80): what is there to read is the line it has just sent.
ResponseMatches ==
  \A c \in Clients :
    phase[c] = "reply" /\ down[c] # <<>> => down[c] = << <<c, sent[c]>> >>

\* No client of this server can kill it, whenever it quits or dies: a write()
\* on a connection whose peer has reset it raises SIGPIPE, which the code does
\* not handle (103), but nothing is read after the reset that is written back.
SurvivesItsClients == pc # "killed"

\* The echo of c that is still in the server's hands
InHand(c) == IF pc = "echo" /\ Current = c THEN mesg ELSE <<>>

\* While a client waits in read() (selet_client.c:72) and the server has its connection
\* open, or still to accept, its line or the echo of it is somewhere on the way: no
\* interleaving leaves the two waiting for each other.
ResponseOnItsWay ==
  \A c \in Clients :
    phase[c] = "reply" /\ held[c] # "closed" =>
      up[c] # <<>> \/ InHand(c) # <<>> \/ down[c] # <<>>

\* The lines of each connection whose both ends are up, wherever they are, the
\* next to be read by its client first; and whether no more will be added
Pipe  == [c \in Clients |-> IF peer[c] = "open" THEN down[c] \o InHand(c) \o up[c] ELSE <<>>]
IsCut == [c \in Clients |-> held[c] = "closed" \/ peer[c] \notin {"idle", "open"}]

Loops == INSTANCE Loopback WITH pipe <- Pipe, cut <- IsCut

\* A connection is a pipe back to its client: until it is cut every line comes
\* back once and in order, whatever part of them a read() returns (99-103).
ImplementsLoopback == Loops!Spec
=============================================================================
