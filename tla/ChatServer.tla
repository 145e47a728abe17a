----------------------------- MODULE ChatServer -----------------------------
(***************************************************************************)
(* src/0617/selet_server.c: a single-threaded chat server.  A pass of its  *)
(* loop accepts one connection and announces it, or relays what it reads   *)
(* from each connection to all others.  Sockets are blocking, nothing      *)
(* ignores SIGPIPE, and a broadcast is one write() per client, so the      *)
(* clients run between any two of them.                                    *)
(***************************************************************************)
EXTENDS SelectTable

VARIABLES
  i,            \* a broadcast's loop variable (counted from 1)
  mesg          \* what the broadcast writes; i and mesg are dead outside of one

castvars == <<i, mesg>>
vars     == <<netvars, clientvars, tablevars, castvars>>

\* what a broadcast says: someone joined or left, or a sender's text
Notice == [kind : {"joined", "left"}, who : Clients]
             \cup [kind : {"says"}, who : Clients, text : Seq(Line)]
Silent == [kind |-> "none"]

Broadcasting == pc \in {"joined", "relay", "left"}

Init == NetInit /\ ClientInit /\ TableInit /\ i = 1 /\ mesg = Silent

TypeOK ==
  /\ TableTypeOK /\ pc # "echo"
  /\ down \in [Clients -> Seq(Notice)]
  /\ i \in Nat \ {0} /\ mesg \in Notice \cup {Silent}
  /\ Broadcasting => mesg \in Notice

-----------------------------------------------------------------------------
Say(label, notice) == pc' = label /\ i' = 1 /\ mesg' = notice
Said(label)        == pc' = label /\ i' = 1 /\ mesg' = Silent

Accept ==
  /\ pc = "accept" /\ AcceptNext
  /\ Say("joined", [kind |-> "joined", who |-> Head(backlog)])
  /\ UNCHANGED <<ready, start_index>>

\* (mutant: the test i != start_index forgotten)
NoSubject == 0
\* whom the broadcast is about: the new client is the last, the loop stops before it
Subject   == IF pc = "joined" THEN client_index ELSE start_index

\* one iteration of a broadcast: a write() to every slot but the subject's
Tell ==
  /\ Broadcasting /\ i <= client_index
  /\ IF i = Subject
       THEN i' = i + 1 /\ UNCHANGED <<netvars, pc>>
       ELSE IF Fatal(client_fd[i])
       THEN pc' = "killed" /\ ServerEnds /\ UNCHANGED <<down, peer, i>>
       ELSE /\ Write(client_fd[i], mesg) /\ i' = i + 1
            /\ UNCHANGED <<up, held, backlog, listening, pc>>
  /\ UNCHANGED <<clientvars, client_fd, fd, maxfd, ready, start_index, mesg>>

\* (mutant: leaving the loop closes no connection)
CloseNothing == listening' = FALSE /\ UNCHANGED <<up, held, backlog>>
CloseAll     == ServerEnds

\* a full table: leave the loop, close everything, return; else the next pass
EndOfJoined ==
  /\ pc = "joined" /\ i > client_index
  /\ IF Full
       THEN Said("exit") /\ CloseAll
       ELSE Said("select") /\ UNCHANGED <<up, held, backlog, listening>>
  /\ NewPass
  /\ UNCHANGED <<down, peer, clientvars, client_fd, fd, maxfd>>

\* n > 0: a text that begins with q is a departure, any other is relayed
Receive ==
  /\ Scanning /\ Current \in ready
  /\ \E n \in 1..Len(up[Current]) :
       /\ ReadData(Current, n)
       /\ IF IsQuit(up[Current][1])
            THEN Say("left", [kind |-> "left", who |-> Current])
            ELSE Say("relay", [kind |-> "says", who |-> Current,
                               text |-> SubSeq(up[Current], 1, n)])
  /\ UNCHANGED <<down, peer, held, backlog, listening, clientvars,
                 client_fd, fd, maxfd, ready, start_index>>

\* (mutant: the end of file treated like an error)
IgnoreEnd ==
  /\ Scanning /\ Current \in ready /\ ReadEnd(Current)
  /\ start_index' = start_index + 1
  /\ UNCHANGED <<netvars, clientvars, pc, client_fd, fd, maxfd, ready, castvars>>
\* n = 0
ReceiveEnd ==
  /\ Scanning /\ Current \in ready /\ ReadEnd(Current)
  /\ Say("left", [kind |-> "left", who |-> Current])
  /\ UNCHANGED <<netvars, clientvars, client_fd, fd, maxfd, ready, start_index>>

EndOfRelay ==
  /\ pc = "relay" /\ i > client_index
  /\ Said("scan") /\ start_index' = start_index + 1
  /\ UNCHANGED <<netvars, clientvars, client_fd, fd, maxfd, ready>>

EndOfLeft ==
  /\ pc = "left" /\ i > client_index
  /\ RemoveCurrent /\ Said("scan")

ServerStep ==
  \/ Select /\ UNCHANGED castvars
  \/ Accept \/ Tell \/ EndOfJoined
  \/ Skip /\ UNCHANGED castvars
  \/ Receive \/ ReceiveEnd
  \/ ReceiveError /\ UNCHANGED castvars
  \/ EndOfRelay \/ EndOfLeft
  \/ EndOfScan /\ UNCHANGED castvars

Next == ServerStep \/ (Outside /\ UNCHANGED castvars)

\* the operating system runs the server, and each client up to its user's next line
Fairness ==
  /\ WF_vars(ServerStep)
  /\ \A c \in Clients : WF_vars(ClientStep(c) /\ UNCHANGED <<tablevars, castvars>>)

Spec == Init /\ [][Next]_vars /\ Fairness

-----------------------------------------------------------------------------
(* What must hold of this server, besides what SelectTable states.         *)

\* Who has not been told yet will find the notice behind what it has; who is
\* leaving has left once its departure is being announced.
Untold(c) ==
  /\ Broadcasting /\ peer[c] = "open"
  /\ \E k \in i..client_index : k # Subject /\ client_fd[k] = c
Leaving(c) == pc = "left" /\ Current = c

\* A connection as a member of the room, what the room has still to take up of what
\* it wrote, the notices it will read, and who is there to read them
Member == [c \in Clients |-> IF held[c] = "none" THEN "outside"
                            ELSE IF held[c] = "open" /\ ~Leaving(c) THEN "inside" ELSE "gone"]
Unread == [c \in Clients |-> IF Leaving(c) THEN <<>> ELSE up[c]]
Inbox  == [c \in Clients |-> IF Untold(c) THEN Append(down[c], mesg) ELSE down[c]]
Alive  == {c \in Clients : peer[c] = "open"}

Room == INSTANCE ChatRoom WITH
  member <- Member, said <- Unread, inbox <- Inbox, alive <- Alive, running <- listening

\* Clients that run between two writes of a broadcast, or go away in the
\* middle of it, never see anything but a room in which every text reaches
\* every other member once, and all of them in one order (95-98, 117-144,
\* 149-155; 141: "Send to everyone except the sender").
ImplementsRoom == Room!Spec

\* Line 173, "Keep the server running indefinitely": while the table has room
\* for everyone, nothing a client does ends the server.
KeepsRunning == pc # "killed"
=============================================================================
