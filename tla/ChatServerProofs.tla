-------------------------- MODULE ChatServerProofs --------------------------
(***************************************************************************)
(* What holds of src/0617/selet_server.c for any number of clients, any    *)
(* length of the table and any number of lines, until it stops.            *)
(***************************************************************************)
EXTENDS ChatServer, SelectTableProofs

ChatInv == TableInv /\ TypeOK /\ ServedInv

-----------------------------------------------------------------------------
(* A broadcast (95-98, 117-122, 139-144, 149-155).                         *)

\* write() leaves a connection connected or not as it was
LEMMA Write_Inv ==
  ASSUME TableInv, down \in [Clients -> Seq(Notice)], NEW c \in Clients,
         NEW m \in Notice, Write(c, m)
  PROVE  /\ peer' \in [Clients -> PeerState] /\ down' \in [Clients -> Seq(Notice)]
         /\ \A d \in Clients : peer'[d] = "idle" <=> peer[d] = "idle"
         /\ \A d \in Clients : Readable(d) /\ up' = up => Readable(d)'
<1>1. peer' = [peer EXCEPT ![c] = CASE @ = "fin"   -> "finrst"
                                    [] @ = "reset" -> "dead"
                                    [] OTHER       -> @]
      /\ peer \in [Clients -> PeerState]
  BY DEF Write, TableInv, TableTypeOK
<1>2. Append(down[c], m) \in Seq(Notice)
  BY AppendProperties
<1>3. down' \in [Clients -> Seq(Notice)]
  BY <1>2 DEF Write
<1>4. peer' \in [Clients -> PeerState]
  BY <1>1 DEF PeerState
<1>5. \A d \in Clients : peer'[d] = "idle" <=> peer[d] = "idle"
  BY <1>1
<1>6. \A d \in Clients : Readable(d) /\ up' = up => Readable(d)'
  BY <1>1 DEF Readable
<1> QED BY <1>3, <1>4, <1>5, <1>6

\* what a broadcast is about to say is a notice
LEMMA Say_Inv ==
  ASSUME NEW c \in Clients, NEW s \in Seq(Line)
  PROVE  /\ [kind |-> "joined", who |-> c] \in Notice
         /\ [kind |-> "left", who |-> c] \in Notice
         /\ [kind |-> "says", who |-> c, text |-> s] \in Notice
BY DEF Notice

-----------------------------------------------------------------------------
(* The loop.                                                               *)

\* the programs start with empty tables and queues (11-57)
LEMMA Chat_Init ==
  ASSUME Init
  PROVE  ChatInv
<1>1. TableInv
  BY TableInit_Inv DEF Init
<1>2. TypeOK
  BY <1>1, EmptySeq DEF Init, TypeOK, TableInv, NetInit, TableInit, Broadcasting
<1>3. ServedInv
  BY DEF ServedInv, InScan, Init, TableInit
<1> QED BY <1>1, <1>2, <1>3 DEF ChatInv

\* accept(), and the announcement that it starts (78-96)
LEMMA Chat_Accept ==
  ASSUME ChatInv, Accept
  PROVE  ChatInv'
<1>1. /\ TableInv /\ TypeOK /\ TableTypeOK /\ pc = "accept" /\ AcceptNext /\ pc' = "joined"
      /\ i' = 1 /\ mesg' = [kind |-> "joined", who |-> Head(backlog)]
      /\ UNCHANGED <<ready, start_index>>
  BY DEF Accept, Say, ChatInv, TableInv
<1>2. /\ held' \in [Clients -> HeldState] /\ backlog' \in Seq(Clients)
      /\ client_fd' \in Seq(Clients) /\ fd' \in [Clients -> 0..(FdLimit - 1)]
      /\ UNCHANGED <<up, down, peer, listening, clientvars, maxfd>>
      /\ client_index' = client_index + 1 /\ client_index \in Nat
      /\ client_index < MaxClients
      /\ Head(backlog) \in Clients
      /\ PhaseInv' /\ Exact'
  BY <1>1, Accept_Inv
<1>3. TableTypeOK'
  BY <1>1, <1>2 DEF TableTypeOK, clientvars, Label
<1>4. PcInv'
  BY <1>1, <1>2, MaxClientsAssumption DEF TableInv, PcInv, Stopped
<1>5. mesg' \in Notice
  BY <1>1, <1>2, Say_Inv, EmptySeq
<1>6. TypeOK' /\ ServedInv'
  BY <1>1, <1>2, <1>3, <1>5 DEF TypeOK, ServedInv, InScan
<1> QED BY <1>2, <1>3, <1>4, <1>6 DEF ChatInv, TableInv

\* one write() of a broadcast, the last thing the process does if it is fatal
LEMMA Chat_Tell ==
  ASSUME ChatInv, Tell
  PROVE  ChatInv'
<1>1. /\ TableInv /\ TypeOK /\ TableTypeOK /\ Broadcasting /\ i <= client_index
      /\ UNCHANGED <<clientvars, client_fd, fd, maxfd, ready, start_index, mesg>>
      /\ down \in [Clients -> Seq(Notice)] /\ mesg \in Notice /\ i \in Nat \ {0}
      /\ ~Stopped /\ Exact /\ PhaseInv /\ PcInv
      /\ pc \in {"relay", "left"} => start_index <= client_index
  BY DEF Tell, ChatInv, TableInv, TypeOK, PcInv, Broadcasting, Stopped
<1>2. client_fd[i] \in Clients
  <2>1. i \in 1..Len(client_fd)
    BY <1>1, LenProperties DEF client_index, TableTypeOK
  <2> QED BY <1>1, <2>1, ElementOfSeq DEF TableTypeOK
<1>3. CASE pc' = "killed" /\ ServerEnds /\ UNCHANGED <<down, peer, i>>
  <2>1. /\ held' \in [Clients -> HeldState] /\ up' \in [Clients -> Seq(Line)]
        /\ backlog' \in Seq(Clients) /\ listening' = FALSE /\ PhaseInv'
    BY <1>1, <1>3, ServerEnds_Inv
  <2>2. listening' \in BOOLEAN /\ pc' \in Label
    BY <1>3, <2>1 DEF Label
  <2>3. TableTypeOK'
    BY <1>1, <1>3, <2>1, <2>2 DEF TableTypeOK, clientvars
  <2>4. TableInv'
    BY <1>3, <2>1, <2>3 DEF TableInv, PcInv, Stopped
  <2>5. TypeOK' /\ ServedInv'
    BY <1>1, <1>3, <2>3 DEF TypeOK, ServedInv, InScan, Broadcasting
  <2> QED BY <2>4, <2>5 DEF ChatInv
<1>4. CASE /\ UNCHANGED <<up, held, backlog, listening, pc>> /\ i' = i + 1
           /\ UNCHANGED <<down, peer>> \/ Write(client_fd[i], mesg)
  <2>1. /\ peer' \in [Clients -> PeerState] /\ down' \in [Clients -> Seq(Notice)]
        /\ \A d \in Clients : peer'[d] = "idle" <=> peer[d] = "idle"
        /\ \A d \in Clients : Readable(d) => Readable(d)'
    <3>1. CASE UNCHANGED <<down, peer>>
      BY <1>1, <1>4, <3>1 DEF Readable, TableTypeOK
    <3>2. CASE Write(client_fd[i], mesg)
      BY <1>1, <1>2, <1>4, <3>2, Write_Inv
    <3> QED BY <1>4, <3>1, <3>2
  <2>2. TableTypeOK'
    BY <1>1, <1>4, <2>1 DEF TableTypeOK, clientvars
  <2>3. PhaseInv' /\ Exact' /\ PcInv'
    BY <1>1, <1>4, <2>1, PhaseInv_Stable, Exact_Stable DEF clientvars, PcInv, Stopped, client_index
  <2>4. i' \in Nat \ {0}
    BY <1>1, <1>4
  <2>5. TypeOK'
    BY <1>1, <1>4, <2>1, <2>2, <2>4 DEF TypeOK, Broadcasting
  <2>6. ServedInv'
    <3>1. CASE pc = "joined"
      BY <1>4, <3>1 DEF ServedInv, InScan
    <3>2. CASE pc # "joined"
      <4>1. InScan /\ pc' # "scan" /\ start_index' = start_index
        BY <1>1, <1>4, <3>2 DEF Broadcasting, InScan
      <4> QED BY <1>1, <2>1, <4>1, Served_Step DEF ChatInv
    <3> QED BY <3>1, <3>2
  <2> QED BY <2>2, <2>3, <2>5, <2>6 DEF ChatInv, TableInv
<1> QED
  <2>1. CASE i = Subject
    BY <1>4, <2>1 DEF Tell, netvars
  <2>2. CASE i # Subject
    BY <1>3, <1>4, <2>2 DEF Tell
  <2> QED BY <2>1, <2>2

\* the next pass, or the exit at the limit of the table (100-101, 181-189)
LEMMA Chat_EndOfJoined ==
  ASSUME ChatInv, EndOfJoined
  PROVE  ChatInv'
<1>1. /\ TableInv /\ TypeOK /\ TableTypeOK /\ pc = "joined" /\ i' = 1 /\ mesg' = Silent
      /\ ready' = {} /\ start_index' = 1
      /\ UNCHANGED <<down, peer, clientvars, client_fd, fd, maxfd>>
  BY DEF EndOfJoined, Said, NewPass, ChatInv, TableInv
<1>2. CASE Full
  <2>1. pc' = "exit" /\ ServerEnds
    BY <1>2 DEF EndOfJoined, Said, CloseAll
  <2>2. /\ held' \in [Clients -> HeldState] /\ up' \in [Clients -> Seq(Line)]
        /\ backlog' \in Seq(Clients) /\ listening' = FALSE /\ PhaseInv'
    BY <1>1, <2>1, ServerEnds_Inv
  <2>3. listening' \in BOOLEAN /\ pc' \in Label
    BY <2>1, <2>2 DEF Label
  <2>4. TableTypeOK'
    BY <1>1, <2>1, <2>2, <2>3 DEF TableTypeOK, clientvars
  <2>5. TableInv'
    BY <2>1, <2>2, <2>4 DEF TableInv, PcInv, Stopped
  <2>6. TypeOK' /\ ServedInv'
    BY <1>1, <2>1, <2>4 DEF TypeOK, ServedInv, InScan, Broadcasting
  <2> QED BY <2>5, <2>6 DEF ChatInv
<1>3. CASE ~Full
  <2>1. pc' = "select" /\ UNCHANGED <<up, held, backlog, listening>>
    BY <1>3 DEF EndOfJoined, Said
  <2>2. TableTypeOK'
    BY <1>1, <2>1 DEF TableTypeOK, clientvars, Label
  <2>3. client_index \in Nat /\ client_index < MaxClients
    BY <1>1, <1>3, LenProperties, MaxClientsAssumption
       DEF TableInv, TableTypeOK, PcInv, Full, client_index
  <2>4. PhaseInv' /\ Exact'
    BY <1>1, <2>1, PhaseInv_Stable, Exact_Stable DEF TableInv, Stopped, clientvars
  <2>5. PcInv'
    BY <1>1, <2>1, <2>3 DEF TableInv, PcInv, Stopped, client_index
  <2>6. TypeOK' /\ ServedInv'
    BY <1>1, <2>1, <2>2 DEF TypeOK, ServedInv, InScan, Broadcasting
  <2> QED BY <2>2, <2>4, <2>5, <2>6 DEF ChatInv, TableInv
<1> QED BY <1>2, <1>3

\* a read(), with data or at the end of the stream, and what it starts (106-150)
LEMMA Chat_Receive ==
  ASSUME ChatInv, Receive \/ ReceiveEnd
  PROVE  ChatInv'
<1>1. /\ TableInv /\ TypeOK /\ TableTypeOK /\ pc = "scan" /\ start_index <= client_index
      /\ pc' \in {"relay", "left"} /\ i' = 1
      /\ UNCHANGED <<down, peer, held, backlog, listening, clientvars,
                     client_fd, fd, maxfd, ready, start_index>>
  BY DEF Receive, ReceiveEnd, Say, Scanning, ChatInv, TableInv, netvars
<1>2. Current \in Clients
  BY <1>1, Current_Type
<1>3. /\ up' \in [Clients -> Seq(Line)] /\ mesg' \in Notice
      /\ \A c \in Clients \ {Current} : up'[c] = up[c]
  <2>1. CASE Receive
    <3>1. PICK n \in 1..Len(up[Current]) :
            /\ ReadData(Current, n)
            /\ mesg' \in {[kind |-> "left", who |-> Current],
                          [kind |-> "says", who |-> Current,
                           text |-> SubSeq(up[Current], 1, n)]}
      BY <2>1 DEF Receive, Say
    <3>2. up' \in [Clients -> Seq(Line)] /\ SubSeq(up[Current], 1, n) \in Seq(Line)
      BY <1>1, <1>2, <3>1, ReadData_Inv DEF TableTypeOK
    <3>3. \A c \in Clients \ {Current} : up'[c] = up[c]
      BY <1>1, <3>1 DEF ReadData, TableTypeOK
    <3> QED BY <1>2, <3>1, <3>2, <3>3, Say_Inv
  <2>2. CASE ReceiveEnd
    <3>1. up' = up /\ mesg' = [kind |-> "left", who |-> Current]
      BY <2>2 DEF ReceiveEnd, Say, netvars
    <3> QED BY <1>1, <1>2, <3>1, Say_Inv, EmptySeq DEF TableTypeOK
  <2> QED BY <2>1, <2>2
<1>4. TableTypeOK'
  BY <1>1, <1>3 DEF TableTypeOK, clientvars, Label
<1>5. TypeOK'
  BY <1>1, <1>3, <1>4 DEF TypeOK
<1>6. PhaseInv' /\ ~Stopped /\ Exact'
  BY <1>1, PhaseInv_Stable, Exact_Stable DEF TableInv, Stopped, clientvars
<1>7. PcInv'
  BY <1>1 DEF TableInv, PcInv, Stopped, client_index
<1>8. \A c \in Clients \ {Current} : Readable(c) => Readable(c)'
  BY <1>1, <1>3 DEF Readable
<1>9. ServedInv'
  BY <1>1, <1>6, <1>8, Served_Step DEF ChatInv, InScan
<1> QED BY <1>4, <1>5, <1>6, <1>7, <1>9 DEF ChatInv, TableInv

\* after the last write() of a relay (145)
LEMMA Chat_EndOfRelay ==
  ASSUME ChatInv, EndOfRelay
  PROVE  ChatInv'
<1>1. /\ TableInv /\ TypeOK /\ TableTypeOK /\ pc = "relay" /\ pc' = "scan"
      /\ i' = 1 /\ mesg' = Silent /\ start_index' = start_index + 1
      /\ UNCHANGED <<netvars, clientvars, client_fd, fd, maxfd, ready>>
  BY DEF EndOfRelay, Said, ChatInv, TableInv
<1>2. start_index' \in Nat \ {0}
  BY <1>1 DEF TableTypeOK
<1>3. TableTypeOK'
  BY <1>1, <1>2 DEF TableTypeOK, netvars, clientvars, Label
<1>4. TypeOK'
  BY <1>1, <1>3 DEF TypeOK, Broadcasting, netvars
<1>5. PhaseInv' /\ ~Stopped /\ Exact'
  BY <1>1, PhaseInv_Stable, Exact_Stable DEF TableInv, Stopped, netvars, clientvars
<1>6. PcInv'
  BY <1>1 DEF TableInv, PcInv, Stopped, client_index, netvars
<1>7. ServedInv'
  BY <1>1, <1>5, Served_Step DEF ChatInv, InScan, Readable, netvars
<1> QED BY <1>3, <1>4, <1>5, <1>6, <1>7 DEF ChatInv, TableInv

\* after the last write() of a departure: close() and the removal (124-134, 157-165)
LEMMA Chat_EndOfLeft ==
  ASSUME ChatInv, EndOfLeft
  PROVE  ChatInv'
<1>1. /\ TableInv /\ TypeOK /\ TableTypeOK /\ RemoveCurrent /\ pc = "left" /\ pc' = "scan"
      /\ i' = 1 /\ mesg' = Silent
      /\ ~Stopped /\ start_index <= client_index /\ PcInv
  BY DEF EndOfLeft, Said, ChatInv, TableInv, PcInv, Stopped
<1>2. /\ held' \in [Clients -> HeldState] /\ up' \in [Clients -> Seq(Line)]
      /\ client_fd' \in Seq(Clients)
      /\ UNCHANGED <<down, peer, backlog, listening, clientvars, fd, maxfd, ready, start_index>>
      /\ client_index' = client_index - 1 /\ client_index \in Nat
      /\ PhaseInv' /\ Exact'
  BY <1>1, Remove_Inv
<1>3. TableTypeOK'
  BY <1>1, <1>2 DEF TableTypeOK, clientvars, Label
<1>4. PcInv'
  BY <1>1, <1>2, MaxClientsAssumption DEF PcInv, Stopped
<1>5. TypeOK'
  BY <1>1, <1>2, <1>3 DEF TypeOK, Broadcasting
<1>6. ServedInv'
  BY <1>1, Served_Remove DEF ChatInv, InScan
<1> QED BY <1>2, <1>3, <1>4, <1>5, <1>6 DEF ChatInv, TableInv

\* the steps of the loop that serve nobody (59-75, 104-106)
LEMMA Chat_Loop ==
  ASSUME ChatInv, Select \/ Skip \/ ReceiveError \/ EndOfScan, UNCHANGED castvars
  PROVE  ChatInv'
<1>1. TableInv /\ TypeOK /\ ServedInv /\ i' = i /\ mesg' = mesg
  BY DEF ChatInv, castvars
<1>2. TableInv'
  BY <1>1, Select_Inv, Skip_Inv, ReceiveError_Inv
<1>3. /\ down' = down /\ pc' \in {"accept", "scan", "select"}
  BY DEF Select, Skip, ReceiveError, EndOfScan, Scanning, netvars
<1>4. TypeOK'
  BY <1>1, <1>2, <1>3 DEF TypeOK, TableInv, Broadcasting
<1>5. ServedInv'
  <2>1. CASE Select
    BY <1>1, <2>1, Served_Select
  <2>2. CASE EndOfScan
    BY <2>2 DEF EndOfScan, ServedInv, InScan
  <2>3. CASE Skip \/ ReceiveError
    <3>1. /\ InScan /\ ~Stopped /\ start_index' = start_index + 1
          /\ UNCHANGED <<client_fd, ready>> /\ up' = up
      BY <2>3 DEF Skip, ReceiveError, Scanning, InScan, Stopped, netvars
    <3>2. \A c \in Clients \ {Current} : peer'[c] = peer[c]
      BY <1>1, <2>3 DEF Skip, ReceiveError, ReadError, netvars, TableInv, TableTypeOK
    <3>3. \A c \in Clients \ {Current} : Readable(c) => Readable(c)'
      BY <3>1, <3>2 DEF Readable
    <3> QED BY <1>1, <3>1, <3>3, Served_Step
  <2> QED BY <2>1, <2>2, <2>3
<1> QED BY <1>2, <1>4, <1>5 DEF ChatInv

\* what the clients do, selet_client.c, between two steps of the server
LEMMA Chat_Outside ==
  ASSUME ChatInv, Outside, UNCHANGED castvars
  PROVE  ChatInv'
<1>1. TableInv' /\ ServedInv'
  BY Outside_Inv, Served_Outside DEF ChatInv
<1>2. pc' = pc /\ i' = i /\ mesg' = mesg
  BY DEF Outside, tablevars, castvars
<1>3. down' \in [Clients -> Seq(Notice)]
  <2> USE DEF ChatInv, TypeOK
  <2>1. ASSUME NEW c \in Clients, ClientNext(c)
        PROVE  down' \in [Clients -> Seq(Notice)]
    <3>1. CASE Response(c)
      <4>1. PICK n \in 1..Len(down[c]) : TakeDown(c, n)
        BY <3>1 DEF Response
      <4>2. SubSeq(down[c], n + 1, Len(down[c])) \in Seq(Notice)
        BY <4>1, DropProperties
      <4> QED BY <4>1, <4>2 DEF TakeDown
    <3>2. CASE CloseSocket(c) \/ Kill(c)
      BY <3>2, EmptySeq DEF CloseSocket, Kill, CloseClientEnd
    <3>3. CASE ~Response(c) /\ ~CloseSocket(c) /\ ~Kill(c)
      BY <2>1, <3>3 DEF ClientNext, ClientStep, Connect, SendLine, SendQuit, SendFails,
                        EndOfInput, ServerClosed, netvars
    <3> QED BY <3>1, <3>2, <3>3
  <2>2. ASSUME NEW c \in Clients, RstArrives(c)
        PROVE  down' \in [Clients -> Seq(Notice)]
    BY <2>2 DEF RstArrives
  <2> QED BY <2>1, <2>2 DEF Outside
<1>4. TypeOK'
  BY <1>1, <1>2, <1>3 DEF ChatInv, TypeOK, TableInv, Broadcasting
<1> QED BY <1>1, <1>4 DEF ChatInv

\* every step of the system preserves the invariant of selet_server.c's loop
LEMMA Chat_Next ==
  ASSUME ChatInv, [Next]_vars
  PROVE  ChatInv'
<1>1. CASE Next
  BY <1>1, Chat_Accept, Chat_Tell, Chat_EndOfJoined, Chat_Receive, Chat_EndOfRelay,
     Chat_EndOfLeft, Chat_Loop, Chat_Outside DEF Next, ServerStep
<1>2. CASE UNCHANGED vars
  <2>1. TableInv'
    BY <1>2 DEF vars, netvars, clientvars, tablevars, ChatInv, TableInv, TableTypeOK,
                PhaseInv, PcInv, Exact, Stopped, client_index
  <2>2. TypeOK'
    BY <1>2, <2>1 DEF vars, netvars, tablevars, castvars, ChatInv, TypeOK, TableInv,
                      Broadcasting
  <2>3. ServedInv'
    BY <1>2 DEF vars, netvars, tablevars, ChatInv, ServedInv, InScan, client_index, Readable
  <2> QED BY <2>1, <2>2, <2>3 DEF ChatInv
<1> QED BY <1>1, <1>2

-----------------------------------------------------------------------------
(* The scan's work list.                                                   *)

\* no step of the chat server takes anybody off it but the current connection (106-172)
LEMMA Chat_Rest ==
  ASSUME ChatInv, [Next]_vars
  PROVE  [NextInRest]_tablevars
<1>1. CASE Select \/ Accept \/ EndOfJoined \/ EndOfScan
  BY <1>1 DEF Select, Accept, EndOfJoined, EndOfScan, Say, Said, NextInRest, InScan
<1>2. CASE Skip \/ ReceiveError \/ EndOfRelay
  <2>1. /\ InScan /\ start_index <= client_index
        /\ client_fd' = client_fd /\ start_index' = start_index + 1
    BY <1>2 DEF Skip, ReceiveError, EndOfRelay, Scanning, InScan, ChatInv, TableInv, PcInv
  <2> QED BY <2>1, Rest_Next DEF ChatInv, NextInRest
<1>3. CASE Tell \/ Receive \/ ReceiveEnd
  <2>1. UNCHANGED <<client_fd, start_index>>
    BY <1>3 DEF Tell, Receive, ReceiveEnd
  <2> QED BY <2>1 DEF NextInRest, Rest, client_index
<1>4. CASE EndOfLeft
  <2>1. /\ InScan /\ start_index <= client_index
        /\ client_fd' = RemoveAt(client_fd, start_index) /\ start_index' = start_index
    BY <1>4 DEF EndOfLeft, RemoveCurrent, SameIndex, InScan, ChatInv, TableInv, PcInv
  <2> QED BY <2>1, Rest_Next DEF ChatInv, NextInRest
<1>5. CASE Outside \/ UNCHANGED vars
  BY <1>5 DEF Outside, vars, tablevars
<1> QED BY <1>1, <1>2, <1>3, <1>4, <1>5 DEF Next, ServerStep

-----------------------------------------------------------------------------
(* The room.  A server that has stopped has closed every connection, which *)
(* is why nobody can say anything more.                                    *)

StoppedInv == Stopped => \A c \in Clients : peer[c] # "idle" => held[c] = "closed"

RoomInv == ChatInv /\ StoppedInv

\* Steps that the room does not see
LEMMA Room_Stutter ==
  ASSUME \A c \in Clients : /\ Member'[c] = Member[c] /\ Unread'[c] = Unread[c]
                            /\ Inbox'[c] = Inbox[c] /\ (c \in Alive' <=> c \in Alive),
         listening' = listening
  PROVE  UNCHANGED Room!roomvars
<1>1. Member' = Member
  BY DEF Member
<1>2. Unread' = Unread
  BY DEF Unread
<1>3. Inbox' = Inbox
  BY DEF Inbox
<1>4. Alive' = Alive
  BY DEF Alive
<1> QED BY <1>1, <1>2, <1>3, <1>4 DEF Room!roomvars

\* Outside of a broadcast and at its end everybody has been told
LEMMA Told ==
  ASSUME ~Broadcasting \/ i > client_index, ChatInv
  PROVE  \A c \in Clients : ~Untold(c) /\ Inbox[c] = down[c]
<1>1. i \in Nat /\ client_index \in Nat
  BY LenProperties DEF ChatInv, TypeOK, TableInv, TableTypeOK, client_index
<1>2. \A c \in Clients : ~Untold(c)
  BY <1>1 DEF Untold
<1> QED BY <1>2 DEF Inbox

LEMMA ToldNext ==
  ASSUME ~Broadcasting'
  PROVE  \A c \in Clients : ~Untold(c)' /\ Inbox'[c] = down'[c]
<1>1. \A c \in Clients : ~Untold(c)'
  BY DEF Untold
<1> QED BY <1>1 DEF Inbox

\* What a broadcast that begins says to all but one is an announcement (95-98,
\* 117-122, 139-144, 149-155)
LEMMA Room_Announce ==
  ASSUME ChatInv, ~Broadcasting, Broadcasting', i' = 1, UNCHANGED <<down, peer>>,
         NEW c \in Clients,
         \A d \in Clients : (d # c /\ held[d] = "open")
                              <=> \E k \in 1..client_index' : k # Subject' /\ client_fd'[k] = d
  PROVE  Room!Announce(c, mesg')
<1>1. \A d \in Clients : Untold(d)' <=> peer[d] = "open" /\ d # c /\ held[d] = "open"
  BY DEF Untold
<1>2. \A d \in Clients : Inbox[d] = down[d]
  BY Told
<1>3. Room!Inside = {d \in Clients : held[d] = "open"}
  BY DEF Room!Inside, Member, Leaving, Broadcasting
<1>4. \A d \in Clients : d \in (Room!Inside \cap Alive) \ {c}
                           <=> peer[d] = "open" /\ d # c /\ held[d] = "open"
  BY <1>3 DEF Alive
<1>5. Inbox' = [d \in Clients |-> IF Untold(d)' THEN Append(down[d], mesg') ELSE down[d]]
  BY DEF Inbox
<1> HIDE DEF Inbox, Alive, Untold
<1>6. Inbox' = [d \in Clients |-> IF d \in (Room!Inside \cap Alive) \ {c}
                                    THEN Append(Inbox[d], mesg') ELSE Inbox[d]]
  BY <1>1, <1>2, <1>4, <1>5
<1> QED BY <1>6 DEF Room!Announce

\* What is read of a sequence, or taken from its end, when one more has been appended
LEMMA FrontOfAppend ==
  ASSUME NEW S, NEW s \in Seq(S), NEW x \in S
  PROVE  /\ Append(s, x) # <<>>
         /\ SubSeq(Append(s, x), 1, Len(Append(s, x)) - 1) = s
<1> DEFINE t == Append(s, x)
           n == Len(s)
<1>1. /\ t \in Seq(S) /\ t # <<>> /\ Len(t) = n + 1 /\ n \in Nat
      /\ \A k \in 1..n : t[k] = s[k] /\ s[k] \in S
  BY AppendProperties, LenProperties, ElementOfSeq
<1> HIDE DEF t
<1>2. Len(t) - 1 = n /\ 1 \in Int /\ n \in Int /\ \A k \in 1..n : t[k] \in S
  BY <1>1
<1>3. /\ SubSeq(t, 1, n) \in Seq(S)
      /\ Len(SubSeq(t, 1, n)) = IF 1 <= n THEN n - 1 + 1 ELSE 0
      /\ \A k \in 1..(n - 1 + 1) : SubSeq(t, 1, n)[k] = t[1 + k - 1]
  BY <1>2, SubSeqProperties
<1>4. Len(SubSeq(t, 1, n)) = n /\ \A k \in 1..n : SubSeq(t, 1, n)[k] = s[k]
  <2>1. n - 1 + 1 = n /\ \A k \in 1..n : 1 + k - 1 = k
    BY <1>1
  <2>2. Len(SubSeq(t, 1, n)) = n
    BY <1>1, <1>3
  <2> QED BY <1>1, <1>3, <2>1, <2>2
<1>5. SubSeq(t, 1, n) = s
  BY <1>3, <1>4, SeqEqual
<1> QED BY <1>1, <1>2, <1>5 DEF t

LEMMA RestOfAppend ==
  ASSUME NEW S, NEW s \in Seq(S), NEW x \in S, NEW n \in 1..Len(s)
  PROVE  /\ n \in 1..Len(Append(s, x))
         /\ SubSeq(Append(s, x), n + 1, Len(Append(s, x)))
              = Append(SubSeq(s, n + 1, Len(s)), x)
<1> DEFINE t == Append(s, x)
           m == Len(s)
           r == SubSeq(s, n + 1, m)
           u == SubSeq(t, n + 1, m + 1)
<1>1. /\ t \in Seq(S) /\ Len(t) = m + 1 /\ m \in Nat /\ n \in Nat /\ n >= 1 /\ n <= m
      /\ \A k \in 1..m : t[k] = s[k] /\ s[k] \in S
      /\ t[m + 1] = x
  BY AppendProperties, LenProperties, ElementOfSeq
<1>2. r \in Seq(S) /\ Len(r) = m - n /\ \A k \in 1..(m - n) : r[k] = s[n + k]
  <2>1. n + 1 \in Int /\ m \in Int /\ \A k \in (n + 1)..m : s[k] \in S
    BY <1>1
  <2>2. /\ r \in Seq(S) /\ Len(r) = IF n + 1 <= m THEN m - (n + 1) + 1 ELSE 0
        /\ \A k \in 1..(m - (n + 1) + 1) : r[k] = s[n + 1 + k - 1]
    BY <2>1, SubSeqProperties
  <2>3. Len(r) = m - n
    BY <1>1, <2>2
  <2>4. m - (n + 1) + 1 = m - n /\ \A k \in 1..(m - n) : n + 1 + k - 1 = n + k
    BY <1>1
  <2> QED BY <2>2, <2>3, <2>4
<1>3. u \in Seq(S) /\ Len(u) = m - n + 1 /\ \A k \in 1..(m - n + 1) : u[k] = t[n + k]
  <2>1. n + 1 \in Int /\ m + 1 \in Int /\ \A k \in (n + 1)..(m + 1) : t[k] \in S
    BY <1>1
  <2> HIDE DEF t
  <2>2. /\ u \in Seq(S) /\ Len(u) = IF n + 1 <= m + 1 THEN m + 1 - (n + 1) + 1 ELSE 0
        /\ \A k \in 1..(m + 1 - (n + 1) + 1) : u[k] = t[n + 1 + k - 1]
    BY <2>1, SubSeqProperties
  <2>3. Len(u) = m - n + 1
    BY <1>1, <2>2
  <2>4. m + 1 - (n + 1) + 1 = m - n + 1 /\ \A k \in 1..(m - n + 1) : n + 1 + k - 1 = n + k
    BY <1>1
  <2> QED BY <2>2, <2>3, <2>4
<1> HIDE DEF r, u, t
<1>4. /\ Append(r, x) \in Seq(S) /\ Len(Append(r, x)) = m - n + 1
      /\ \A k \in 1..(m - n) : Append(r, x)[k] = s[n + k]
      /\ Append(r, x)[m - n + 1] = x
  <2>1. /\ Append(r, x) \in Seq(S) /\ Len(Append(r, x)) = Len(r) + 1
        /\ \A k \in 1..Len(r) : Append(r, x)[k] = r[k]
        /\ Append(r, x)[Len(r) + 1] = x
    BY <1>2, AppendProperties
  <2> QED BY <1>2, <2>1
<1>5. \A k \in 1..(m - n + 1) : u[k] = Append(r, x)[k]
  <2> SUFFICES ASSUME NEW k \in 1..(m - n + 1) PROVE u[k] = Append(r, x)[k]
    OBVIOUS
  <2>1. CASE k = m - n + 1
    BY <1>1, <1>3, <1>4, <2>1
  <2>2. CASE k # m - n + 1
    <3>1. k \in 1..(m - n) /\ n + k \in 1..m
      BY <1>1, <2>2
    <3> QED BY <1>1, <1>3, <1>4, <3>1
  <2> QED BY <2>1, <2>2
<1>6. u = Append(r, x)
  BY <1>3, <1>4, <1>5, SeqEqual
<1>7. n \in 1..Len(t)
  BY <1>1
<1> QED BY <1>1, <1>6, <1>7 DEF r, u, t

\* accept(): somebody enters (78-96)
LEMMA Room_Accept ==
  ASSUME RoomInv, Accept
  PROVE  \E c \in Clients : Room!Enter(c)
<1> DEFINE c == Head(backlog)
           n == client_index
<1>1. /\ TableInv /\ ChatInv /\ pc = "accept" /\ pc' = "joined" /\ AcceptNext
      /\ i' = 1 /\ mesg' = [kind |-> "joined", who |-> c]
      /\ listening /\ listening' = listening /\ UNCHANGED <<up, down, peer>>
      /\ held \in [Clients -> HeldState] /\ client_fd \in Seq(Clients) /\ Exact
      /\ held' = [held EXCEPT ![c] = "open"] /\ client_fd' = Append(client_fd, c)
  BY DEF RoomInv, ChatInv, Accept, Say, AcceptNext, TableInv, TableTypeOK, PcInv, Stopped
<1>2. c \in Clients /\ held[c] = "none"
  BY <1>1, Backlog_Head
<1>3. ~Broadcasting /\ Broadcasting'
  BY <1>1 DEF Broadcasting
<1>4. \A d \in Clients : ~Leaving(d) /\ ~Leaving(d)'
  BY <1>1 DEF Leaving
<1>5. /\ n \in Nat /\ client_index' = n + 1 /\ Subject' = n + 1
      /\ \A k \in 1..n : client_fd'[k] = client_fd[k]
  BY <1>1, <1>2, AppendProperties, LenProperties DEF client_index, Subject
<1>6. \A d \in Clients : (d # c /\ held[d] = "open")
                           <=> \E k \in 1..client_index' : k # Subject' /\ client_fd'[k] = d
  <2>1. \A d \in Clients : held[d] = "open" <=> \E k \in 1..n : client_fd[k] = d
    BY <1>1 DEF Exact
  <2>2. \A k \in 1..client_index' : k # Subject' <=> k \in 1..n
    BY <1>5
  <2>3. \A k \in 1..n : k \in 1..client_index'
    BY <1>5
  <2> HIDE DEF c, n
  <2> QED BY <1>2, <1>5, <2>1, <2>2, <2>3
<1> HIDE DEF c, n
<1>7. Room!Announce(c, [kind |-> "joined", who |-> c])
  BY <1>1, <1>2, <1>3, <1>6, Room_Announce
<1>8. Member[c] = "outside" /\ Member' = [Member EXCEPT ![c] = "inside"]
  BY <1>1, <1>2, <1>4 DEF Member
<1>9. Unread' = Unread /\ Alive' = Alive
  BY <1>1, <1>4 DEF Unread, Alive
<1> QED BY <1>1, <1>2, <1>7, <1>8, <1>9 DEF Room!Enter

\* the process ends: at most the last notice misses some (100-101, 181-189)
LEMMA Room_Stop ==
  ASSUME RoomInv, ServerEnds, listening, ~Broadcasting', UNCHANGED <<down, peer>>
  PROVE  Room!Stop
<1> DEFINE missed == {c \in Clients : Untold(c)}
           met    == {c \in Clients : peer[c] # "idle"}
<1>1. \A c \in Clients : ~Leaving(c)' /\ ~Untold(c)'
  BY DEF Broadcasting, Leaving, Untold
<1>2. Inbox' = [c \in Clients |-> down[c]]
  BY <1>1 DEF Inbox
<1>3. ASSUME NEW c \in missed
      PROVE  Inbox[c] # <<>> /\ SubSeq(Inbox[c], 1, Len(Inbox[c]) - 1) = down[c]
  <2>1. down[c] \in Seq(Notice) /\ mesg \in Notice /\ Inbox[c] = Append(down[c], mesg)
    BY DEF RoomInv, ChatInv, TypeOK, Untold, Inbox
  <2> QED BY <2>1, FrontOfAppend
<1>4. \A c \in Clients \ missed : Inbox[c] = down[c]
  BY DEF Inbox
<1> HIDE DEF missed, Inbox, Untold
<1>5. Inbox' = [c \in Clients |-> IF c \in missed THEN SubSeq(Inbox[c], 1, Len(Inbox[c]) - 1)
                                                   ELSE Inbox[c]]
  BY <1>2, <1>3, <1>4
<1>6. missed \in SUBSET {c \in Clients : Inbox[c] # <<>>}
  BY <1>3 DEF missed
<1>7. Unread' = [c \in Clients |-> <<>>]
  BY <1>1 DEF Unread, ServerEnds
<1>8. Member' = [c \in Clients |-> IF c \in met THEN "gone" ELSE "outside"]
  BY <1>1 DEF Member, ServerEnds
<1>9. Alive' = Alive /\ listening' = FALSE
  BY DEF Alive, ServerEnds
<1>10. met \in SUBSET Clients
  OBVIOUS
<1> HIDE DEF met
<1> QED BY <1>5, <1>6, <1>7, <1>8, <1>9, <1>10 DEF Room!Stop

\* one write() of a broadcast delivers what the room has announced already, or
\* the end of the process keeps it from those that come after (95-98)
LEMMA Room_Tell ==
  ASSUME RoomInv, Tell
  PROVE  Room!Stop \/ UNCHANGED Room!roomvars
<1> DEFINE n == client_index
<1>1. /\ TableInv /\ ChatInv /\ Broadcasting /\ i \in 1..n /\ n \in Nat /\ n = Len(client_fd)
      /\ UNCHANGED <<clientvars, client_fd, start_index, mesg>>
      /\ down \in [Clients -> Seq(Notice)] /\ peer \in [Clients -> PeerState]
      /\ client_fd \in Seq(Clients)
      /\ ~Stopped /\ Exact /\ listening
  <2>1. /\ TableInv /\ ChatInv /\ Broadcasting /\ i <= n /\ i \in Nat \ {0}
        /\ UNCHANGED <<clientvars, client_fd, start_index, mesg>>
        /\ down \in [Clients -> Seq(Notice)] /\ peer \in [Clients -> PeerState]
        /\ client_fd \in Seq(Clients) /\ ~Stopped /\ Exact /\ listening
    BY DEF Tell, RoomInv, ChatInv, TableInv, TypeOK, TableTypeOK, PcInv, Broadcasting, Stopped
  <2>2. n \in Nat /\ n = Len(client_fd)
    BY <2>1, LenProperties DEF client_index
  <2> HIDE DEF n
  <2> QED BY <2>1, <2>2
<1>2. PICK e \in Clients : client_fd[i] = e
  BY <1>1, ElementOfSeq
<1>3. CASE pc' = "killed" /\ ServerEnds /\ UNCHANGED <<down, peer, i>>
  BY <1>1, <1>3, Room_Stop DEF Broadcasting
<1>4. CASE /\ UNCHANGED <<up, held, backlog, listening, pc>> /\ i' = i + 1
           /\ \/ i = Subject /\ UNCHANGED <<down, peer>>
              \/ i # Subject /\ Write(e, mesg)
  <2>1. /\ client_index' = n /\ Subject' = Subject /\ Broadcasting'
        /\ \A c \in Clients : Leaving(c)' <=> Leaving(c)
    BY <1>1, <1>4 DEF Subject, Broadcasting, Leaving, Current, client_index
  <2>2. \A c \in Clients : peer'[c] = "open" <=> peer[c] = "open"
    BY <1>1, <1>4 DEF Write
  <2>3. ASSUME NEW c \in Clients, i = Subject \/ c # e
        PROVE  /\ down'[c] = down[c]
               /\ Untold(c)' <=> Untold(c)
    <3>1. down'[c] = down[c]
      BY <1>1, <1>4, <2>3 DEF Write
    <3>2. \A k \in 1..n : (k \in i..n /\ k # Subject /\ client_fd[k] = c)
                            <=> (k \in (i + 1)..n /\ k # Subject /\ client_fd[k] = c)
      BY <1>1, <1>2, <2>3
    <3>3. \A k : (k \in i..n => k \in 1..n) /\ (k \in (i + 1)..n => k \in 1..n)
      BY <1>1
    <3>4. (\E k \in i..n : k # Subject /\ client_fd[k] = c)
            <=> \E k \in (i + 1)..n : k # Subject /\ client_fd[k] = c
      BY <3>2, <3>3
    <3> QED BY <1>1, <1>4, <2>1, <2>2, <3>1, <3>4 DEF Untold
  <2>4. ASSUME i # Subject
        PROVE  /\ Untold(e) <=> peer[e] = "open"
               /\ ~Untold(e)'
               /\ peer[e] = "open" => down'[e] = Append(down[e], mesg)
               /\ peer[e] # "open" => down'[e] = down[e]
    <3>1. Untold(e) <=> peer[e] = "open"
      <4>1. i \in i..n
        BY <1>1
      <4> QED BY <1>1, <1>2, <2>4, <4>1 DEF Untold
    <3>2. \A j, k \in 1..n : client_fd[j] = client_fd[k] => j = k
      BY <1>1 DEF Exact
    <3>3. \A k \in (i + 1)..n : client_fd[k] # e
      <4> SUFFICES ASSUME NEW k \in (i + 1)..n PROVE client_fd[k] # client_fd[i]
        BY <1>2
      <4>1. k \in 1..n /\ k # i
        BY <1>1
      <4> HIDE DEF n
      <4> QED BY <1>1, <3>2, <4>1
    <3>4. ~Untold(e)'
      BY <1>1, <1>4, <2>1, <3>3 DEF Untold
    <3>5. /\ peer[e] = "open" => down'[e] = Append(down[e], mesg)
          /\ peer[e] # "open" => down'[e] = down[e]
      BY <1>1, <1>2, <1>4, <2>4 DEF Write
    <3> QED BY <3>1, <3>4, <3>5
  <2>5. ASSUME NEW c \in Clients PROVE Inbox'[c] = Inbox[c]
    <3>1. /\ Inbox[c] = IF Untold(c) THEN Append(down[c], mesg) ELSE down[c]
          /\ Inbox'[c] = IF Untold(c)' THEN Append(down'[c], mesg) ELSE down'[c]
      BY <1>1 DEF Inbox
    <3>2. CASE i = Subject \/ c # e
      BY <2>3, <3>1, <3>2
    <3>3. CASE i # Subject /\ c = e
      <4> HIDE DEF Untold
      <4> QED BY <2>4, <3>1, <3>3
    <3> QED BY <3>2, <3>3
  <2>6. \A c \in Clients : Member'[c] = Member[c] /\ Unread'[c] = Unread[c]
    BY <1>4, <2>1 DEF Member, Unread
  <2>7. \A c \in Clients : c \in Alive' <=> c \in Alive
    BY <2>2 DEF Alive
  <2> HIDE DEF Member, Unread, Inbox, Alive
  <2> QED BY <1>4, <2>5, <2>6, <2>7, Room_Stutter
<1> QED
  <2>1. CASE i = Subject
    BY <1>4, <2>1 DEF Tell, netvars
  <2>2. CASE i # Subject
    BY <1>2, <1>3, <1>4, <2>2 DEF Tell
  <2> QED BY <2>1, <2>2

\* What the room shows of a step that announces nothing and changes nobody's place
LEMMA Room_Quiet ==
  ASSUME RoomInv, ~Broadcasting \/ i > client_index, ~Broadcasting',
         UNCHANGED <<down, listening>>,
         \A c \in Clients : peer'[c] = "open" <=> peer[c] = "open",
         \A c \in Clients : Member'[c] = Member[c] /\ Unread'[c] = Unread[c]
  PROVE  UNCHANGED Room!roomvars
<1>1. \A c \in Clients : Inbox'[c] = Inbox[c]
  <2>1. \A c \in Clients : Inbox[c] = down[c]
    BY Told DEF RoomInv
  <2>2. \A c \in Clients : Inbox'[c] = down'[c]
    BY ToldNext
  <2> QED BY <2>1, <2>2
<1>2. \A c \in Clients : c \in Alive' <=> c \in Alive
  BY DEF Alive
<1> HIDE DEF Member, Unread, Inbox, Alive
<1> QED BY <1>1, <1>2, Room_Stutter

\* the end of a broadcast, and what the loop does besides (62-83, 100-109, 157-173)
LEMMA Room_Loop ==
  ASSUME RoomInv,
         \/ Select \/ Skip \/ ReceiveError \/ EndOfScan
         \/ EndOfRelay \/ EndOfLeft
         \/ EndOfJoined /\ pc' = "select"
  PROVE  UNCHANGED Room!roomvars
<1>1. /\ TableInv /\ held \in [Clients -> HeldState] /\ up \in [Clients -> Seq(Line)]
      /\ peer \in [Clients -> PeerState]
  BY DEF RoomInv, ChatInv, TableInv, TableTypeOK
<1>2. CASE Select \/ Skip \/ EndOfScan \/ EndOfRelay \/ (EndOfJoined /\ pc' = "select")
  <2>1. /\ UNCHANGED <<up, down, peer, held, listening>>
        /\ pc # "left" /\ ~Broadcasting' /\ (~Broadcasting \/ i > client_index)
    BY <1>2 DEF Select, Skip, EndOfScan, EndOfRelay, EndOfJoined, Said, Scanning, netvars,
                Broadcasting
  <2>2. \A c \in Clients : ~Leaving(c) /\ ~Leaving(c)'
    BY <2>1 DEF Leaving, Broadcasting
  <2>3. \A c \in Clients : Member'[c] = Member[c] /\ Unread'[c] = Unread[c]
    BY <2>1, <2>2 DEF Member, Unread
  <2> HIDE DEF Member, Unread
  <2> QED BY <2>1, <2>3, Room_Quiet
<1>3. CASE ReceiveError
  <2>1. /\ UNCHANGED <<up, down, held, listening>> /\ pc = "scan" /\ pc' = "scan"
        /\ \A c \in Clients : peer'[c] = "open" <=> peer[c] = "open"
    BY <1>1, <1>3 DEF ReceiveError, ReadError, Scanning
  <2>2. \A c \in Clients : Member'[c] = Member[c] /\ Unread'[c] = Unread[c]
    BY <2>1 DEF Member, Unread, Leaving
  <2> HIDE DEF Member, Unread
  <2> QED BY <2>1, <2>2, Room_Quiet DEF Broadcasting
<1>4. CASE EndOfLeft
  <2>1. /\ pc = "left" /\ i > client_index /\ pc' = "scan" /\ RemoveCurrent
        /\ start_index <= client_index /\ ~Stopped
    BY <1>4 DEF EndOfLeft, Said, RoomInv, ChatInv, TableInv, PcInv, Stopped
  <2>2. Current \in Clients
    BY <1>1, <2>1, Current_Type
  <2>3. /\ UNCHANGED <<down, peer, listening>>
        /\ \A c \in Clients : /\ Leaving(c) <=> c = Current
                              /\ ~Leaving(c)'
                              /\ c # Current => held'[c] = held[c] /\ up'[c] = up[c]
        /\ held'[Current] = "closed" /\ up'[Current] = <<>> /\ held[Current] = "open"
    <3>1. held[Current] = "open"
      BY <1>1, <2>1, Current_Type
    <3> QED BY <1>1, <2>1, <2>2, <3>1 DEF RemoveCurrent, CloseServerEnd, Leaving
  <2> HIDE DEF Current, Leaving
  <2>4. \A c \in Clients : Member'[c] = Member[c] /\ Unread'[c] = Unread[c]
    BY <2>3 DEF Member, Unread
  <2> HIDE DEF Member, Unread
  <2> QED BY <2>1, <2>3, <2>4, Room_Quiet DEF Broadcasting
<1> QED BY <1>2, <1>3, <1>4

\* the exit when the table is full (100-101, 181-189)
LEMMA Room_Exit ==
  ASSUME RoomInv, EndOfJoined, pc' # "select"
  PROVE  Room!Stop
<1>1. /\ pc = "joined" /\ pc' = "exit" /\ ServerEnds /\ UNCHANGED <<down, peer>> /\ listening
  BY DEF EndOfJoined, Said, CloseAll, RoomInv, ChatInv, TableInv, PcInv, Stopped
<1> QED BY <1>1, Room_Stop DEF Broadcasting

\* a text that is read is posted, a q or the end of the stream is a departure;
\* the broadcast about either begins (109-137, 146-148)
LEMMA Room_Receive ==
  ASSUME RoomInv, Receive \/ ReceiveEnd
  PROVE  \E c \in Clients : Room!Post(c) \/ Room!Leave(c)
<1>1. /\ TableInv /\ ChatInv /\ pc = "scan" /\ ~Broadcasting /\ Broadcasting' /\ i' = 1
      /\ UNCHANGED <<down, peer, held, listening, client_fd, start_index>>
      /\ up \in [Clients -> Seq(Line)] /\ client_fd \in Seq(Clients)
      /\ start_index <= client_index /\ pc' \in {"left", "relay"}
      /\ listening /\ ~Stopped /\ Exact
  BY DEF Receive, ReceiveEnd, Say, Scanning, Broadcasting, RoomInv, ChatInv, TableInv,
         TableTypeOK, PcInv, Stopped, netvars
<1>2. PICK c \in Clients : Current = c
  BY <1>1, Current_Type
<1>3. /\ held[c] = "open" /\ start_index \in 1..client_index /\ client_fd[start_index] = c
      /\ client_index = Len(client_fd)
  BY <1>1, <1>2, Current_Type DEF Current, client_index
<1>4. /\ Current' = c /\ client_index' = client_index /\ Subject' = start_index
      /\ \A d \in Clients : /\ ~Leaving(d)
                            /\ Leaving(d)' <=> pc' = "left" /\ d = c
  BY <1>1, <1>2 DEF Current, client_index, Subject, Leaving
<1>5. Room!Announce(c, mesg')
  <2>1. ASSUME NEW d \in Clients
        PROVE  (d # c /\ held[d] = "open")
                 <=> \E k \in 1..client_index' : k # Subject' /\ client_fd'[k] = d
    <3>1. held[d] = "open" <=> \E k \in 1..client_index : client_fd[k] = d
      BY <1>1 DEF Exact
    <3>2. \A k \in 1..client_index : client_fd[k] = c <=> k = start_index
      BY <1>1, <1>3 DEF Exact
    <3> QED BY <1>1, <1>4, <3>1, <3>2
  <2> QED BY <1>1, <2>1, Room_Announce
<1>6. /\ Alive' = Alive /\ Unread[c] = up[c] /\ Member[c] = "inside"
      /\ Unread = [d \in Clients |-> up[d]]
      /\ Unread' = [d \in Clients |-> IF pc' = "left" /\ d = c THEN <<>> ELSE up'[d]]
  BY <1>1, <1>3, <1>4 DEF Alive, Unread, Member
<1>7. CASE pc' = "relay"
  <2>1. PICK n \in 1..Len(up[c]) :
          /\ ~IsQuit(up[c][1])
          /\ up' = [up EXCEPT ![c] = SubSeq(@, n + 1, Len(@))]
          /\ mesg' = [kind |-> "says", who |-> c, text |-> SubSeq(up[c], 1, n)]
    BY <1>2, <1>7 DEF Receive, ReceiveEnd, Say, ReadData
  <2>2. Member' = Member
    BY <1>1, <1>4, <1>7 DEF Member
  <2>3. Unread' = [Unread EXCEPT ![c] = Room!After(Unread[c], n)]
    BY <1>1, <1>6, <1>7, <2>1 DEF Room!After
  <2> HIDE DEF Member, Unread, Alive
  <2>4. /\ n \in 1..Len(Unread[c]) /\ ~IsQuit(Unread[c][1])
        /\ Room!Announce(c, [kind |-> "says", who |-> c, text |-> SubSeq(Unread[c], 1, n)])
    BY <1>5, <1>6, <2>1
  <2>5. Room!Post(c)
    BY <1>1, <1>6, <2>2, <2>3, <2>4 DEF Room!Post
  <2> QED BY <2>5
<1>8. CASE pc' = "left"
  <2>1. mesg' = [kind |-> "left", who |-> c]
    BY <1>2, <1>8 DEF Receive, ReceiveEnd, Say
  <2>2. Member' = [Member EXCEPT ![c] = "gone"]
    BY <1>1, <1>3, <1>4, <1>8 DEF Member
  <2>3. IF up[c] = <<>> THEN c \notin Alive ELSE IsQuit(up[c][1])
    <3>1. CASE Receive
      <4>1. up[c] # <<>>
        BY <1>2, <3>1, EmptySeq DEF Receive
      <4> QED BY <1>2, <1>8, <3>1, <4>1 DEF Receive, Say
    <3>2. CASE ReceiveEnd
      BY <1>2, <3>2 DEF ReceiveEnd, ReadEnd, Alive
    <3> QED BY <3>1, <3>2
  <2>4. Unread' = [Unread EXCEPT ![c] = <<>>]
    <3>1. \A d \in Clients : d # c => up'[d] = up[d]
      BY <1>1, <1>2 DEF Receive, ReceiveEnd, ReadData, netvars
    <3> QED BY <1>6, <1>8, <3>1
  <2> HIDE DEF Member, Unread, Alive
  <2>5. IF Unread[c] = <<>> THEN c \notin Alive ELSE IsQuit(Unread[c][1])
    BY <1>6, <2>3
  <2>6. Room!Leave(c)
    BY <1>1, <1>5, <1>6, <2>1, <2>2, <2>4, <2>5 DEF Room!Leave
  <2> QED BY <2>6
<1> QED BY <1>1, <1>7, <1>8

LEMMA RestOfNotices ==
  \A s \in Seq(Notice) : \A x \in Notice : \A n \in 1..Len(s) :
    /\ n \in 1..Len(Append(s, x))
    /\ Room!After(Append(s, x), n) = Append(Room!After(s, n), x)
BY RestOfAppend DEF Room!After

\* The clients: what a member says waits for the room, and what was announced is
\* read, whether its write() has been made or not (selet_client.c)
LEMMA Room_Client ==
  ASSUME RoomInv, NEW c \in Clients, ClientNext(c), UNCHANGED <<tablevars, castvars>>
  PROVE  Room!Next \/ UNCHANGED Room!roomvars
<1>1. /\ up \in [Clients -> Seq(Line)] /\ down \in [Clients -> Seq(Notice)]
      /\ peer \in [Clients -> PeerState] /\ held \in [Clients -> HeldState]
      /\ sent \in [Clients -> 0..MaxLines]
      /\ PhaseInv /\ StoppedInv /\ (listening <=> ~Stopped) /\ (~Stopped => Exact)
      /\ UNCHANGED <<pc, client_fd, start_index, i, mesg, held, listening>>
  BY DEF RoomInv, ChatInv, TypeOK, TableInv, TableTypeOK, PcInv, tablevars, castvars,
         ClientNext, ClientStep, Connect, SendLine, SendFails, SendQuit, EndOfInput, Response,
         ServerClosed, CloseSocket, Kill, netvars
<1>2. /\ client_index' = client_index /\ Broadcasting' = Broadcasting /\ Subject' = Subject
      /\ \A d \in Clients : Leaving(d)' = Leaving(d)
  BY <1>1 DEF client_index, Broadcasting, Subject, Leaving, Current
<1>3. Member' = Member
  BY <1>1, <1>2 DEF Member
<1>4. ASSUME NEW d \in Clients, peer'[d] = peer[d] PROVE Untold(d)' = Untold(d)
  BY <1>1, <1>2, <1>4 DEF Untold
<1>5. ASSUME SendLine(c) \/ SendQuit(c)
      PROVE  Room!Next \/ UNCHANGED Room!roomvars
  <2>1. PICK line \in Line :
          /\ up' = [up EXCEPT ![c] = IF held[c] = "closed" THEN @ ELSE Append(@, line)]
          /\ phase[c] = "prompt" /\ UNCHANGED <<down, peer>>
    <3>1. CASE SendLine(c)
      <4>1. <<c, sent[c] + 1>> \in Line
        BY <1>1, <3>1, MaxLinesAssumption DEF SendLine, MayType, Line
      <4> QED BY <3>1, <4>1 DEF SendLine, SendUp
    <3>2. CASE SendQuit(c)
      <4>1. <<c, 0>> \in Line
        BY MaxLinesAssumption DEF Line
      <4> QED BY <3>2, <4>1 DEF SendQuit, SendUp
    <3> QED BY <1>5, <3>1, <3>2
  <2>2. Inbox' = Inbox /\ Alive' = Alive
    BY <1>1, <1>4, <2>1 DEF Inbox, Alive
  <2>3. CASE held[c] = "closed" \/ Leaving(c)
    <3>1. Unread' = Unread
      BY <1>1, <1>2, <2>1, <2>3 DEF Unread
    <3> QED BY <1>1, <1>3, <2>2, <3>1 DEF Room!roomvars
  <2>4. CASE held[c] # "closed" /\ ~Leaving(c)
    <3>1. listening
      BY <1>1, <2>1, <2>4 DEF StoppedInv, PhaseInv
    <3>2. Member[c] # "gone"
      BY <1>1, <2>4 DEF Member, HeldState
    <3>3. Unread' = [Unread EXCEPT ![c] = Append(@, line)]
      BY <1>1, <1>2, <2>1, <2>4 DEF Unread
    <3> HIDE DEF Member, Unread, Inbox, Alive
    <3>4. Room!Type(c)
      BY <1>1, <1>3, <2>2, <3>1, <3>2, <3>3 DEF Room!Type
    <3> QED BY <3>4 DEF Room!Next
  <2> QED BY <2>3, <2>4
<1>6. ASSUME Response(c)
      PROVE  Room!Read(c)
  <2>1. PICK n \in 1..Len(down[c]) : down' = [down EXCEPT ![c] = SubSeq(@, n + 1, Len(@))]
    BY <1>6 DEF Response, TakeDown
  <2>2. UNCHANGED <<up, peer>>
    BY <1>6 DEF Response
  <2>3. Unread' = Unread /\ Alive' = Alive
    BY <1>2, <2>2 DEF Unread, Alive
  <2>4. \A d \in Clients : /\ Untold(d)' = Untold(d)
                           /\ d # c => down'[d] = down[d]
    BY <1>1, <1>4, <2>1, <2>2
  <2>5. n \in 1..Len(Inbox[c]) /\ Inbox'[c] = Room!After(Inbox[c], n)
    <3>1. CASE Untold(c)
      <4>1. mesg \in Notice /\ down[c] \in Seq(Notice) /\ n \in 1..Len(down[c])
        BY <3>1 DEF Untold, RoomInv, ChatInv, TypeOK
      <4>2. /\ n \in 1..Len(Append(down[c], mesg))
            /\ Room!After(Append(down[c], mesg), n) = Append(Room!After(down[c], n), mesg)
        BY <4>1, RestOfNotices, Zenon
      <4>3. Inbox[c] = Append(down[c], mesg) /\ Inbox'[c] = Append(down'[c], mesg)
        BY <1>1, <2>4, <3>1 DEF Inbox
      <4> HIDE DEF Inbox
      <4> QED BY <1>1, <2>1, <4>2, <4>3 DEF Room!After
    <3>2. CASE ~Untold(c)
      <4>1. Inbox[c] = down[c] /\ Inbox'[c] = down'[c]
        BY <2>4, <3>2 DEF Inbox
      <4> HIDE DEF Inbox
      <4> QED BY <1>1, <2>1, <4>1 DEF Room!After
    <3> QED BY <3>1, <3>2
  <2>6. Inbox' = [Inbox EXCEPT ![c] = Room!After(@, n)]
    <3>1. \A d \in Clients : d # c => Inbox'[d] = Inbox[d]
      BY <1>1, <2>4 DEF Inbox
    <3>2. DOMAIN Inbox = Clients /\ Inbox = [d \in Clients |-> Inbox[d]]
          /\ Inbox' = [d \in Clients |-> Inbox'[d]]
      BY DEF Inbox
    <3> HIDE DEF Inbox
    <3> QED BY <2>5, <3>1, <3>2
  <2> HIDE DEF Member, Unread, Inbox, Alive
  <2> QED BY <1>1, <1>3, <2>3, <2>5, <2>6 DEF Room!Read
<1>7. ASSUME CloseSocket(c) \/ Kill(c)
      PROVE  Room!Vanish(c)
  <2>1. CloseClientEnd(c) /\ up' = up
    BY <1>7 DEF CloseSocket, Kill
  <2>2. /\ peer'[c] # "open" /\ down'[c] = <<>>
        /\ \A d \in Clients : d # c => peer'[d] = peer[d] /\ down'[d] = down[d]
    <3>1. PICK s \in {"fin", "finrst", "reset"} : peer' = [peer EXCEPT ![c] = s]
      <4>1. CASE down[c] = <<>>
        BY <2>1, <4>1 DEF CloseClientEnd
      <4>2. CASE down[c] # <<>>
        BY <2>1, <4>2 DEF CloseClientEnd
      <4> QED BY <4>1, <4>2
    <3>2. down' = [down EXCEPT ![c] = <<>>]
      BY <2>1 DEF CloseClientEnd
    <3> QED BY <1>1, <3>1, <3>2
  <2>3. Alive' = Alive \ {c}
    BY <2>2 DEF Alive
  <2>4. Unread' = Unread
    BY <1>2, <2>1 DEF Unread
  <2>5. Inbox'[c] = <<>> /\ \A d \in Clients : d # c => Inbox'[d] = Inbox[d]
    <3>1. ~Untold(c)'
      BY <2>2 DEF Untold
    <3>2. \A d \in Clients : d # c => Untold(d)' = Untold(d)
      BY <1>4, <2>2
    <3> HIDE DEF Untold
    <3> QED BY <1>1, <2>2, <3>1, <3>2 DEF Inbox
  <2>6. Inbox' = [Inbox EXCEPT ![c] = <<>>]
    <3>1. DOMAIN Inbox = Clients /\ Inbox = [d \in Clients |-> Inbox[d]]
          /\ Inbox' = [d \in Clients |-> Inbox'[d]]
      BY DEF Inbox
    <3> HIDE DEF Inbox
    <3> QED BY <2>5, <3>1
  <2> HIDE DEF Member, Unread, Inbox, Alive
  <2> QED BY <1>1, <1>3, <2>3, <2>4, <2>6 DEF Room!Vanish
<1>8. ASSUME Connect(c)
      PROVE  Room!Connect(c) \/ UNCHANGED Room!roomvars
  <2>1. UNCHANGED <<up, down>>
    BY <1>8 DEF Connect
  <2>2. Unread' = Unread
    BY <1>2, <2>1 DEF Unread
  <2>3. CASE ~listening
    <3>1. peer' = peer
      BY <1>8, <2>3 DEF Connect
    <3>2. Inbox' = Inbox /\ Alive' = Alive
      BY <1>1, <1>4, <2>1, <3>1 DEF Inbox, Alive
    <3> QED BY <1>1, <1>3, <2>2, <3>2 DEF Room!roomvars
  <2>4. CASE listening
    <3>1. peer' = [peer EXCEPT ![c] = "open"] /\ peer[c] = "idle"
      BY <1>1, <1>8, <2>4 DEF Connect, Establish, PhaseInv
    <3>2. Alive' = Alive \cup {c}
      BY <1>1, <3>1 DEF Alive
    <3>3. Untold(c) = FALSE /\ Untold(c)' = FALSE
      <4>1. held[c] # "open" /\ Exact
        BY <1>1, <2>4, <3>1 DEF PhaseInv
      <4>2. \A k \in 1..client_index : client_fd[k] # c
        BY <4>1 DEF Exact
      <4>3. ~Broadcasting \/ ~ \E k \in i..client_index : k # Subject /\ client_fd[k] = c
        <5>1. i \in Nat \ {0}
          BY DEF RoomInv, ChatInv, TypeOK
        <5>2. \A k \in i..client_index : k \in 1..client_index
          BY <5>1
        <5> QED BY <4>2, <5>2
      <4> QED BY <1>1, <1>2, <4>3 DEF Untold
    <3>4. \A d \in Clients : Untold(d)' = Untold(d)
      <4>1. \A d \in Clients : d # c => peer'[d] = peer[d]
        BY <1>1, <3>1
      <4> HIDE DEF Untold
      <4> QED BY <1>4, <3>3, <4>1
    <3>5. Inbox' = Inbox
      BY <1>1, <2>1, <3>4 DEF Inbox
    <3> HIDE DEF Member, Unread, Inbox, Alive
    <3> QED BY <1>1, <1>3, <2>2, <2>4, <3>2, <3>5 DEF Room!Connect
  <2> QED BY <2>3, <2>4
<1>9. ASSUME SendFails(c) \/ EndOfInput(c) \/ ServerClosed(c)
      PROVE  UNCHANGED Room!roomvars
  <2>1. UNCHANGED netvars
    BY <1>9 DEF SendFails, EndOfInput, ServerClosed
  <2>2. Unread' = Unread /\ Inbox' = Inbox /\ Alive' = Alive
    BY <1>1, <1>2, <1>4, <2>1 DEF netvars, Unread, Inbox, Alive
  <2> QED BY <1>1, <1>3, <2>2 DEF Room!roomvars
<1> QED BY <1>5, <1>6, <1>7, <1>8, <1>9 DEF ClientNext, ClientStep, Room!Next

\* nothing but the end of the server closes what has stopped (100-101, 181-189)
LEMMA Room_Stopped ==
  ASSUME RoomInv, [Next]_vars
  PROVE  StoppedInv'
<1>1. CASE ServerStep
  <2>1. ~Stopped
    BY <1>1 DEF ServerStep, Stopped, Select, Accept, Tell, EndOfJoined, Skip, Receive,
                ReceiveEnd, ReceiveError, EndOfRelay, EndOfLeft, EndOfScan, Scanning, Broadcasting
  <2>2. ~Stopped' \/ (ServerEnds /\ peer' = peer)
    BY <1>1, <2>1 DEF ServerStep, Stopped, Select, Accept, Tell, EndOfJoined, Skip, Receive,
                ReceiveEnd, ReceiveError, EndOfRelay, EndOfLeft, EndOfScan, Scanning,
                Say, Said, CloseAll
  <2> QED BY <2>2 DEF StoppedInv, ServerEnds
<1>2. CASE Outside
  <2>1. TableInv /\ pc' = pc
    BY <1>2 DEF RoomInv, ChatInv, Outside, tablevars
  <2>2. ASSUME Stopped PROVE held' = held /\ \A c \in Clients : peer[c] = "idle" => peer'[c] = "idle"
    <3>1. ~listening
      BY <2>1, <2>2 DEF TableInv, PcInv
    <3>2. PICK c \in Clients : ClientNext(c) \/ RstArrives(c)
      BY <1>2 DEF Outside
    <3>3. /\ held' = held
          /\ phase[c] \notin {"prompt", "reply", "closing"} \/ peer[c] # "idle"
          /\ peer \in [Clients -> PeerState]
      BY <2>1, <3>2 DEF TableInv, TableTypeOK, PhaseInv, ClientNext, ClientStep, Connect,
         SendLine, SendFails, SendQuit, EndOfInput, Response, ServerClosed, CloseSocket, Kill,
         RstArrives, netvars
    <3>4. CASE CloseSocket(c) \/ Kill(c)
      <4>1. CloseClientEnd(c) /\ peer[c] # "idle"
        BY <3>3, <3>4 DEF CloseSocket, Kill
      <4>2. \A d \in Clients : d # c => peer'[d] = peer[d]
        BY <3>3, <4>1, CloseClientEnd_Peer, <2>1
      <4> QED BY <3>3, <4>1, <4>2
    <3>5. CASE RstArrives(c)
      BY <3>3, <3>5 DEF RstArrives
    <3>6. CASE ~CloseSocket(c) /\ ~Kill(c) /\ ~RstArrives(c)
      <4>1. peer' = peer
        BY <3>1, <3>2, <3>6 DEF ClientNext, ClientStep, Connect, SendLine, SendFails, SendQuit,
                                EndOfInput, Response, ServerClosed, netvars
      <4> QED BY <3>3, <4>1
    <3> QED BY <3>4, <3>5, <3>6
  <2> QED BY <2>1, <2>2 DEF RoomInv, StoppedInv, Stopped
<1>3. CASE UNCHANGED vars
  BY <1>3 DEF vars, netvars, tablevars, RoomInv, StoppedInv, Stopped
<1> QED BY <1>1, <1>2, <1>3 DEF Next

\* every step of the programs is one of the room's, or one that it does not see
LEMMA Room_Next ==
  ASSUME RoomInv, [Next]_vars
  PROVE  [Room!Next]_(Room!roomvars)
<1>1. CASE Accept
  BY <1>1, Room_Accept DEF Room!Next
<1>2. CASE Tell
  BY <1>2, Room_Tell DEF Room!Next
<1>3. CASE EndOfJoined
  BY <1>3, Room_Loop, Room_Exit DEF Room!Next
<1>4. CASE Receive \/ ReceiveEnd
  BY <1>4, Room_Receive DEF Room!Next
<1>5. CASE Select \/ Skip \/ ReceiveError \/ EndOfScan \/ EndOfRelay \/ EndOfLeft
  BY <1>5, Room_Loop
<1>6. CASE Outside /\ UNCHANGED castvars
  <2>1. ASSUME NEW c \in Clients, RstArrives(c), UNCHANGED tablevars
        PROVE  UNCHANGED Room!roomvars
    <3>1. /\ UNCHANGED <<up, down, held, listening, pc, client_fd, start_index, i, mesg>>
          /\ \A d \in Clients : peer'[d] = "open" <=> peer[d] = "open"
      BY <1>6, <2>1 DEF RstArrives, tablevars, castvars, RoomInv, ChatInv, TableInv, TableTypeOK
    <3>2. \A d \in Clients : (Untold(d)' <=> Untold(d)) /\ (Leaving(d)' <=> Leaving(d))
      BY <3>1 DEF Untold, Leaving, Broadcasting, Subject, Current, client_index
    <3>3. \A d \in Clients : /\ Member'[d] = Member[d] /\ Unread'[d] = Unread[d]
                             /\ Inbox'[d] = Inbox[d]
      <4> HIDE DEF Untold, Leaving
      <4> QED BY <3>1, <3>2 DEF Member, Unread, Inbox
    <3>4. \A d \in Clients : d \in Alive' <=> d \in Alive
      BY <3>1 DEF Alive
    <3> HIDE DEF Member, Unread, Inbox, Alive
    <3> QED BY <3>1, <3>3, <3>4, Room_Stutter
  <2> QED BY <1>6, <2>1, Room_Client DEF Outside
<1>7. CASE UNCHANGED vars
  <2>1. /\ UNCHANGED <<up, down, peer, held, listening, pc, client_fd, start_index, i, mesg>>
    BY <1>7 DEF vars, netvars, tablevars, castvars
  <2>2. Member' = Member /\ Unread' = Unread
    BY <2>1 DEF Member, Unread, Leaving, Current
  <2>3. Inbox' = Inbox /\ Alive' = Alive
    BY <2>1 DEF Inbox, Alive, Untold, Broadcasting, Subject, client_index
  <2> QED BY <2>1, <2>2, <2>3 DEF Room!roomvars
<1> QED BY <1>1, <1>2, <1>3, <1>4, <1>5, <1>6, <1>7 DEF Next, ServerStep

-----------------------------------------------------------------------------
(* The theorems.                                                           *)

\* In every state the variables have their types: nothing but notices is ever
\* written to a client, and during a broadcast there is one to write (78-155).
THEOREM ChatTypeOK == Spec => []TypeOK
<1>1. ChatInv => TypeOK
  BY DEF ChatInv
<1> QED BY <1>1, Chat_Init, Chat_Next, PTL DEF Spec

\* The table is exact in every state, though clients come and go between the
\* write()s of a broadcast (91-100, 124-134, 157-165).
THEOREM ChatTableExact == Spec => []TableExact
<1>1. ChatInv => TableExact
  BY TableInv_Exact DEF ChatInv
<1> QED BY <1>1, Chat_Init, Chat_Next, PTL DEF Spec

\* The server never calls a read() that blocks (109): the broadcasts that come
\* between select() and the scan's later slots take no data from anybody.
THEOREM ChatReadNeverBlocks == Spec => []ReadNeverBlocks
<1>1. ChatInv => ReadNeverBlocks
  BY ServedInv_ReadNeverBlocks DEF ChatInv
<1> QED BY <1>1, Chat_Init, Chat_Next, PTL DEF Spec

\* The scan turns to each connection that select() saw, whoever leaves the table
\* during it and whatever is broadcast meanwhile (106-172).
THEOREM ChatNobodySkipped == Spec => NobodySkipped
<1>1. ChatInv /\ [Next]_vars => [NextInRest]_tablevars
  BY Chat_Rest
<1> QED BY <1>1, Chat_Init, Chat_Next, PTL DEF Spec, NobodySkipped

\* The chat server is a room: every text, arrival and departure reaches all other
\* members once and in one order, whatever the clients do between two writes of a
\* broadcast (95-98, 117-144, 149-155), until the process ends.
THEOREM ChatImplementsRoom == Spec => ImplementsRoom
<1>1. Init => Room!Init
  <2> SUFFICES ASSUME Init PROVE Room!Init
    OBVIOUS
  <2>1. ~Broadcasting /\ \A c \in Clients : ~Leaving(c) /\ ~Untold(c)
    BY DEF Init, TableInit, Broadcasting, Leaving, Untold
  <2>2. Member = [c \in Clients |-> "outside"] /\ Unread = [c \in Clients |-> <<>>]
    BY <2>1 DEF Init, NetInit, Member, Unread
  <2>3. Inbox = [c \in Clients |-> <<>>] /\ Alive = {} /\ listening = TRUE
    BY <2>1 DEF Init, NetInit, Inbox, Alive
  <2> QED BY <2>2, <2>3 DEF Room!Init
<1>2. Init => RoomInv
  <2>1. Init => StoppedInv
    BY DEF Init, TableInit, StoppedInv, Stopped
  <2> QED BY <2>1, Chat_Init DEF RoomInv
<1>3. RoomInv /\ [Next]_vars => RoomInv'
  BY Chat_Next, Room_Stopped DEF RoomInv
<1>4. RoomInv /\ [Next]_vars => [Room!Next]_(Room!roomvars)
  BY Room_Next
<1> QED BY <1>1, <1>2, <1>3, <1>4, PTL DEF Spec, ImplementsRoom, Room!Spec
=============================================================================
