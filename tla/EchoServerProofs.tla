-------------------------- MODULE EchoServerProofs --------------------------
(***************************************************************************)
(* What holds of src/0617/select_server.c for any number of clients, any   *)
(* length of the table and any number of lines.                            *)
(***************************************************************************)
EXTENDS EchoServer, SelectTableProofs

EchoInv == TableInv /\ TypeOK /\ ServedInv

(***************************************************************************)
(* Between a client and the server there is at most one line, wherever it  *)
(* is: on its way up, in the server's hands, on its way back.  That is why *)
(* a response matches, and why nothing is left to be written to a client   *)
(* whose end has been reset.                                               *)
(***************************************************************************)
OneLine(c) ==
  /\ Len(down[c]) <= 1 /\ Len(InHand(c)) <= 1 /\ Len(up[c]) <= 1
  /\ down[c] # <<>> => InHand(c) = <<>> /\ up[c] = <<>>
  /\ InHand(c) # <<>> => up[c] = <<>>
  /\ phase[c] \in {"start", "prompt"} =>
       down[c] = <<>> /\ InHand(c) = <<>> /\ up[c] = <<>>
  /\ phase[c] = "reply" =>
       \A s \in {down[c], InHand(c), up[c]} : s # <<>> => s = << <<c, sent[c]>> >>
  /\ peer[c] \in {"finrst", "reset", "dead"} => InHand(c) = <<>> /\ up[c] = <<>>
  /\ peer[c] \in {"fin", "finrst", "reset", "dead"} => phase[c] = "left"

LockStep == SurvivesItsClients /\ \A c \in Clients : OneLine(c)

-----------------------------------------------------------------------------
(* The loop.                                                               *)

\* write() leaves a connection connected or not as it was (select_server.c:103)
LEMMA WriteAll_Inv ==
  ASSUME TableInv, down \in [Clients -> Seq(Line)], NEW c \in Clients,
         NEW lines \in Seq(Line), WriteAll(c, lines)
  PROVE  /\ peer' \in [Clients -> PeerState] /\ down' \in [Clients -> Seq(Line)]
         /\ \A d \in Clients : peer'[d] = "idle" <=> peer[d] = "idle"
         /\ \A d \in Clients \ {c} : peer'[d] = peer[d] /\ down'[d] = down[d]
<1>1. peer' = [peer EXCEPT ![c] = CASE @ = "fin"   -> "finrst"
                                    [] @ = "reset" -> "dead"
                                    [] OTHER       -> @]
      /\ peer \in [Clients -> PeerState]
  BY DEF WriteAll, TableInv, TableTypeOK
<1>2. down[c] \o lines \in Seq(Line)
  BY ConcatProperties
<1>3. down' \in [Clients -> Seq(Line)]
  BY <1>2 DEF WriteAll
<1>4. peer' \in [Clients -> PeerState]
  BY <1>1 DEF PeerState
<1>5. \A d \in Clients : peer'[d] = "idle" <=> peer[d] = "idle"
  BY <1>1
<1> QED BY <1>1, <1>3, <1>4, <1>5 DEF WriteAll

\* the server's first step of all has the invariant to build on
LEMMA Echo_Init ==
  ASSUME Init
  PROVE  EchoInv
<1>1. TableInv
  BY TableInit_Inv DEF Init
<1>2. TypeOK
  BY <1>1, EmptySeq DEF Init, TypeOK, TableInv, NetInit, TableInit
<1>3. ServedInv
  BY DEF ServedInv, InScan, Init, TableInit
<1> QED BY <1>1, <1>2, <1>3 DEF EchoInv

\* accept(), and the exit at the limit of the table (select_server.c:76-94)
LEMMA Echo_Accept ==
  ASSUME EchoInv, Accept
  PROVE  EchoInv'
<1>1. /\ TableInv /\ TypeOK /\ pc = "accept" /\ ready' = {} /\ start_index' = 1
      /\ mesg' = mesg /\ TableTypeOK /\ Exact
  BY DEF Accept, NewPass, EchoInv, TableInv, Stopped
<1>2. CASE client_index + 1 = MaxClients
  <2>1. /\ pc' = "exit" /\ ServerEnds
        /\ UNCHANGED <<down, peer, clientvars, client_fd, fd, maxfd>>
    BY <1>2 DEF Accept
  <2>2. /\ held' \in [Clients -> HeldState] /\ up' \in [Clients -> Seq(Line)]
        /\ backlog' \in Seq(Clients) /\ listening' = FALSE /\ PhaseInv'
    BY <1>1, <2>1, ServerEnds_Inv
  <2>3. TableTypeOK'
    <3>1. listening' \in BOOLEAN /\ pc' \in Label
      BY <2>1, <2>2 DEF Label
    <3> QED BY <1>1, <2>1, <2>2, <3>1 DEF TableTypeOK, clientvars
  <2>4. TableInv'
    BY <2>1, <2>2, <2>3 DEF TableInv, PcInv, Stopped
  <2>5. TypeOK' /\ ServedInv'
    BY <1>1, <2>1, <2>3 DEF TypeOK, ServedInv, InScan
  <2> QED BY <2>4, <2>5 DEF EchoInv
<1>3. CASE client_index + 1 # MaxClients
  <2>1. pc' = "select" /\ AcceptNext
    BY <1>3 DEF Accept
  <2>2. /\ held' \in [Clients -> HeldState] /\ backlog' \in Seq(Clients)
        /\ client_fd' \in Seq(Clients) /\ fd' \in [Clients -> 0..(FdLimit - 1)]
        /\ UNCHANGED <<up, down, peer, listening, clientvars, maxfd>>
        /\ client_index' = client_index + 1 /\ client_index \in Nat
        /\ client_index < MaxClients
        /\ PhaseInv' /\ Exact'
    BY <1>1, <2>1, Accept_Inv
  <2>3. TableTypeOK'
    BY <1>1, <2>1, <2>2 DEF TableTypeOK, clientvars, Label
  <2>4. client_index' < MaxClients
    BY <1>3, <2>2, MaxClientsAssumption
  <2>5. PcInv'
    BY <1>1, <2>1, <2>2, <2>4 DEF TableInv, PcInv, Stopped
  <2>6. TypeOK' /\ ServedInv'
    BY <1>1, <2>1, <2>2, <2>3 DEF TypeOK, ServedInv, InScan
  <2> QED BY <2>2, <2>3, <2>5, <2>6 DEF EchoInv, TableInv
<1> QED BY <1>2, <1>3

\* n > 0 (select_server.c:100-102)
LEMMA Echo_Receive ==
  ASSUME EchoInv, Receive
  PROVE  EchoInv'
<1>1. /\ TableInv /\ TypeOK /\ TableTypeOK /\ pc = "scan" /\ pc' = "echo"
      /\ start_index <= client_index
      /\ UNCHANGED <<down, peer, held, backlog, listening, clientvars,
                     client_fd, fd, maxfd, ready, start_index>>
  BY DEF Receive, Scanning, EchoInv, TableInv
<1>2. PICK n \in 1..Len(up[Current]) :
        ReadData(Current, n) /\ mesg' = SubSeq(up[Current], 1, n)
  BY DEF Receive
<1>3. Current \in Clients
  BY <1>1, Current_Type
<1>4. up' \in [Clients -> Seq(Line)] /\ mesg' \in Seq(Line) /\ mesg' # <<>>
  BY <1>1, <1>2, <1>3, ReadData_Inv DEF TableTypeOK
<1>5. TableTypeOK'
  BY <1>1, <1>4 DEF TableTypeOK, clientvars, Label
<1>6. TypeOK'
  BY <1>1, <1>4, <1>5 DEF TypeOK
<1>7. PhaseInv' /\ ~Stopped /\ Exact'
  BY <1>1, PhaseInv_Stable, Exact_Stable DEF TableInv, Stopped, clientvars
<1>8. PcInv'
  BY <1>1 DEF TableInv, PcInv, Stopped, client_index
<1>9. \A c \in Clients \ {Current} : Readable(c) => Readable(c)'
  <2>1. \A c \in Clients \ {Current} : up'[c] = up[c] /\ peer'[c] = peer[c]
    BY <1>1, <1>2 DEF ReadData, TableTypeOK
  <2> QED BY <2>1 DEF Readable
<1>10. ServedInv'
  BY <1>1, <1>7, <1>9, Served_Step DEF EchoInv, InScan
<1> QED BY <1>5, <1>6, <1>7, <1>8, <1>10 DEF EchoInv, TableInv

\* the echo, and the end of the process if its write() raises SIGPIPE (103)
LEMMA Echo_Echo ==
  ASSUME EchoInv, Echo
  PROVE  EchoInv'
<1>1. /\ TableInv /\ TypeOK /\ TableTypeOK /\ pc = "echo" /\ mesg' = <<>>
      /\ UNCHANGED <<clientvars, client_fd, fd, maxfd, ready>>
      /\ down \in [Clients -> Seq(Line)] /\ mesg \in Seq(Line)
  BY DEF Echo, EchoInv, TableInv, TypeOK
<1>2. Current \in Clients /\ ~Stopped /\ start_index <= client_index
  BY <1>1, Current_Type DEF TableInv, PcInv, Stopped
<1>3. mesg' \in Seq(Line)
  BY <1>1, EmptySeq
<1>4. CASE Fatal(Current)
  <2>1. pc' = "killed" /\ ServerEnds /\ UNCHANGED <<down, peer, start_index>>
    BY <1>4 DEF Echo
  <2>2. /\ held' \in [Clients -> HeldState] /\ up' \in [Clients -> Seq(Line)]
        /\ backlog' \in Seq(Clients) /\ listening' = FALSE /\ PhaseInv'
    BY <1>1, <2>1, ServerEnds_Inv
  <2>3. TableTypeOK'
    BY <1>1, <2>1, <2>2 DEF TableTypeOK, clientvars, Label
  <2>4. TableInv'
    BY <2>1, <2>2, <2>3 DEF TableInv, PcInv, Stopped
  <2>5. TypeOK' /\ ServedInv'
    BY <1>1, <1>3, <2>1, <2>3 DEF TypeOK, ServedInv, InScan
  <2> QED BY <2>4, <2>5 DEF EchoInv
<1>5. CASE ~Fatal(Current)
  <2>1. /\ WriteAll(Current, mesg) /\ UNCHANGED <<up, held, backlog, listening>>
        /\ \/ pc' = "left" /\ start_index' = start_index
           \/ pc' = "scan" /\ start_index' = start_index + 1
    BY <1>5 DEF Echo, Answer
  <2>2. /\ peer' \in [Clients -> PeerState] /\ down' \in [Clients -> Seq(Line)]
        /\ \A d \in Clients : peer'[d] = "idle" <=> peer[d] = "idle"
        /\ \A d \in Clients \ {Current} : peer'[d] = peer[d] /\ down'[d] = down[d]
    BY <1>1, <1>2, <2>1, WriteAll_Inv
  <2>3. start_index' \in Nat \ {0}
    BY <1>1, <2>1 DEF TableTypeOK
  <2>4. TableTypeOK'
    BY <1>1, <2>1, <2>2, <2>3 DEF TableTypeOK, clientvars, Label
  <2>5. TypeOK'
    BY <1>1, <1>3, <2>1, <2>2, <2>4 DEF TypeOK
  <2>6. PhaseInv' /\ Exact'
    BY <1>1, <1>2, <2>1, <2>2, PhaseInv_Stable, Exact_Stable DEF TableInv, clientvars
  <2>7. PcInv'
    BY <1>1, <1>2, <2>1 DEF TableInv, PcInv, Stopped, client_index
  <2>8. \A c \in Clients \ {Current} : Readable(c) => Readable(c)'
    BY <2>1, <2>2 DEF Readable
  <2>9. ServedInv'
    BY <1>1, <1>2, <2>1, <2>8, Served_Step DEF EchoInv, InScan
  <2> QED BY <2>4, <2>5, <2>6, <2>7, <2>9 DEF EchoInv, TableInv
<1> QED BY <1>4, <1>5

\* a departure, announced by a q or by the end of the stream (106-130)
LEMMA Echo_Remove ==
  ASSUME EchoInv, Quit \/ ReceiveEnd
  PROVE  EchoInv'
<1>1. /\ TableInv /\ TypeOK /\ TableTypeOK /\ RemoveCurrent /\ mesg' = mesg
      /\ pc \in {"left", "scan"} /\ pc' = "scan"
      /\ ~Stopped /\ start_index <= client_index /\ PcInv
  BY DEF Quit, ReceiveEnd, Scanning, EchoInv, TableInv, PcInv, Stopped
<1>2. /\ held' \in [Clients -> HeldState] /\ up' \in [Clients -> Seq(Line)]
      /\ client_fd' \in Seq(Clients)
      /\ UNCHANGED <<down, peer, backlog, listening, clientvars, fd, maxfd, ready, start_index>>
      /\ client_index' = client_index - 1 /\ client_index \in Nat
      /\ PhaseInv' /\ Exact'
  BY <1>1, Remove_Inv
<1>3. TableTypeOK'
  BY <1>1, <1>2 DEF TableTypeOK, clientvars, Label
<1>4. PcInv'
  BY <1>1, <1>2, MaxClientsAssumption DEF PcInv, Stopped
<1>5. TypeOK'
  BY <1>1, <1>2, <1>3 DEF TypeOK
<1>6. ServedInv'
  BY <1>1, Served_Remove DEF EchoInv, InScan
<1> QED BY <1>2, <1>3, <1>4, <1>5, <1>6 DEF EchoInv, TableInv

\* the steps of the loop that serve nobody (57-75, 97-98)
LEMMA Echo_Loop ==
  ASSUME EchoInv, Select \/ Skip \/ ReceiveError \/ EndOfScan, UNCHANGED mesg
  PROVE  EchoInv'
<1>1. TableInv /\ TypeOK /\ ServedInv
  BY DEF EchoInv
<1>2. TableInv'
  BY <1>1, Select_Inv, Skip_Inv, ReceiveError_Inv
<1>3. /\ down' = down /\ pc' \in {pc, "accept", "scan", "select"} /\ pc' # "echo"
  BY DEF Select, Skip, ReceiveError, EndOfScan, Scanning, netvars
<1>4. TypeOK'
  BY <1>1, <1>2, <1>3 DEF TypeOK, TableInv
<1>5. ServedInv'
  <2>1. CASE Select
    BY <1>1, <2>1, Served_Select
  <2>2. CASE EndOfScan
    BY <2>2 DEF EndOfScan, ServedInv, InScan
  <2>3. CASE Skip \/ ReceiveError
    <3>1. /\ InScan /\ ~Stopped /\ start_index' = start_index + 1
          /\ UNCHANGED <<client_fd, ready>> /\ up' = up
      BY <2>3 DEF Skip, ReceiveError, Scanning, InScan, Stopped, netvars
    <3>2. \A c \in Clients \ {Current} : peer'[c] = peer[c]
      BY <1>1, <2>3 DEF Skip, ReceiveError, ReadError, netvars, TableInv, TableTypeOK
    <3>3. \A c \in Clients \ {Current} : Readable(c) => Readable(c)'
      BY <3>1, <3>2 DEF Readable
    <3> QED BY <1>1, <3>1, <3>3, Served_Step
  <2> QED BY <2>1, <2>2, <2>3
<1> QED BY <1>2, <1>4, <1>5 DEF EchoInv

\* what the clients do, selet_client.c, between two steps of the server
LEMMA Echo_Outside ==
  ASSUME EchoInv, Outside, UNCHANGED mesg
  PROVE  EchoInv'
<1>1. TableInv' /\ ServedInv'
  BY Outside_Inv, Served_Outside DEF EchoInv
<1>2. pc' = pc
  BY DEF Outside, tablevars
<1>3. down' \in [Clients -> Seq(Line)]
  <2> USE DEF EchoInv, TypeOK
  <2>1. ASSUME NEW c \in Clients, ClientNext(c)
        PROVE  down' \in [Clients -> Seq(Line)]
    <3>1. CASE Response(c)
      <4>1. PICK n \in 1..Len(down[c]) : TakeDown(c, n)
        BY <3>1 DEF Response
      <4>2. SubSeq(down[c], n + 1, Len(down[c])) \in Seq(Line)
        BY <4>1, DropProperties
      <4> QED BY <4>1, <4>2 DEF TakeDown
    <3>2. CASE CloseSocket(c) \/ Kill(c)
      BY <3>2, EmptySeq DEF CloseSocket, Kill, CloseClientEnd
    <3>3. CASE ~Response(c) /\ ~CloseSocket(c) /\ ~Kill(c)
      BY <2>1, <3>3 DEF ClientNext, ClientStep, Connect, SendLine, SendQuit, SendFails,
                        EndOfInput, ServerClosed, netvars
    <3> QED BY <3>1, <3>2, <3>3
  <2>2. ASSUME NEW c \in Clients, RstArrives(c)
        PROVE  down' \in [Clients -> Seq(Line)]
    BY <2>2 DEF RstArrives
  <2> QED BY <2>1, <2>2 DEF Outside
<1>4. TypeOK'
  BY <1>1, <1>2, <1>3 DEF EchoInv, TypeOK, TableInv
<1> QED BY <1>1, <1>4 DEF EchoInv

\* every step of the system preserves the invariant of select_server.c's loop
LEMMA Echo_Next ==
  ASSUME EchoInv, [Next]_vars
  PROVE  EchoInv'
<1>1. CASE Next
  BY <1>1, Echo_Accept, Echo_Receive, Echo_Echo, Echo_Remove, Echo_Loop, Echo_Outside
     DEF Next, ServerStep
<1>2. CASE UNCHANGED vars
  <2>1. TableInv'
    BY <1>2 DEF vars, netvars, clientvars, tablevars, EchoInv, TableInv, TableTypeOK,
                PhaseInv, PcInv, Exact, Stopped, client_index
  <2>2. TypeOK'
    BY <1>2, <2>1 DEF vars, netvars, tablevars, EchoInv, TypeOK, TableInv
  <2>3. ServedInv'
    BY <1>2 DEF vars, netvars, tablevars, EchoInv, ServedInv, InScan, client_index, Readable
  <2> QED BY <2>1, <2>2, <2>3 DEF EchoInv
<1> QED BY <1>1, <1>2
-----------------------------------------------------------------------------
(* The lock step.                                                          *)

\* nothing is on its way when the programs start (selet_client.c:15-33)
LEMMA LockStep_Init ==
  ASSUME Init
  PROVE  LockStep
BY EmptySeq DEF Init, NetInit, ClientInit, TableInit, LockStep, OneLine, InHand,
                SurvivesItsClients

(* A sequence of one line.                                                 *)
LEMMA OneOfSeq ==
  ASSUME NEW S, NEW s \in Seq(S), Len(s) <= 1, s # <<>>
  PROVE  /\ Len(s) = 1
         /\ SubSeq(s, 1, 1) = s /\ SubSeq(s, 1, 0) = <<>> /\ SubSeq(s, 2, 1) = <<>>
         /\ \A n \in 1..Len(s) : n = 1
<1>1. Len(s) = 1
  <2>1. Len(s) \in Nat
    BY LenProperties
  <2>2. Len(s) # 0
    BY EmptySeq
  <2>3. \A n \in Nat : n # 0 /\ n <= 1 => n = 1
    OBVIOUS
  <2> QED BY <2>1, <2>2, <2>3, Zenon
<1>2. s[1] \in S /\ s = << s[1] >>
  <2>1. s \in [1..1 -> S]
    <3>1. s \in [1..Len(s) -> S]
      BY LenProperties
    <3> QED BY <1>1, <3>1, Zenon
  <2>2. s[1] \in S /\ << s[1] >> \in [1..1 -> S]
    BY <2>1
  <2>3. \A k \in 1..1 : s[k] = << s[1] >>[k]
    OBVIOUS
  <2> QED BY <2>1, <2>2, <2>3
<1>3. SubSeq(s, 1, 1) = s
  BY <1>2
<1>4. SubSeq(s, 1, 0) = <<>> /\ SubSeq(s, 2, 1) = <<>>
  BY <1>2
<1> QED BY <1>1, <1>3, <1>4

\* steps of the server that move no line and change no client (57-98, 111-130)
LEMMA LockStep_Stable ==
  ASSUME EchoInv, LockStep, pc' \notin {"echo", "killed"}, pc # "echo",
         UNCHANGED <<down, clientvars>>,
         \A c \in Clients : up'[c] \in {up[c], <<>>},
         \A c \in Clients : peer'[c] = peer[c] \/ (peer[c] = "reset" /\ peer'[c] = "dead")
  PROVE  LockStep'
<1>1. \A c \in Clients : InHand(c) = <<>> /\ InHand(c)' = <<>>
  BY DEF InHand
<1>2. ASSUME NEW c \in Clients PROVE OneLine(c)'
  <2>1. OneLine(c)
    BY DEF LockStep
  <2>2. down'[c] = down[c] /\ phase'[c] = phase[c] /\ sent'[c] = sent[c]
    BY DEF clientvars
  <2>3. up'[c] = up[c] \/ (up'[c] = <<>> /\ Len(up'[c]) <= 1)
    BY EmptySeq
  <2>4. peer'[c] = peer[c] \/ (peer[c] = "reset" /\ peer'[c] = "dead")
    OBVIOUS
  <2> QED BY <1>1, <2>1, <2>2, <2>3, <2>4 DEF OneLine
<1> QED BY <1>2 DEF LockStep, SurvivesItsClients

\* the one line there may be passes from the connection to the server's hands
LEMMA LockStep_Receive ==
  ASSUME EchoInv, LockStep, Receive
  PROVE  LockStep'
<1>1. /\ TableInv /\ up \in [Clients -> Seq(Line)]
      /\ pc = "scan" /\ pc' = "echo" /\ start_index <= client_index
      /\ UNCHANGED <<down, peer, clientvars, client_fd, start_index>>
      /\ Current' = Current
  BY DEF Receive, Scanning, EchoInv, TableInv, TableTypeOK, Current
<1>2. PICK n \in 1..Len(up[Current]) :
        ReadData(Current, n) /\ mesg' = SubSeq(up[Current], 1, n)
  BY DEF Receive
<1>3. Current \in Clients
  BY <1>1, Current_Type
<1>4. up[Current] \in Seq(Line) /\ Len(up[Current]) <= 1 /\ up[Current] # <<>>
  <2>1. up[Current] \in Seq(Line) /\ Len(up[Current]) <= 1
    BY <1>1, <1>3 DEF LockStep, OneLine
  <2> QED BY <1>2, <2>1, EmptySeq
<1>5. Len(up[Current]) = 1 /\ n = 1 /\ mesg' = up[Current] /\ up'[Current] = <<>>
  BY <1>1, <1>2, <1>3, <1>4, OneOfSeq DEF ReadData
<1>6. \A c \in Clients \ {Current} : up'[c] = up[c]
  BY <1>1, <1>2 DEF ReadData
<1>7. \A c \in Clients : InHand(c) = <<>> /\ InHand(c)' = IF c = Current THEN mesg' ELSE <<>>
  BY <1>1 DEF InHand
<1>8. ASSUME NEW c \in Clients PROVE OneLine(c)'
  <2>1. /\ OneLine(c) /\ down'[c] = down[c] /\ phase'[c] = phase[c] /\ sent'[c] = sent[c]
        /\ peer'[c] = peer[c]
    BY <1>1 DEF LockStep, clientvars
  <2>2. CASE c = Current
    BY <1>4, <1>5, <1>7, <2>1, <2>2, EmptySeq DEF OneLine
  <2>3. CASE c # Current
    BY <1>6, <1>7, <2>1, <2>3, EmptySeq DEF OneLine
  <2> QED BY <2>2, <2>3
<1> QED BY <1>1, <1>8 DEF LockStep, SurvivesItsClients

\* and from there back to the client, if it is still there to get it (103)
LEMMA LockStep_Echo ==
  ASSUME EchoInv, LockStep, Echo
  PROVE  LockStep'
<1>1. /\ TableInv /\ down \in [Clients -> Seq(Line)] /\ mesg \in Seq(Line) /\ mesg # <<>>
      /\ peer \in [Clients -> PeerState]
      /\ pc = "echo" /\ start_index <= client_index
      /\ UNCHANGED <<clientvars, client_fd>>
  BY DEF Echo, EchoInv, TypeOK, TableInv, TableTypeOK, PcInv
<1>2. Current \in Clients
  BY <1>1, Current_Type
<1>3. /\ InHand(Current) = mesg
      /\ \A c \in Clients : c # Current => InHand(c) = <<>>
  BY <1>1 DEF InHand
<1>4. /\ OneLine(Current) /\ down[Current] = <<>> /\ up[Current] = <<>>
      /\ peer[Current] \in {"idle", "open", "fin"}
  BY <1>1, <1>2, <1>3 DEF LockStep, OneLine, PeerState
<1>5. /\ WriteAll(Current, mesg) /\ up' = up /\ pc' \in {"left", "scan"}
  BY <1>4 DEF Echo, Fatal, Answer
<1>6. /\ peer'[Current] \in {"idle", "open", "finrst"}
      /\ peer'[Current] = "finrst" => peer[Current] = "fin"
      /\ peer[Current] = "open" <=> peer'[Current] = "open"
      /\ \A c \in Clients : c # Current => peer'[c] = peer[c]
  BY <1>1, <1>2, <1>4, <1>5 DEF WriteAll
<1>7. <<>> \o mesg = mesg
  BY <1>1, ConcatEmptySeq
<1>8. /\ down'[Current] = mesg \/ down'[Current] = <<>>
      /\ \A c \in Clients : c # Current => down'[c] = down[c]
  BY <1>1, <1>2, <1>4, <1>5, <1>7 DEF WriteAll
<1>9. \A c \in Clients : InHand(c)' = <<>>
  BY <1>5 DEF InHand
<1>10. ASSUME NEW c \in Clients PROVE OneLine(c)'
  <2>1. OneLine(c) /\ up'[c] = up[c] /\ phase'[c] = phase[c] /\ sent'[c] = sent[c]
    BY <1>1, <1>5 DEF LockStep, clientvars
  <2>2. CASE c = Current
    <3>1. /\ Len(mesg) <= 1 /\ Len(<<>>) <= 1
          /\ phase[c] \notin {"start", "prompt"}
          /\ phase[c] = "reply" => mesg = << <<c, sent[c]>> >>
          /\ peer[c] = "fin" => phase[c] = "left"
      BY <1>1, <1>3, <2>1, <2>2, EmptySeq DEF OneLine
    <3>2. Len(down'[c]) <= 1 /\ Len(InHand(c)') <= 1 /\ Len(up'[c]) <= 1
      BY <1>4, <1>8, <1>9, <2>1, <2>2, <3>1
    <3> HIDE DEF InHand
    <3> QED BY <1>4, <1>6, <1>8, <1>9, <2>1, <2>2, <3>1, <3>2 DEF OneLine
  <2>3. CASE c # Current
    BY <1>3, <1>6, <1>8, <1>9, <2>1, <2>3 DEF OneLine
  <2> QED BY <2>2, <2>3
<1> QED BY <1>5, <1>10 DEF LockStep, SurvivesItsClients

\* a client sends only when nothing is on its way, and takes all there is
LEMMA LockStep_Client ==
  ASSUME EchoInv, LockStep, NEW c \in Clients, ClientNext(c), UNCHANGED <<tablevars, mesg>>
  PROVE  LockStep'
<1>1. /\ down \in [Clients -> Seq(Line)] /\ up \in [Clients -> Seq(Line)]
      /\ peer \in [Clients -> PeerState] /\ phase \in [Clients -> Phase]
      /\ sent \in [Clients -> 0..MaxLines] /\ TableInv
      /\ pc' = pc /\ mesg' = mesg
      /\ client_fd' = client_fd /\ start_index' = start_index
  BY DEF EchoInv, TypeOK, TableTypeOK, TableInv, tablevars
<1>2. \A d \in Clients : InHand(d)' = InHand(d)
  BY <1>1 DEF InHand, Current
<1> DEFINE Same(d) == /\ up'[d] = up[d] /\ down'[d] = down[d] /\ peer'[d] = peer[d]
                      /\ phase'[d] = phase[d] /\ sent'[d] = sent[d]
<1>3. \A d \in Clients : d # c => Same(d)
  <2>1. CASE CloseSocket(c) \/ Kill(c)
    <3>1. CloseClientEnd(c) /\ up' = up /\ sent' = sent /\ phase' = [phase EXCEPT ![c] = "left"]
      BY <2>1 DEF CloseSocket, Kill, Goto
    <3>2. \A d \in Clients : d # c => peer'[d] = peer[d] /\ down'[d] = down[d]
      BY <1>1, <3>1, CloseClientEnd_Peer DEF CloseClientEnd
    <3> QED BY <1>1, <3>1, <3>2
  <2>2. CASE ~(CloseSocket(c) \/ Kill(c))
    BY <1>1, <2>2 DEF ClientNext, ClientStep, Connect, Establish, SendLine, SendQuit, SendUp,
                      SendFails, EndOfInput, Response, TakeDown, ServerClosed, Goto, netvars
  <2> QED BY <2>1, <2>2
<1>4. \A d \in Clients : d # c => OneLine(d)'
  <2> SUFFICES ASSUME NEW d \in Clients, d # c PROVE OneLine(d)'
    OBVIOUS
  <2>1. OneLine(d) /\ Same(d) /\ InHand(d)' = InHand(d)
    BY <1>2, <1>3 DEF LockStep
  <2> HIDE DEF InHand
  <2> QED BY <2>1 DEF OneLine
<1>5. OneLine(c) /\ InHand(c)' = InHand(c)
  BY <1>2 DEF LockStep
<1> HIDE DEF InHand
<1>6. OneLine(c)'
  <2>1. CASE Connect(c)
    <3>1. /\ phase[c] = "start" /\ up' = up /\ down' = down /\ sent' = sent
          /\ phase'[c] \in {"prompt", "left"}
          /\ peer'[c] \in {"idle", "open"}
      BY <1>1, <2>1 DEF Connect, Establish, Goto, TableInv, PhaseInv
    <3> QED BY <1>5, <3>1 DEF OneLine
  <2>2. CASE SendLine(c)
    <3> DEFINE l == << <<c, sent[c] + 1>> >>
    <3>1. /\ phase[c] = "prompt" /\ up[c] = <<>> /\ down' = down /\ peer' = peer
          /\ phase'[c] = "reply" /\ sent'[c] = sent[c] + 1
          /\ up'[c] \in {<<>>, Append(<<>>, <<c, sent[c] + 1>>)}
      BY <1>1, <1>5, <2>2 DEF SendLine, SendUp, Goto, OneLine
    <3>2. up'[c] \in {<<>>, l} /\ Len(<<>>) <= 1 /\ Len(l) <= 1
      BY <3>1
    <3>3. down'[c] = <<>> /\ InHand(c)' = <<>> /\ peer[c] \notin {"fin", "finrst", "reset", "dead"}
      BY <1>5, <3>1 DEF OneLine
    <3>4. /\ Len(down'[c]) <= 1 /\ Len(InHand(c)') <= 1 /\ Len(up'[c]) <= 1
      BY <3>2, <3>3
    <3>5. l = << <<c, sent'[c]>> >>
      BY <3>1
    <3> HIDE DEF l
    <3> QED BY <3>1, <3>2, <3>3, <3>4, <3>5 DEF OneLine
  <2>3. CASE SendQuit(c)
    <3> DEFINE l == << <<c, 0>> >>
    <3>1. /\ phase[c] = "prompt" /\ up[c] = <<>> /\ down' = down /\ peer' = peer
          /\ phase'[c] = "closing"
          /\ up'[c] \in {<<>>, Append(<<>>, <<c, 0>>)}
      BY <1>1, <1>5, <2>3 DEF SendQuit, SendUp, Goto, OneLine
    <3>2. up'[c] \in {<<>>, l} /\ Len(<<>>) <= 1 /\ Len(l) <= 1
      BY <3>1
    <3>3. down'[c] = <<>> /\ InHand(c)' = <<>> /\ peer[c] \notin {"fin", "finrst", "reset", "dead"}
      BY <1>5, <3>1 DEF OneLine
    <3>4. /\ Len(down'[c]) <= 1 /\ Len(InHand(c)') <= 1 /\ Len(up'[c]) <= 1
      BY <3>2, <3>3
    <3> HIDE DEF l
    <3> QED BY <3>1, <3>2, <3>3, <3>4 DEF OneLine
  <2>4. CASE SendFails(c) \/ EndOfInput(c) \/ ServerClosed(c)
    <3>1. /\ up' = up /\ down' = down /\ peer' = peer /\ phase'[c] = "closing"
          /\ phase[c] \in {"prompt", "reply"}
      BY <1>1, <2>4 DEF SendFails, EndOfInput, ServerClosed, Goto, netvars
    <3> QED BY <1>5, <3>1 DEF OneLine
  <2>5. CASE Response(c)
    <3>1. PICK n \in 1..Len(down[c]) : down' = [down EXCEPT ![c] = SubSeq(@, n + 1, Len(@))]
      BY <2>5 DEF Response, TakeDown
    <3>2. down[c] \in Seq(Line) /\ Len(down[c]) <= 1 /\ down[c] # <<>>
      <4>1. down[c] \in Seq(Line) /\ Len(down[c]) <= 1
        BY <1>1, <1>5 DEF OneLine
      <4> QED BY <3>1, <4>1, EmptySeq
    <3>3. Len(down[c]) = 1 /\ n = 1 /\ down'[c] = <<>>
      BY <1>1, <3>1, <3>2, OneOfSeq
    <3>4. /\ up' = up /\ peer' = peer /\ phase'[c] = "prompt" /\ phase[c] = "reply"
      BY <1>1, <2>5 DEF Response, Goto
    <3>5. Len(down'[c]) <= 1
      BY <3>3
    <3> QED BY <1>5, <3>2, <3>3, <3>4, <3>5 DEF OneLine
  <2>6. CASE CloseSocket(c) \/ Kill(c)
    <3>1. /\ CloseClientEnd(c) /\ up' = up /\ phase'[c] = "left"
          /\ down'[c] = <<>> /\ Len(<<>>) <= 1
      BY <1>1, <2>6 DEF CloseSocket, Kill, Goto, CloseClientEnd
    <3>2. CASE down[c] = <<>>
      <4>1. peer'[c] = "fin"
        BY <1>1, <3>1, <3>2 DEF CloseClientEnd
      <4> QED BY <1>5, <3>1, <4>1 DEF OneLine
    <3>3. CASE down[c] # <<>>
      BY <1>5, <3>1, <3>3 DEF OneLine
    <3> QED BY <3>2, <3>3
  <2> QED BY <2>1, <2>2, <2>3, <2>4, <2>5, <2>6 DEF ClientNext, ClientStep
<1> QED BY <1>1, <1>4, <1>6 DEF LockStep, SurvivesItsClients

\* a RST comes only when nothing of the client's is left to be answered (103)
LEMMA LockStep_Rst ==
  ASSUME EchoInv, LockStep, NEW c \in Clients, RstArrives(c),
         UNCHANGED <<clientvars, tablevars, mesg>>
  PROVE  LockStep'
<1>1. /\ peer[c] = "finrst" /\ peer' = [peer EXCEPT ![c] = "dead"]
      /\ peer \in [Clients -> PeerState] /\ up' = up /\ down' = down
      /\ phase' = phase /\ sent' = sent /\ pc' = pc
  BY DEF RstArrives, EchoInv, TableInv, TableTypeOK, clientvars, tablevars
<1>2. \A d \in Clients : InHand(d)' = InHand(d)
  BY DEF InHand, Current, tablevars
<1>3. ASSUME NEW d \in Clients PROVE OneLine(d)'
  <2>1. OneLine(d) /\ InHand(d)' = InHand(d)
    BY <1>2 DEF LockStep
  <2>2. peer'[d] = peer[d] \/ (peer[d] = "finrst" /\ peer'[d] = "dead")
    BY <1>1
  <2> HIDE DEF InHand
  <2> QED BY <1>1, <2>1, <2>2 DEF OneLine
<1> QED BY <1>1, <1>3 DEF LockStep, SurvivesItsClients

\* every step keeps clients and server in lock step, whatever the interleaving
LEMMA LockStep_Next ==
  ASSUME EchoInv, LockStep, [Next]_vars
  PROVE  LockStep'
<1> USE DEF EchoInv, TableInv, TableTypeOK
<1>1. CASE Accept
  <2>1. /\ pc = "accept" /\ pc' \in {"select", "exit"} /\ UNCHANGED <<down, peer, clientvars>>
    BY <1>1 DEF Accept, AcceptNext
  <2>2. \A c \in Clients : up'[c] \in {up[c], <<>>}
    BY <1>1 DEF Accept, AcceptNext, ServerEnds
  <2> QED BY <2>1, <2>2, LockStep_Stable
<1>2. CASE Quit \/ ReceiveEnd
  <2>1. /\ pc \in {"left", "scan"} /\ pc' = "scan" /\ UNCHANGED <<down, peer, clientvars>>
        /\ up' = [up EXCEPT ![Current] = <<>>]
    BY <1>2 DEF Quit, ReceiveEnd, RemoveCurrent, CloseServerEnd, Scanning
  <2>2. \A c \in Clients : up'[c] \in {up[c], <<>>}
    BY <2>1
  <2> QED BY <2>1, <2>2, LockStep_Stable
<1>3. CASE Select \/ Skip \/ EndOfScan
  <2>1. /\ pc \in {"select", "scan"} /\ pc' \in {"accept", "select", "scan"}
        /\ UNCHANGED <<up, down, peer, clientvars>>
    BY <1>3 DEF Select, Skip, EndOfScan, Scanning, netvars
  <2> QED BY <2>1, LockStep_Stable
<1>4. CASE ReceiveError
  <2>1. /\ pc = "scan" /\ pc' = "scan" /\ UNCHANGED <<up, down, clientvars>>
        /\ peer[Current] = "reset" /\ peer' = [peer EXCEPT ![Current] = "dead"]
    BY <1>4 DEF ReceiveError, ReadError, Scanning
  <2> QED BY <2>1, LockStep_Stable
<1>5. CASE Outside /\ UNCHANGED mesg
  BY <1>5, LockStep_Client, LockStep_Rst DEF Outside, clientvars, tablevars
<1>6. CASE UNCHANGED vars
  BY <1>6 DEF vars, netvars, clientvars, tablevars, LockStep, OneLine, InHand, Current,
              SurvivesItsClients
<1> QED BY <1>1, <1>2, <1>3, <1>4, <1>5, <1>6, LockStep_Receive, LockStep_Echo
        DEF Next, ServerStep

-----------------------------------------------------------------------------
(* The scan's work list.                                                   *)

\* no step of the echo server takes anybody off it but the current connection (97-133)
LEMMA Echo_Rest ==
  ASSUME EchoInv, [Next]_vars
  PROVE  [NextInRest]_tablevars
<1>1. CASE Select \/ Accept \/ EndOfScan
  BY <1>1 DEF Select, Accept, EndOfScan, NextInRest, InScan
<1>2. CASE Skip \/ ReceiveError
  <2>1. /\ InScan /\ start_index <= client_index
        /\ client_fd' = client_fd /\ start_index' = start_index + 1
    BY <1>2 DEF Skip, ReceiveError, Scanning, InScan
  <2> QED BY <2>1, Rest_Next DEF EchoInv, NextInRest
<1>3. CASE Receive
  BY <1>3 DEF Receive, NextInRest, Rest, client_index
<1>4. CASE Echo
  <2>1. CASE pc' \in {"killed", "left"}
    <3>1. pc' = "killed" \/ (client_fd' = client_fd /\ start_index' = start_index)
      BY <1>4, <2>1 DEF Echo
    <3> QED BY <3>1 DEF NextInRest, InScan, Rest, client_index
  <2>2. CASE pc' = "scan"
    <3>1. /\ InScan /\ start_index <= client_index
          /\ client_fd' = client_fd /\ start_index' = start_index + 1
      BY <1>4, <2>2 DEF Echo, EchoInv, TableInv, PcInv, InScan
    <3> QED BY <3>1, Rest_Next DEF EchoInv, NextInRest
  <2> QED BY <1>4, <2>1, <2>2 DEF Echo
<1>5. CASE Quit \/ ReceiveEnd
  <2>1. /\ InScan /\ start_index <= client_index
        /\ client_fd' = RemoveAt(client_fd, start_index) /\ start_index' = start_index
    BY <1>5 DEF Quit, ReceiveEnd, RemoveCurrent, SameIndex, Scanning, InScan, EchoInv,
                TableInv, PcInv
  <2> QED BY <2>1, Rest_Next DEF EchoInv, NextInRest
<1>6. CASE Outside \/ UNCHANGED vars
  BY <1>6 DEF Outside, vars, tablevars
<1> QED BY <1>1, <1>2, <1>3, <1>4, <1>5, <1>6 DEF Next, ServerStep

-----------------------------------------------------------------------------
(* The pipe of Loopback.                                                   *)

\* x is what the pipe holds: the one line that is anywhere, while both ends are up
PipeIs(x, p, d, h, u) ==
  /\ p # "open" => x = <<>>
  /\ p = "open" =>
       /\ d # <<>> => x = d
       /\ h # <<>> => x = h
       /\ u # <<>> => x = u
       /\ d = <<>> /\ h = <<>> /\ u = <<>> => x = <<>>

LEMMA OneOfThree ==
  ASSUME NEW p, NEW d \in Seq(Line), NEW h \in Seq(Line), NEW u \in Seq(Line),
         d # <<>> => h = <<>> /\ u = <<>>, h # <<>> => u = <<>>
  PROVE  PipeIs(IF p = "open" THEN d \o h \o u ELSE <<>>, p, d, h, u)
<1>1. /\ d \o <<>> = d /\ <<>> \o h = h /\ h \o <<>> = h /\ <<>> \o u = u
      /\ <<>> \o <<>> = <<>>
  <2>1. \A s \in Seq(Line) : s \o <<>> = s /\ <<>> \o s = s
    BY ConcatEmptySeq
  <2>2. <<>> \in Seq(Line)
    BY EmptySeq
  <2> QED BY <2>1, <2>2
<1> QED BY <1>1 DEF PipeIs

LEMMA Pipe_Now ==
  ASSUME EchoInv, LockStep, NEW c \in Clients
  PROVE  PipeIs(Pipe[c], peer[c], down[c], InHand(c), up[c])
<1>1. /\ down[c] \in Seq(Line) /\ up[c] \in Seq(Line)
      /\ down[c] # <<>> => InHand(c) = <<>> /\ up[c] = <<>>
      /\ InHand(c) # <<>> => up[c] = <<>>
  BY DEF EchoInv, TypeOK, TableTypeOK, LockStep, OneLine
<1>2. InHand(c) \in Seq(Line)
  BY EmptySeq DEF EchoInv, TypeOK, InHand
<1>3. Pipe[c] = IF peer[c] = "open" THEN down[c] \o InHand(c) \o up[c] ELSE <<>>
  BY DEF Pipe
<1> HIDE DEF InHand, Pipe, PipeIs
<1> QED BY <1>1, <1>2, <1>3, OneOfThree

LEMMA Pipe_Next ==
  ASSUME EchoInv', LockStep', NEW c \in Clients
  PROVE  PipeIs(Pipe'[c], peer'[c], down'[c], InHand(c)', up'[c])
<1>1. /\ down'[c] \in Seq(Line) /\ up'[c] \in Seq(Line)
      /\ down'[c] # <<>> => InHand(c)' = <<>> /\ up'[c] = <<>>
      /\ InHand(c)' # <<>> => up'[c] = <<>>
  BY DEF EchoInv, TypeOK, TableTypeOK, LockStep, OneLine
<1>2. InHand(c)' \in Seq(Line)
  BY EmptySeq DEF EchoInv, TypeOK, InHand
<1>3. Pipe'[c] = IF peer'[c] = "open" THEN down'[c] \o InHand(c)' \o up'[c] ELSE <<>>
  BY DEF Pipe
<1> HIDE DEF InHand, Pipe, PipeIs
<1> QED BY <1>1, <1>2, <1>3, OneOfThree

\* Steps of the implementation that the pipes do not show
LEMMA Loops_Stutter ==
  ASSUME \A c \in Clients : Pipe'[c] = Pipe[c],
         \A c \in Clients : IsCut'[c] = IsCut[c]
  PROVE  UNCHANGED <<Pipe, IsCut>>
BY DEF Pipe, IsCut

\* Steps that cut connections, with the line that was on its way or without it
LEMMA Loops_Cut ==
  ASSUME EchoInv, LockStep, NEW S \in SUBSET Clients,
         \A c \in Clients : IsCut'[c] = (IsCut[c] \/ c \in S),
         \A c \in Clients \ S : Pipe'[c] = Pipe[c],
         \A c \in S : Pipe'[c] \in {Pipe[c], <<>>}
  PROVE  Loops!Cut
<1>1. IsCut' = [c \in Clients |-> IsCut[c] \/ c \in S]
  BY DEF IsCut
<1>2. DOMAIN Pipe' = Clients
  BY DEF Pipe
<1>3. ASSUME NEW c \in S
      PROVE  \E n \in 0..Len(Pipe[c]) : Pipe'[c] = SubSeq(Pipe[c], 1, n)
  <2>1. PipeIs(Pipe[c], peer[c], down[c], InHand(c), up[c])
    BY Pipe_Now
  <2>2. \A s \in {down[c], InHand(c), up[c]} : s \in Seq(Line) /\ Len(s) <= 1
    BY EmptySeq DEF EchoInv, TypeOK, TableTypeOK, LockStep, OneLine, InHand
  <2>3. Pipe[c] = <<>> \/ Pipe[c] \in {down[c], InHand(c), up[c]}
    BY <2>1 DEF PipeIs
  <2>4. CASE Pipe[c] = <<>>
    <3>1. Len(<<>>) = 0 /\ SubSeq(<<>>, 1, 0) = <<>> /\ 0 \in 0..0
      OBVIOUS
    <3> HIDE DEF Pipe
    <3> QED BY <2>4, <3>1
  <2>5. CASE Pipe[c] # <<>>
    <3> DEFINE s == Pipe[c]
    <3>1. s \in Seq(Line) /\ Len(s) <= 1 /\ s # <<>>
      BY <2>2, <2>3, <2>5
    <3> HIDE DEF s
    <3>2. Len(s) = 1 /\ SubSeq(s, 1, 1) = s /\ SubSeq(s, 1, 0) = <<>>
      BY <3>1, OneOfSeq
    <3>3. Pipe'[c] \in {s, <<>>}
      BY DEF s
    <3>4. 0 \in 0..Len(s) /\ 1 \in 0..Len(s)
      BY <3>2
    <3>5. \E n \in 0..Len(s) : Pipe'[c] = SubSeq(s, 1, n)
      BY <3>2, <3>3, <3>4, Zenon
    <3> QED BY <3>5 DEF s
  <2> QED BY <2>4, <2>5
<1> QED BY <1>1, <1>2, <1>3 DEF Loops!Cut

\* the steps of the server that move no line and cut nobody (57-94, 97-98)
LEMMA Loops_Loop ==
  ASSUME EchoInv, LockStep, EchoInv', LockStep',
         Select \/ Skip \/ EndOfScan \/ ReceiveError \/ (Accept /\ pc' = "select"),
         UNCHANGED mesg
  PROVE  UNCHANGED <<Pipe, IsCut>>
<1>1. /\ pc # "echo" /\ pc' # "echo" /\ UNCHANGED <<up, down>>
      /\ \A c \in Clients : peer'[c] = peer[c] \/ (peer[c] = "reset" /\ peer'[c] = "dead")
  <2>1. CASE Select \/ Skip \/ EndOfScan
    BY <2>1 DEF Select, Skip, EndOfScan, Scanning, netvars
  <2>2. CASE ReceiveError
    BY <2>2 DEF ReceiveError, ReadError, Scanning, EchoInv, TableInv, TableTypeOK
  <2>3. CASE Accept /\ pc' = "select"
    BY <2>3 DEF Accept, AcceptNext
  <2> QED BY <2>1, <2>2, <2>3
<1>2. \A c \in Clients : held'[c] = "closed" <=> held[c] = "closed"
  <2>1. CASE Select \/ Skip \/ EndOfScan \/ ReceiveError
    BY <2>1 DEF Select, Skip, EndOfScan, ReceiveError, netvars
  <2>2. CASE Accept /\ pc' = "select"
    <3> DEFINE h == Head(backlog)
    <3>1. /\ held' = [held EXCEPT ![h] = "open"] /\ held \in [Clients -> HeldState]
      BY <2>2 DEF Accept, AcceptNext, EchoInv, TableInv, TableTypeOK
    <3>2. h \in Clients /\ held[h] = "none"
      BY <2>2, Backlog_Head DEF Accept, EchoInv
    <3> HIDE DEF h
    <3> QED BY <3>1, <3>2
  <2> QED BY <2>1, <2>2
<1>3. \A c \in Clients : InHand(c) = <<>> /\ InHand(c)' = <<>>
  BY <1>1 DEF InHand
<1>4. \A c \in Clients : Pipe'[c] = Pipe[c]
  BY <1>1, <1>3 DEF Pipe
<1>5. \A c \in Clients : IsCut'[c] = IsCut[c]
  BY <1>1, <1>2 DEF IsCut
<1> QED BY <1>4, <1>5, Loops_Stutter

\* The server ends at the limit of its table (91), and everybody is cut
LEMMA Loops_Exit ==
  ASSUME EchoInv, LockStep, EchoInv', LockStep', Accept, pc' # "select"
  PROVE  Loops!Cut
<1> DEFINE S == {c \in Clients : peer[c] # "idle"}
<1>1. /\ pc = "accept" /\ pc' = "exit" /\ ServerEnds /\ UNCHANGED <<down, peer>>
      /\ PhaseInv /\ up' = [c \in Clients |-> <<>>]
  BY DEF Accept, EchoInv, TableInv, ServerEnds
<1>2. \A c \in Clients : InHand(c) = <<>> /\ InHand(c)' = <<>>
  BY <1>1 DEF InHand
<1>3. \A c \in Clients : IsCut'[c] = (IsCut[c] \/ c \in S)
  <2>1. \A c \in Clients : held'[c] = "closed" <=> peer[c] # "idle"
    BY <1>1 DEF ServerEnds
  <2> QED BY <1>1, <2>1 DEF IsCut, PhaseInv
<1>4. ASSUME NEW c \in Clients PROVE Pipe'[c] \in {Pipe[c], <<>>}
  <2>1. /\ PipeIs(Pipe[c], peer[c], down[c], InHand(c), up[c])
        /\ PipeIs(Pipe'[c], peer'[c], down'[c], InHand(c)', up'[c])
    BY Pipe_Now, Pipe_Next
  <2> QED BY <1>1, <1>2, <2>1 DEF PipeIs
<1>5. ASSUME NEW c \in Clients \ S PROVE Pipe'[c] = Pipe[c]
  BY <1>1 DEF Pipe
<1> HIDE DEF S, Pipe, IsCut
<1>6. S \in SUBSET Clients
  BY DEF S
<1> QED BY <1>3, <1>4, <1>5, <1>6, Loops_Cut

\* a departure cuts the one connection (106-130)
LEMMA Loops_Remove ==
  ASSUME EchoInv, LockStep, EchoInv', LockStep', Quit \/ ReceiveEnd
  PROVE  Loops!Cut
<1>1. /\ pc \in {"left", "scan"} /\ pc' = "scan" /\ UNCHANGED <<down, peer>>
      /\ CloseServerEnd(Current) /\ Current \in Clients
      /\ up \in [Clients -> Seq(Line)] /\ held \in [Clients -> HeldState]
  <2>1. pc \in {"left", "scan"} /\ start_index <= client_index
    BY DEF Quit, ReceiveEnd, Scanning, EchoInv, TableInv, PcInv
  <2> QED BY <2>1, Current_Type DEF Quit, ReceiveEnd, RemoveCurrent, Scanning, EchoInv,
                                    TableInv, TableTypeOK
<1>2. \A c \in Clients : InHand(c) = <<>> /\ InHand(c)' = <<>>
  BY <1>1 DEF InHand
<1>3. \A c \in Clients : IsCut'[c] = (IsCut[c] \/ c \in {Current})
  BY <1>1 DEF IsCut, CloseServerEnd
<1>4. /\ \A c \in Clients : c # Current => up'[c] = up[c]
      /\ up'[Current] = <<>>
  BY <1>1 DEF CloseServerEnd
<1>5. \A c \in Clients \ {Current} : Pipe'[c] = Pipe[c]
  BY <1>1, <1>2, <1>4 DEF Pipe
<1>6. Pipe'[Current] \in {Pipe[Current], <<>>}
  <2>1. /\ PipeIs(Pipe[Current], peer[Current], down[Current], InHand(Current), up[Current])
        /\ \A c \in Clients : PipeIs(Pipe'[c], peer'[c], down'[c], InHand(c)', up'[c])
    BY <1>1, Pipe_Now, Pipe_Next
  <2> HIDE DEF Pipe, InHand, Current
  <2> QED BY <1>1, <1>2, <1>4, <2>1 DEF PipeIs
<1>7. {Current} \in SUBSET Clients
  BY <1>1
<1> HIDE DEF Pipe, IsCut
<1> QED BY <1>3, <1>5, <1>6, <1>7, Loops_Cut

\* what is read and written back stays in its pipe (100-103)
LEMMA Loops_Serve ==
  ASSUME EchoInv, LockStep, EchoInv', LockStep', Receive \/ Echo
  PROVE  UNCHANGED <<Pipe, IsCut>>
<1>1. Current \in Clients
  BY Current_Type DEF Receive, Echo, Scanning, EchoInv, TableInv, PcInv
<1>2. ASSUME NEW c \in Clients
      PROVE  /\ PipeIs(Pipe[c], peer[c], down[c], InHand(c), up[c])
             /\ PipeIs(Pipe'[c], peer'[c], down'[c], InHand(c)', up'[c])
  BY Pipe_Now, Pipe_Next
<1>3. CASE Receive
  <2>1. /\ UNCHANGED <<down, peer, held, client_fd, start_index>>
        /\ pc = "scan" /\ pc' = "echo" /\ Current' = Current
        /\ up \in [Clients -> Seq(Line)]
    BY <1>3 DEF Receive, Scanning, Current, EchoInv, TableInv, TableTypeOK
  <2>2. PICK n \in 1..Len(up[Current]) :
          ReadData(Current, n) /\ mesg' = SubSeq(up[Current], 1, n)
    BY <1>3 DEF Receive
  <2>3. up[Current] \in Seq(Line) /\ Len(up[Current]) <= 1 /\ up[Current] # <<>>
    <3>1. up[Current] \in Seq(Line) /\ Len(up[Current]) <= 1
      BY <1>1, <2>1 DEF LockStep, OneLine
    <3> QED BY <2>2, <3>1, EmptySeq
  <2>4. mesg' = up[Current]
    BY <2>2, <2>3, OneOfSeq
  <2>5. \A c \in Clients : c # Current => up'[c] = up[c]
    BY <2>1, <2>2 DEF ReadData
  <2>6. \A c \in Clients : InHand(c) = <<>> /\ InHand(c)' = IF c = Current THEN mesg' ELSE <<>>
    BY <2>1 DEF InHand
  <2>7. ASSUME NEW c \in Clients PROVE Pipe'[c] = Pipe[c]
    <3>1. CASE c = Current
      <4> HIDE DEF Pipe, InHand
      <4> QED BY <1>2, <2>1, <2>3, <2>4, <2>6, <3>1 DEF PipeIs
    <3>2. CASE c # Current
      BY <2>1, <2>5, <2>6, <3>2 DEF Pipe
    <3> QED BY <3>1, <3>2
  <2>8. \A c \in Clients : IsCut'[c] = IsCut[c]
    BY <2>1 DEF IsCut
  <2> HIDE DEF Pipe, IsCut
  <2> QED BY <2>7, <2>8, Loops_Stutter
<1>4. CASE Echo
  <2>1. /\ TypeOK /\ peer \in [Clients -> PeerState] /\ pc = "echo"
        /\ down \in [Clients -> Seq(Line)] /\ mesg # <<>> /\ mesg \in Seq(Line)
    BY <1>4 DEF Echo, EchoInv, TypeOK, TableTypeOK
  <2>2. /\ InHand(Current) = mesg
        /\ \A c \in Clients : c # Current => InHand(c) = <<>>
    BY <2>1 DEF InHand
  <2>3. peer[Current] \in {"idle", "open", "fin"} /\ down[Current] = <<>>
    BY <1>1, <2>1, <2>2 DEF LockStep, OneLine, PeerState
  <2>4. WriteAll(Current, mesg) /\ UNCHANGED <<up, held>> /\ pc' # "echo"
    BY <1>4, <2>3 DEF Echo, Fatal, Answer
  <2>5. /\ \A c \in Clients : c # Current => peer'[c] = peer[c] /\ down'[c] = down[c]
        /\ peer'[Current] = IF peer[Current] = "fin" THEN "finrst" ELSE peer[Current]
        /\ peer[Current] = "open" => down'[Current] = mesg
    <3>1. <<>> \o mesg = mesg
      BY <2>1, ConcatEmptySeq
    <3> QED BY <1>1, <2>1, <2>3, <2>4, <3>1 DEF WriteAll
  <2>6. \A c \in Clients : InHand(c)' = <<>>
    BY <2>4 DEF InHand
  <2>7. ASSUME NEW c \in Clients PROVE Pipe'[c] = Pipe[c]
    <3>1. CASE c = Current
      <4> HIDE DEF Pipe, InHand
      <4> QED BY <1>2, <2>1, <2>2, <2>3, <2>5, <2>6, <3>1 DEF PipeIs
    <3>2. CASE c # Current
      BY <2>2, <2>4, <2>5, <2>6, <3>2 DEF Pipe
    <3> QED BY <3>1, <3>2
  <2>8. \A c \in Clients : IsCut'[c] = IsCut[c]
    BY <2>4, <2>5 DEF IsCut
  <2> HIDE DEF Pipe, IsCut
  <2> QED BY <2>7, <2>8, Loops_Stutter
<1> QED BY <1>3, <1>4

\* A line goes into its pipe, if that is not cut
LEMMA Loops_Put ==
  ASSUME EchoInv, LockStep, EchoInv', LockStep', NEW c \in Clients,
         SendLine(c) \/ SendQuit(c), UNCHANGED <<tablevars, mesg>>
  PROVE  Loops!Put(c) \/ UNCHANGED <<Pipe, IsCut>>
<1>1. PICK line \in Line :
        /\ up' = [up EXCEPT ![c] = IF held[c] = "closed" THEN @ ELSE Append(@, line)]
        /\ phase[c] = "prompt" /\ UNCHANGED <<down, peer, held>>
  <2>1. CASE SendLine(c)
    <3>1. <<c, sent[c] + 1>> \in Line
      BY <2>1, MaxLinesAssumption DEF SendLine, MayType, Line, EchoInv, TypeOK, TableTypeOK
    <3> QED BY <2>1, <3>1 DEF SendLine, SendUp
  <2>2. CASE SendQuit(c)
    <3>1. <<c, 0>> \in Line
      BY MaxLinesAssumption DEF Line
    <3> QED BY <2>2, <3>1 DEF SendQuit, SendUp
  <2> QED BY <2>1, <2>2
<1>2. \A d \in Clients : InHand(d)' = InHand(d)
  BY DEF InHand, Current, tablevars
<1>3. \A d \in Clients : IsCut'[d] = IsCut[d]
  BY <1>1 DEF IsCut
<1>4. /\ up \in [Clients -> Seq(Line)]
      /\ down[c] = <<>> /\ InHand(c) = <<>> /\ up[c] = <<>>
      /\ peer[c] = "open"
  <2>1. OneLine(c) /\ peer[c] \in PeerState /\ up \in [Clients -> Seq(Line)] /\ peer[c] # "idle"
    BY <1>1 DEF LockStep, EchoInv, TableInv, TableTypeOK, PhaseInv
  <2> HIDE DEF InHand
  <2> QED BY <1>1, <2>1 DEF OneLine, PeerState
<1>5. CASE held[c] = "closed"
  <2>1. \A d \in Clients : up'[d] = up[d]
    BY <1>1, <1>4, <1>5
  <2>2. \A d \in Clients : Pipe'[d] = Pipe[d]
    BY <1>1, <1>2, <2>1 DEF Pipe
  <2> QED BY <1>3, <2>2, Loops_Stutter
<1>6. CASE held[c] # "closed"
  <2>1. up'[c] = << line >> /\ \A d \in Clients : d # c => up'[d] = up[d]
    BY <1>1, <1>4, <1>6
  <2>2. ~IsCut[c]
    BY <1>4, <1>6 DEF IsCut
  <2>3. Pipe[c] = <<>> /\ Pipe'[c] = << line >>
    <3>1. /\ PipeIs(Pipe[c], peer[c], down[c], InHand(c), up[c])
          /\ PipeIs(Pipe'[c], peer'[c], down'[c], InHand(c)', up'[c])
      BY Pipe_Now, Pipe_Next
    <3>2. << line >> # <<>>
      OBVIOUS
    <3> HIDE DEF Pipe, InHand
    <3> QED BY <1>1, <1>4, <2>1, <3>1, <3>2 DEF PipeIs
  <2>4. \A d \in Clients : d # c => Pipe'[d] = Pipe[d]
    BY <1>1, <1>2, <2>1 DEF Pipe
  <2>5. Pipe' = [Pipe EXCEPT ![c] = Append(@, line)]
    <3>1. DOMAIN Pipe = Clients /\ Pipe = [d \in Clients |-> Pipe[d]]
          /\ Pipe' = [d \in Clients |-> Pipe'[d]]
      BY DEF Pipe
    <3>2. Append(<<>>, line) = << line >>
      OBVIOUS
    <3> HIDE DEF Pipe
    <3> QED BY <2>3, <2>4, <3>1, <3>2
  <2>6. IsCut' = IsCut
    BY <1>3 DEF IsCut
  <2> HIDE DEF Pipe, IsCut
  <2> QED BY <2>2, <2>5, <2>6 DEF Loops!Put
<1> QED BY <1>5, <1>6

\* the response is the pipe's line, and the pipe is empty then
LEMMA Loops_Get ==
  ASSUME EchoInv, LockStep, EchoInv', LockStep', NEW c \in Clients,
         Response(c), UNCHANGED <<tablevars, mesg>>
  PROVE  Loops!Get(c)
<1>1. PICK n \in 1..Len(down[c]) : down' = [down EXCEPT ![c] = SubSeq(@, n + 1, Len(@))]
  BY DEF Response, TakeDown
<1>2. /\ UNCHANGED <<up, peer, held>> /\ phase[c] = "reply"
      /\ down \in [Clients -> Seq(Line)]
  BY DEF Response, EchoInv, TypeOK
<1>3. down[c] \in Seq(Line) /\ Len(down[c]) <= 1 /\ down[c] # <<>>
  <2>1. down[c] \in Seq(Line) /\ Len(down[c]) <= 1
    BY <1>2 DEF LockStep, OneLine
  <2> QED BY <1>1, <2>1, EmptySeq
<1>4. /\ Len(down[c]) = 1 /\ SubSeq(down[c], 2, 1) = <<>> /\ down'[c] = <<>>
      /\ \A d \in Clients : d # c => down'[d] = down[d]
  BY <1>1, <1>2, <1>3, OneOfSeq
<1>5. \A d \in Clients : InHand(d)' = InHand(d)
  BY DEF InHand, Current, tablevars
<1>6. InHand(c) = <<>> /\ up[c] = <<>> /\ peer[c] = "open"
  <2>1. OneLine(c) /\ peer[c] \in PeerState /\ peer[c] # "idle"
    BY <1>2 DEF LockStep, EchoInv, TableInv, TableTypeOK, PhaseInv
  <2> HIDE DEF InHand
  <2> QED BY <1>2, <1>3, <2>1 DEF OneLine, PeerState
<1>7. Pipe[c] = down[c] /\ Pipe'[c] = <<>>
  <2>1. /\ PipeIs(Pipe[c], peer[c], down[c], InHand(c), up[c])
        /\ PipeIs(Pipe'[c], peer'[c], down'[c], InHand(c)', up'[c])
    BY Pipe_Now, Pipe_Next
  <2> HIDE DEF Pipe, InHand
  <2> QED BY <1>2, <1>3, <1>4, <1>5, <1>6, <2>1 DEF PipeIs
<1>8. \A d \in Clients : d # c => Pipe'[d] = Pipe[d]
  BY <1>2, <1>4, <1>5 DEF Pipe
<1>9. Pipe' = [Pipe EXCEPT ![c] = SubSeq(@, 1 + 1, Len(@))]
  <2>1. DOMAIN Pipe = Clients /\ Pipe = [d \in Clients |-> Pipe[d]]
        /\ Pipe' = [d \in Clients |-> Pipe'[d]]
    BY DEF Pipe
  <2> HIDE DEF Pipe
  <2>2. SubSeq(Pipe[c], 1 + 1, Len(Pipe[c])) = <<>>
    <3>1. 1 + 1 = 2
      OBVIOUS
    <3> QED BY <1>4, <1>7, <3>1, Zenon
  <2> QED BY <1>7, <1>8, <2>1, <2>2
<1>10. IsCut' = IsCut
  BY <1>2 DEF IsCut
<1>11. 1 \in 1..Len(Pipe[c])
  BY <1>4, <1>7
<1> HIDE DEF Pipe, IsCut
<1> QED BY <1>9, <1>10, <1>11 DEF Loops!Get

\* what else the clients and the network do: whoever closes its end is cut
LEMMA Loops_Outside ==
  ASSUME EchoInv, LockStep, EchoInv', LockStep', Outside, UNCHANGED mesg
  PROVE  Loops!Next \/ UNCHANGED <<Pipe, IsCut>>
<1>1. /\ up \in [Clients -> Seq(Line)] /\ down \in [Clients -> Seq(Line)]
      /\ peer \in [Clients -> PeerState] /\ UNCHANGED tablevars /\ PhaseInv
  BY DEF Outside, EchoInv, TypeOK, TableInv, TableTypeOK
<1>2. \A d \in Clients : InHand(d)' = InHand(d)
  BY <1>1 DEF InHand, Current, tablevars
<1>3. ASSUME NEW c \in Clients, CloseSocket(c) \/ Kill(c)
      PROVE  Loops!Cut
  <2>1. CloseClientEnd(c) /\ up' = up /\ held' = held
    BY <1>3 DEF CloseSocket, Kill
  <2>2. /\ peer'[c] \in {"fin", "finrst", "reset"}
        /\ \A d \in Clients : d # c => peer'[d] = peer[d] /\ down'[d] = down[d]
    <3>1. PICK s \in {"fin", "finrst", "reset"} : peer' = [peer EXCEPT ![c] = s]
      <4>1. CASE down[c] = <<>>
        BY <2>1, <4>1 DEF CloseClientEnd
      <4>2. CASE down[c] # <<>>
        BY <2>1, <4>2 DEF CloseClientEnd
      <4> QED BY <4>1, <4>2
    <3>2. down' = [down EXCEPT ![c] = <<>>]
      BY <2>1 DEF CloseClientEnd
    <3> QED BY <1>1, <3>1, <3>2
  <2>3. \A d \in Clients : IsCut'[d] = (IsCut[d] \/ d \in {c})
    BY <2>1, <2>2 DEF IsCut
  <2>4. \A d \in Clients \ {c} : Pipe'[d] = Pipe[d]
    BY <1>2, <2>1, <2>2 DEF Pipe
  <2>5. Pipe'[c] = <<>>
    BY <2>2 DEF Pipe
  <2> HIDE DEF Pipe, IsCut
  <2>6. {c} \in SUBSET Clients
    OBVIOUS
  <2> QED BY <2>3, <2>4, <2>5, <2>6, Loops_Cut
<1>4. ASSUME NEW c \in Clients,
             Connect(c) \/ SendFails(c) \/ EndOfInput(c) \/ ServerClosed(c) \/ RstArrives(c)
      PROVE  UNCHANGED <<Pipe, IsCut>>
  <2>1. UNCHANGED <<up, down, held>>
    BY <1>4 DEF Connect, SendFails, EndOfInput, ServerClosed, RstArrives, netvars
  <2>2. \A d \in Clients :
          peer'[d] = peer[d] \/ (peer[d] = "finrst" /\ peer'[d] = "dead")
                             \/ (peer[d] = "idle" /\ peer'[d] = "open" /\ phase[d] = "start")
    BY <1>1, <1>4 DEF Connect, Establish, SendFails, EndOfInput, ServerClosed, RstArrives,
                      netvars, PhaseInv
  <2>3. ASSUME NEW d \in Clients PROVE Pipe'[d] = Pipe[d]
    <3>1. /\ PipeIs(Pipe[d], peer[d], down[d], InHand(d), up[d])
          /\ PipeIs(Pipe'[d], peer'[d], down'[d], InHand(d)', up'[d])
          /\ OneLine(d)
      BY Pipe_Now, Pipe_Next DEF LockStep
    <3>2. CASE peer'[d] = peer[d]
      BY <1>2, <2>1, <3>2 DEF Pipe
    <3>3. CASE peer'[d] # peer[d]
      <4> HIDE DEF Pipe, InHand
      <4> QED BY <1>2, <2>1, <2>2, <3>1, <3>3 DEF PipeIs, OneLine
    <3> QED BY <3>2, <3>3
  <2>4. \A d \in Clients : IsCut'[d] = IsCut[d]
    BY <2>1, <2>2 DEF IsCut
  <2> HIDE DEF Pipe, IsCut
  <2> QED BY <2>3, <2>4, Loops_Stutter
<1>5. PICK c \in Clients : ClientNext(c) \/ RstArrives(c)
  BY DEF Outside
<1>6. CASE SendLine(c) \/ SendQuit(c)
  BY <1>1, <1>6, Loops_Put DEF Loops!Next
<1>7. CASE Response(c)
  BY <1>1, <1>7, Loops_Get DEF Loops!Next
<1> QED BY <1>3, <1>4, <1>5, <1>6, <1>7 DEF ClientNext, ClientStep, Loops!Next

\* every step of the programs is one of Loopback's, or one that it does not see
LEMMA Loops_Next ==
  ASSUME EchoInv, LockStep, EchoInv', LockStep', [Next]_vars
  PROVE  [Loops!Next]_<<Pipe, IsCut>>
<1>1. CASE UNCHANGED vars
  <2>1. Pipe' = Pipe
    BY <1>1 DEF vars, netvars, tablevars, Pipe, InHand, Current
  <2>2. IsCut' = IsCut
    BY <1>1 DEF vars, netvars, IsCut
  <2> QED BY <2>1, <2>2
<1>2. CASE Accept
  <2>1. CASE pc' = "select"
    BY <1>2, <2>1, Loops_Loop DEF Accept
  <2>2. CASE pc' # "select"
    BY <1>2, <2>2, Loops_Exit DEF Loops!Next
  <2> QED BY <2>1, <2>2
<1>3. CASE Quit \/ ReceiveEnd
  BY <1>3, Loops_Remove DEF Loops!Next
<1>4. CASE Receive \/ Echo
  BY <1>4, Loops_Serve
<1>5. CASE (Select \/ Skip \/ EndOfScan \/ ReceiveError) /\ UNCHANGED mesg
  BY <1>5, Loops_Loop
<1>6. CASE Outside /\ UNCHANGED mesg
  BY <1>6, Loops_Outside
<1> QED BY <1>1, <1>2, <1>3, <1>4, <1>5, <1>6 DEF Next, ServerStep

-----------------------------------------------------------------------------
(* The theorems.                                                           *)

\* In every state the variables have their types, among them the table's
\* client_fd, the number of a descriptor and the loop's index (11-133).
THEOREM EchoTypeOK == Spec => []TypeOK
<1>1. EchoInv => TypeOK
  BY DEF EchoInv
<1> QED BY <1>1, Echo_Init, Echo_Next, PTL DEF Spec

\* The table is exact in every state: the server neither leaks a descriptor nor
\* closes one twice, nor does accept() find the table full (88-92, 112-129).
THEOREM EchoTableExact == Spec => []TableExact
<1>1. EchoInv => TableExact
  BY TableInv_Exact DEF EchoInv
<1> QED BY <1>1, Echo_Init, Echo_Next, PTL DEF Spec

\* The server never calls a read() that blocks (100), whatever the clients do
\* between select() and the scan and whoever leaves the table during it.
THEOREM EchoReadNeverBlocks == Spec => []ReadNeverBlocks
<1>1. EchoInv => ReadNeverBlocks
  BY ServedInv_ReadNeverBlocks DEF EchoInv
<1> QED BY <1>1, Echo_Init, Echo_Next, PTL DEF Spec

\* No client can kill the server with SIGPIPE (103): what a client has sent is
\* answered before anything of the answer can be left unread.
THEOREM EchoSurvivesItsClients == Spec => []SurvivesItsClients
<1>1. EchoInv /\ LockStep => SurvivesItsClients
  BY DEF LockStep
<1>2. Init => EchoInv /\ LockStep
  BY Echo_Init, LockStep_Init
<1>3. EchoInv /\ LockStep /\ [Next]_vars => EchoInv' /\ LockStep'
  BY Echo_Next, LockStep_Next
<1> QED BY <1>1, <1>2, <1>3, PTL DEF Spec

\* What a client reads for its line is that line (103; selet_client.c:67-80).
THEOREM EchoResponseMatches == Spec => []ResponseMatches
<1>1. LockStep => ResponseMatches
  BY DEF LockStep, OneLine, ResponseMatches
<1>2. Init => EchoInv /\ LockStep
  BY Echo_Init, LockStep_Init
<1>3. EchoInv /\ LockStep /\ [Next]_vars => EchoInv' /\ LockStep'
  BY Echo_Next, LockStep_Next
<1> QED BY <1>1, <1>2, <1>3, PTL DEF Spec

\* The scan turns to each connection that select() saw, whoever leaves the table
\* during it (97-133).
THEOREM EchoNobodySkipped == Spec => NobodySkipped
<1>1. EchoInv /\ [Next]_vars => [NextInRest]_tablevars
  BY Echo_Rest
<1> QED BY <1>1, Echo_Init, Echo_Next, PTL DEF Spec, NobodySkipped

\* A connection is a pipe back to its client: until it is cut, every line comes
\* back once and in order (99-103; selet_client.c:67-80).
THEOREM EchoImplementsLoopback == Spec => ImplementsLoopback
<1>1. Init => Loops!Init
  <2> SUFFICES ASSUME Init PROVE Loops!Init
    OBVIOUS
  <2>1. Pipe = [c \in Clients |-> <<>>]
    BY DEF Init, NetInit, Pipe
  <2>2. IsCut = [c \in Clients |-> FALSE]
    BY DEF Init, NetInit, IsCut
  <2> QED BY <2>1, <2>2 DEF Loops!Init
<1>2. Init => EchoInv /\ LockStep
  BY Echo_Init, LockStep_Init
<1>3. EchoInv /\ LockStep /\ [Next]_vars => EchoInv' /\ LockStep'
  BY Echo_Next, LockStep_Next
<1>4. EchoInv /\ LockStep /\ EchoInv' /\ LockStep' /\ [Next]_vars
        => [Loops!Next]_<<Pipe, IsCut>>
  BY Loops_Next
<1> QED BY <1>1, <1>2, <1>3, <1>4, PTL DEF Spec, ImplementsLoopback, Loops!Spec

-----------------------------------------------------------------------------
(* Who waits for a response.                                               *)

\* steps of the server that move no line but those of connections they close (57-94, 106-130)
LEMMA Way_Stable ==
  ASSUME ResponseOnItsWay, pc # "echo", UNCHANGED <<down, phase>>,
         \A c \in Clients : held'[c] = "closed" \/ (held[c] # "closed" /\ up'[c] = up[c])
  PROVE  ResponseOnItsWay'
<1>1. \A c \in Clients : InHand(c) = <<>>
  BY DEF InHand
<1> QED BY <1>1 DEF ResponseOnItsWay

\* read() and write() pass a line on (99-103)
LEMMA Way_Served ==
  ASSUME EchoInv, LockStep, ResponseOnItsWay, Receive \/ Echo
  PROVE  ResponseOnItsWay'
<1> USE DEF EchoInv, TableInv, TableTypeOK
<1>1. CASE Receive
  <2>1. /\ pc = "scan" /\ pc' = "echo" /\ UNCHANGED <<down, held, phase>> /\ Current' = Current
        /\ \A c \in Clients : c # Current => up'[c] = up[c]
    BY <1>1 DEF Receive, Scanning, ReadData, Current, clientvars
  <2>2. mesg' # <<>>
    BY <1>1, <2>1, Echo_Receive DEF TypeOK
  <2>3. \A c \in Clients : InHand(c) = <<>> /\ (c = Current => InHand(c)' # <<>>)
    BY <2>1, <2>2 DEF InHand
  <2> QED BY <2>1, <2>3 DEF ResponseOnItsWay
<1>2. CASE Echo
  <2>1. /\ pc = "echo" /\ pc' # "echo" /\ phase' = phase /\ mesg # <<>> /\ mesg \in Seq(Line)
        /\ \A c \in Clients : c # Current => InHand(c) = <<>>
    BY <1>2 DEF Echo, InHand, TypeOK, clientvars
  <2>2. CASE Fatal(Current)
    <3>1. \A c \in Clients : held'[c] = "closed" \/ peer[c] = "idle"
      BY <1>2, <2>2 DEF Echo, ServerEnds
    <3>2. \A c \in Clients : phase'[c] = "reply" => held'[c] = "closed"
      BY <2>1, <3>1 DEF PhaseInv
    <3> QED BY <3>2 DEF ResponseOnItsWay
  <2>3. CASE ~Fatal(Current)
    <3>1. Current \in Clients
      BY <2>1, Current_Type DEF PcInv
    <3>2. /\ UNCHANGED <<up, held>>
          /\ down' = [down EXCEPT ![Current] = IF peer[Current] = "open" THEN @ \o mesg ELSE @]
      BY <1>2, <2>3 DEF Echo, WriteAll, Answer
    <3>3. down \in [Clients -> Seq(Line)]
      BY DEF TypeOK
    <3>4. down[Current] = <<>> /\ <<>> \o mesg = mesg
      BY <2>1, <3>1, ConcatEmptySeq DEF LockStep, OneLine, InHand
    <3>5. phase[Current] = "reply" => peer[Current] = "open"
      BY <3>1 DEF LockStep, OneLine, PhaseInv, PeerState
    <3>6. phase[Current] = "reply" => down'[Current] # <<>>
      BY <2>1, <3>1, <3>2, <3>3, <3>4, <3>5
    <3>7. \A c \in Clients : c # Current => down'[c] = down[c]
      BY <3>2, <3>3
    <3> QED BY <2>1, <3>2, <3>6, <3>7 DEF ResponseOnItsWay
  <2> QED BY <2>2, <2>3
<1> QED BY <1>1, <1>2

\* a client waits from the line it has sent until it has read something (67-80)
LEMMA Way_Client ==
  ASSUME EchoInv, LockStep, ResponseOnItsWay, NEW c \in Clients, ClientNext(c),
         UNCHANGED <<tablevars, mesg>>
  PROVE  ResponseOnItsWay'
<1>1. /\ down \in [Clients -> Seq(Line)] /\ up \in [Clients -> Seq(Line)]
      /\ phase \in [Clients -> Phase]
  BY DEF EchoInv, TypeOK, TableTypeOK, TableInv
<1>2. \A d \in Clients : InHand(d)' = InHand(d)
  BY DEF InHand, Current, tablevars
<1>3. held' = held /\ (\A d \in Clients : d # c => phase'[d] = phase[d] /\ up'[d] = up[d] /\ down'[d] = down[d])
  BY <1>1 DEF ClientNext, ClientStep, Connect, Establish, SendLine, SendQuit, SendUp, SendFails,
              EndOfInput, Response, TakeDown, ServerClosed, CloseSocket, Kill, CloseClientEnd,
              Goto, netvars
<1>4. CASE SendLine(c)
  <2>1. held[c] # "closed" => up'[c] = Append(up[c], <<c, sent[c] + 1>>)
    BY <1>1, <1>4 DEF SendLine, SendUp
  <2>2. Append(up[c], <<c, sent[c] + 1>>) # <<>>
    <3>1. up[c] \in Seq(Line) /\ Len(up[c]) \in Nat
      BY <1>1, LenProperties
    <3> DEFINE longer == Append(up[c], <<c, sent[c] + 1>>)
    <3>2. Len(longer) = Len(up[c]) + 1
      BY <3>1
    <3>3. Len(<<>>) = 0
      BY EmptySeq
    <3> HIDE DEF longer
    <3>4. longer # <<>>
      BY <3>1, <3>2, <3>3
    <3> QED BY <3>4 DEF longer
  <2> QED BY <1>2, <1>3, <2>1, <2>2 DEF ResponseOnItsWay
<1>5. CASE ~SendLine(c)
  <2>1. phase'[c] # "reply"
    BY <1>1, <1>5 DEF ClientNext, ClientStep, Connect, SendQuit, SendFails, EndOfInput,
                      Response, ServerClosed, CloseSocket, Kill, Goto
  <2> QED BY <1>2, <1>3, <2>1 DEF ResponseOnItsWay
<1> QED BY <1>4, <1>5

LEMMA Way_Next ==
  ASSUME EchoInv, LockStep, ResponseOnItsWay, [Next]_vars
  PROVE  ResponseOnItsWay'
<1> USE DEF EchoInv, TableInv, TableTypeOK
<1>1. CASE Accept
  <2>1. pc = "accept" /\ UNCHANGED <<down, phase>>
    BY <1>1 DEF Accept, AcceptNext, clientvars
  <2>2. CASE client_index + 1 = MaxClients
    <3>1. \A c \in Clients : held'[c] = "closed" \/ peer[c] = "idle"
      BY <1>1, <2>2 DEF Accept, ServerEnds
    <3>2. \A c \in Clients : phase'[c] = "reply" => held'[c] = "closed"
      BY <2>1, <3>1 DEF PhaseInv
    <3> QED BY <3>2 DEF ResponseOnItsWay
  <2>3. CASE client_index + 1 # MaxClients
    <3> DEFINE h == Head(backlog)
    <3>1. AcceptNext /\ held' = [held EXCEPT ![h] = "open"] /\ up' = up
      BY <1>1, <2>3 DEF Accept, AcceptNext
    <3>2. held[h] # "closed"
      BY <2>1, Backlog_Head DEF Exact, PcInv, Stopped
    <3> QED BY <2>1, <3>1, <3>2, Way_Stable
  <2> QED BY <2>2, <2>3
<1>2. CASE Quit \/ ReceiveEnd
  <2>1. /\ pc \in {"left", "scan"} /\ UNCHANGED <<down, phase>>
        /\ held' = [held EXCEPT ![Current] = "closed"] /\ up' = [up EXCEPT ![Current] = <<>>]
    BY <1>2 DEF Quit, ReceiveEnd, RemoveCurrent, CloseServerEnd, Scanning, clientvars
  <2>2. \A c \in Clients : held'[c] = "closed" \/ (held'[c] = held[c] /\ up'[c] = up[c])
    BY <2>1
  <2> QED BY <2>1, <2>2, Way_Stable
<1>3. CASE Select \/ Skip \/ EndOfScan \/ ReceiveError
  <2>1. pc # "echo" /\ UNCHANGED <<up, down, held, phase>>
    BY <1>3 DEF Select, Skip, EndOfScan, ReceiveError, Scanning, netvars, clientvars
  <2> QED BY <2>1 DEF ResponseOnItsWay, InHand
<1>4. CASE Outside /\ UNCHANGED mesg
  <2>1. ASSUME NEW c \in Clients, RstArrives(c), UNCHANGED <<clientvars, tablevars>>
        PROVE  ResponseOnItsWay'
    BY <1>4, <2>1 DEF RstArrives, clientvars, tablevars, ResponseOnItsWay, InHand, Current
  <2> QED BY <1>4, <2>1, Way_Client DEF Outside
<1>5. CASE UNCHANGED vars
  BY <1>5 DEF vars, netvars, clientvars, tablevars, ResponseOnItsWay, InHand, Current
<1> QED BY <1>1, <1>2, <1>3, <1>4, <1>5, Way_Served DEF Next, ServerStep

\* What read() in selet_client.c:72 needs to return, short of a close(): the safety
\* half of ResponseArrives for this server.
THEOREM EchoResponseOnItsWay == Spec => []ResponseOnItsWay
<1>1. Init => EchoInv /\ LockStep /\ ResponseOnItsWay
  BY Echo_Init, LockStep_Init DEF ResponseOnItsWay, Init, ClientInit
<1>2. EchoInv /\ LockStep /\ ResponseOnItsWay /\ [Next]_vars
        => (EchoInv /\ LockStep /\ ResponseOnItsWay)'
  BY Echo_Next, LockStep_Next, Way_Next
<1> QED BY <1>1, <1>2, PTL DEF Spec
=============================================================================
