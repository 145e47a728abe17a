------------------------- MODULE SelectTableProofs -------------------------
(***************************************************************************)
(* The invariant of the loop that both select() servers share, and that    *)
(* each step of the loop and of the clients preserves it.  EchoServerProofs *)
(* and ChatServerProofs combine these lemmas with their own steps.         *)
(***************************************************************************)
EXTENDS SelectTable, SequenceTheorems, TLAPS

(***************************************************************************)
(* What the loop is at any time.  TableExact alone is not inductive: that  *)
(* accept() adds somebody new to the table needs the backlog to be exact   *)
(* too, that nobody connects twice needs where each client is, and that a  *)
(* removal removes the right slot needs the index to be within the table.  *)
(***************************************************************************)
PhaseInv ==
  \A c \in Clients :
    /\ peer[c] = "idle" => held[c] = "none"
    /\ phase[c] = "start" => peer[c] = "idle"
    /\ phase[c] \in {"prompt", "reply", "closing"} => peer[c] # "idle"

Exact ==
  /\ \A c \in Clients : held[c] = "open" <=> \E k \in 1..client_index : client_fd[k] = c
  /\ \A j, k \in 1..client_index : client_fd[j] = client_fd[k] => j = k
  /\ \A c \in Clients : (peer[c] # "idle" /\ held[c] = "none")
                          <=> \E k \in 1..Len(backlog) : backlog[k] = c
  /\ \A j, k \in 1..Len(backlog) : backlog[j] = backlog[k] => j = k

PcInv ==
  /\ listening <=> ~Stopped
  /\ ~Stopped /\ pc # "joined" => client_index < MaxClients
  /\ pc = "joined" => client_index <= MaxClients
  /\ pc = "accept" => backlog # <<>>
  /\ pc \in {"relay", "echo", "left"} => start_index <= client_index

TableInv == TableTypeOK /\ PhaseInv /\ PcInv /\ (~Stopped => Exact)

-----------------------------------------------------------------------------
(* What removing an entry does to a sequence (select_server.c:112-115).    *)
LEMMA RemoveAtProperties ==
  ASSUME NEW S, NEW s \in Seq(S), NEW k \in 1..Len(s)
  PROVE  /\ RemoveAt(s, k) \in Seq(S)
         /\ Len(RemoveAt(s, k)) = Len(s) - 1
         /\ \A j \in 1..(Len(s) - 1) :
              RemoveAt(s, k)[j] = IF j < k THEN s[j] ELSE s[j + 1]
<1> DEFINE t == RemoveAt(s, k)
           n == Len(s) - 1
<1>1. Len(s) \in Nat /\ s \in [1..Len(s) -> S] /\ n \in Nat
  BY LenProperties
<1>2. t \in [1..n -> S]
  <2>1. ASSUME NEW j \in 1..n PROVE (IF j < k THEN s[j] ELSE s[j + 1]) \in S
    BY <1>1, <2>1
  <2> QED BY <2>1 DEF RemoveAt
<1>3. t \in Seq(S)
  BY <1>1, <1>2, SeqDef
<1>4. Len(t) \in Nat /\ DOMAIN t = 1..Len(t)
  BY <1>3, LenProperties
<1>5. Len(t) = n
  <2> DEFINE l == Len(t)
  <2>1. 1..l = 1..n /\ l \in Nat /\ n \in Nat
    BY <1>1, <1>2, <1>4
  <2> HIDE DEF l, n
  <2>2. (1 <= l => l \in 1..n) /\ (1 <= n => n \in 1..l)
    BY <2>1
  <2>3. l = n
    BY <2>1, <2>2
  <2> QED BY <2>3 DEF l
<1>6. \A j \in 1..n : t[j] = IF j < k THEN s[j] ELSE s[j + 1]
  BY DEF RemoveAt
<1> QED BY <1>3, <1>5, <1>6

(* What read() takes off a stream leaves a stream.                         *)
LEMMA DropProperties ==
  ASSUME NEW S, NEW s \in Seq(S), NEW n \in 1..Len(s)
  PROVE  /\ SubSeq(s, n + 1, Len(s)) \in Seq(S)
         /\ SubSeq(s, 1, n) \in Seq(S)
         /\ SubSeq(s, 1, n) # <<>>
         /\ Len(SubSeq(s, n + 1, Len(s))) = Len(s) - n
         /\ Len(SubSeq(s, 1, n)) = n
         /\ SubSeq(s, 1, n)[1] = s[1]
<1>1. Len(s) \in Nat /\ \A j \in 1..Len(s) : s[j] \in S
  BY LenProperties
<1>2. \A j \in (n + 1)..Len(s) : s[j] \in S
  BY <1>1
<1>3. \A j \in 1..n : s[j] \in S
  BY <1>1
<1>4. /\ SubSeq(s, n + 1, Len(s)) \in Seq(S)
      /\ Len(SubSeq(s, n + 1, Len(s))) = IF n + 1 <= Len(s) THEN Len(s) - (n + 1) + 1 ELSE 0
  BY <1>1, <1>2, SubSeqProperties
<1>5. /\ SubSeq(s, 1, n) \in Seq(S)
      /\ Len(SubSeq(s, 1, n)) = IF 1 <= n THEN n - 1 + 1 ELSE 0
      /\ \A j \in 1..(n - 1 + 1) : SubSeq(s, 1, n)[j] = s[1 + j - 1]
  BY <1>1, <1>3, SubSeqProperties
<1>6. Len(SubSeq(s, 1, n)) = n /\ SubSeq(s, 1, n)[1] = s[1]
  BY <1>5
<1>7. SubSeq(s, 1, n) # <<>>
  BY <1>6, EmptySeq
<1> QED BY <1>1, <1>4, <1>5, <1>6, <1>7
-----------------------------------------------------------------------------
(* The start.                                                              *)
LEMMA TableInit_Inv ==
  ASSUME NetInit, ClientInit, TableInit
  PROVE  TableInv
<1> USE DEF NetInit, ClientInit, TableInit
<1>1. TableTypeOK
  BY MaxLinesAssumption, MaxClientsAssumption, FdLimitAssumption
     DEF TableTypeOK, PeerState, HeldState, Phase, Label, Ssock
<1>2. PhaseInv /\ PcInv /\ Exact
  BY MaxClientsAssumption DEF PhaseInv, PcInv, Exact, Stopped, client_index
<1> QED BY <1>1, <1>2 DEF TableInv

-----------------------------------------------------------------------------
(* The clients and the network.                                            *)

\* what a step of a client changes only matters to PhaseInv and the backlog
LEMMA CloseClientEnd_Peer ==
  ASSUME peer \in [Clients -> PeerState], NEW c \in Clients, CloseClientEnd(c)
  PROVE  /\ peer' \in [Clients -> PeerState]
         /\ peer'[c] \in {"fin", "reset", "finrst"}
         /\ \A d \in Clients \ {c} : peer'[d] = peer[d]
<1>1. PICK p \in {"fin", "reset", "finrst"} : peer' = [peer EXCEPT ![c] = p]
  BY DEF CloseClientEnd
<1> QED BY <1>1 DEF PeerState

\* clients and network leave the server's variables of their types (selet_client.c)
LEMMA Outside_Type ==
  ASSUME TableInv, NEW c \in Clients, ClientNext(c), UNCHANGED tablevars
  PROVE  TableTypeOK'
<1> USE DEF TableInv, TableTypeOK, tablevars, Goto, Phase
<1>1. CASE Connect(c)
  <2>1. peer' \in [Clients -> PeerState]
    BY <1>1 DEF Connect, Establish, PeerState
  <2>2. backlog' \in Seq(Clients)
    <3>1. Append(backlog, c) \in Seq(Clients)
      BY AppendProperties
    <3> QED BY <1>1, <3>1 DEF Connect, Establish
  <2>3. phase' \in [Clients -> Phase]
    BY <1>1 DEF Connect
  <2> QED BY <1>1, <2>1, <2>2, <2>3 DEF Connect
<1>2. CASE SendLine(c)
  <2>1. sent[c] + 1 \in 0..MaxLines /\ <<c, sent[c] + 1>> \in Line
    BY <1>2, MaxLinesAssumption DEF SendLine, MayType, Line
  <2>2. up' \in [Clients -> Seq(Line)]
    BY <1>2, <2>1, AppendProperties DEF SendLine, SendUp
  <2> QED BY <1>2, <2>1, <2>2 DEF SendLine
<1>3. CASE SendQuit(c)
  <2>1. <<c, 0>> \in Line
    BY MaxLinesAssumption DEF Line
  <2>2. up' \in [Clients -> Seq(Line)]
    BY <1>3, <2>1, AppendProperties DEF SendQuit, SendUp
  <2> QED BY <1>3, <2>2 DEF SendQuit
<1>4. CASE SendFails(c) \/ EndOfInput(c) \/ ServerClosed(c)
  BY <1>4 DEF SendFails, EndOfInput, ServerClosed, netvars
<1>5. CASE Response(c)
  BY <1>5 DEF Response
<1>6. CASE CloseSocket(c) \/ Kill(c)
  <2>1. CloseClientEnd(c)
    BY <1>6 DEF CloseSocket, Kill
  <2>2. peer' \in [Clients -> PeerState]
    BY <2>1, CloseClientEnd_Peer
  <2> QED BY <1>6, <2>2 DEF CloseSocket, Kill
<1> QED BY <1>1, <1>2, <1>3, <1>4, <1>5, <1>6 DEF ClientNext, ClientStep

\* nor do they change where the server is in its pass (select_server.c:57-133)
LEMMA Outside_PhaseInv ==
  ASSUME TableInv, NEW c \in Clients, ClientNext(c), UNCHANGED tablevars
  PROVE  PhaseInv'
<1> USE DEF TableInv, TableTypeOK, PhaseInv, Goto, Phase
<1>1. CASE Connect(c)
  BY <1>1 DEF Connect, Establish
<1>2. CASE SendLine(c) \/ SendQuit(c) \/ SendFails(c) \/ EndOfInput(c)
  BY <1>2 DEF SendLine, SendQuit, SendFails, EndOfInput, netvars
<1>3. CASE Response(c) \/ ServerClosed(c)
  BY <1>3 DEF Response, ServerClosed, netvars
<1>4. CASE CloseSocket(c) \/ Kill(c)
  <2>1. CloseClientEnd(c) /\ held' = held
    BY <1>4 DEF CloseSocket, Kill
  <2>2. phase[c] \in {"prompt", "reply", "closing"} /\ phase' = [phase EXCEPT ![c] = "left"]
    BY <1>4 DEF CloseSocket, Kill
  <2> QED BY <2>1, <2>2, CloseClientEnd_Peer
<1> QED BY <1>1, <1>2, <1>3, <1>4 DEF ClientNext, ClientStep

\* the table stays exact in a step that leaves it and who is accepted alone (97-103)
LEMMA Exact_Stable ==
  ASSUME Exact, held' = held, backlog' = backlog, client_fd' = client_fd,
         \A d \in Clients : peer'[d] = "idle" <=> peer[d] = "idle"
  PROVE  Exact'
<1>1. \A d \in Clients : held'[d] = "open" <=> \E k \in 1..Len(client_fd') : client_fd'[k] = d
  <2>1. \A d \in Clients : held[d] = "open" <=> \E k \in 1..Len(client_fd) : client_fd[k] = d
    BY DEF Exact, client_index
  <2> QED BY <2>1
<1>2. \A j, k \in 1..Len(client_fd') : client_fd'[j] = client_fd'[k] => j = k
  <2>1. \A j, k \in 1..Len(client_fd) : client_fd[j] = client_fd[k] => j = k
    BY DEF Exact, client_index
  <2> QED BY <2>1
<1>3. \A d \in Clients : (peer'[d] # "idle" /\ held'[d] = "none")
                           <=> \E k \in 1..Len(backlog') : backlog'[k] = d
  BY Zenon DEF Exact
<1>4. \A j, k \in 1..Len(backlog') : backlog'[j] = backlog'[k] => j = k
  BY Zenon DEF Exact
<1> QED BY <1>1, <1>2, <1>3, <1>4, Zenon DEF Exact, client_index

(* Entering a queue without duplicates: who is in it afterwards.           *)
LEMMA AppendNew ==
  ASSUME NEW S, NEW s \in Seq(S), NEW e \in S, \A k \in 1..Len(s) : s[k] # e
  PROVE  /\ Append(s, e) \in Seq(S) /\ Len(Append(s, e)) = Len(s) + 1
         /\ \A d : (\E k \in 1..Len(Append(s, e)) : Append(s, e)[k] = d)
                    <=> d = e \/ \E k \in 1..Len(s) : s[k] = d
         /\ (\A j, k \in 1..Len(s) : s[j] = s[k] => j = k)
              => \A j, k \in 1..Len(Append(s, e)) : Append(s, e)[j] = Append(s, e)[k] => j = k
<1> DEFINE t == Append(s, e)
<1>1. /\ t \in Seq(S) /\ Len(t) = Len(s) + 1 /\ Len(s) \in Nat
      /\ \A k \in 1..Len(s) : t[k] = s[k]
      /\ t[Len(s) + 1] = e
  BY AppendProperties, LenProperties
<1> HIDE DEF t
<1>2. ASSUME NEW d, NEW k \in 1..Len(t), t[k] = d
      PROVE  d = e \/ \E m \in 1..Len(s) : s[m] = d
  <2>1. k \in 1..Len(s) \/ k = Len(s) + 1
    BY <1>1
  <2> QED BY <1>1, <1>2, <2>1
<1>3. ASSUME NEW d, d = e \/ \E m \in 1..Len(s) : s[m] = d
      PROVE  \E k \in 1..Len(t) : t[k] = d
  <2>1. CASE d = e
    <3>1. Len(s) + 1 \in 1..Len(t)
      BY <1>1
    <3> QED BY <1>1, <2>1, <3>1
  <2>2. CASE \E m \in 1..Len(s) : s[m] = d
    <3>1. PICK m \in 1..Len(s) : s[m] = d
      BY <2>2
    <3>2. m \in 1..Len(t)
      BY <1>1
    <3> QED BY <1>1, <3>1, <3>2
  <2> QED BY <1>3, <2>1, <2>2
<1>4. ASSUME \A j, k \in 1..Len(s) : s[j] = s[k] => j = k,
             NEW j \in 1..Len(t), NEW k \in 1..Len(t), t[j] = t[k]
      PROVE  j = k
  <2>1. /\ j \in 1..Len(s) \/ j = Len(s) + 1
        /\ k \in 1..Len(s) \/ k = Len(s) + 1
    BY <1>1
  <2> QED BY <1>1, <1>4, <2>1
<1> QED BY <1>1, <1>2, <1>3, <1>4 DEF t

\* the table stays exact when a client connects, closes or is reset: its connection
\* stays accepted until the server closes it (106-130)
LEMMA Outside_Exact ==
  ASSUME TableInv, ~Stopped, NEW c \in Clients, ClientNext(c), UNCHANGED tablevars
  PROVE  Exact'
<1> USE DEF TableInv, TableTypeOK, tablevars, client_index
<1>1. CASE Connect(c) /\ listening
  <2>1. /\ peer[c] = "idle" /\ held[c] = "none"
        /\ peer' = [peer EXCEPT ![c] = "open"] /\ held' = held
        /\ backlog' = Append(backlog, c)
    BY <1>1 DEF Connect, Establish, PhaseInv
  <2>2. \A k \in 1..Len(backlog) : backlog[k] # c
    BY <2>1 DEF Exact
  <2>3. /\ \A d : (\E k \in 1..Len(backlog') : backlog'[k] = d)
                   <=> d = c \/ \E k \in 1..Len(backlog) : backlog[k] = d
        /\ \A j, k \in 1..Len(backlog') : backlog'[j] = backlog'[k] => j = k
    <3>1. \A j, k \in 1..Len(backlog) : backlog[j] = backlog[k] => j = k
      BY DEF Exact
    <3>2. backlog \in Seq(Clients)
      OBVIOUS
    <3> HIDE DEF TableInv, TableTypeOK
    <3>3. /\ \A d : (\E k \in 1..Len(Append(backlog, c)) : Append(backlog, c)[k] = d)
                     <=> d = c \/ \E k \in 1..Len(backlog) : backlog[k] = d
          /\ \A j, k \in 1..Len(Append(backlog, c)) :
               Append(backlog, c)[j] = Append(backlog, c)[k] => j = k
      BY <2>2, <3>1, <3>2, AppendNew
    <3>4. backlog' = Append(backlog, c)
      BY <2>1
    <3> QED BY ONLY <3>3, <3>4, Zenon
  <2>4. \A d \in Clients : (peer'[d] # "idle" /\ held'[d] = "none")
                             <=> \E k \in 1..Len(backlog') : backlog'[k] = d
    <3> SUFFICES ASSUME NEW d \in Clients
                 PROVE  (peer'[d] # "idle" /\ held'[d] = "none")
                          <=> d = c \/ \E k \in 1..Len(backlog) : backlog[k] = d
      BY <2>3
    <3>1. CASE d = c
      BY <2>1, <3>1
    <3>2. CASE d # c
      <4>1. peer'[d] = peer[d] /\ held'[d] = held[d]
        BY <2>1, <3>2
      <4> QED BY <3>2, <4>1 DEF Exact
    <3> QED BY <3>1, <3>2
  <2>5. /\ \A d \in Clients : held'[d] = "open"
                               <=> \E k \in 1..Len(client_fd') : client_fd'[k] = d
        /\ \A j, k \in 1..Len(client_fd') : client_fd'[j] = client_fd'[k] => j = k
    <3>1. held' = held /\ client_fd' = client_fd
      BY <2>1
    <3>2. /\ \A d \in Clients : held[d] = "open" <=> \E k \in 1..Len(client_fd) : client_fd[k] = d
          /\ \A j, k \in 1..Len(client_fd) : client_fd[j] = client_fd[k] => j = k
      BY DEF Exact
    <3> QED BY ONLY <3>1, <3>2
  <2> QED BY <2>3, <2>4, <2>5, Zenon DEF Exact
<1>2. CASE ~Connect(c)
  <2>1. held' = held /\ backlog' = backlog
    BY <1>2 DEF ClientNext, ClientStep, SendLine, SendQuit, SendFails, EndOfInput,
                Response, ServerClosed, CloseSocket, Kill, netvars
  <2>2. \A d \in Clients : peer'[d] = "idle" <=> peer[d] = "idle"
    <3>1. CASE CloseSocket(c) \/ Kill(c)
      <4>1. CloseClientEnd(c) /\ peer[c] # "idle"
        BY <3>1 DEF CloseSocket, Kill, PhaseInv
      <4> QED BY <4>1, CloseClientEnd_Peer
    <3>2. CASE ~(CloseSocket(c) \/ Kill(c))
      BY <1>2, <3>2 DEF ClientNext, ClientStep, SendLine, SendQuit, SendFails, EndOfInput,
                        Response, ServerClosed, netvars
    <3> QED BY <3>1, <3>2
  <2> QED BY <2>1, <2>2, Exact_Stable
<1>3. listening
  BY DEF PcInv
<1> QED BY <1>1, <1>2, <1>3

\* No step of a client or of the network disturbs the loop's invariant.
LEMMA Outside_Inv ==
  ASSUME TableInv, Outside
  PROVE  TableInv'
<1>1. ASSUME NEW c \in Clients, ClientNext(c), UNCHANGED tablevars
      PROVE  TableInv'
  <2>1. listening' = listening
    BY <1>1 DEF ClientNext, ClientStep, Connect, SendLine, SendQuit, SendFails, EndOfInput,
                Response, ServerClosed, CloseSocket, Kill, netvars
  <2>2. backlog # <<>> => backlog' # <<>>
    BY <1>1, AppendProperties
       DEF ClientNext, ClientStep, Connect, Establish, SendLine, SendQuit, SendFails,
           EndOfInput, Response, ServerClosed, CloseSocket, Kill, netvars,
           TableInv, TableTypeOK
  <2>3. PcInv' /\ Stopped' = Stopped
    BY <1>1, <2>1, <2>2 DEF TableInv, PcInv, Stopped, tablevars, client_index
  <2> QED BY <1>1, <2>3, Outside_Type, Outside_PhaseInv, Outside_Exact DEF TableInv
<1>2. ASSUME NEW c \in Clients, RstArrives(c), UNCHANGED <<clientvars, tablevars>>
      PROVE  TableInv'
  <2>1. peer[c] = "finrst" /\ peer' = [peer EXCEPT ![c] = "dead"]
    BY <1>2 DEF RstArrives
  <2>2. TableTypeOK'
    BY <1>2, <2>1 DEF RstArrives, TableInv, TableTypeOK, PeerState, clientvars, tablevars
  <2>3. PhaseInv' /\ PcInv' /\ Stopped' = Stopped
    BY <1>2, <2>1 DEF RstArrives, TableInv, TableTypeOK, PhaseInv, PcInv, Stopped,
                      clientvars, tablevars, client_index
  <2>4. ~Stopped => Exact'
    <3>1. \A d \in Clients : peer'[d] = "idle" <=> peer[d] = "idle"
      BY <2>1 DEF TableInv, TableTypeOK
    <3>2. held' = held /\ backlog' = backlog /\ client_fd' = client_fd
      BY <1>2 DEF RstArrives, tablevars
    <3> QED BY <3>1, <3>2, Exact_Stable DEF TableInv
  <2> QED BY <2>2, <2>3, <2>4 DEF TableInv
<1> QED BY <1>1, <1>2 DEF Outside
-----------------------------------------------------------------------------
(* The loop's own steps.                                                   *)

\* where the server is in its pass depends on its own variables alone (57-133)
LEMMA PhaseInv_Stable ==
  ASSUME PhaseInv, held' = held, phase' = phase,
         \A d \in Clients : peer'[d] = "idle" <=> peer[d] = "idle"
  PROVE  PhaseInv'
BY DEF PhaseInv

\* select(): only the number it is given and the copy of the bits change
LEMMA Select_Inv ==
  ASSUME TableInv, Select
  PROVE  TableInv'
<1>1. UNCHANGED <<netvars, clientvars, client_fd, fd, start_index>>
  BY DEF Select
<1>2. maxfd' \in Ssock..FdLimit
  <2>1. PICK m \in Numbers : Highest(m) /\ maxfd' = PlusOne(m)
    BY DEF Select
  <2>2. \A c \in Table : fd[c] \in Nat
    <3>1. \A k \in 1..client_index : client_fd[k] \in Clients
      BY ElementOfSeq DEF TableInv, TableTypeOK, client_index
    <3> QED BY <3>1, FdLimitAssumption DEF Table, TableInv, TableTypeOK
  <2>3. maxfd \in Nat /\ maxfd >= Ssock
    BY FdLimitAssumption DEF TableInv, TableTypeOK, Ssock
  <2>4. m \in Nat /\ maxfd <= m
    <3>1. maxfd \in Numbers
      BY DEF Numbers
    <3>2. maxfd <= m
      BY <2>1, <3>1 DEF Highest
    <3> QED BY <2>2, <2>3, <3>2 DEF Numbers
  <2> QED BY <2>1, <2>3, <2>4, FdLimitAssumption, MaxClientsAssumption DEF PlusOne, Ssock
<1>3. ready' \in SUBSET Clients
  <2>1. \A k \in 1..client_index : client_fd[k] \in Clients
    BY ElementOfSeq DEF TableInv, TableTypeOK, client_index
  <2> QED BY <2>1 DEF Select, Table
<1>4. /\ pc = "select" /\ pc' \in {"accept", "scan"}
      /\ pc' = "accept" => backlog # <<>>
  BY DEF Select, Incoming
<1>5. TableTypeOK'
  BY <1>1, <1>2, <1>3, <1>4 DEF TableInv, TableTypeOK, netvars, clientvars, Label
<1>6. PhaseInv'
  BY <1>1, PhaseInv_Stable DEF netvars, clientvars, TableInv
<1>7. ~Stopped /\ Exact'
  BY <1>1, <1>4, Exact_Stable DEF netvars, TableInv, Stopped
<1>8. PcInv'
  BY <1>1, <1>4 DEF netvars, TableInv, PcInv, Stopped, client_index
<1> QED BY <1>5, <1>6, <1>7, <1>8 DEF TableInv

\* a slot whose connection is not in readfds is passed over (98)
LEMMA Skip_Inv ==
  ASSUME TableInv, Skip \/ EndOfScan
  PROVE  TableInv'
<1>1. UNCHANGED <<netvars, clientvars, client_fd, fd, maxfd>> /\ ready' \in {ready, {}}
  BY DEF Skip, EndOfScan, NewPass
<1>2. start_index' \in Nat \ {0} /\ pc = "scan" /\ pc' \in {"scan", "select"}
  BY DEF Skip, EndOfScan, NewPass, Scanning, TableInv, TableTypeOK
<1>3. TableTypeOK'
  BY <1>1, <1>2 DEF TableInv, TableTypeOK, netvars, clientvars, Label
<1>4. PhaseInv' /\ ~Stopped /\ Exact'
  BY <1>1, <1>2, PhaseInv_Stable, Exact_Stable DEF netvars, clientvars, TableInv, Stopped
<1>5. PcInv'
  BY <1>1, <1>2 DEF netvars, TableInv, PcInv, Stopped, client_index
<1> QED BY <1>3, <1>4, <1>5 DEF TableInv

\* inside the scan i is a slot of the table, which holds a connection (97-99)
LEMMA Current_Type ==
  ASSUME TableInv, start_index <= client_index
  PROVE  /\ start_index \in 1..client_index /\ client_index \in Nat
         /\ Current \in Clients
         /\ ~Stopped => held[Current] = "open" /\ peer[Current] # "idle"
<1>1. client_index \in Nat /\ start_index \in 1..client_index
  BY LenProperties DEF TableInv, TableTypeOK, client_index
<1>2. Current \in Clients
  BY <1>1, ElementOfSeq DEF TableInv, TableTypeOK, client_index, Current
<1>3. ~Stopped => held[Current] = "open"
  BY <1>1, <1>2 DEF TableInv, Exact, Current
<1> QED BY <1>1, <1>2, <1>3 DEF TableInv, PhaseInv

\* a read() that fails leaves the table alone, and the scan moves on (100, 132)
LEMMA ReceiveError_Inv ==
  ASSUME TableInv, ReceiveError
  PROVE  TableInv'
<1>1. /\ UNCHANGED <<up, down, held, backlog, listening, clientvars,
                     pc, client_fd, fd, maxfd, ready>>
      /\ pc = "scan" /\ start_index <= client_index /\ start_index' = start_index + 1
      /\ peer[Current] = "reset" /\ peer' = [peer EXCEPT ![Current] = "dead"]
  BY DEF ReceiveError, ReadError, Scanning
<1>2. Current \in Clients
  BY <1>1, Current_Type
<1>3. \A d \in Clients : peer'[d] = "idle" <=> peer[d] = "idle"
  BY <1>1, <1>2 DEF TableInv, TableTypeOK
<1>4. TableTypeOK'
  BY <1>1, <1>2 DEF TableInv, TableTypeOK, PeerState, clientvars
<1>5. PhaseInv' /\ ~Stopped /\ Exact'
  BY <1>1, <1>3, PhaseInv_Stable, Exact_Stable DEF clientvars, TableInv, Stopped
<1>6. PcInv'
  BY <1>1 DEF TableInv, PcInv, Stopped, client_index
<1> QED BY <1>4, <1>5, <1>6 DEF TableInv

\* whom accept() gives has connected and has not been accepted before (76-88)
LEMMA Backlog_Head ==
  ASSUME TableInv, pc = "accept"
  PROVE  Head(backlog) \in Clients /\ held[Head(backlog)] = "none"
<1>1. backlog \in Seq(Clients) /\ backlog # <<>> /\ Exact
  BY DEF TableInv, TableTypeOK, PcInv, Stopped
<1>2. Len(backlog) \in Nat /\ Len(backlog) # 0
  BY <1>1, EmptySeq, LenProperties
<1>3. Head(backlog) = backlog[1] /\ 1 \in 1..Len(backlog)
  BY <1>1, <1>2
<1>4. Head(backlog) \in Clients
  BY <1>1, <1>3, ElementOfSeq
<1> QED BY <1>1, <1>3, <1>4 DEF Exact

\* accept() moves the head of the backlog to a new last slot
LEMMA Accept_Inv ==
  ASSUME TableInv, pc = "accept", AcceptNext
  PROVE  /\ held' \in [Clients -> HeldState] /\ backlog' \in Seq(Clients)
         /\ client_fd' \in Seq(Clients) /\ fd' \in [Clients -> 0..(FdLimit - 1)]
         /\ UNCHANGED <<up, down, peer, listening, clientvars, maxfd>>
         /\ client_index' = client_index + 1 /\ client_index \in Nat
         /\ client_index < MaxClients
         /\ Head(backlog) \in Clients
         /\ PhaseInv' /\ Exact'
<1> DEFINE c == Head(backlog)
<1>1. /\ backlog \in Seq(Clients) /\ backlog # <<>> /\ client_fd \in Seq(Clients)
      /\ held \in [Clients -> HeldState] /\ peer \in [Clients -> PeerState]
      /\ fd \in [Clients -> 0..(FdLimit - 1)]
      /\ Exact /\ PhaseInv /\ client_index < MaxClients
  BY DEF TableInv, TableTypeOK, PcInv, Stopped
<1>2. /\ c \in Clients /\ Tail(backlog) \in Seq(Clients)
      /\ Len(Tail(backlog)) = Len(backlog) - 1 /\ Len(backlog) \in Nat
      /\ \A k \in 1..(Len(backlog) - 1) : Tail(backlog)[k] = backlog[k + 1]
      /\ c = backlog[1]
  BY <1>1, HeadTailProperties, LenProperties
<1>3. /\ held' = [held EXCEPT ![c] = "open"]
      /\ \E d \in (Ssock + 1)..(Ssock + client_index + 1) : fd' = [fd EXCEPT ![c] = d]
      /\ client_fd' = Append(client_fd, c)
      /\ backlog' = Tail(backlog)
      /\ UNCHANGED <<up, down, peer, listening, clientvars, maxfd>>
  BY DEF AcceptNext
<1>4. /\ Len(backlog) >= 1 /\ 1 \in 1..Len(backlog)
  BY <1>1, <1>2, EmptySeq
<1>5. peer[c] # "idle" /\ held[c] = "none"
  BY <1>1, <1>2, <1>4 DEF Exact
<1>6. client_index \in Nat
  BY <1>1, LenProperties DEF client_index
<1> HIDE DEF c
<1>7. held' \in [Clients -> HeldState] /\ fd' \in [Clients -> 0..(FdLimit - 1)]
  <2>1. \A d \in (Ssock + 1)..(Ssock + client_index + 1) : d \in 0..(FdLimit - 1)
    BY <1>1, <1>6, FdLimitAssumption, MaxClientsAssumption DEF Ssock
  <2> QED BY <1>1, <1>2, <1>3, <2>1 DEF HeldState
<1>8. \A k \in 1..Len(client_fd) : client_fd[k] # c
  BY <1>1, <1>2, <1>5 DEF Exact, client_index
<1>9. /\ client_fd' \in Seq(Clients) /\ Len(client_fd') = Len(client_fd) + 1
      /\ \A d : (\E k \in 1..Len(client_fd') : client_fd'[k] = d)
                 <=> d = c \/ \E k \in 1..Len(client_fd) : client_fd[k] = d
      /\ \A j, k \in 1..Len(client_fd') : client_fd'[j] = client_fd'[k] => j = k
  <2>1. \A j, k \in 1..Len(client_fd) : client_fd[j] = client_fd[k] => j = k
    BY <1>1 DEF Exact, client_index
  <2> DEFINE t == Append(client_fd, c)
  <2>2. client_fd \in Seq(Clients) /\ c \in Clients /\ client_fd' = t
    BY <1>1, <1>2, <1>3
  <2>3. /\ t \in Seq(Clients) /\ Len(t) = Len(client_fd) + 1
        /\ \A d : (\E k \in 1..Len(t) : t[k] = d)
                   <=> d = c \/ \E k \in 1..Len(client_fd) : client_fd[k] = d
        /\ (\A j, k \in 1..Len(client_fd) : client_fd[j] = client_fd[k] => j = k)
             => \A j, k \in 1..Len(t) : t[j] = t[k] => j = k
    BY <2>2, <1>8, AppendNew
  <2> HIDE DEF t
  <2> QED BY <2>1, <2>2, <2>3
<1>10. \A d \in Clients : held'[d] = "open" <=> \E k \in 1..Len(client_fd') : client_fd'[k] = d
  <2>1. \A d \in Clients : held[d] = "open" <=> \E k \in 1..Len(client_fd) : client_fd[k] = d
    BY <1>1 DEF Exact, client_index
  <2>2. \A d \in Clients : held'[d] = "open" <=> d = c \/ held[d] = "open"
    BY <1>1, <1>2, <1>3
  <2> QED BY <1>9, <2>1, <2>2
<1>11. \A d \in Clients : (\E k \in 1..Len(backlog') : backlog'[k] = d)
                           <=> d # c /\ \E k \in 1..Len(backlog) : backlog[k] = d
  <2> SUFFICES ASSUME NEW d \in Clients
               PROVE  (\E k \in 1..Len(backlog') : backlog'[k] = d)
                        <=> d # c /\ \E k \in 1..Len(backlog) : backlog[k] = d
    OBVIOUS
  <2>1. ASSUME NEW k \in 1..Len(backlog'), backlog'[k] = d
        PROVE  d # c /\ \E m \in 1..Len(backlog) : backlog[m] = d
    <3>1. k + 1 \in 1..Len(backlog) /\ backlog[k + 1] = d
      BY <1>2, <1>3, <2>1
    <3>2. backlog[k + 1] # backlog[1]
      BY <1>1, <1>4, <3>1, <2>1 DEF Exact
    <3> QED BY <1>2, <3>1, <3>2
  <2>2. ASSUME d # c, NEW k \in 1..Len(backlog), backlog[k] = d
        PROVE  \E m \in 1..Len(backlog') : backlog'[m] = d
    <3>1. k # 1
      BY <1>2, <2>2
    <3>2. k - 1 \in 1..Len(backlog') /\ backlog'[k - 1] = backlog[k]
      BY <1>2, <1>3, <3>1
    <3> QED BY <2>2, <3>2
  <2> QED BY <2>1, <2>2
<1>12. \A d \in Clients : (peer'[d] # "idle" /\ held'[d] = "none")
                           <=> \E k \in 1..Len(backlog') : backlog'[k] = d
  <2>1. \A d \in Clients : (peer[d] # "idle" /\ held[d] = "none")
                             <=> \E k \in 1..Len(backlog) : backlog[k] = d
    BY <1>1 DEF Exact
  <2>2. \A d \in Clients : held'[d] = "none" <=> d # c /\ held[d] = "none"
    BY <1>1, <1>2, <1>3
  <2> QED BY <1>3, <1>11, <2>1, <2>2
<1>13. \A j, k \in 1..Len(backlog') : backlog'[j] = backlog'[k] => j = k
  <2> SUFFICES ASSUME NEW j \in 1..Len(backlog'), NEW k \in 1..Len(backlog'),
                      backlog'[j] = backlog'[k]
               PROVE  j = k
    OBVIOUS
  <2>1. /\ j + 1 \in 1..Len(backlog) /\ backlog'[j] = backlog[j + 1]
        /\ k + 1 \in 1..Len(backlog) /\ backlog'[k] = backlog[k + 1]
    BY <1>2, <1>3
  <2>2. \A a, b \in 1..Len(backlog) : backlog[a] = backlog[b] => a = b
    BY <1>1 DEF Exact
  <2>3. j + 1 = k + 1
    BY <2>1, <2>2
  <2> QED BY <2>3
<1>14. PhaseInv'
  BY <1>1, <1>2, <1>3, <1>5 DEF PhaseInv, clientvars
<1>15. Exact'
  BY <1>9, <1>10, <1>12, <1>13, Zenon DEF Exact, client_index
<1> QED BY <1>1, <1>2, <1>3, <1>6, <1>7, <1>9, <1>14, <1>15 DEF client_index, c

\* a removal takes the current connection out of the table and nobody else
LEMMA Remove_Inv ==
  ASSUME TableInv, ~Stopped, start_index <= client_index, RemoveCurrent
  PROVE  /\ held' \in [Clients -> HeldState] /\ up' \in [Clients -> Seq(Line)]
         /\ client_fd' \in Seq(Clients)
         /\ UNCHANGED <<down, peer, backlog, listening, clientvars, fd, maxfd, ready, start_index>>
         /\ client_index' = client_index - 1 /\ client_index \in Nat
         /\ \A k \in 1..client_index' :
              client_fd'[k] = IF k < start_index THEN client_fd[k] ELSE client_fd[k + 1]
         /\ PhaseInv' /\ Exact'
<1> DEFINE c == Current
           n == client_index
<1>1. /\ start_index \in 1..n /\ n \in Nat /\ c \in Clients
      /\ held[c] = "open" /\ peer[c] # "idle"
  BY Current_Type
<1>2. /\ held \in [Clients -> HeldState] /\ up \in [Clients -> Seq(Line)]
      /\ client_fd \in Seq(Clients) /\ Exact /\ PhaseInv /\ n = Len(client_fd)
      /\ c = client_fd[start_index]
  BY DEF TableInv, TableTypeOK, client_index, Current
<1>3. /\ held' = [held EXCEPT ![c] = "closed"] /\ up' = [up EXCEPT ![c] = <<>>]
      /\ client_fd' = RemoveAt(client_fd, start_index)
      /\ UNCHANGED <<down, peer, backlog, listening, clientvars, fd, maxfd, ready, start_index>>
  BY DEF RemoveCurrent, CloseServerEnd, SameIndex
<1> HIDE DEF c, n
<1>4. /\ client_fd' \in Seq(Clients) /\ Len(client_fd') = n - 1
      /\ \A k \in 1..(n - 1) :
           client_fd'[k] = IF k < start_index THEN client_fd[k] ELSE client_fd[k + 1]
  BY <1>1, <1>2, <1>3, RemoveAtProperties
<1>5. held' \in [Clients -> HeldState] /\ up' \in [Clients -> Seq(Line)]
  BY <1>1, <1>2, <1>3, EmptySeq DEF HeldState
<1>6. \A j, k \in 1..n : client_fd[j] = client_fd[k] => j = k
  BY <1>2 DEF Exact, n
<1>7. \A d \in Clients : held[d] = "open" <=> \E k \in 1..n : client_fd[k] = d
  BY <1>2 DEF Exact, n
<1>8. \A d \in Clients : (\E k \in 1..(n - 1) : client_fd'[k] = d)
                          <=> d # c /\ \E k \in 1..n : client_fd[k] = d
  <2> SUFFICES ASSUME NEW d \in Clients
               PROVE  (\E k \in 1..(n - 1) : client_fd'[k] = d)
                        <=> d # c /\ \E k \in 1..n : client_fd[k] = d
    OBVIOUS
  <2>1. ASSUME NEW k \in 1..(n - 1), client_fd'[k] = d
        PROVE  d # c /\ \E m \in 1..n : client_fd[m] = d
    <3>1. PICK m \in 1..n : m # start_index /\ client_fd[m] = d
      <4>1. CASE k < start_index
        BY <1>1, <1>4, <2>1, <4>1
      <4>2. CASE ~(k < start_index)
        <5>1. k + 1 \in 1..n /\ k + 1 # start_index /\ client_fd[k + 1] = d
          BY <1>1, <1>4, <2>1, <4>2
        <5> QED BY <5>1
      <4> QED BY <4>1, <4>2
    <3> QED BY <1>1, <1>2, <1>6, <3>1
  <2>2. ASSUME d # c, NEW k \in 1..n, client_fd[k] = d
        PROVE  \E m \in 1..(n - 1) : client_fd'[m] = d
    <3>1. k # start_index
      BY <1>2, <2>2
    <3>2. CASE k < start_index
      BY <1>1, <1>4, <2>2, <3>2
    <3>3. CASE k > start_index
      <4>1. k - 1 \in 1..(n - 1) /\ client_fd'[k - 1] = d
        BY <1>1, <1>4, <2>2, <3>3
      <4> QED BY <4>1
    <3> QED BY <1>1, <3>1, <3>2, <3>3
  <2> QED BY <2>1, <2>2
<1>9. \A d \in Clients : held'[d] = "open" <=> \E k \in 1..Len(client_fd') : client_fd'[k] = d
  <2>1. \A d \in Clients : held'[d] = "open" <=> d # c /\ held[d] = "open"
    BY <1>1, <1>2, <1>3
  <2> QED BY <1>4, <1>7, <1>8, <2>1
<1>10. \A j, k \in 1..Len(client_fd') : client_fd'[j] = client_fd'[k] => j = k
  <2> SUFFICES ASSUME NEW j \in 1..(n - 1), NEW k \in 1..(n - 1), client_fd'[j] = client_fd'[k]
               PROVE  j = k
    BY <1>4
  <2> DEFINE old(m) == IF m < start_index THEN m ELSE m + 1
  <2>1. /\ old(j) \in 1..n /\ client_fd'[j] = client_fd[old(j)]
        /\ old(k) \in 1..n /\ client_fd'[k] = client_fd[old(k)]
    BY <1>1, <1>4
  <2>2. old(j) = old(k)
    BY <1>6, <2>1
  <2> QED BY <1>1, <2>2
<1>11. \A d \in Clients : (peer'[d] # "idle" /\ held'[d] = "none")
                           <=> \E k \in 1..Len(backlog') : backlog'[k] = d
  <2>1. \A d \in Clients : held'[d] = "none" <=> held[d] = "none"
    BY <1>1, <1>2, <1>3
  <2>2. \A d \in Clients : (peer[d] # "idle" /\ held[d] = "none")
                             <=> \E k \in 1..Len(backlog) : backlog[k] = d
    BY <1>2 DEF Exact
  <2> QED BY <1>3, <2>1, <2>2
<1>12. \A j, k \in 1..Len(backlog') : backlog'[j] = backlog'[k] => j = k
  <2>1. \A j, k \in 1..Len(backlog) : backlog[j] = backlog[k] => j = k
    BY <1>2 DEF Exact
  <2> QED BY <1>3, <2>1
<1>13. PhaseInv'
  BY <1>1, <1>2, <1>3 DEF PhaseInv, clientvars
<1>14. Exact'
  BY <1>9, <1>10, <1>11, <1>12, Zenon DEF Exact, client_index
<1> QED BY <1>1, <1>3, <1>4, <1>5, <1>13, <1>14 DEF n, client_index

\* the end of the process
LEMMA ServerEnds_Inv ==
  ASSUME TableInv, ServerEnds, UNCHANGED <<peer, clientvars>>
  PROVE  /\ held' \in [Clients -> HeldState] /\ up' \in [Clients -> Seq(Line)]
         /\ backlog' \in Seq(Clients) /\ listening' = FALSE
         /\ PhaseInv'
<1>1. held' \in [Clients -> HeldState] /\ backlog' \in Seq(Clients) /\ listening' = FALSE
  BY EmptySeq DEF ServerEnds, HeldState
<1>2. up' \in [Clients -> Seq(Line)]
  BY EmptySeq DEF ServerEnds
<1>3. PhaseInv'
  BY DEF ServerEnds, TableInv, PhaseInv, clientvars
<1> QED BY <1>1, <1>2, <1>3

\* a read() that returns data
LEMMA ReadData_Inv ==
  ASSUME up \in [Clients -> Seq(Line)], NEW c \in Clients,
         NEW n \in 1..Len(up[c]), ReadData(c, n)
  PROVE  /\ up' \in [Clients -> Seq(Line)] /\ SubSeq(up[c], 1, n) \in Seq(Line)
         /\ SubSeq(up[c], 1, n) # <<>> /\ up[c][1] \in Line
<1>1. up[c] \in Seq(Line) /\ 1 \in 1..Len(up[c])
  BY LenProperties
<1>2. SubSeq(up[c], n + 1, Len(up[c])) \in Seq(Line)
  BY <1>1, DropProperties
<1>3. SubSeq(up[c], 1, n) \in Seq(Line) /\ SubSeq(up[c], 1, n) # <<>>
  BY <1>1, DropProperties
<1>4. up[c][1] \in Line
  BY <1>1, ElementOfSeq
<1> QED BY <1>2, <1>3, <1>4 DEF ReadData

-----------------------------------------------------------------------------
(* What the invariant gives.                                               *)
LEMMA TableInv_Exact ==
  ASSUME TableInv
  PROVE  TableExact
<1> SUFFICES ASSUME ~Stopped PROVE TableExact
  BY DEF TableExact
<1>1. Table \subseteq Clients
  BY ElementOfSeq DEF TableInv, TableTypeOK, Table, client_index
<1>2. \A c \in Clients : c \in Table <=> held[c] = "open"
  BY DEF TableInv, Exact, Table
<1>3. \A j, k \in 1..client_index : client_fd[j] = client_fd[k] => j = k
  BY DEF TableInv, Exact
<1>4. pc # "joined" => client_index < MaxClients
  BY DEF TableInv, PcInv
<1> QED BY <1>1, <1>2, <1>3, <1>4 DEF TableExact

-----------------------------------------------------------------------------
(* ReadNeverBlocks.  It speaks of the connection the scan is at; what is   *)
(* inductive speaks of all those the scan has still to come to: none of    *)
(* them is at the slot being served, since the table has no duplicates,    *)
(* and only a read() of its own takes a connection's readiness away.       *)
ServedInv ==
  InScan =>
    \A k \in start_index..client_index :
      (k > start_index \/ pc = "scan") /\ client_fd[k] \in ready => Readable(client_fd[k])

\* what the scan has not come to yet and is in readfds can still be read (75, 98-100)
LEMMA ServedInv_ReadNeverBlocks ==
  ASSUME TableInv, ServedInv
  PROVE  ReadNeverBlocks
<1> SUFFICES ASSUME Scanning, Current \in ready PROVE Readable(Current)
  BY DEF ReadNeverBlocks
<1>1. start_index \in start_index..client_index /\ pc = "scan"
  BY Current_Type DEF Scanning
<1> QED BY <1>1 DEF ServedInv, InScan, Current

\* a step that serves the current connection, or moves on from it
LEMMA Served_Step ==
  ASSUME TableInv, ServedInv, InScan, ~Stopped, UNCHANGED <<client_fd, ready>>,
         \A c \in Clients \ {Current} : Readable(c) => Readable(c)',
         start_index' = start_index + 1 \/ (start_index' = start_index /\ pc' # "scan")
  PROVE  ServedInv'
<1> SUFFICES ASSUME NEW k \in start_index'..client_index',
                    k > start_index' \/ pc' = "scan", client_fd'[k] \in ready'
             PROVE  Readable(client_fd[k])'
  BY DEF ServedInv
<1>1. client_index' = client_index /\ client_index \in Nat /\ start_index \in Nat \ {0}
  BY LenProperties DEF client_index, TableInv, TableTypeOK
<1>2. k > start_index /\ k \in start_index..client_index /\ start_index \in 1..client_index
  BY <1>1
<1>3. client_fd[k] # Current
  BY <1>1, <1>2 DEF TableInv, Exact, Current
<1>4. client_fd[k] \in Clients
  BY <1>1, <1>2, ElementOfSeq DEF TableInv, TableTypeOK, client_index
<1>5. Readable(client_fd[k])
  BY <1>2 DEF ServedInv
<1>6. \A c \in Clients \ {Current} : Readable(c) => Readable(c)'
  OBVIOUS
<1>7. client_fd'[k] = client_fd[k]
  OBVIOUS
<1> QED BY <1>3, <1>4, <1>5, <1>6, <1>7 DEF Readable

\* a removal serves the current connection: those behind it are as they were (106-130)
LEMMA Served_Remove ==
  ASSUME TableInv, ServedInv, InScan, ~Stopped, start_index <= client_index, RemoveCurrent
  PROVE  ServedInv'
<1> SUFFICES ASSUME NEW k \in start_index'..client_index', client_fd'[k] \in ready'
             PROVE  Readable(client_fd[k])'
  BY DEF ServedInv
<1>1. /\ client_index' = client_index - 1 /\ client_index \in Nat
      /\ ready' = ready /\ start_index' = start_index /\ peer' = peer
      /\ start_index \in 1..client_index /\ Current \in Clients
      /\ \A j \in 1..client_index' :
           client_fd'[j] = IF j < start_index THEN client_fd[j] ELSE client_fd[j + 1]
  BY Remove_Inv, Current_Type
<1>2. /\ k + 1 \in start_index..client_index /\ k + 1 > start_index
      /\ k + 1 \in 1..client_index /\ client_fd'[k] = client_fd[k + 1]
  BY <1>1
<1>3. client_fd[k + 1] # Current
  BY <1>1, <1>2 DEF TableInv, Exact, Current
<1>4. client_fd[k + 1] \in Clients
  BY <1>2, ElementOfSeq DEF TableInv, TableTypeOK, client_index
<1>5. Readable(client_fd[k + 1])
  BY <1>1, <1>2 DEF ServedInv
<1>6. up' = [up EXCEPT ![Current] = <<>>]
  BY DEF RemoveCurrent, CloseServerEnd
<1>7. up'[client_fd[k + 1]] = up[client_fd[k + 1]]
  BY <1>1, <1>3, <1>4, <1>6 DEF TableInv, TableTypeOK
<1> QED BY <1>1, <1>2, <1>5, <1>7 DEF Readable

\* select() returns only connections that can be read (75)
LEMMA Served_Select ==
  ASSUME TableInv, Select
  PROVE  ServedInv'
<1> SUFFICES ASSUME NEW k \in start_index'..client_index', client_fd'[k] \in ready'
             PROVE  Readable(client_fd[k])'
  BY DEF ServedInv
<1>1. /\ up' = up /\ peer' = peer /\ client_fd' = client_fd
      /\ \A c \in ready' : Readable(c)
  BY DEF Select, netvars
<1> QED BY <1>1 DEF Readable

\* no client can take back what makes its connection readable (selet_client.c)
LEMMA Served_Outside ==
  ASSUME TableInv, ServedInv, Outside
  PROVE  ServedInv' /\ \A c \in Clients : Readable(c) => Readable(c)'
<1>1. UNCHANGED tablevars
  BY DEF Outside, tablevars
<1>2. \A c \in Clients : Readable(c) => Readable(c)'
  <2>1. ASSUME NEW c \in Clients, RstArrives(c)
        PROVE  \A d \in Clients : Readable(d) => Readable(d)'
    BY <2>1 DEF RstArrives, Readable, TableInv, TableTypeOK
  <2>2. ASSUME NEW c \in Clients, Connect(c)
        PROVE  \A d \in Clients : Readable(d) => Readable(d)'
    BY <2>2 DEF Connect, Establish, Readable, TableInv, TableTypeOK, PhaseInv
  <2>3. ASSUME NEW c \in Clients, SendLine(c) \/ SendQuit(c)
        PROVE  \A d \in Clients : Readable(d) => Readable(d)'
    <3>1. PICK m \in Line : SendUp(c, m)
      <4>1. SendLine(c) => <<c, sent[c] + 1>> \in Line
        BY MaxLinesAssumption DEF SendLine, MayType, Line, TableInv, TableTypeOK
      <4>2. <<c, 0>> \in Line
        BY MaxLinesAssumption DEF Line
      <4> QED BY <2>3, <4>1, <4>2 DEF SendLine, SendQuit
    <3>2. up[c] \in Seq(Line)
      BY DEF TableInv, TableTypeOK
    <3>3. Append(up[c], m) # <<>>
      BY <3>1, <3>2, AppendProperties
    <3>4. \A d \in Clients : up[d] # <<>> => up'[d] # <<>>
      BY <3>1, <3>3 DEF SendUp, TableInv, TableTypeOK
    <3>5. peer' = peer
      BY <2>3 DEF SendLine, SendQuit
    <3> QED BY <3>4, <3>5 DEF Readable
  <2>4. ASSUME NEW c \in Clients,
               SendFails(c) \/ EndOfInput(c) \/ Response(c) \/ ServerClosed(c)
        PROVE  \A d \in Clients : Readable(d) => Readable(d)'
    BY <2>4 DEF SendFails, EndOfInput, Response, ServerClosed, netvars, Readable
  <2>5. ASSUME NEW c \in Clients, CloseSocket(c) \/ Kill(c)
        PROVE  \A d \in Clients : Readable(d) => Readable(d)'
    <3>1. CloseClientEnd(c) /\ up' = up
      BY <2>5 DEF CloseSocket, Kill
    <3> QED BY <3>1, CloseClientEnd_Peer DEF Readable, TableInv, TableTypeOK
  <2> QED BY <2>1, <2>2, <2>3, <2>4, <2>5 DEF Outside, ClientNext, ClientStep
<1>3. ServedInv'
  <2> SUFFICES ASSUME NEW k \in start_index..client_index, InScan,
                      k > start_index \/ pc = "scan", client_fd[k] \in ready
               PROVE  Readable(client_fd[k])'
    BY <1>1 DEF ServedInv, tablevars, client_index, InScan
  <2>1. client_fd[k] \in Clients
    <3>1. k \in 1..Len(client_fd)
      BY LenProperties DEF TableInv, TableTypeOK, client_index
    <3> QED BY <3>1, ElementOfSeq DEF TableInv, TableTypeOK
  <2>2. Readable(client_fd[k])
    BY DEF ServedInv
  <2>3. client_fd' = client_fd
    BY <1>1 DEF tablevars
  <2> QED BY <1>2, <2>1, <2>2, <2>3 DEF Readable
<1> QED BY <1>2, <1>3

-----------------------------------------------------------------------------
(* NobodySkipped.                                                          *)

\* the scan's two ways to move on, to the next slot (97) and by a removal (112-116),
\* both take the current connection off its work list and nobody else
LEMMA Rest_Next ==
  ASSUME TableInv, InScan, start_index <= client_index,
         \/ client_fd' = client_fd /\ start_index' = start_index + 1
         \/ client_fd' = RemoveAt(client_fd, start_index) /\ start_index' = start_index
  PROVE  Rest' = Rest \ {Current}
<1> DEFINE n == client_index
<1>1. /\ n \in Nat /\ start_index \in 1..n /\ n = Len(client_fd)
      /\ client_fd \in Seq(Clients)
  <2>1. n \in Nat
    BY LenProperties DEF TableInv, TableTypeOK, client_index
  <2> QED BY <2>1 DEF TableInv, TableTypeOK, client_index
<1>2. \A j, k \in 1..n : client_fd[j] = client_fd[k] => j = k
  BY DEF TableInv, Exact, InScan, Stopped
<1>3. Rest = {client_fd[k] : k \in start_index..n} /\ Current = client_fd[start_index]
  BY DEF Rest, Current
<1>4. Rest' = {client_fd'[k] : k \in start_index'..client_index'} /\ client_index' = Len(client_fd')
  BY DEF Rest, client_index
<1>5. Rest \ {Current} = {client_fd[k] : k \in (start_index + 1)..n}
  <2> HIDE DEF n
  <2>1. \A k \in start_index..n : k \in 1..n
    BY <1>1
  <2>2. \A k \in start_index..n : client_fd[k] = Current <=> k = start_index
    BY <1>1, <1>2, <1>3, <2>1
  <2>3. \A k : k \in start_index..n /\ k # start_index <=> k \in (start_index + 1)..n
    BY <1>1
  <2> QED BY <1>3, <2>2, <2>3
<1>6. CASE client_fd' = client_fd /\ start_index' = start_index + 1
  BY <1>1, <1>4, <1>5, <1>6
<1>7. CASE client_fd' = RemoveAt(client_fd, start_index) /\ start_index' = start_index
  <2>1. /\ client_index' = n - 1
        /\ \A k \in 1..(n - 1) :
             client_fd'[k] = IF k < start_index THEN client_fd[k] ELSE client_fd[k + 1]
    BY <1>1, <1>4, <1>7, RemoveAtProperties
  <2> HIDE DEF n
  <2>2. \A k \in start_index..(n - 1) :
          k + 1 \in (start_index + 1)..n /\ client_fd'[k] = client_fd[k + 1]
    BY <1>1, <2>1
  <2>3. \A k \in (start_index + 1)..n :
          k - 1 \in start_index..(n - 1) /\ client_fd'[k - 1] = client_fd[k]
    <3> SUFFICES ASSUME NEW k \in (start_index + 1)..n
                 PROVE  k - 1 \in start_index..(n - 1) /\ client_fd'[k - 1] = client_fd[k]
      OBVIOUS
    <3>1. k - 1 \in start_index..(n - 1) /\ (k - 1) + 1 = k
      BY <1>1
    <3> QED BY <2>2, <3>1
  <2>4. Rest' = {client_fd'[k] : k \in start_index..(n - 1)}
    BY <1>4, <1>7, <2>1
  <2> QED BY <1>5, <2>2, <2>3, <2>4
<1> QED BY <1>6, <1>7
=============================================================================
