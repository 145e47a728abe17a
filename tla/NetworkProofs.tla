---------------------------- MODULE NetworkProofs ---------------------------
(***************************************************************************)
(* Proofs about the two servers that serve one request at a time: which    *)
(* answer a client of the UDP server shows and that none waits in vain     *)
(* but for a loss, and that a client of the iterative server gets its      *)
(* first line back and no other, for any number of clients, lines and      *)
(* faults of the network.                                                  *)
(***************************************************************************)
EXTENDS UdpEcho, LineServer, SequenceTheorems, TLAPS

-----------------------------------------------------------------------------
(* The UDP client.                                                         *)

Duplicated(c) == <<"duplicated", c>> \in faults

\* A client none of whose datagrams was duplicated has at most one on its way, in
\* either direction, while it waits: its last line or the answer to it
OneInFlight ==
  \A c \in UdpClients : ~Duplicated(c) =>
    /\ \A d \in net : d.client = c => udpclient[c] = "wait" /\ d.line = asked[c]
    /\ \A d, e \in net : d.client = c /\ e.client = c => d = e

UdpInv == UdpTypeOK /\ OneInFlight /\ AnswersInStep

LEMMA Udp_Init == UdpInit => UdpInv
  BY UdpAssumption DEF UdpInit, UdpInv, UdpTypeOK, OneInFlight, AnswersInStep, UdpLine, Garbage

\* What a receipt does to the network
LEMMA Udp_Exchange ==
  ASSUME UdpTypeOK, NEW d \in net, NEW S \in SUBSET Datagram, Exchange(d, S)
  PROVE  /\ net' \subseteq net \cup S /\ faults \subseteq faults' /\ faults' \subseteq Fault
         /\ net' = (net \ {d}) \cup S \/ Duplicated(d.client)'
<1>1. d.client \in UdpClients
  BY DEF UdpTypeOK, Datagram
<1> QED BY <1>1 DEF UdpTypeOK, Exchange, Blame, Fault, Duplicated

LEMMA Udp_Type == UdpTypeOK /\ [UdpNext]_udpvars => UdpTypeOK'
<1> SUFFICES ASSUME UdpTypeOK, [UdpNext]_udpvars PROVE UdpTypeOK'
  OBVIOUS
<1> USE UdpAssumption
<1>1. ASSUME NEW c \in UdpClients, TypeLine(c) \/ SendDatagram(c) PROVE UdpTypeOK'
  <2>1. CASE TypeLine(c)
    BY <2>1 DEF UdpTypeOK, TypeLine, UdpClientAt, UdpLine, Garbage
  <2>2. CASE SendDatagram(c)
    <3>1. To("server", c, text[c]) \in Datagram
      BY DEF UdpTypeOK, To, Datagram
    <3> QED BY <2>2, <3>1 DEF UdpTypeOK, SendDatagram, AfterSend, UdpClientAt
  <2> QED BY <1>1, <2>1, <2>2
<1>2. ASSUME NEW d \in net, Lose(d) \/ Answer(d) \/ ReceiveAnswer(d) PROVE UdpTypeOK'
  <2>1. d \in Datagram /\ d.client \in UdpClients /\ d.line \in UdpLine
    BY DEF UdpTypeOK, Datagram
  <2>2. CASE Lose(d)
    BY <2>1, <2>2 DEF UdpTypeOK, Lose, Blame, Fault
  <2>3. CASE Answer(d)
    <3>1. To("client", d.client, d.line) \in Datagram
      BY <2>1 DEF To, Datagram
    <3> QED BY <2>3, <3>1, Udp_Exchange DEF UdpTypeOK, Answer
  <2>4. CASE ReceiveAnswer(d)
    BY <2>1, <2>4, Udp_Exchange DEF UdpTypeOK, ReceiveAnswer, UdpClientAt, AfterAnswer
  <2> QED BY <1>2, <2>2, <2>3, <2>4
<1>3. CASE UNCHANGED udpvars
  BY <1>3 DEF UdpTypeOK, udpvars
<1> QED BY <1>1, <1>2, <1>3 DEF UdpNext

\* A client sends when it has nothing on its way
LEMMA Udp_Client ==
  ASSUME UdpInv, NEW c \in UdpClients, TypeLine(c) \/ SendDatagram(c)
  PROVE  OneInFlight' /\ AnswersInStep'
<1>1. CASE TypeLine(c)
  BY <1>1 DEF UdpInv, UdpTypeOK, OneInFlight, AnswersInStep, Duplicated, TypeLine, UdpClientAt
<1>2. CASE SendDatagram(c)
  <2>1. /\ udpclient[c] = "send" /\ udpclient' = [udpclient EXCEPT ![c] = "wait"]
        /\ net' = net \cup {To("server", c, text[c])}
        /\ asked' = [asked EXCEPT ![c] = text[c]] /\ UNCHANGED <<text, faults>>
    BY <1>2 DEF SendDatagram, AfterSend, UdpClientAt
  <2>2. To("server", c, text[c]).client = c /\ To("server", c, text[c]).line = text[c]
    BY DEF To
  <2>3. OneInFlight'
    BY <2>1, <2>2 DEF UdpInv, UdpTypeOK, OneInFlight, Duplicated
  <2>4. AnswersInStep'
    BY <2>1 DEF UdpInv, UdpTypeOK, AnswersInStep
  <2> QED BY <2>3, <2>4
<1> QED BY <1>1, <1>2

\* The network and the server pass on what there is, and the client takes it
LEMMA Udp_Network ==
  ASSUME UdpInv, NEW d \in net, Lose(d) \/ Answer(d) \/ ReceiveAnswer(d)
  PROVE  OneInFlight' /\ AnswersInStep'
<1>1. d \in Datagram /\ d.client \in UdpClients
  BY DEF UdpInv, UdpTypeOK, Datagram
<1>2. CASE Lose(d)
  BY <1>2 DEF UdpInv, OneInFlight, AnswersInStep, Duplicated, Lose, Blame
<1>3. CASE Answer(d)
  <2> DEFINE a == To("client", d.client, d.line)
  <2>1. a \in Datagram /\ a.client = d.client /\ a.line = d.line
    BY <1>1 DEF To, Datagram
  <2>2. /\ net' \subseteq net \cup {a} /\ faults \subseteq faults'
        /\ net' = (net \ {d}) \cup {a} \/ Duplicated(d.client)'
    BY <1>3, <2>1, Udp_Exchange DEF UdpInv, Answer
  <2>3. UNCHANGED <<udpclient, text, asked>>
    BY <1>3 DEF Answer
  <2> HIDE DEF a
  <2>4. OneInFlight'
    BY <2>1, <2>2, <2>3 DEF UdpInv, OneInFlight, Duplicated
  <2>5. AnswersInStep'
    BY <2>2, <2>3 DEF UdpInv, AnswersInStep
  <2> QED BY <2>4, <2>5
<1>4. CASE ReceiveAnswer(d)
  <2>1. /\ net' \subseteq net /\ faults \subseteq faults'
        /\ net' = net \ {d} \/ Duplicated(d.client)'
    BY <1>4, Udp_Exchange DEF UdpInv, ReceiveAnswer
  <2>2. /\ text' = [text EXCEPT ![d.client] = d.line] /\ UNCHANGED asked
        /\ udpclient[d.client] = "wait"
        /\ \A c \in UdpClients : c # d.client => udpclient'[c] = udpclient[c]
    BY <1>4 DEF UdpInv, UdpTypeOK, ReceiveAnswer, UdpClientAt
  <2>3. OneInFlight'
    BY <1>1, <2>1, <2>2 DEF UdpInv, OneInFlight, Duplicated
  <2>4. AnswersInStep'
    BY <1>1, <2>1, <2>2 DEF UdpInv, UdpTypeOK, OneInFlight, AnswersInStep, Duplicated
  <2> QED BY <2>3, <2>4
<1> QED BY <1>2, <1>3, <1>4

LEMMA Udp_Next == UdpInv /\ [UdpNext]_udpvars => UdpInv'
<1> SUFFICES ASSUME UdpInv, [UdpNext]_udpvars PROVE OneInFlight' /\ AnswersInStep'
  BY Udp_Type DEF UdpInv
<1>1. CASE UNCHANGED udpvars
  BY <1>1 DEF UdpInv, OneInFlight, AnswersInStep, Duplicated, udpvars
<1>2. CASE UdpNext
  BY <1>2, Udp_Client, Udp_Network DEF UdpNext
<1> QED BY <1>1, <1>2

\* For any number of clients and lines, the answer a client shows is to its last line,
\* whatever was lost and reordered, unless one of its own datagrams was duplicated:
\* udp_client.c:33-42.
THEOREM UdpAnswersInStep == UdpSpec => []AnswersInStep
<1>1. UdpInv => AnswersInStep
  BY DEF UdpInv
<1> QED BY <1>1, Udp_Init, Udp_Next, PTL DEF UdpSpec

\* While a UDP client waits (udp_client.c:39), its line or an answer is on its way,
\* unless the network has lost a datagram of its own.
OnItsWay ==
  \A c \in UdpClients : udpclient[c] = "wait" =>
    <<"lost", c>> \in faults \/ \E d \in net : d.client = c
THEOREM UdpOnItsWay == UdpSpec => []OnItsWay
<1>1. UdpInit => UdpTypeOK /\ OnItsWay
  BY Udp_Init DEF UdpInv, UdpInit, OnItsWay
<1>2. UdpTypeOK /\ OnItsWay /\ [UdpNext]_udpvars => (UdpTypeOK /\ OnItsWay)'
  <2> SUFFICES ASSUME UdpTypeOK, OnItsWay, [UdpNext]_udpvars PROVE OnItsWay'
    BY Udp_Type
  <2>1. ASSUME NEW c \in UdpClients, TypeLine(c) PROVE OnItsWay'
    BY <2>1 DEF TypeLine, UdpClientAt, OnItsWay, UdpTypeOK
  <2>2. ASSUME NEW c \in UdpClients, SendDatagram(c) PROVE OnItsWay'
    <3>1. To("server", c, text[c]).client = c
      BY DEF To
    <3> QED BY <2>2, <3>1 DEF SendDatagram, UdpClientAt, OnItsWay, UdpTypeOK
  <2>3. ASSUME NEW d \in net, Lose(d) PROVE OnItsWay'
    BY <2>3 DEF Lose, Blame, OnItsWay
  <2>4. ASSUME NEW d \in net, Answer(d) PROVE OnItsWay'
    <3>1. To("client", d.client, d.line).client = d.client
      BY DEF To
    <3> QED BY <2>4, <3>1 DEF Answer, Exchange, Blame, OnItsWay
  <2>5. ASSUME NEW d \in net, ReceiveAnswer(d) PROVE OnItsWay'
    BY <2>5 DEF ReceiveAnswer, UdpClientAt, AfterAnswer, Exchange, Blame, OnItsWay, UdpTypeOK
  <2>6. ASSUME UNCHANGED udpvars PROVE OnItsWay'
    BY <2>6 DEF udpvars, OnItsWay
  <2> QED BY <2>1, <2>2, <2>3, <2>4, <2>5, <2>6 DEF UdpNext
<1> QED BY <1>1, <1>2, PTL DEF UdpSpec

-----------------------------------------------------------------------------
(* The iterative server.                                                   *)

First(c)      == {<<c, 0>>, <<c, 1>>}
Answered(c)   == {<<m>> : m \in First(c)}
Busy          == tcpd \in {"read", "write", "close"}
Unanswered(c) == held[c] = "none" \/ (held[c] = "open" /\ tcpd \in {"read", "write"})
\* whose turn is over, or will be without an answer
Passed(c) ==
  \/ held[c] = "closed" /\ tcpd # "over"
  \/ csock = c /\ (tcpd = "close" \/ (tcpd = "write" /\ ~got))

\* The server has one connection at a time, the one it has accepted last; who is in
\* its backlog is new to it
SocketInv ==
  /\ Busy => csock \in Clients /\ held[csock] = "open"
  /\ \A c \in Clients : held[c] = "open" => Busy /\ csock = c
  /\ listening <=> tcpd # "over"
  /\ tcpd = "over" => backlog = <<>>
  /\ \A k \in 1..Len(backlog) : held[backlog[k]] = "none" /\ peer[backlog[k]] # "idle"
  /\ \A j, k \in 1..Len(backlog) : backlog[j] = backlog[k] => j = k

\* Where a client is agrees with what the kernels know of its connection
EndsInv(c) ==
  /\ tcp[c] = "connect" => peer[c] = "idle"
  /\ peer[c] = "idle" => /\ held[c] = "none" /\ tcp[c] \in {"connect", "failed"}
                         /\ up[c] = <<>> /\ lines[c] = 0
  /\ tcp[c] \in {"prompt", "shutdown", "wait", "close"} => peer[c] = "open"
  /\ tcp[c] = "failed" => shown[c] # <<>> \/ tcpd = "over"

\* Before its turn a client has nothing to read, and has sent its first line only
TurnInv(c) ==
  Unanswered(c) =>
    /\ down[c] = <<>> /\ shown[c] = <<>> /\ peer[c] \in {"idle", "open", "fin"}
    /\ \A k \in 1..Len(up[c]) : up[c][k] \in First(c)
    /\ tcp[c] = "prompt" => lines[c] = 0

\* There is one answer, the first line, on its way or received; a client that lives
\* is not passed without one
AnswerInv(c) ==
  /\ down[c] # <<>> => down[c] \in Answered(c) /\ shown[c] = <<>>
  /\ shown[c] # <<>> => shown[c] \in Answered(c)
  /\ Passed(c) /\ down[c] = <<>> /\ shown[c] = <<>> => peer[c] # "open"
  /\ csock = c /\ tcpd = "write" /\ got => mesg \in First(c)

LineInv ==
  LineTypeOK /\ SocketInv /\ \A c \in Clients : EndsInv(c) /\ TurnInv(c) /\ AnswerInv(c)

Same(c) ==
  /\ up'[c] = up[c] /\ down'[c] = down[c] /\ peer'[c] = peer[c] /\ held'[c] = held[c]
  /\ tcp'[c] = tcp[c] /\ lines'[c] = lines[c] /\ shown'[c] = shown[c]
servervars == <<tcpd, csock, got, mesg>>

ClientInv(c) == EndsInv(c) /\ TurnInv(c) /\ AnswerInv(c)

LEMMA Line_Init == LineInit => LineInv
<1> SUFFICES ASSUME LineInit PROVE LineInv
  OBVIOUS
<1>1. Len(<<>>) = 0 /\ <<>> \in Seq(TcpLine) /\ <<>> \in Seq(Clients) /\ 0 \in 0..TcpLines
  BY EmptySeq, TcpAssumption
<1>2. LineTypeOK
  BY <1>1 DEF LineInit, NetInit, LineTypeOK, PeerState, HeldState, Gone
<1>3. SocketInv
  BY <1>1 DEF LineInit, NetInit, SocketInv, Busy
<1>4. ASSUME NEW c \in Clients PROVE EndsInv(c) /\ TurnInv(c) /\ AnswerInv(c)
  BY <1>1 DEF LineInit, NetInit, EndsInv, TurnInv, AnswerInv, Passed
<1> QED BY <1>2, <1>3, <1>4 DEF LineInv

LEMMA Line_FirstLineOnly == LineInv => FirstLineOnly
<1> SUFFICES ASSUME LineInv PROVE FirstLineOnly
  OBVIOUS
<1>1. ASSUME NEW c \in Clients
      PROVE  /\ shown[c] \in {<<>>, <<<<c, 0>>>>, <<<<c, 1>>>>}
             /\ tcp[c] = "failed" => shown[c] # <<>> \/ tcpd = "over"
  BY DEF LineInv, EndsInv, AnswerInv, Answered, First
<1>2. tcpd = "write" => ~Fatal(csock)
  <2> SUFFICES ASSUME tcpd = "write" PROVE ~Fatal(csock)
    OBVIOUS
  <2>1. csock \in Clients /\ Unanswered(csock)
    BY DEF LineInv, SocketInv, Busy, Unanswered
  <2> QED BY <2>1 DEF LineInv, TurnInv, Fatal
<1> QED BY <1>1, <1>2 DEF FirstLineOnly

\* A client whose entries do not change, in a step of another client, and in a step
\* of the server that is not at its connection
LEMMA Line_Same ==
  ASSUME LineInv, UNCHANGED servervars, NEW d \in Clients, Same(d)
  PROVE  ClientInv(d)'
BY DEF LineInv, servervars, Same, ClientInv, EndsInv, TurnInv, AnswerInv, Unanswered, Passed

LEMMA Line_Passes ==
  ASSUME LineInv, NEW d \in Clients, Same(d), held[d] # "open", tcpd # "over", tcpd' # "over",
         csock' = d => tcpd' \notin {"write", "close"}
  PROVE  ClientInv(d)'
BY DEF LineInv, Same, ClientInv, EndsInv, TurnInv, AnswerInv, Unanswered, Passed

\* The sockets in a step of a client
LEMMA Line_Socket ==
  ASSUME LineInv, UNCHANGED <<servervars, held, listening, backlog>>,
         \A d \in Clients : peer'[d] = "idle" => peer[d] = "idle"
  PROVE  SocketInv'
<1>1. backlog \in Seq(Clients) /\ SocketInv
  BY DEF LineInv, LineTypeOK
<1>2. \A k \in 1..Len(backlog) : backlog[k] \in Clients
  BY <1>1, ElementOfSeq
<1> QED BY <1>1, <1>2 DEF SocketInv, Busy, servervars

\* accept() (tcp_server.c:41)
LEMMA Line_Accept ==
  ASSUME LineInv, AcceptNext
  PROVE  LineInv'
<1>1. PICK n \in Nat : n = Len(backlog)
  BY LenProperties DEF LineInv, LineTypeOK
<1>2. PICK h \in Clients :
        /\ h = backlog[1] /\ n >= 1 /\ backlog' = Tail(backlog) /\ csock' = h
        /\ held' = [held EXCEPT ![h] = "open"]
        /\ Tail(backlog) \in Seq(Clients) /\ Len(backlog') = n - 1
        /\ \A k \in 1..(n - 1) : backlog'[k] = backlog[k + 1]
  <2>1. backlog \in Seq(Clients) /\ backlog # <<>>
    BY DEF LineInv, LineTypeOK, AcceptNext
  <2>2. n >= 1 /\ Head(backlog) = backlog[1] /\ backlog[1] \in Clients
    BY <1>1, <2>1, EmptySeq, ElementOfSeq
  <2>3. /\ Tail(backlog) \in Seq(Clients) /\ Len(Tail(backlog)) = n - 1
        /\ \A k \in 1..(n - 1) : Tail(backlog)[k] = backlog[k + 1]
    BY <1>1, <2>1, HeadTailProperties
  <2> QED BY <2>2, <2>3 DEF AcceptNext
<1>3. /\ tcpd = "accept" /\ tcpd' = "read" /\ mesg' = Address
      /\ UNCHANGED <<up, down, peer, listening, kind, got, tcp, lines, shown>>
      /\ LineTypeOK /\ SocketInv
  BY DEF AcceptNext, TcpdAt, LineInv
<1>4. held[h] = "none" /\ peer[h] # "idle" /\ \A k \in 2..n : backlog[k] # h
  BY <1>1, <1>2, <1>3 DEF SocketInv
<1>5. LineTypeOK'
  BY <1>2, <1>3 DEF LineTypeOK, HeldState
<1>6. \A d \in Clients : held[d] # "open" /\ (d # h => held'[d] = held[d]) /\ held'[h] = "open"
  BY <1>2, <1>3 DEF LineTypeOK, SocketInv, Busy
<1>7. SocketInv'
  <2>1. \A k \in 1..(n - 1) : k + 1 \in 1..n /\ k + 1 \in 2..n /\ backlog'[k] \in Clients
    <3>1. \A k \in 1..n : backlog[k] \in Clients
      BY <1>1, <1>3, ElementOfSeq DEF LineTypeOK
    <3> QED BY <1>2, <3>1
  <2>2. \A k \in 1..(n - 1) : held'[backlog'[k]] = "none" /\ peer'[backlog'[k]] # "idle"
    <3> SUFFICES ASSUME NEW k \in 1..(n - 1)
                 PROVE  held'[backlog'[k]] = "none" /\ peer'[backlog'[k]] # "idle"
      OBVIOUS
    <3>1. PICK e \in Clients : e = backlog'[k] /\ e = backlog[k + 1] /\ k + 1 \in 1..n /\ e # h
      BY <1>2, <1>4, <2>1
    <3>2. held[e] = "none" /\ peer[e] # "idle"
      BY <1>1, <1>3, <3>1 DEF SocketInv
    <3> QED BY <1>3, <1>6, <3>1, <3>2
  <2>3. \A j, k \in 1..(n - 1) : backlog'[j] = backlog'[k] => j = k
    <3> SUFFICES ASSUME NEW j \in 1..(n - 1), NEW k \in 1..(n - 1), backlog'[j] = backlog'[k]
                 PROVE  j = k
      OBVIOUS
    <3>1. backlog[j + 1] = backlog[k + 1] /\ j + 1 \in 1..n /\ k + 1 \in 1..n
      BY <1>2, <2>1
    <3>2. j + 1 = k + 1
      BY <1>1, <1>3, <3>1 DEF SocketInv
    <3> QED BY <3>2
  <2>4. \A d \in Clients : held'[d] = "open" => d = h
    BY <1>6
  <2> QED BY <1>2, <1>3, <1>6, <2>2, <2>3, <2>4 DEF SocketInv, Busy
<1>8. ASSUME NEW d \in Clients, d # h PROVE ClientInv(d)'
  <2>1. Same(d)
    BY <1>3, <1>6, <1>8 DEF Same
  <2> QED BY <1>2, <1>3, <1>6, <1>8, <2>1, Line_Passes
<1>9. ClientInv(h)'
  BY <1>2, <1>3, <1>4, <1>6
     DEF LineInv, ClientInv, EndsInv, TurnInv, AnswerInv, Unanswered, Passed
<1> QED BY <1>5, <1>7, <1>8, <1>9 DEF LineInv, ClientInv

\* read() (tcp_server.c:47): the first line, or the end of who has ended without one
LEMMA Line_Read ==
  ASSUME LineInv, ReadLine \/ ReadNothing
  PROVE  LineInv'
<1>1. PICK c \in Clients : c = csock
  BY DEF LineInv, SocketInv, Busy, ReadLine, ReadNothing, TcpdAt
<1>2. /\ tcpd = "read" /\ tcpd' = "write" /\ LineTypeOK /\ SocketInv /\ held[c] = "open"
      /\ UNCHANGED <<down, peer, held, backlog, listening, kind, csock, tcp, lines, shown>>
  BY <1>1 DEF LineInv, SocketInv, Busy, ReadLine, ReadNothing, TcpdAt, netvars
<1>3. Unanswered(c) /\ up[c] \in Seq(TcpLine)
  BY <1>2 DEF Unanswered, LineTypeOK
<1>4. SocketInv'
  BY <1>1, <1>2 DEF SocketInv, Busy
<1>5. ASSUME NEW d \in Clients, d # c, up'[d] = up[d] PROVE ClientInv(d)'
  <2>1. Same(d) /\ held[d] # "open"
    BY <1>1, <1>2, <1>5 DEF Same, SocketInv
  <2> QED BY <1>1, <1>2, <1>5, <2>1, Line_Passes
<1>6. CASE ReadLine
  <2>1. PICK n \in 1..Len(up[c]) :
          /\ up' = [up EXCEPT ![c] = SubSeq(@, n + 1, Len(@))]
          /\ mesg' = up[c][1] /\ got' = TRUE
    BY <1>1, <1>6 DEF ReadLine, ReadData
  <2>2. PICK l \in Nat : l = Len(up[c]) /\ 1 <= n /\ n <= l
    BY <1>3, <2>1, LenProperties
  <2>3. /\ SubSeq(up[c], n + 1, l) \in Seq(TcpLine)
        /\ \A k \in 1..Len(SubSeq(up[c], n + 1, l)) :
             \E e \in 1..l : SubSeq(up[c], n + 1, l)[k] = up[c][e]
    <3>1. n + 1 \in Int /\ l \in Int /\ \A k \in (n + 1)..l : up[c][k] \in TcpLine
      BY <1>3, <2>2, ElementOfSeq
    <3> DEFINE u == SubSeq(up[c], n + 1, l)
    <3>2. /\ u \in Seq(TcpLine) /\ Len(u) = IF n + 1 <= l THEN l - (n + 1) + 1 ELSE 0
          /\ \A k \in 1..(l - (n + 1) + 1) : u[k] = up[c][n + 1 + k - 1]
      BY <3>1, SubSeqProperties
    <3> HIDE DEF u
    <3>3. Len(u) = l - n
      BY <2>2, <3>2
    <3>4. \A k \in 1..(l - n) : n + 1 + k - 1 \in 1..l /\ k \in 1..(l - (n + 1) + 1)
      BY <2>2
    <3>5. \A k \in 1..Len(u) : \E e \in 1..l : u[k] = up[c][e]
      BY <3>2, <3>3, <3>4
    <3> QED BY <3>2, <3>5 DEF u
  <2>4. /\ up' \in [Clients -> Seq(TcpLine)]
        /\ \A d \in Clients : d # c => up'[d] = up[d]
        /\ up'[c] = SubSeq(up[c], n + 1, l)
    BY <1>2, <2>1, <2>2, <2>3 DEF LineTypeOK
  <2>5. \A k \in 1..l : up[c][k] \in First(c)
    BY <1>3, <2>2 DEF LineInv, TurnInv
  <2>6. mesg' \in First(c) /\ mesg' \in TcpLine
    <3>1. 1 \in 1..l
      BY <2>2
    <3> QED BY <1>3, <2>1, <2>2, <2>5, <3>1, ElementOfSeq
  <2>7. LineTypeOK'
    BY <1>2, <2>1, <2>4, <2>6 DEF LineTypeOK
  <2>8. \A k \in 1..Len(up'[c]) : up'[c][k] \in First(c)
    BY <2>3, <2>4, <2>5
  <2>9. EndsInv(c)'
    <3>1. peer[c] # "idle"
      BY <1>2 DEF LineInv, EndsInv
    <3> QED BY <1>2, <3>1 DEF LineInv, EndsInv
  <2>10. TurnInv(c)'
    BY <1>2, <1>3, <2>8 DEF LineInv, TurnInv
  <2>11. AnswerInv(c)'
    BY <1>1, <1>2, <2>1, <2>6 DEF LineInv, AnswerInv, Passed
  <2> QED BY <1>4, <1>5, <2>4, <2>7, <2>9, <2>10, <2>11 DEF LineInv, ClientInv
<1>7. CASE ReadNothing
  <2>1. up' = up /\ mesg' = mesg /\ got' = FALSE /\ peer[c] # "open"
    BY <1>1, <1>7 DEF ReadNothing, ReadEnd, netvars
  <2>2. LineTypeOK'
    BY <1>2, <2>1 DEF LineTypeOK
  <2>3. EndsInv(c)' /\ TurnInv(c)' /\ AnswerInv(c)'
    BY <1>1, <1>2, <1>3, <2>1 DEF LineInv, EndsInv, TurnInv, Unanswered, AnswerInv, Passed
  <2> QED BY <1>4, <1>5, <2>1, <2>2, <2>3 DEF LineInv, ClientInv
<1> QED BY <1>6, <1>7

\* write() (tcp_server.c:54): what it has in mesg is the answer
LEMMA Line_Write ==
  ASSUME LineInv, WriteLine
  PROVE  LineInv'
<1>1. PICK c \in Clients : c = csock
  BY DEF LineInv, SocketInv, Busy, WriteLine, TcpdAt
<1>2. /\ tcpd = "write" /\ tcpd' = "close" /\ LineTypeOK /\ SocketInv /\ held[c] = "open"
      /\ UNCHANGED <<up, held, backlog, listening, kind, csock, got, mesg, tcp, lines, shown>>
  BY <1>1 DEF LineInv, SocketInv, Busy, WriteLine, TcpdAt, AfterWrite
<1>3. /\ Unanswered(c) /\ down[c] = <<>> /\ shown[c] = <<>> /\ down[c] \in Seq(TcpLine)
      /\ peer[c] \in {"idle", "open", "fin"} /\ peer[c] # "idle"
  BY <1>2 DEF Unanswered, LineInv, TurnInv, EndsInv, LineTypeOK
<1>4. /\ down' \in [Clients -> Seq(TcpLine)] /\ peer' \in [Clients -> PeerState]
      /\ \A d \in Clients : d # c => down'[d] = down[d] /\ peer'[d] = peer[d]
      /\ (peer'[c] = "open" <=> peer[c] = "open") /\ peer'[c] # "idle"
      /\ down'[c] = <<>> => peer'[c] # "open"
      /\ down'[c] # <<>> => down'[c] \in Answered(c)
  <2>1. CASE got
    <3>1. mesg \in First(c) /\ mesg \in TcpLine
      <4>1. mesg \in First(c)
        BY <1>1, <1>2, <2>1 DEF LineInv, AnswerInv
      <4>2. 0 \in 0..TcpLines /\ 1 \in 0..TcpLines
        BY TcpAssumption
      <4> QED BY <4>1, <4>2 DEF First, TcpLine
    <3>2. Append(down[c], mesg) = <<mesg>> /\ <<mesg>> \in Seq(TcpLine)
      BY <1>3, <3>1
    <3>3. /\ down' = [down EXCEPT ![c] = IF peer[c] = "open" THEN <<mesg>> ELSE down[c]]
          /\ peer' = [peer EXCEPT ![c] = IF peer[c] = "fin" THEN "finrst" ELSE peer[c]]
      BY <1>1, <1>3, <2>1, <3>2 DEF WriteLine, Write
    <3> QED BY <1>2, <1>3, <3>1, <3>2, <3>3 DEF LineTypeOK, PeerState, Answered
  <2>2. CASE ~got
    <3>1. down' = down /\ peer' = peer
      BY <2>2 DEF WriteLine
    <3>2. peer[c] # "open"
      BY <1>1, <1>2, <1>3, <2>2 DEF LineInv, AnswerInv, Passed
    <3> QED BY <1>2, <1>3, <3>1, <3>2 DEF LineTypeOK
  <2> QED BY <2>1, <2>2
<1>5. LineTypeOK'
  BY <1>2, <1>4 DEF LineTypeOK
<1>6. SocketInv'
  <2>1. \A d \in Clients : peer'[d] = "idle" => peer[d] = "idle"
    BY <1>4
  <2>2. \A k \in 1..Len(backlog) : backlog[k] \in Clients
    BY <1>2, ElementOfSeq DEF LineTypeOK
  <2> QED BY <1>1, <1>2, <2>1, <2>2 DEF SocketInv, Busy
<1>7. ASSUME NEW d \in Clients, d # c PROVE ClientInv(d)'
  <2>1. Same(d) /\ held[d] # "open"
    BY <1>1, <1>2, <1>4, <1>7 DEF Same, SocketInv
  <2> QED BY <1>1, <1>2, <1>7, <2>1, Line_Passes
<1>8. ClientInv(c)'
  <2>1. EndsInv(c)'
    BY <1>2, <1>3, <1>4 DEF LineInv, EndsInv
  <2>2. TurnInv(c)'
    BY <1>2 DEF TurnInv, Unanswered
  <2>3. AnswerInv(c)'
    BY <1>2, <1>3, <1>4 DEF AnswerInv
  <2> QED BY <2>1, <2>2, <2>3 DEF ClientInv
<1> QED BY <1>5, <1>6, <1>7, <1>8 DEF LineInv, ClientInv

\* close() (tcp_server.c:57), after which nothing of this client is read any more
LEMMA Line_Close ==
  ASSUME LineInv, CloseLine
  PROVE  LineInv'
<1>1. PICK c \in Clients : c = csock
  BY DEF LineInv, SocketInv, Busy, CloseLine, TcpdAt
<1>2. /\ tcpd = "close" /\ tcpd' \in {"exit", "accept"} /\ LineTypeOK /\ SocketInv
      /\ held[c] = "open"
      /\ UNCHANGED <<down, peer, backlog, listening, kind, csock, got, mesg, tcp, lines, shown>>
      /\ held' = [held EXCEPT ![c] = "closed"] /\ up' = [up EXCEPT ![c] = <<>>]
  BY <1>1 DEF LineInv, SocketInv, Busy, CloseLine, TcpdAt, CloseServerEnd
<1>3. /\ \A d \in Clients : d # c => held'[d] = held[d] /\ up'[d] = up[d] /\ held[d] # "open"
      /\ held'[c] = "closed"
  BY <1>1, <1>2 DEF LineTypeOK, SocketInv
<1>4. LineTypeOK'
  <2>1. <<>> \in Seq(TcpLine)
    BY EmptySeq
  <2>2. up' \in [Clients -> Seq(TcpLine)] /\ held' \in [Clients -> HeldState]
    BY <1>2, <2>1 DEF LineTypeOK, HeldState
  <2> QED BY <1>2, <2>2 DEF LineTypeOK
<1>5. SocketInv'
  <2>1. \A k \in 1..Len(backlog) : backlog[k] \in Clients
    BY <1>2, ElementOfSeq DEF LineTypeOK
  <2> QED BY <1>2, <1>3, <2>1 DEF SocketInv, Busy
<1>6. ASSUME NEW d \in Clients, d # c PROVE ClientInv(d)'
  <2>1. Same(d) /\ held[d] # "open"
    BY <1>2, <1>3, <1>6 DEF Same
  <2> QED BY <1>1, <1>2, <1>6, <2>1, Line_Passes
<1>7. ClientInv(c)'
  <2>1. EndsInv(c)'
    BY <1>2, <1>3 DEF LineInv, EndsInv
  <2>2. TurnInv(c)'
    BY <1>3 DEF TurnInv, Unanswered
  <2>3. AnswerInv(c)'
    BY <1>1, <1>2, <1>3 DEF LineInv, AnswerInv, Passed
  <2> QED BY <2>1, <2>2, <2>3 DEF ClientInv
<1> QED BY <1>4, <1>5, <1>6, <1>7 DEF LineInv, ClientInv

\* the end of main() (tcp_server.c:60): who is in the backlog is reset
LEMMA Line_Exits ==
  ASSUME LineInv, ServerExits
  PROVE  LineInv'
<1>1. /\ tcpd = "exit" /\ tcpd' = "over" /\ LineTypeOK /\ SocketInv /\ backlog' = <<>>
      /\ UNCHANGED <<down, peer, kind, csock, got, mesg, tcp, lines, shown>>
      /\ held' = [c \in Clients |-> IF peer[c] = "idle" THEN "none" ELSE "closed"]
      /\ up' = [c \in Clients |-> <<>>] /\ listening' = FALSE
  BY DEF LineInv, ServerExits, ServerEnds, TcpdAt
<1>2. Len(<<>>) = 0 /\ <<>> \in Seq(TcpLine) /\ <<>> \in Seq(Clients)
  BY EmptySeq
<1>3. LineTypeOK'
  <2>1. up' \in [Clients -> Seq(TcpLine)] /\ held' \in [Clients -> HeldState]
    BY <1>1, <1>2 DEF LineTypeOK, HeldState
  <2> QED BY <1>1, <1>2, <2>1 DEF LineTypeOK
<1>4. SocketInv'
  BY <1>1, <1>2 DEF SocketInv, Busy
<1>5. ASSUME NEW c \in Clients PROVE ClientInv(c)'
  <2>1. /\ up'[c] = <<>> /\ held'[c] = IF peer[c] = "idle" THEN "none" ELSE "closed"
        /\ held[c] # "open"
    BY <1>1 DEF SocketInv, Busy
  <2>2. EndsInv(c)'
    BY <1>1, <2>1 DEF LineInv, EndsInv
  <2>3. TurnInv(c)'
    BY <1>1, <1>2, <2>1 DEF LineInv, EndsInv, TurnInv, Unanswered
  <2>4. AnswerInv(c)'
    BY <1>1 DEF LineInv, AnswerInv, Passed
  <2> QED BY <2>2, <2>3, <2>4 DEF ClientInv
<1> QED BY <1>3, <1>4, <1>5 DEF LineInv, ClientInv

\* a failed accept() before the first client (tcp_server.c:42-45)
LEMMA Line_AcceptFails ==
  ASSUME LineInv, AcceptFails
  PROVE  LineInv'
<1>1. /\ tcpd = "accept" /\ tcpd' = "exit" /\ LineTypeOK /\ SocketInv
      /\ UNCHANGED <<up, down, peer, held, backlog, listening, kind, csock, got, mesg,
                    tcp, lines, shown>>
  BY DEF LineInv, AcceptFails, TcpdAt, netvars
<1>2. LineTypeOK' /\ SocketInv'
  BY <1>1 DEF LineTypeOK, SocketInv, Busy
<1>3. ASSUME NEW c \in Clients PROVE ClientInv(c)'
  <2>1. Same(c) /\ held[c] # "open"
    BY <1>1 DEF Same, SocketInv, Busy
  <2> QED BY <1>1, <2>1, Line_Passes
<1> QED BY <1>2, <1>3 DEF LineInv, ClientInv

\* a step of c, for everything but what it does at its own connection
LEMMA Line_Client ==
  ASSUME LineInv, NEW c \in Clients, LineTypeOK', ClientInv(c)',
         UNCHANGED <<servervars, held, listening, backlog>>,
         peer'[c] = "idle" => peer[c] = "idle",
         \A d \in Clients : d # c => Same(d)
  PROVE  LineInv'
<1>1. \A d \in Clients : peer'[d] = "idle" => peer[d] = "idle"
  BY DEF Same
<1>2. SocketInv'
  BY <1>1, Line_Socket
<1>3. ASSUME NEW d \in Clients, d # c PROVE ClientInv(d)'
  BY <1>3, Line_Same
<1> QED BY <1>2, <1>3 DEF LineInv, ClientInv

\* connect() (tcp_client.c:37, tcp_shutdown.c:37)
LEMMA Line_Connect ==
  ASSUME LineInv, NEW c \in Clients, ConnectTcp(c)
  PROVE  LineInv'
<1>1. /\ tcp[c] = "connect" /\ peer[c] = "idle" /\ held[c] = "none" /\ up[c] = <<>>
      /\ down[c] = <<>> /\ shown[c] = <<>> /\ lines[c] = 0
      /\ UNCHANGED <<up, down, held, listening, kind, servervars, lines, shown>>
      /\ LineTypeOK /\ SocketInv
  BY DEF LineInv, EndsInv, TurnInv, Unanswered, ConnectTcp, TcpAt, servervars
<1>2. CASE ~listening
  <2>1. /\ peer' = peer /\ backlog' = backlog /\ tcp' = [tcp EXCEPT ![c] = "failed"]
        /\ tcpd = "over"
    BY <1>1, <1>2 DEF ConnectTcp, TcpAt, SocketInv
  <2>2. /\ tcp' \in [Clients -> {"connect", "prompt", "shutdown", "wait", "close"} \cup Gone]
        /\ tcp'[c] = "failed" /\ \A d \in Clients : d # c => tcp'[d] = tcp[d]
    BY <1>1, <2>1 DEF LineTypeOK, Gone
  <2>3. LineTypeOK'
    BY <1>1, <2>1, <2>2 DEF LineTypeOK, servervars
  <2>4. ClientInv(c)'
    BY <1>1, <2>1, <2>2
       DEF LineInv, ClientInv, EndsInv, TurnInv, Unanswered, AnswerInv, Passed, servervars
  <2> QED BY <1>1, <2>1, <2>2, <2>3, <2>4, Line_Client DEF Same
<1>3. CASE listening
  <2>1. /\ peer' = [peer EXCEPT ![c] = "open"] /\ backlog' = Append(backlog, c)
        /\ tcp' = [tcp EXCEPT ![c] = "prompt"] /\ tcpd # "over"
    BY <1>1, <1>3 DEF ConnectTcp, TcpAt, Establish, SocketInv
  <2>2. /\ tcp' \in [Clients -> {"connect", "prompt", "shutdown", "wait", "close"} \cup Gone]
        /\ peer' \in [Clients -> PeerState] /\ tcp'[c] = "prompt" /\ peer'[c] = "open"
        /\ \A d \in Clients : d # c => tcp'[d] = tcp[d] /\ peer'[d] = peer[d]
    BY <1>1, <2>1 DEF LineTypeOK, PeerState
  <2>3. PICK n \in Nat : n = Len(backlog)
    BY <1>1, LenProperties DEF LineTypeOK
  <2>4. /\ backlog' \in Seq(Clients) /\ Len(backlog') = n + 1 /\ backlog'[n + 1] = c
        /\ \A k \in 1..n : backlog'[k] = backlog[k] /\ backlog[k] \in Clients
    <3>1. backlog \in Seq(Clients)
      BY <1>1 DEF LineTypeOK
    <3>2. \A k \in 1..n : backlog[k] \in Clients
      BY <2>3, <3>1, ElementOfSeq
    <3> QED BY <2>1, <2>3, <3>1, <3>2, AppendProperties
  <2>5. LineTypeOK'
    BY <1>1, <2>2, <2>4 DEF LineTypeOK, servervars
  <2>6. SocketInv'
    <3>1. \A k \in 1..n : held[backlog[k]] = "none" /\ peer[backlog[k]] # "idle"
      BY <1>1, <2>3 DEF SocketInv
    <3>2. \A k \in 1..n : backlog[k] # c
      BY <1>1, <3>1
    <3>3. \A k \in 1..(n + 1) : k = n + 1 \/ k \in 1..n
      OBVIOUS
    <3>4. \A k \in 1..(n + 1) : held'[backlog'[k]] = "none" /\ peer'[backlog'[k]] # "idle"
      BY <1>1, <2>2, <2>4, <3>1, <3>2, <3>3
    <3>5. \A j, k \in 1..(n + 1) : backlog'[j] = backlog'[k] => j = k
      <4>1. \A j, k \in 1..n : backlog[j] = backlog[k] => j = k
        BY <1>1, <2>3 DEF SocketInv
      <4> QED BY <2>4, <3>2, <3>3, <4>1
    <3> QED BY <1>1, <2>1, <2>4, <3>4, <3>5 DEF SocketInv, Busy, servervars
  <2>7. ClientInv(c)'
    <3>1. Len(<<>>) = 0
      OBVIOUS
    <3>2. EndsInv(c)'
      BY <1>1, <2>2 DEF EndsInv
    <3>3. TurnInv(c)'
      BY <1>1, <2>2, <3>1 DEF TurnInv
    <3>4. AnswerInv(c)'
      <4>1. ~Passed(c)
        BY <1>1 DEF Passed, SocketInv, Busy
      <4>2. ~(csock = c /\ tcpd = "write")
        BY <1>1 DEF SocketInv, Busy
      <4> QED BY <1>1, <4>1, <4>2 DEF AnswerInv, Passed, servervars
    <3> QED BY <3>2, <3>3, <3>4 DEF ClientInv
  <2>8. ASSUME NEW d \in Clients, d # c PROVE ClientInv(d)'
    <3>1. Same(d)
      BY <1>1, <2>2, <2>8 DEF Same
    <3> QED BY <1>1, <3>1, Line_Same
  <2> QED BY <2>5, <2>6, <2>7, <2>8 DEF LineInv, ClientInv
<1> QED BY <1>2, <1>3

\* send() (tcp_client.c:47, tcp_shutdown.c:43)
LEMMA Line_Send ==
  ASSUME LineInv, NEW c \in Clients, SendTyped(c) \/ SendHello(c)
  PROVE  LineInv'
<1>1. /\ tcp[c] = "prompt" /\ peer[c] = "open" /\ LineTypeOK /\ SocketInv
      /\ UNCHANGED <<down, peer, held, backlog, listening, kind, servervars, shown>>
  BY DEF LineInv, EndsInv, SendTyped, SendHello, TcpAt, SendTcp, servervars
<1>2. PICK k \in 0..TcpLines :
        /\ k \in {0, 1, lines[c] + 1} /\ tcp' = [tcp EXCEPT ![c] = tcp'[c]]
        /\ tcp'[c] \in {"wait", "shutdown"}
        /\ up' = [up EXCEPT ![c] = IF held[c] = "closed" THEN @ ELSE Append(@, <<c, k>>)]
        /\ lines' = [lines EXCEPT ![c] = IF k = 0 THEN @ ELSE k]
  <2>1. CASE SendTyped(c)
    <3>1. PICK k \in {0, lines[c] + 1} : k <= TcpLines /\ SendTcp(c, k)
      BY <2>1 DEF SendTyped
    <3>2. k \in 0..TcpLines
      BY <1>1, <3>1, TcpAssumption DEF LineTypeOK
    <3> QED BY <1>1, <2>1, <3>1, <3>2 DEF SendTyped, TcpAt, SendTcp, SendUp, LineTypeOK
  <2>2. CASE SendHello(c)
    <3>1. 1 \in 0..TcpLines
      BY TcpAssumption
    <3> QED BY <1>1, <2>2, <3>1 DEF SendHello, TcpAt, SendTcp, SendUp, LineTypeOK
  <2> QED BY <2>1, <2>2
<1>3. /\ tcp' \in [Clients -> {"connect", "prompt", "shutdown", "wait", "close"} \cup Gone]
      /\ lines' \in [Clients -> 0..TcpLines]
      /\ \A d \in Clients : d # c => tcp'[d] = tcp[d] /\ lines'[d] = lines[d] /\ up'[d] = up[d]
  BY <1>1, <1>2 DEF LineTypeOK
<1>4. /\ up[c] \in Seq(TcpLine) /\ <<c, k>> \in TcpLine
      /\ Append(up[c], <<c, k>>) \in Seq(TcpLine)
  BY <1>1, <1>2, AppendProperties DEF LineTypeOK, TcpLine
<1>5. /\ up' \in [Clients -> Seq(TcpLine)]
      /\ up'[c] = IF held[c] = "closed" THEN up[c] ELSE Append(up[c], <<c, k>>)
  BY <1>1, <1>2, <1>4 DEF LineTypeOK
<1>6. LineTypeOK'
  BY <1>1, <1>3, <1>5 DEF LineTypeOK, servervars
<1>7. EndsInv(c)'
  BY <1>1, <1>2 DEF EndsInv
<1>8. TurnInv(c)'
  <2> SUFFICES ASSUME Unanswered(c) PROVE TurnInv(c)'
    BY <1>1 DEF TurnInv, Unanswered, servervars
  <2>1. /\ down[c] = <<>> /\ shown[c] = <<>> /\ lines[c] = 0 /\ held[c] # "closed"
        /\ \A j \in 1..Len(up[c]) : up[c][j] \in First(c)
    BY <1>1 DEF LineInv, TurnInv, Unanswered
  <2>2. <<c, k>> \in First(c)
    BY <1>2, <2>1 DEF First
  <2>3. PICK n \in Nat : n = Len(up[c])
    BY <1>4, LenProperties
  <2>4. /\ Len(up'[c]) = n + 1 /\ up'[c][n + 1] = <<c, k>>
        /\ \A j \in 1..n : up'[c][j] = up[c][j]
    BY <1>4, <1>5, <2>1, <2>3, AppendProperties
  <2>5. \A j \in 1..(n + 1) : up'[c][j] \in First(c)
    <3>1. \A j \in 1..(n + 1) : j = n + 1 \/ j \in 1..n
      OBVIOUS
    <3> QED BY <2>1, <2>2, <2>3, <2>4, <3>1
  <2> QED BY <1>1, <1>2, <2>1, <2>4, <2>5 DEF TurnInv
<1>9. AnswerInv(c)'
  BY <1>1 DEF LineInv, AnswerInv, Passed, servervars
<1> QED BY <1>1, <1>3, <1>6, <1>7, <1>8, <1>9, Line_Client DEF Same, ClientInv

\* shutdown(), and the end of what is typed
LEMMA Line_Quiet ==
  ASSUME LineInv, NEW c \in Clients, ShutdownWrite(c) \/ EndOfTyping(c)
  PROVE  LineInv'
<1>1. /\ tcp[c] \in {"shutdown", "prompt"} /\ tcp' = [tcp EXCEPT ![c] = tcp'[c]]
      /\ tcp'[c] \in {"wait", "close"}
      /\ UNCHANGED <<up, down, peer, held, backlog, listening, kind, servervars, lines, shown>>
      /\ LineTypeOK
  BY DEF LineInv, LineTypeOK, ShutdownWrite, EndOfTyping, TcpAt, netvars, servervars
<1>2. /\ tcp' \in [Clients -> {"connect", "prompt", "shutdown", "wait", "close"} \cup Gone]
      /\ \A d \in Clients : d # c => tcp'[d] = tcp[d]
  BY <1>1 DEF LineTypeOK
<1>3. LineTypeOK'
  BY <1>1, <1>2 DEF LineTypeOK, servervars
<1>4. ClientInv(c)'
  BY <1>1 DEF LineInv, ClientInv, EndsInv, TurnInv, Unanswered, AnswerInv, Passed, servervars
<1> QED BY <1>1, <1>2, <1>3, <1>4, Line_Client DEF Same

\* recv() of the answer (tcp_client.c:52, tcp_shutdown.c:49)
LEMMA Line_Receive ==
  ASSUME LineInv, NEW c \in Clients, ReceiveLineBack(c)
  PROVE  LineInv'
<1>1. /\ tcp[c] = "wait" /\ down[c] # <<>> /\ tcp' = [tcp EXCEPT ![c] = tcp'[c]]
      /\ tcp'[c] \in {"wait", "close", "prompt"}
      /\ down' = [down EXCEPT ![c] = SubSeq(@, Len(down[c]) + 1, Len(@))]
      /\ shown' = [shown EXCEPT ![c] = @ \o down[c]]
      /\ UNCHANGED <<up, peer, held, backlog, listening, kind, servervars, lines>>
      /\ LineTypeOK
  BY DEF LineInv, LineTypeOK, ReceiveLineBack, TcpAt, TakeDown, servervars
<1>2. PICK m \in First(c) : down[c] = <<m>> /\ shown[c] = <<>> /\ m \in TcpLine
  <2>1. down[c] \in Answered(c) /\ shown[c] = <<>> /\ down[c] \in Seq(TcpLine)
    BY <1>1 DEF LineInv, AnswerInv, LineTypeOK
  <2>2. 0 \in 0..TcpLines /\ 1 \in 0..TcpLines
    BY TcpAssumption
  <2> QED BY <2>1, <2>2 DEF Answered, First, TcpLine
<1>3. SubSeq(<<m>>, Len(<<m>>) + 1, Len(<<m>>)) = <<>> /\ <<>> \o <<m>> = <<m>>
  BY <1>2
<1>4. /\ down'[c] = <<>> /\ shown'[c] = <<m>>
      /\ down' \in [Clients -> Seq(TcpLine)] /\ shown' \in [Clients -> Seq(TcpLine)]
      /\ tcp' \in [Clients -> {"connect", "prompt", "shutdown", "wait", "close"} \cup Gone]
      /\ \A d \in Clients : d # c => tcp'[d] = tcp[d] /\ down'[d] = down[d] /\ shown'[d] = shown[d]
  <2>1. <<>> \in Seq(TcpLine) /\ <<m>> \in Seq(TcpLine)
    BY <1>2, EmptySeq
  <2>2. down' = [down EXCEPT ![c] = <<>>] /\ shown' = [shown EXCEPT ![c] = <<m>>]
    BY <1>1, <1>2, <1>3
  <2>3. down' \in [Clients -> Seq(TcpLine)] /\ down'[c] = <<>>
    BY <1>1, <2>1, <2>2 DEF LineTypeOK
  <2>4. shown' \in [Clients -> Seq(TcpLine)] /\ shown'[c] = <<m>>
    <3>1. PICK t \in Seq(TcpLine) : t = <<m>>
      BY <2>1
    <3>2. shown \in [Clients -> Seq(TcpLine)] /\ shown' = [shown EXCEPT ![c] = t]
      BY <1>1, <2>2, <3>1 DEF LineTypeOK
    <3> QED BY <3>1, <3>2
  <2>5. tcp' \in [Clients -> {"connect", "prompt", "shutdown", "wait", "close"} \cup Gone]
    BY <1>1 DEF LineTypeOK
  <2> QED BY <1>1, <2>2, <2>3, <2>4, <2>5 DEF LineTypeOK
<1>5. LineTypeOK'
  BY <1>1, <1>4 DEF LineTypeOK, servervars
<1>6. ~Unanswered(c)
  BY <1>2 DEF LineInv, TurnInv
<1>7. <<m>> # <<>> /\ <<m>> \in Answered(c)
  BY <1>2 DEF Answered
<1>8. EndsInv(c)'
  BY <1>1, <1>4 DEF LineInv, EndsInv
<1>9. TurnInv(c)'
  BY <1>1, <1>6 DEF TurnInv, Unanswered, servervars
<1>10. AnswerInv(c)'
  BY <1>1, <1>4, <1>7 DEF LineInv, AnswerInv, servervars
<1> QED BY <1>1, <1>4, <1>5, <1>8, <1>9, <1>10, Line_Client DEF Same, ClientInv

\* a client ends: it fails only after its answer, or when the server has ended
LEMMA Line_Ends ==
  ASSUME LineInv, NEW c \in Clients,
         SendTcpFails(c) \/ ShutdownFails(c) \/ ReceiveEnd(c) \/ CloseTcp(c) \/ KillTcp(c)
  PROVE  LineInv'
<1>1. /\ tcp[c] \in {"prompt", "shutdown", "wait", "close"} /\ CloseClientEnd(c)
      /\ tcp' = [tcp EXCEPT ![c] = tcp'[c]] /\ tcp'[c] \in Gone
      /\ tcp'[c] = "failed" => down[c] = <<>> /\ held[c] = "closed"
      /\ UNCHANGED <<up, held, backlog, listening, kind, servervars, lines, shown>>
      /\ LineTypeOK
  BY DEF LineInv, LineTypeOK, Gone, Reset, SendTcpFails, ShutdownFails, ReceiveEnd, CloseTcp,
         KillTcp, TcpAt, servervars
<1>2. /\ peer[c] = "open" /\ tcp'[c] \notin {"connect", "prompt", "shutdown", "wait", "close"}
  BY <1>1 DEF LineInv, EndsInv, Gone
<1>3. /\ down' = [down EXCEPT ![c] = <<>>]
      /\ \E s \in (IF down[c] = <<>> THEN {"fin"} ELSE {"reset", "finrst"}) :
           peer' = [peer EXCEPT ![c] = s]
  BY <1>1 DEF CloseClientEnd
<1>4. /\ down'[c] = <<>> /\ peer'[c] \in {"fin", "reset", "finrst"}
      /\ down[c] = <<>> => peer'[c] = "fin"
      /\ down' \in [Clients -> Seq(TcpLine)] /\ peer' \in [Clients -> PeerState]
      /\ tcp' \in [Clients -> {"connect", "prompt", "shutdown", "wait", "close"} \cup Gone]
      /\ \A d \in Clients : d # c => tcp'[d] = tcp[d] /\ down'[d] = down[d] /\ peer'[d] = peer[d]
  <2>1. <<>> \in Seq(TcpLine)
    BY EmptySeq
  <2>2. down' \in [Clients -> Seq(TcpLine)] /\ down'[c] = <<>>
    BY <1>1, <1>3, <2>1 DEF LineTypeOK
  <2>3. PICK s \in {"fin", "reset", "finrst"} :
          peer' = [peer EXCEPT ![c] = s] /\ (down[c] = <<>> => s = "fin")
    BY <1>3
  <2>4. peer' \in [Clients -> PeerState] /\ peer'[c] = s
    BY <1>1, <2>3 DEF LineTypeOK, PeerState
  <2>5. tcp' \in [Clients -> {"connect", "prompt", "shutdown", "wait", "close"} \cup Gone]
    BY <1>1 DEF LineTypeOK
  <2>6. \A d \in Clients : d # c => tcp'[d] = tcp[d] /\ down'[d] = down[d] /\ peer'[d] = peer[d]
    BY <1>1, <1>3, <2>3 DEF LineTypeOK
  <2> QED BY <2>2, <2>3, <2>4, <2>5, <2>6
<1>5. LineTypeOK'
  BY <1>1, <1>4 DEF LineTypeOK, servervars
<1>6. tcp'[c] = "failed" => shown[c] # <<>> \/ tcpd = "over"
  BY <1>1, <1>2 DEF LineInv, AnswerInv, Passed
<1>7. EndsInv(c)'
  BY <1>1, <1>2, <1>4, <1>6 DEF EndsInv, servervars
<1>8. TurnInv(c)'
  BY <1>1, <1>2, <1>4 DEF LineInv, TurnInv, Unanswered, servervars
<1>9. AnswerInv(c)'
  BY <1>1, <1>4 DEF LineInv, AnswerInv, servervars
<1> QED BY <1>1, <1>4, <1>5, <1>7, <1>8, <1>9, Line_Client DEF Same, ClientInv

LEMMA Line_Reset ==
  ASSUME LineInv, NEW c \in Clients, ResetArrives(c)
  PROVE  LineInv'
<1>1. /\ peer[c] = "finrst" /\ peer' = [peer EXCEPT ![c] = "dead"]
      /\ UNCHANGED <<up, down, held, backlog, listening, kind, servervars, tcp, lines, shown>>
      /\ LineTypeOK
  BY DEF LineInv, ResetArrives, RstArrives, servervars
<1>2. /\ peer'[c] = "dead" /\ peer' \in [Clients -> PeerState]
      /\ \A d \in Clients : d # c => peer'[d] = peer[d]
  BY <1>1 DEF LineTypeOK, PeerState
<1>3. LineTypeOK'
  BY <1>1, <1>2 DEF LineTypeOK, servervars
<1>4. ClientInv(c)'
  BY <1>1, <1>2 DEF LineInv, ClientInv, EndsInv, TurnInv, Unanswered, AnswerInv, Passed, servervars
<1> QED BY <1>1, <1>2, <1>3, <1>4, Line_Client DEF Same

LEMMA Line_Next == LineInv /\ [LineNext]_linevars => LineInv'
<1> SUFFICES ASSUME LineInv, [LineNext]_linevars PROVE LineInv'
  OBVIOUS
<1>1. CASE TcpdStep
  BY <1>1, Line_Accept, Line_Read, Line_Write, Line_Close, Line_Exits DEF TcpdStep
<1>4. CASE AcceptFails
  BY <1>4, Line_AcceptFails
<1>2. ASSUME NEW c \in Clients,
             \/ ConnectTcp(c) \/ SendTyped(c) \/ SendTcpFails(c) \/ EndOfTyping(c) \/ TcpStep(c)
             \/ KillTcp(c) \/ ResetArrives(c)
      PROVE  LineInv'
  BY <1>2, Line_Connect, Line_Send, Line_Quiet, Line_Receive, Line_Ends, Line_Reset DEF TcpStep
<1>3. CASE UNCHANGED linevars
  <2>1. LineTypeOK' /\ SocketInv'
    BY <1>3 DEF LineInv, linevars, netvars, LineTypeOK, SocketInv, Busy
  <2>2. ASSUME NEW c \in Clients PROVE EndsInv(c)' /\ TurnInv(c)' /\ AnswerInv(c)'
    BY <1>3 DEF LineInv, linevars, netvars, EndsInv, TurnInv, Unanswered, AnswerInv, Passed
  <2> QED BY <2>1, <2>2 DEF LineInv
<1> QED BY <1>1, <1>2, <1>3, <1>4 DEF LineNext

\* A connection carries one line and its answer, and a client fails at its first line
\* only if the server has ended (tcp_server.c:47-57, tcp_client.c:52), for any number
\* of clients of either kind, killed while they wait; and no write() of the server is fatal.
THEOREM LineFirstLineOnly == LineSpec => []FirstLineOnly
<1> QED BY Line_Init, Line_Next, Line_FirstLineOnly, PTL DEF LineSpec
=============================================================================
