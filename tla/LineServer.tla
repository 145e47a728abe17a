----------------------------- MODULE LineServer -----------------------------
(***************************************************************************)
(* src/0617/tcp_server.c, which serves one connection after the other and  *)
(* one read() of each, with its two clients: tcp_client.c sends line after *)
(* line on its connection and waits for an answer to each, tcp_shutdown.c  *)
(* sends one line, closes its direction, and reads until the end.          *)
(***************************************************************************)
EXTENDS StreamSocket, SequencesExt

CONSTANT TcpLines    \* bound: the lines a user types, lines that begin with q excluded
ASSUME TcpAssumption == TcpLines \in Nat \ {0}

VARIABLES
  kind,       \* kind[c]: which program c runs
  tcpd,       \* where the server is in its loop
  csock,      \* the client it has accepted last, or Nobody
  got,        \* whether its read() has returned a line
  mesg,       \* what it has in mesg: a line, or the address of the client
  tcp,        \* tcp[c]: where c is in main()
  lines,      \* lines[c]: how many lines of its user c has sent
  shown       \* shown[c]: the lines c has received and printed

linevars == <<netvars, kind, tcpd, csock, got, mesg, tcp, lines, shown>>

Nobody    == "nobody"
\* the k-th line of c; 0 is a line that begins with q; an address does not
TcpLine   == Clients \X (0..TcpLines)
Address   == <<Nobody, 1>>
Quits(m)  == m[2] = 0
Gone      == {"done", "failed", "killed"}

LineInit ==
  /\ NetInit
  /\ kind \in [Clients -> {"tcp_client", "tcp_shutdown"}]
  /\ tcpd = "accept" /\ csock = Nobody /\ got = FALSE /\ mesg = Address
  /\ tcp = [c \in Clients |-> "connect"]
  /\ lines = [c \in Clients |-> 0] /\ shown = [c \in Clients |-> <<>>]

LineTypeOK ==
  /\ up \in [Clients -> Seq(TcpLine)] /\ down \in [Clients -> Seq(TcpLine)]
  /\ shown \in [Clients -> Seq(TcpLine)]
  /\ peer \in [Clients -> PeerState] /\ held \in [Clients -> HeldState]
  /\ backlog \in Seq(Clients) /\ listening \in BOOLEAN
  /\ tcpd \in {"accept", "read", "write", "close", "exit", "over"}
  /\ csock \in Clients \cup {Nobody} /\ got \in BOOLEAN /\ mesg \in TcpLine \cup {Address}
  /\ tcp \in [Clients -> {"connect", "prompt", "shutdown", "wait", "close"} \cup Gone]
  /\ lines \in [Clients -> 0..TcpLines] /\ kind \in [Clients -> {"tcp_client", "tcp_shutdown"}]

-----------------------------------------------------------------------------
(* tcp_server.c                                                            *)

TcpdAt(from, to) == tcpd = from /\ tcpd' = to

AcceptNext ==
  /\ TcpdAt("accept", "read") /\ backlog # <<>>
  /\ csock' = Head(backlog) /\ backlog' = Tail(backlog)
  /\ held' = [held EXCEPT ![Head(backlog)] = "open"]
  /\ mesg' = Address
  /\ UNCHANGED <<up, down, peer, listening, kind, got, tcp, lines, shown>>

\* The continue of a failed accept() goes to the test of mesg, which is unassigned before
\* the first client and may begin with q; later it holds a line that does not.
AcceptFails ==
  /\ TcpdAt("accept", "exit") /\ csock = Nobody
  /\ UNCHANGED <<netvars, kind, csock, got, mesg, tcp, lines, shown>>

\* no client resets its connection before this: it would have to leave an answer unread
ReadLine ==
  /\ TcpdAt("read", "write")
  /\ \E n \in 1..Len(up[csock]) : ReadData(csock, n) /\ mesg' = up[csock][1]
  /\ got' = TRUE
  /\ UNCHANGED <<down, peer, held, backlog, listening, kind, csock, tcp, lines, shown>>
\* read() returns 0, perror() reports an error there is not, and mesg stays
ReadNothing ==
  /\ TcpdAt("read", "write") /\ ReadEnd(csock)
  /\ got' = FALSE
  /\ UNCHANGED <<netvars, kind, csock, mesg, tcp, lines, shown>>

\* (mutant: the server goes on to read)
AfterWriteRead == "read"
AfterWrite     == "close"
WriteLine ==
  /\ TcpdAt("write", AfterWrite)
  /\ IF got THEN ~Fatal(csock) /\ Write(csock, mesg) ELSE UNCHANGED <<down, peer>>
  /\ UNCHANGED <<up, held, backlog, listening, kind, csock, got, mesg, tcp, lines, shown>>

CloseLine ==
  /\ TcpdAt("close", IF Quits(mesg) THEN "exit" ELSE "accept")
  /\ CloseServerEnd(csock)
  /\ UNCHANGED <<down, peer, backlog, listening, kind, csock, got, mesg, tcp, lines, shown>>

ServerExits ==
  /\ TcpdAt("exit", "over") /\ ServerEnds
  /\ UNCHANGED <<down, peer, kind, csock, got, mesg, tcp, lines, shown>>

TcpdStep == AcceptNext \/ ReadLine \/ ReadNothing \/ WriteLine \/ CloseLine \/ ServerExits

-----------------------------------------------------------------------------
(* tcp_client.c and tcp_shutdown.c                                         *)

TcpAt(c, from, to) == tcp[c] = from /\ tcp' = [tcp EXCEPT ![c] = to]

ConnectTcp(c) ==
  /\ TcpAt(c, "connect", IF listening THEN "prompt" ELSE "failed")
  /\ IF listening THEN Establish(c) ELSE UNCHANGED <<peer, backlog>>
  /\ UNCHANGED <<up, down, held, listening, kind, tcpd, csock, got, mesg, lines, shown>>

SendTcp(c, k) ==
  /\ SendUp(c, <<c, k>>) /\ lines' = [lines EXCEPT ![c] = IF k = 0 THEN @ ELSE k]
  /\ UNCHANGED <<down, peer, held, backlog, listening, kind, tcpd, csock, got, mesg, shown>>
\* fgets() and send()
SendTyped(c) ==
  /\ kind[c] = "tcp_client" /\ TcpAt(c, "prompt", "wait")
  /\ \E k \in {0, lines[c] + 1} : k <= TcpLines /\ SendTcp(c, k)
SendHello(c) ==
  /\ kind[c] = "tcp_shutdown" /\ TcpAt(c, "prompt", "shutdown")
  /\ SendTcp(c, 1)
\* the server has ended with c in its backlog: whoever lives and was read has an answer
Reset(c) == held[c] = "closed" /\ down[c] = <<>> /\ shown[c] = <<>>
SendTcpFails(c) ==
  /\ Reset(c) /\ TcpAt(c, "prompt", "failed")
  /\ CloseClientEnd(c)
  /\ UNCHANGED <<up, held, backlog, listening, kind, tcpd, csock, got, mesg, lines, shown>>

\* The server reads once, so it never meets the end of this direction.
ShutdownWrite(c) ==
  /\ TcpAt(c, "shutdown", "wait")
  /\ UNCHANGED <<netvars, kind, tcpd, csock, got, mesg, lines, shown>>
ShutdownFails(c) ==
  /\ Reset(c) /\ TcpAt(c, "shutdown", "failed")
  /\ CloseClientEnd(c)
  /\ UNCHANGED <<up, held, backlog, listening, kind, tcpd, csock, got, mesg, lines, shown>>

\* stdin ends
EndOfTyping(c) ==
  /\ kind[c] = "tcp_client" /\ TcpAt(c, "prompt", "close")
  /\ UNCHANGED <<netvars, kind, tcpd, csock, got, mesg, lines, shown>>

\* recv() of the answer: tcp_client goes on unless it begins with q
ReceiveLineBack(c) ==
  /\ down[c] # <<>>
  /\ TcpAt(c, "wait", IF kind[c] = "tcp_shutdown" THEN "wait"
                      ELSE IF Quits(down[c][1]) THEN "close" ELSE "prompt")
  /\ TakeDown(c, Len(down[c])) /\ shown' = [shown EXCEPT ![c] = @ \o down[c]]
  /\ UNCHANGED <<up, peer, held, backlog, listening, kind, tcpd, csock, got, mesg, lines>>

\* recv() returns 0 or fails: tcp_client ends with -1, tcp_shutdown with 0
ReceiveEnd(c) ==
  /\ down[c] = <<>> /\ held[c] = "closed"
  /\ TcpAt(c, "wait", IF kind[c] = "tcp_client" THEN "failed" ELSE "done")
  /\ CloseClientEnd(c)
  /\ UNCHANGED <<up, held, backlog, listening, kind, tcpd, csock, got, mesg, lines, shown>>

CloseTcp(c) ==
  /\ TcpAt(c, "close", "done") /\ CloseClientEnd(c)
  /\ UNCHANGED <<up, held, backlog, listening, kind, tcpd, csock, got, mesg, lines, shown>>

KillTcp(c) ==
  /\ tcp[c] \in {"prompt", "wait"} /\ tcp' = [tcp EXCEPT ![c] = "killed"]
  /\ CloseClientEnd(c)
  /\ UNCHANGED <<up, held, backlog, listening, kind, tcpd, csock, got, mesg, lines, shown>>

ResetArrives(c) == RstArrives(c) /\ UNCHANGED <<kind, tcpd, csock, got, mesg, tcp, lines, shown>>

TcpStep(c) ==
  SendHello(c) \/ ShutdownWrite(c) \/ ShutdownFails(c) \/ ReceiveLineBack(c) \/ ReceiveEnd(c) \/ CloseTcp(c)

-----------------------------------------------------------------------------
LineNext ==
  \/ TcpdStep \/ AcceptFails
  \/ \E c \in Clients :
       ConnectTcp(c) \/ SendTyped(c) \/ SendTcpFails(c) \/ EndOfTyping(c) \/ TcpStep(c) \/ KillTcp(c) \/ ResetArrives(c)

LineFairness == WF_linevars(TcpdStep) /\ \A c \in Clients : WF_linevars(TcpStep(c))

LineSpec == LineInit /\ [][LineNext]_linevars /\ LineFairness

-----------------------------------------------------------------------------
(* What must hold.                                                         *)

\* A connection carries one line and its answer (tcp_server.c:47-57): a client is
\* shown nothing but the first line it sent, and tcp_client.c, which waits for an
\* answer to each line (116), fails at its second one and never at its first, unless
\* the server has ended, on somebody's q or on a failed accept(); and no write of the
\* server can be fatal.
FirstLineOnly ==
  /\ \A c \in Clients :
       /\ shown[c] \in {<<>>, <<<<c, 0>>>>, <<<<c, 1>>>>}
       /\ tcp[c] = "failed" => shown[c] # <<>> \/ tcpd = "over"
  /\ tcpd = "write" /\ got => ~Fatal(csock)

\* A client that waits is answered or fails, or the server comes to sit in read()
\* (47) for another one that is connected and silent.
TcpWaits(c)  == tcp[c] = "wait"
TcpServed(c) == tcp[c] # "wait" \/ (tcpd = "read" /\ csock # c /\ tcp[csock] = "prompt")
AnsweredUnlessBusy == \A c \in Clients : TcpWaits(c) ~> TcpServed(c)
=============================================================================
