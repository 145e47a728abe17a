------------------------------- MODULE UdpEcho -------------------------------
(***************************************************************************)
(* src/0617/udp_server.c and udp_client.c: a server that sends each        *)
(* datagram back, and clients that send a line and wait for one datagram   *)
(* without a timeout.  The network loses, duplicates and reorders.         *)
(***************************************************************************)
EXTENDS Naturals, FiniteSets

CONSTANTS
  UdpClients,    \* the processes that run udp_client.c
  MaxTyped,      \* bound: the lines of a user that do not begin with q
  MaxFaults      \* bound: the different faults of the network
ASSUME UdpAssumption == MaxTyped \in Nat /\ MaxFaults \in Nat

VARIABLES
  udpserver,     \* running or over
  udpclient,     \* udpclient[c]: where c is in its loop
  text,          \* text[c]: what is in mesg of c
  typed,         \* typed[c]: how many lines c's user has typed
  asked,         \* asked[c]: the line that c has sent last
  net,           \* the datagrams on their way, or in a socket that nobody has read
  faults         \* what the network has done to whose datagrams

udpvars == <<udpserver, udpclient, text, typed, asked, net, faults>>

\* the k-th line of a user; 0 is one that begins with q; Garbage is what mesg holds
\* before anything is written to it (when it begins with q, it is as if 0 was typed)
Garbage   == MaxTyped + 1
UdpLine   == 0..Garbage
Datagram  == [to : {"server", "client"}, client : UdpClients, line : UdpLine]
To(host, c, line) == [to |-> host, client |-> c, line |-> line]
Fault     == {"lost", "duplicated"} \X UdpClients

UdpInit ==
  /\ udpserver = "running" /\ udpclient = [c \in UdpClients |-> "prompt"]
  /\ text = [c \in UdpClients |-> Garbage] /\ asked = text
  /\ typed = [c \in UdpClients |-> 0]
  /\ net = {} /\ faults = {}

UdpTypeOK ==
  /\ udpserver \in {"running", "over"}
  /\ udpclient \in [UdpClients -> {"prompt", "send", "wait", "over"}]
  /\ text \in [UdpClients -> UdpLine] /\ asked \in [UdpClients -> UdpLine]
  /\ typed \in [UdpClients -> 0..MaxTyped]
  /\ net \subseteq Datagram /\ faults \subseteq Fault

-----------------------------------------------------------------------------
(* The network: a datagram is lost, or arrives and may arrive once more.   *)

Blame(f, c) ==
  faults' = faults \cup {<<f, c>>} /\ Cardinality(faults') <= MaxFaults

Lose(d) ==
  /\ d \in net /\ net' = net \ {d} /\ Blame("lost", d.client)
  /\ UNCHANGED <<udpserver, udpclient, text, typed, asked>>

\* d is received, and S is sent
Exchange(d, S) ==
  /\ d \in net
  /\ \/ net' = (net \ {d}) \cup S /\ UNCHANGED faults
     \/ net' = net \cup S /\ Blame("duplicated", d.client)

-----------------------------------------------------------------------------
(* udp_server.c                                                            *)

\* recvfrom(), sendto() to where it came from, and the test for q
Answer(d) ==
  /\ udpserver = "running" /\ d.to = "server"
  /\ Exchange(d, {To("client", d.client, d.line)})
  /\ udpserver' = IF d.line = 0 THEN "over" ELSE "running"
  /\ UNCHANGED <<udpclient, text, typed, asked>>

-----------------------------------------------------------------------------
(* udp_client.c                                                            *)

UdpClientAt(c, from, to) == udpclient[c] = from /\ udpclient' = [udpclient EXCEPT ![c] = to]

\* fgets(); at the end of stdin it leaves mesg as it is, and nothing tests that
TypeLine(c) ==
  /\ UdpClientAt(c, "prompt", "send")
  /\ \/ text' = [text EXCEPT ![c] = 0] /\ UNCHANGED typed
     \/ /\ typed[c] < MaxTyped
        /\ typed' = [typed EXCEPT ![c] = @ + 1] /\ text' = [text EXCEPT ![c] = typed[c] + 1]
     \/ UNCHANGED <<text, typed>>
  /\ UNCHANGED <<udpserver, asked, net, faults>>

\* (mutant: the client gives up an answer that is late)
WaitOrGiveUp == {"wait", "prompt"}
AfterSend    == {"wait"}
SendDatagram(c) ==
  /\ \E to \in AfterSend : UdpClientAt(c, "send", to)
  /\ net' = net \cup {To("server", c, text[c])} /\ asked' = [asked EXCEPT ![c] = text[c]]
  /\ UNCHANGED <<udpserver, text, typed, faults>>

\* the loop's test for q, of what has been received
AfterAnswer(line) == IF line = 0 THEN "over" ELSE "prompt"

ReceiveAnswer(d) ==
  /\ d.to = "client" /\ UdpClientAt(d.client, "wait", AfterAnswer(d.line))
  /\ text' = [text EXCEPT ![d.client] = d.line]
  /\ Exchange(d, {})
  /\ UNCHANGED <<udpserver, typed, asked>>

-----------------------------------------------------------------------------
UdpNext ==
  \/ \E c \in UdpClients : TypeLine(c) \/ SendDatagram(c)
  \/ \E d \in net : Lose(d) \/ Answer(d) \/ ReceiveAnswer(d)

UdpClientStep(c) == SendDatagram(c) \/ \E d \in net : d.client = c /\ ReceiveAnswer(d)
UdpAnswer(c)     == \E d \in net : d.client = c /\ Answer(d)

\* what is not lost arrives; nobody has to type
UdpFairness ==
  \A c \in UdpClients : WF_udpvars(UdpClientStep(c)) /\ WF_udpvars(UdpAnswer(c))

UdpSpec == UdpInit /\ [][UdpNext]_udpvars /\ UdpFairness

-----------------------------------------------------------------------------
(* What must hold.                                                         *)

\* The answer a client shows (41) is to the line it has sent last (35), lost and
\* reordered datagrams notwithstanding, unless one of its own was duplicated: then
\* it is from then on one behind, since nothing in a datagram says what it answers.
AnswersInStep ==
  \A c \in UdpClients :
    udpclient[c] = "prompt" /\ <<"duplicated", c>> \notin faults => text[c] = asked[c]

\* A client does not wait for ever for an answer (39), unless a datagram of its own
\* was lost or the server has ended.
UdpWaits(c)  == udpclient[c] = "wait"
UdpServed(c) == udpclient[c] # "wait" \/ <<"lost", c>> \in faults \/ udpserver = "over"
AnsweredUnlessLost == \A c \in UdpClients : UdpWaits(c) ~> UdpServed(c)
=============================================================================
