---------------------------- MODULE SelectClient ----------------------------
(***************************************************************************)
(* src/0617/selet_client.c, the client of both select() servers: connect,  *)
(* then for each line typed write it and wait for one read(), until the    *)
(* user types q, stdin ends, the server closes, or the process is killed.  *)
(***************************************************************************)
EXTENDS StreamSocket, FiniteSets

CONSTANTS
  MaxLines,      \* bound: lines a user types before leaving (q excluded)
  MaxSpeakers    \* bound: how many users type such a line at all
ASSUME MaxLinesAssumption == MaxLines \in Nat /\ MaxSpeakers \in Nat

VARIABLES
  phase,     \* phase[c]: where c's process is in main(), see Phase
  sent       \* sent[c]: how many lines c has written

clientvars == <<phase, sent>>

Phase == {"start", "prompt", "reply", "closing", "left"}

\* the k-th line of c's user; k = 0 is the line that begins with 'q'
Line == Clients \X (0..MaxLines)
IsQuit(line) == line[2] = 0

ClientInit ==
  /\ phase = [c \in Clients |-> "start"]
  /\ sent  = [c \in Clients |-> 0]

\* the bounds on what is typed
MayType(c) ==
  /\ sent[c] < MaxLines
  /\ sent[c] > 0 \/ Cardinality({d \in Clients : sent[d] > 0}) < MaxSpeakers

Goto(c, p) == phase' = [phase EXCEPT ![c] = p]

\* connect(): refused once the server is gone
Connect(c) ==
  /\ phase[c] = "start"
  /\ IF listening
       THEN Establish(c) /\ Goto(c, "prompt")
       ELSE Goto(c, "left") /\ UNCHANGED <<peer, backlog>>
  /\ UNCHANGED <<up, down, held, listening, sent>>

\* (mutant: no response is waited for)
SendOnly(c) ==
  /\ phase[c] = "prompt" /\ MayType(c)
  /\ sent' = [sent EXCEPT ![c] = @ + 1]
  /\ SendUp(c, <<c, sent[c] + 1>>)
  /\ UNCHANGED <<down, peer, held, backlog, listening, phase>>
\* a line is typed and written, and the process waits for the response
SendLine(c) ==
  /\ phase[c] = "prompt" /\ MayType(c)
  /\ sent' = [sent EXCEPT ![c] = @ + 1]
  /\ SendUp(c, <<c, sent[c] + 1>>)
  /\ Goto(c, "reply")
  /\ UNCHANGED <<down, peer, held, backlog, listening>>

\* the write fails: only the other end's close() can make it fail
SendFails(c) ==
  /\ phase[c] = "prompt" /\ held[c] = "closed"
  /\ Goto(c, "closing")
  /\ UNCHANGED <<netvars, sent>>

\* q is typed and written
SendQuit(c) ==
  /\ phase[c] = "prompt"
  /\ SendUp(c, <<c, 0>>)
  /\ Goto(c, "closing")
  /\ UNCHANGED <<down, peer, held, backlog, listening, sent>>

\* stdin ends: fgets leaves mesg empty, write() of no byte returns 0
EndOfInput(c) ==
  /\ phase[c] = "prompt"
  /\ Goto(c, "closing")
  /\ UNCHANGED <<netvars, sent>>

\* the read of the response returns something
Response(c) ==
  /\ phase[c] = "reply"
  /\ \E n \in 1..Len(down[c]) : TakeDown(c, n)
  /\ Goto(c, "prompt")
  /\ UNCHANGED <<up, peer, held, backlog, listening, sent>>

\* the read of the response finds that the server has closed
ServerClosed(c) ==
  /\ phase[c] = "reply" /\ down[c] = <<>> /\ held[c] = "closed"
  /\ Goto(c, "closing")
  /\ UNCHANGED <<netvars, sent>>

CloseSocket(c) ==
  /\ phase[c] = "closing"
  /\ CloseClientEnd(c)
  /\ Goto(c, "left")
  /\ UNCHANGED <<up, held, backlog, listening, sent>>

\* the process is killed, Ctrl-C included
Kill(c) ==
  /\ phase[c] \in {"prompt", "reply"}
  /\ CloseClientEnd(c)
  /\ Goto(c, "left")
  /\ UNCHANGED <<up, held, backlog, listening, sent>>

\* what the process does without its user
ClientStep(c) == Response(c) \/ ServerClosed(c) \/ CloseSocket(c)

ClientNext(c) ==
  \/ Connect(c) \/ SendLine(c) \/ SendFails(c) \/ SendQuit(c) \/ EndOfInput(c)
  \/ ClientStep(c) \/ Kill(c)
=============================================================================
