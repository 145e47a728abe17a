---------------------------- MODULE StreamSocket ----------------------------
(***************************************************************************)
(* Linux TCP as the select() programs of src/0617 use it: one listening    *)
(* socket, one connection per client process.  The code of TCP is not in   *)
(* the repository; this module is the part of its behaviour that connect,  *)
(* accept, read, write, close and select show to those programs.           *)
(*                                                                         *)
(* A connection is named by its client.  A line or a notice is written by  *)
(* one write() and fits one segment: it is never split, but one read() may *)
(* return several that follow each other.                                  *)
(***************************************************************************)
EXTENDS Naturals, Sequences

CONSTANT Clients        \* the client processes; each connects once

VARIABLES
  up,        \* up[c]: what c has written and the server has not read
  down,      \* down[c]: what the server has written and c has not read
  peer,      \* peer[c]: what the server's kernel knows of c's end, see PeerState
  held,      \* held[c]: the server's descriptor of the connection, see HeldState
  backlog,   \* connections completed by the kernel and not accepted, oldest first
  listening  \* whether the server's process still has its listening socket

netvars == <<up, down, peer, held, backlog, listening>>

(***************************************************************************)
(* idle: never connected.  open: both ends up.  fin: c has closed and the  *)
(* server has written nothing since.  finrst: it has, and c's kernel       *)
(* answers with a RST that is on its way.  reset: a RST came on an open    *)
(* connection, its error not yet reported.  dead: nothing more to report,  *)
(* and a write raises SIGPIPE.                                             *)
(***************************************************************************)
PeerState == {"idle", "open", "fin", "finrst", "reset", "dead"}
HeldState == {"none", "open", "closed"}

NetInit ==
  /\ up        = [c \in Clients |-> <<>>]
  /\ down      = [c \in Clients |-> <<>>]
  /\ peer      = [c \in Clients |-> "idle"]
  /\ held      = [c \in Clients |-> "none"]
  /\ backlog   = <<>>
  /\ listening = TRUE

-----------------------------------------------------------------------------
(* What the server's calls do.                                             *)

\* select() reports the descriptor: data, an end of file or an error is there
Readable(c) == up[c] # <<>> \/ peer[c] \in {"fin", "finrst", "reset", "dead"}

\* the outcomes of read(): n > 0 lines, 0, or -1 (the error is reported once)
ReadData(c, n) == /\ n \in 1..Len(up[c])
                  /\ up' = [up EXCEPT ![c] = SubSeq(@, n + 1, Len(@))]
ReadEnd(c)     == up[c] = <<>> /\ peer[c] \in {"fin", "finrst", "dead"}
ReadError(c)   == /\ up[c] = <<>> /\ peer[c] = "reset"
                  /\ peer' = [peer EXCEPT ![c] = "dead"]

\* write() raises SIGPIPE, and otherwise delivers, is lost, or reports the error
Fatal(c) == peer[c] = "dead"
Write(c, m) ==
  /\ down' = [down EXCEPT ![c] = IF peer[c] = "open" THEN Append(@, m) ELSE @]
  /\ peer' = [peer EXCEPT ![c] = CASE @ = "fin"   -> "finrst"
                                   [] @ = "reset" -> "dead"
                                   [] OTHER       -> @]

\* close() by the server
CloseServerEnd(c) ==
  /\ held' = [held EXCEPT ![c] = "closed"]
  /\ up'   = [up EXCEPT ![c] = <<>>]

\* the process ends: its kernel closes every descriptor and resets the backlog
ServerEnds ==
  /\ held'      = [c \in Clients |-> IF peer[c] = "idle" THEN "none" ELSE "closed"]
  /\ up'        = [c \in Clients |-> <<>>]
  /\ backlog'   = <<>>
  /\ listening' = FALSE

-----------------------------------------------------------------------------
(* What the client's calls and the network do.                             *)

Establish(c) ==
  /\ peer'    = [peer EXCEPT ![c] = "open"]
  /\ backlog' = Append(backlog, c)

\* write() by the client: it may fail once the server has closed its end, and
\* what it writes to a closed end is lost
SendUp(c, m) == up' = [up EXCEPT ![c] = IF held[c] = "closed" THEN @ ELSE Append(@, m)]

TakeDown(c, n) == /\ n \in 1..Len(down[c])
                  /\ down' = [down EXCEPT ![c] = SubSeq(@, n + 1, Len(@))]

\* close(), or the end of the process: a FIN, unless something was left unread;
\* then a RST, which an earlier FIN precedes if that something was on its way
CloseClientEnd(c) ==
  /\ \E s \in (IF down[c] = <<>> THEN {"fin"} ELSE {"reset", "finrst"}) :
       peer' = [peer EXCEPT ![c] = s]
  /\ down' = [down EXCEPT ![c] = <<>>]

RstArrives(c) ==
  /\ peer[c] = "finrst"
  /\ peer' = [peer EXCEPT ![c] = "dead"]
  /\ UNCHANGED <<up, down, held, backlog, listening>>
=============================================================================
