------------------------------ MODULE Loopback ------------------------------
(***************************************************************************)
(* What an echo server promises: for each client a pipe that leads back to *)
(* it, first in first out, until it is cut.                                *)
(***************************************************************************)
EXTENDS Naturals, Sequences

CONSTANTS Clients, Line

VARIABLES
  pipe,      \* pipe[c]: the lines of c on their way, the next to come back first
  cut        \* cut[c]: nothing more goes in

Init ==
  /\ pipe = [c \in Clients |-> <<>>]
  /\ cut  = [c \in Clients |-> FALSE]

Put(c) ==
  /\ ~cut[c]
  /\ \E line \in Line : pipe' = [pipe EXCEPT ![c] = Append(@, line)]
  /\ UNCHANGED cut

Get(c) ==
  /\ \E n \in 1..Len(pipe[c]) :
       pipe' = [pipe EXCEPT ![c] = SubSeq(@, n + 1, Len(@))]
  /\ UNCHANGED cut

\* a connection ends, or all do: what comes back is at most the front of the pipe
Cut ==
  /\ \E S \in SUBSET Clients :
       /\ cut' = [c \in Clients |-> cut[c] \/ c \in S]
       /\ \A c \in Clients \ S : pipe'[c] = pipe[c]
       /\ \A c \in S : \E n \in 0..Len(pipe[c]) : pipe'[c] = SubSeq(pipe[c], 1, n)
  /\ DOMAIN pipe' = Clients

Next == Cut \/ \E c \in Clients : Put(c) \/ Get(c)

Spec == Init /\ [][Next]_<<pipe, cut>>
=============================================================================
