------------------------------ MODULE ChatRoom ------------------------------
(***************************************************************************)
(* What a chat server promises: a room.  Every event, a member's text or   *)
(* an arrival or a departure, reaches all the other members in one step,   *)
(* so all of them see the events in one order, and nobody sees its own.    *)
(***************************************************************************)
EXTENDS Naturals, Sequences

CONSTANTS Clients, Line, IsQuit(_)

VARIABLES
  member,    \* member[c]: outside, inside or gone
  said,      \* said[c]: lines of c the room has not taken up
  inbox,     \* inbox[c]: notices c has not read
  alive,     \* who is connected
  running    \* FALSE once the server is gone

roomvars == <<member, said, inbox, alive, running>>

Init ==
  /\ member = [c \in Clients |-> "outside"]
  /\ said   = [c \in Clients |-> <<>>]
  /\ inbox  = [c \in Clients |-> <<>>]
  /\ alive  = {}
  /\ running = TRUE

Inside == {c \in Clients : member[c] = "inside"}
After(s, n) == SubSeq(s, n + 1, Len(s))

\* every member but c gets m, if it is still there to get it
Announce(c, m) ==
  inbox' = [d \in Clients |-> IF d \in (Inside \cap alive) \ {c}
                                THEN Append(inbox[d], m) ELSE inbox[d]]

Connect(c) ==
  /\ running /\ alive' = alive \cup {c}
  /\ UNCHANGED <<member, said, inbox, running>>

Type(c) ==
  /\ running /\ member[c] # "gone"
  /\ \E line \in Line : said' = [said EXCEPT ![c] = Append(@, line)]
  /\ UNCHANGED <<member, inbox, alive, running>>

Enter(c) ==
  /\ running /\ member[c] = "outside"
  /\ member' = [member EXCEPT ![c] = "inside"]
  /\ Announce(c, [kind |-> "joined", who |-> c])
  /\ UNCHANGED <<said, alive, running>>

Post(c) ==
  /\ running /\ member[c] = "inside"
  /\ \E n \in 1..Len(said[c]) :
       /\ ~IsQuit(said[c][1])
       /\ said' = [said EXCEPT ![c] = After(@, n)]
       /\ Announce(c, [kind |-> "says", who |-> c, text |-> SubSeq(said[c], 1, n)])
  /\ UNCHANGED <<member, alive, running>>

\* c says q, or has closed its end
Leave(c) ==
  /\ running /\ member[c] = "inside"
  /\ IF said[c] = <<>> THEN c \notin alive ELSE IsQuit(said[c][1])
  /\ member' = [member EXCEPT ![c] = "gone"]
  /\ said' = [said EXCEPT ![c] = <<>>]
  /\ Announce(c, [kind |-> "left", who |-> c])
  /\ UNCHANGED <<alive, running>>

Read(c) ==
  /\ \E n \in 1..Len(inbox[c]) : inbox' = [inbox EXCEPT ![c] = After(@, n)]
  /\ UNCHANGED <<member, said, alive, running>>

Vanish(c) ==
  /\ alive' = alive \ {c}
  /\ inbox' = [inbox EXCEPT ![c] = <<>>]
  /\ UNCHANGED <<member, said, running>>

\* the server is gone: at most the last event misses some of the members
Stop ==
  /\ running /\ running' = FALSE
  /\ \E missed \in SUBSET {c \in Clients : inbox[c] # <<>>} :
       inbox' = [c \in Clients |-> IF c \in missed
                                     THEN SubSeq(inbox[c], 1, Len(inbox[c]) - 1)
                                     ELSE inbox[c]]
  /\ said' = [c \in Clients |-> <<>>]
  /\ \E met \in SUBSET Clients :
       member' = [c \in Clients |-> IF c \in met THEN "gone" ELSE "outside"]
  /\ UNCHANGED alive

Next ==
  \/ \E c \in Clients :
       Connect(c) \/ Type(c) \/ Enter(c) \/ Post(c) \/ Leave(c) \/ Read(c) \/ Vanish(c)
  \/ Stop

Spec == Init /\ [][Next]_roomvars
=============================================================================
