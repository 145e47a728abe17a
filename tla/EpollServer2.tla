---------------------------- MODULE EpollServer2 ----------------------------
(***************************************************************************)
(* src/0618/epoll_server2.c: a single-threaded server that sends what one  *)
(* client writes to all of them, its sender included.  Its scan runs over  *)
(* nfds entries of the array events, nfds being one more than the number   *)
(* of connections ever accepted, and not over what epoll_wait() has just   *)
(* returned: what lies behind that are entries of earlier calls.           *)
(***************************************************************************)
EXTENDS EpollClient2, FiniteSets, SequencesExt

CONSTANT MAX_EVENT    \* the length of events and of socklist (32 in the code)
ASSUME MaxEventAssumption == MAX_EVENT \in Nat \ {0}

VARIABLES
  pc,         \* wait, loop, send: where main() is; exit and killed: its end;
              \* overrun: it has gone beyond events or socklist
  socklist,   \* socklist[0..nfds-2]; socklist[nfds-1] has never been assigned
  events,     \* the array events, each entry named by its descriptor
  i,          \* the scan's loop variable (counted from 1)
  j,          \* the broadcast's loop variable (counted from 1); dead elsewhere
  mesg,       \* the text in mesg; empty after an address or a failed read()
  edge,       \* accepted connections with something new since it was reported
  said        \* what main() has read and started to send to all, so far

servervars == <<pc, socklist, events, i, j, mesg, edge, said>>
vars       == <<netvars, clientvars, servervars>>

nfds  == Len(socklist) + 1
Ssock == "ssock"
Unset == "unset"
Entry == Clients \cup {Ssock, Unset}

Init ==
  /\ NetInit /\ ClientInit
  /\ pc = "wait" /\ socklist = <<>> /\ i = 1 /\ j = 1 /\ mesg = <<>> /\ edge = {} /\ said = <<>>
  /\ events = [k \in 1..MAX_EVENT |-> Unset]

TypeOK ==
  /\ peer \in [Clients -> PeerState] /\ held \in [Clients -> HeldState]
  /\ up \in [Clients -> Seq(Line)] /\ down \in [Clients -> Seq(Seq(Line))]
  /\ pc \in {"wait", "loop", "send", "exit", "killed", "overrun"}
  /\ events \in [1..MAX_EVENT -> Entry] /\ i \in Nat \ {0} /\ j \in Nat \ {0}
  /\ mesg \in Seq(Line) /\ edge \subseteq {c \in Clients : held[c] # "none"}
  /\ Len(socklist) <= MAX_EVENT
  /\ pc = "overrun" => Len(socklist) = MAX_EVENT
  /\ \A c \in Clients : held[c] = "open" => \E k \in 1..Len(socklist) : socklist[k] = c

-----------------------------------------------------------------------------
(* The pass.                                                               *)

\* the listening socket is level-triggered
Pending == {c \in edge : Readable(c)} \cup (IF backlog # <<>> THEN {Ssock} ELSE {})

\* epoll_wait(): what is pending, in any order and as much as fits, over the front
\* of events; the timeout returns nothing and is not told from that
Wait ==
  /\ pc = "wait"
  /\ \E s \in SetToSeqs(Pending) :
       /\ events' = [k \in 1..MAX_EVENT |-> IF k <= Len(s) THEN s[k] ELSE events[k]]
       /\ edge' = {s[k] : k \in (MAX_EVENT + 1)..Len(s)} \ {Ssock}
  /\ i' = 1 /\ pc' = "loop"
  /\ UNCHANGED <<netvars, clientvars, socklist, j, mesg, said>>

\* (mutants: nfds stays 1 for the scan; the scan goes one entry too far)
OnlyFirst == i <= 1
OneMore   == i <= nfds + 1
Scanning  == i <= nfds
InLoop    == pc = "loop" /\ Scanning /\ i <= MAX_EVENT

\* (mutant: one iteration too few)
AllButOne == j < Len(socklist)
Sending   == j <= Len(socklist)

\* Nothing keeps nfds below MAX_EVENT, nor i.  With a connection for each entry of
\* socklist the scan comes to events[MAX_EVENT], the end of a broadcast reads
\* socklist[MAX_EVENT], and the next accept() writes it (indices as in the code):
\* what main() does from there on is not defined.
Overrun ==
  /\ \/ pc = "loop" /\ Scanning /\ i > MAX_EVENT
     \/ pc = "send" /\ ~Sending /\ nfds > MAX_EVENT
     \/ InLoop /\ events[i] = Ssock /\ backlog # <<>> /\ nfds > MAX_EVENT
  /\ pc' = "overrun"
  /\ UNCHANGED <<netvars, clientvars, socklist, events, i, j, mesg, edge, said>>

NextEntry == i' = i + 1 /\ UNCHANGED pc
\* the end of the scan, or a break out of it: a text that begins with q ends main()
EndOfScan(text) ==
  IF text # <<>> /\ IsQuit(text[1])
    THEN pc' = "exit" /\ ServerEnds /\ edge' = {} /\ Report(Clients) /\ UNCHANGED i
    ELSE pc' = "wait" /\ i' = 1 /\ UNCHANGED <<up, held, backlog, listening, edge, news>>

\* a never assigned entry has no EPOLLIN, or a descriptor that cannot be read
UnsetEntry ==
  /\ InLoop /\ events[i] = Unset
  /\ \/ /\ NextEntry /\ UNCHANGED <<netvars, clientvars, edge, mesg>>
     \/ /\ mesg' = <<>> /\ EndOfScan(<<>>)
        /\ UNCHANGED <<down, peer, typed, seen>>
  /\ UNCHANGED <<socklist, events, j, said>>

\* (mutant: the connection gets no place)
NoPlace(c) == socklist
Place(c)   == Append(socklist, c)

\* accept(), registration and a place in socklist, which also lengthens the scan
Accept ==
  /\ InLoop /\ events[i] = Ssock
  /\ backlog # <<>> => nfds <= MAX_EVENT
  /\ IF backlog = <<>>
       THEN UNCHANGED <<held, backlog, socklist, edge, mesg, seen>>
       ELSE LET c == Head(backlog)
            IN  /\ held' = [held EXCEPT ![c] = "open"] /\ backlog' = Tail(backlog)
                /\ socklist' = Place(c)
                /\ edge' = IF Readable(c) THEN edge \cup {c} ELSE edge
                /\ mesg' = <<>>
                /\ seen' = [seen EXCEPT ![c] = Len(said)]
  /\ NextEntry
  /\ UNCHANGED <<up, down, peer, listening, news, typed, events, j, said>>

\* n > 0: everything there is
Read ==
  /\ InLoop /\ events[i] \in Clients /\ up[events[i]] # <<>>
  /\ mesg' = up[events[i]]
  /\ ReadData(events[i], Len(up[events[i]]))
  /\ pc' = "send" /\ j' = 1 /\ said' = Append(said, mesg')
  /\ UNCHANGED <<down, peer, held, backlog, listening, clientvars, socklist, events, i, edge>>

\* n <= 0: an end of file, an error, or nothing left for an entry of an earlier
\* call; the scan ends, whatever is behind this entry
ReadFails ==
  /\ InLoop /\ events[i] \in Clients /\ up[events[i]] = <<>>
  /\ mesg' = <<>> /\ EndOfScan(<<>>)
  /\ IF peer[events[i]] = "reset" THEN ReadError(events[i]) ELSE UNCHANGED peer
  /\ UNCHANGED <<down, typed, seen, socklist, events, j, said>>

\* one write() of the broadcast
Send ==
  /\ pc = "send" /\ Sending
  /\ IF Fatal(socklist[j])
       THEN /\ pc' = "killed" /\ ServerEnds /\ edge' = {} /\ Report(Clients)
            /\ UNCHANGED <<down, peer, j>>
       ELSE /\ Write(socklist[j], mesg) /\ Report({socklist[j]}) /\ j' = j + 1
            /\ UNCHANGED <<up, held, backlog, listening, pc, edge>>
  /\ UNCHANGED <<typed, seen, socklist, events, i, mesg, said>>

\* the last write() goes to a descriptor that was never assigned: it fails
EndOfSend ==
  /\ pc = "send" /\ ~Sending /\ nfds <= MAX_EVENT
  /\ pc' = "loop" /\ i' = i + 1 /\ j' = 1
  /\ UNCHANGED <<netvars, clientvars, socklist, events, mesg, edge, said>>

EndOfPass ==
  /\ pc = "loop" /\ ~Scanning
  /\ EndOfScan(mesg)
  /\ UNCHANGED <<down, peer, typed, seen, socklist, events, j, mesg, said>>

ServerStep ==
  \/ Wait \/ UnsetEntry \/ Accept \/ Read \/ ReadFails \/ Send \/ EndOfSend \/ EndOfPass
  \/ Overrun

-----------------------------------------------------------------------------
\* what a client does to an accepted connection is news for epoll
Outside ==
  \E c \in Clients :
    /\ ClientNext(c) \/ (RstArrives(c) /\ UNCHANGED clientvars)
    /\ edge' = IF held[c] = "open" /\ <<up, peer>>' # <<up, peer>> THEN edge \cup {c} ELSE edge
    /\ UNCHANGED <<pc, socklist, events, i, j, mesg, said>>

Next == ServerStep \/ Outside

\* the operating system runs the server, and each client but for its user
ServerSpec == Init /\ [][Next]_vars /\ WF_vars(ServerStep)
Spec == ServerSpec /\ \A c \in Clients : WF_vars(ClientStep(c) /\ UNCHANGED servervars)

-----------------------------------------------------------------------------
(* What must hold.                                                         *)

\* All hear the same: every client that is still there has before it exactly what
\* has been read from anybody since it was accepted and it has not read yet, each
\* text once and in one order (94: "Echo"; 110-112), however fresh and stale
\* entries, accept()s and departures are mixed; only a broadcast that is not over
\* has reached some and not all.
AllHearTheSame ==
  (pc = "send" => ~Sending) =>
    \A c \in Clients :
      held[c] = "open" /\ peer[c] = "open" => down[c] = SubSeq(said, seen[c] + 1, Len(said))

AllStay == \A c \in Clients : peer[c] \in {"idle", "open"}

\* As long as nobody leaves and the arrays are not overrun, whoever writes is heard
\* in the end: edges are reported once, but no entry that is fresh is behind one
\* whose read() fails and ends the scan (95, 113), and accept() makes the scan
\* longer, never shorter (87).
HeardWhileAllStay ==
  \A c \in Clients :
    held[c] = "open" /\ up[c] # <<>> ~> up[c] = <<>> \/ ~AllStay \/ pc = "overrun"

\* Line 97, "close the client's socket and delete it": who leaves is closed.
LeaverIsClosed ==
  \A c \in Clients : held[c] = "open" /\ peer[c] # "open" ~> held[c] = "closed"

\* epoll_client2.c:151-153, "the server has closed the connection normally": the
\* client learns it and leaves its loop.
DisconnectIsNoticed == \A c \in Clients : held[c] = "closed" ~> peer[c] # "open"
=============================================================================
