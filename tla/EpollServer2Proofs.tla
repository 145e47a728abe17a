-------------------------- MODULE EpollServer2Proofs --------------------------
(***************************************************************************)
(* What holds of src/0618/epoll_server2.c for any number of clients and of *)
(* lines, and any length of its arrays: nothing keeps the loops over nfds  *)
(* entries within them (70, 86-87, 110), and they leave them with the      *)
(* connection that takes the last place in socklist, not before.           *)
(***************************************************************************)
EXTENDS EpollServer2, SequenceTheorems, FiniteSetTheorems, TLAPS

Running == pc \notin {"exit", "killed"}

\* What TypeOK leaves out
DataInv ==
  /\ backlog \in Seq(Clients) /\ socklist \in Seq(Clients) /\ listening \in BOOLEAN
  /\ said \in Seq(Seq(Line)) /\ seen \in [Clients -> Nat] /\ typed \in [Clients -> Nat]
  /\ news \in [Clients -> BOOLEAN]

\* A connection has one place, in the backlog or in socklist
PlacesInv ==
  /\ \A k \in 1..Len(backlog) : held[backlog[k]] = "none" /\ peer[backlog[k]] # "idle"
  /\ \A k \in 1..Len(socklist) : held[socklist[k]] # "none"
  /\ \A k, l \in 1..Len(backlog) : backlog[k] = backlog[l] => k = l
  /\ \A k, l \in 1..Len(socklist) : socklist[k] = socklist[l] => k = l

\* Nothing is sent on a connection without a descriptor, and only the end closes one
HeldInv ==
  /\ \A c \in Clients : held[c] = "none" => down[c] = <<>>
  /\ \A c \in Clients : peer[c] = "idle" => held[c] = "none"
  /\ \A c \in edge : held[c] = "open"
  /\ ~Running => \A c \in Clients : held[c] # "open"

\* c has, read or before it, exactly the first n texts, from those it was there for
Heard(c, n) ==
  /\ Len(down[c]) + seen[c] = n
  /\ \A k \in 1..Len(down[c]) : down[c][k] = said[seen[c] + k]

\* In the middle of a broadcast those in front of j have it already
Told(c) == \E k \in 1..Len(socklist) : k < j /\ socklist[k] = c
HearInv ==
  /\ pc = "send" => said # <<>> /\ mesg = said[Len(said)]
  /\ \A c \in Clients :
       held[c] = "open" /\ peer[c] = "open" =>
         Heard(c, IF pc = "send" /\ ~Told(c) THEN Len(said) - 1 ELSE Len(said))

EpollInv == TypeOK /\ DataInv /\ PlacesInv /\ HeldInv /\ HearInv

-----------------------------------------------------------------------------
\* Of a sequence that is read to its end nothing is left
LEMMA TakenAll ==
  ASSUME NEW S, NEW s \in Seq(S)
  PROVE  SubSeq(s, Len(s) + 1, Len(s)) = <<>>
<1>1. Len(s) \in Nat
  BY LenProperties
<1>2. Len(s) + 1 \in Int /\ Len(s) \in Int /\ Len(s) < Len(s) + 1
  BY <1>1
<1> QED BY <1>2, SubSeqEmpty

\* Finitely many places hold finitely many things
LEMMA FiniteRange ==
  ASSUME NEW S, NEW n \in Nat, NEW f \in [1..n -> S],
         NEW T, \A t \in T : \E k \in 1..n : f[k] = t
  PROVE  IsFiniteSet(T)
<1> DEFINE R == {f[k] : k \in 1..n}
           I == 1..n
<1>1. IsFiniteSet(I)
  BY FS_Interval
<1>2. f \in Surjection(I, R) /\ T \in SUBSET R
  BY DEF Surjection
<1> HIDE DEF R, I
<1>3. IsFiniteSet(R)
  BY <1>1, <1>2, FS_Surjection
<1> QED BY <1>2, <1>3, FS_Subset

(* Kinds of steps.                                                         *)

\* When no broadcast is under way all have heard all
LEMMA Epoll_Heard ==
  ASSUME EpollInv, pc = "send" => ~Sending,
         NEW c \in Clients, held[c] = "open", peer[c] = "open"
  PROVE  Heard(c, Len(said))
<1>1. TypeOK /\ DataInv /\ HearInv
  BY DEF EpollInv
<1>2. PICK k \in 1..Len(socklist) : socklist[k] = c
  BY <1>1 DEF TypeOK
<1>3. pc = "send" => Told(c)
  <2>1. Len(socklist) \in Nat /\ j \in Nat
    BY <1>1, LenProperties DEF DataInv, TypeOK
  <2>2. pc = "send" => k < j
    BY <2>1 DEF Sending
  <2> QED BY <1>2, <2>2 DEF Told
<1> QED BY <1>1, <1>3 DEF HearInv

\* A step of main() that writes nothing: what is said, read and registered stays, and
\* nobody comes back
LEMMA Epoll_Move ==
  ASSUME EpollInv, pc \in {"wait", "loop"} \/ (pc = "send" /\ ~Sending),
         pc' \in {"wait", "loop"} \/ (pc' = "overrun" /\ Len(socklist) = MAX_EVENT),
         UNCHANGED <<up, down, held, backlog, listening, clientvars, socklist, said>>,
         edge' \subseteq edge, events' \in [1..MAX_EVENT -> Entry], i' \in Nat \ {0},
         j' \in Nat \ {0}, mesg' \in Seq(Line), peer' \in [Clients -> PeerState],
         \A c \in Clients : /\ peer'[c] = "open" => peer[c] = "open"
                            /\ peer'[c] = "idle" <=> peer[c] = "idle"
  PROVE  EpollInv'
<1>1. TypeOK /\ DataInv /\ PlacesInv /\ HeldInv /\ HearInv
      /\ UNCHANGED <<up, down, held, backlog, listening, news, typed, seen, socklist, said>>
      /\ Running /\ Running'
  BY DEF EpollInv, clientvars, Running
<1>2. TypeOK'
  BY <1>1 DEF TypeOK
<1>3. DataInv'
  BY <1>1 DEF DataInv
<1>4. PlacesInv'
  <2>1. /\ \A k \in 1..Len(backlog) : backlog[k] \in Clients
        /\ \A k \in 1..Len(socklist) : socklist[k] \in Clients
    BY <1>1, ElementOfSeq DEF DataInv
  <2> QED BY <1>1, <2>1 DEF PlacesInv
<1>5. HeldInv'
  BY <1>1 DEF HeldInv
<1>6. HearInv'
  <2>1. \A c \in Clients : held[c] = "open" /\ peer[c] = "open" => Heard(c, Len(said))
    BY Epoll_Heard
  <2>2. \A c \in Clients : \A n : Heard(c, n) => Heard(c, n)'
    BY <1>1 DEF Heard
  <2> QED BY <1>1, <2>1, <2>2 DEF HearInv
<1> QED BY <1>2, <1>3, <1>4, <1>5, <1>6 DEF EpollInv

\* The end of the process (112, 116-120)
LEMMA Epoll_End ==
  ASSUME EpollInv, pc' \in {"exit", "killed"}, ServerEnds, edge' = {}, Report(Clients),
         UNCHANGED <<down, peer, typed, seen, socklist, events, i, j, mesg, said>>
  PROVE  EpollInv'
<1>1. /\ TypeOK /\ DataInv /\ PlacesInv /\ HeldInv
      /\ held' = [c \in Clients |-> IF peer[c] = "idle" THEN "none" ELSE "closed"]
      /\ up' = [c \in Clients |-> <<>>] /\ backlog' = <<>> /\ listening' = FALSE
      /\ news' = [c \in Clients |-> news[c] \/ c \in Clients]
  BY DEF EpollInv, ServerEnds, Report
<1>2. /\ \A c \in Clients : held'[c] # "open" /\ (held'[c] = "none" <=> peer[c] = "idle")
      /\ held' \in [Clients -> HeldState] /\ up' \in [Clients -> Seq(Line)]
      /\ backlog' \in Seq(Clients) /\ Len(backlog') = 0 /\ news' \in [Clients -> BOOLEAN]
  BY <1>1, EmptySeq DEF HeldState
<1>3. TypeOK'
  BY <1>1, <1>2 DEF TypeOK
<1>4. DataInv'
  BY <1>1, <1>2 DEF DataInv
<1>5. PlacesInv'
  <2>1. \A k \in 1..Len(socklist) : socklist[k] \in Clients
    BY <1>1, ElementOfSeq DEF DataInv
  <2>2. \A k \in 1..Len(socklist) : held'[socklist[k]] # "none"
    BY <1>1, <1>2, <2>1 DEF PlacesInv, HeldInv
  <2>3. 1..0 = {}
    OBVIOUS
  <2> QED BY <1>1, <1>2, <2>2, <2>3 DEF PlacesInv
<1>6. HeldInv'
  BY <1>1, <1>2 DEF HeldInv
<1>7. HearInv'
  BY <1>2 DEF HearInv
<1> QED BY <1>3, <1>4, <1>5, <1>6, <1>7 DEF EpollInv

\* A step of a client or of the network: who is accepted stays accepted, and who stays
\* has and has had the same texts
LEMMA Epoll_Outside ==
  ASSUME EpollInv, UNCHANGED <<pc, socklist, events, i, j, mesg, said, held, listening>>,
         edge' \subseteq edge \cup {c \in Clients : held[c] = "open"},
         up' \in [Clients -> Seq(Line)], down' \in [Clients -> Seq(Seq(Line))],
         peer' \in [Clients -> PeerState], seen' \in [Clients -> Nat],
         typed' \in [Clients -> Nat], news' \in [Clients -> BOOLEAN],
         backlog' \in Seq(Clients), PlacesInv',
         \A c \in Clients : /\ down[c] = <<>> => down'[c] = <<>>
                            /\ peer'[c] = "idle" => peer[c] = "idle",
         \A c \in Clients : held[c] = "open" /\ peer'[c] = "open" =>
                              peer[c] = "open" /\ (\A n : Heard(c, n) => Heard(c, n)')
  PROVE  EpollInv'
<1>1. TypeOK /\ DataInv /\ HeldInv /\ HearInv
  BY DEF EpollInv
<1>2. TypeOK'
  BY <1>1 DEF TypeOK
<1>3. DataInv'
  BY <1>1 DEF DataInv
<1>4. HeldInv'
  BY <1>1 DEF HeldInv, Running
<1>5. HearInv'
  <2>1. \A c \in Clients : Told(c)' = Told(c)
    BY DEF Told
  <2> QED BY <1>1, <2>1 DEF HearInv
<1> QED BY <1>2, <1>3, <1>4, <1>5 DEF EpollInv

-----------------------------------------------------------------------------
(* main().                                                                 *)

\* epoll_wait() (68)
LEMMA Epoll_Wait ==
  ASSUME EpollInv, Wait
  PROVE  EpollInv'
<1>1. /\ TypeOK /\ DataInv /\ HeldInv /\ pc = "wait" /\ pc' = "loop" /\ i' = 1
      /\ UNCHANGED <<up, down, peer, held, backlog, listening, clientvars, socklist, j, mesg, said>>
  BY DEF EpollInv, Wait, netvars
<1>2. PICK s \in SetToSeqs(Pending) :
        /\ events' = [k \in 1..MAX_EVENT |-> IF k <= Len(s) THEN s[k] ELSE events[k]]
        /\ edge' = {s[k] : k \in (MAX_EVENT + 1)..Len(s)} \ {Ssock}
  BY DEF Wait
<1>3. IsFiniteSet(Pending) /\ Pending \subseteq Entry /\ Pending \subseteq edge \cup {Ssock}
  <2>1. PICK n \in Nat : n = Len(socklist) /\ socklist \in [1..n -> Clients]
    BY <1>1, LenProperties DEF DataInv
  <2>2. edge \subseteq Clients /\ \A c \in edge : \E k \in 1..n : socklist[k] = c
    BY <1>1, <2>1 DEF TypeOK, HeldInv
  <2>3. IsFiniteSet(edge)
    BY <2>1, <2>2, FiniteRange
  <2>4. IsFiniteSet(edge \cup {Ssock})
    BY <2>3, FS_AddElement
  <2>5. Pending \in SUBSET (edge \cup {Ssock})
    BY DEF Pending
  <2>6. IsFiniteSet(Pending)
    BY <2>4, <2>5, FS_Subset
  <2> QED BY <2>2, <2>5, <2>6 DEF Entry
<1>4. Cardinality(Pending) \in Nat /\ s \in [1..Cardinality(Pending) -> Pending]
  BY <1>3, FS_CardinalityType DEF SetToSeqs
<1>5. \A k \in Nat \ {0} : k <= Len(s) => s[k] \in Entry /\ s[k] \in edge \cup {Ssock}
  <2> DEFINE n == Cardinality(Pending)
  <2>1. /\ n \in Nat /\ s \in [1..n -> Pending] /\ Pending \subseteq Entry
        /\ Pending \subseteq edge \cup {Ssock}
    BY <1>3, <1>4
  <2> HIDE DEF n
  <2>2. Len(s) = n
    BY <2>1
  <2> QED BY <2>1, <2>2
<1>6. events' \in [1..MAX_EVENT -> Entry] /\ edge' \subseteq edge
  <2>1. Len(s) \in Nat
    BY <1>4
  <2>2. events' \in [1..MAX_EVENT -> Entry]
    BY <1>1, <1>2, <1>5, MaxEventAssumption DEF TypeOK
  <2>3. \A k \in (MAX_EVENT + 1)..Len(s) : k \in Nat \ {0} /\ k <= Len(s)
    BY <2>1, MaxEventAssumption
  <2> QED BY <1>2, <1>5, <2>2, <2>3
<1>7. /\ i' \in Nat \ {0} /\ j' \in Nat \ {0} /\ mesg' \in Seq(Line)
      /\ peer' \in [Clients -> PeerState]
  BY <1>1 DEF TypeOK
<1> QED BY <1>1, <1>6, <1>7, Epoll_Move

\* an entry that was never assigned, a read() that fails, the end of a broadcast and
\* of the scan, and an index beyond an array (70, 86, 90-120)
LEMMA Epoll_Pass ==
  ASSUME EpollInv, UnsetEntry \/ ReadFails \/ EndOfSend \/ EndOfPass \/ Overrun
  PROVE  EpollInv'
<1>1. TypeOK /\ i \in Nat \ {0} /\ i + 1 \in Nat \ {0} /\ peer \in [Clients -> PeerState]
      /\ mesg \in Seq(Line) /\ <<>> \in Seq(Line) /\ j \in Nat \ {0}
      /\ events \in [1..MAX_EVENT -> Entry]
  BY EmptySeq DEF EpollInv, TypeOK
<1>0. Overrun => Len(socklist) = MAX_EVENT
  <2>1. Len(socklist) \in Nat /\ Len(socklist) <= MAX_EVENT
    BY LenProperties DEF EpollInv, TypeOK, DataInv
  <2>2. Overrun => Len(socklist) + 1 > MAX_EVENT
    BY <1>1, <2>1, MaxEventAssumption DEF Overrun, Scanning, nfds
  <2> QED BY <2>1, <2>2, MaxEventAssumption
<1>2. CASE pc' = "exit"
  <2>1. /\ ServerEnds /\ edge' = {} /\ Report(Clients)
        /\ UNCHANGED <<down, peer, typed, seen, socklist, events, i, j, mesg, said>>
    BY <1>2 DEF UnsetEntry, ReadFails, EndOfSend, EndOfPass, EndOfScan, NextEntry, InLoop, Overrun
  <2> QED BY <1>2, <2>1, Epoll_End
<1>3. CASE pc' # "exit"
  <2>1. /\ pc \in {"wait", "loop"} \/ (pc = "send" /\ ~Sending)
        /\ pc' \in {"wait", "loop"} \/ (pc' = "overrun" /\ Len(socklist) = MAX_EVENT)
        /\ edge' = edge
        /\ UNCHANGED <<up, down, held, backlog, listening, clientvars, socklist, said, events>>
        /\ i' \in {1, i, i + 1} /\ j' \in {1, j} /\ mesg' \in {<<>>, mesg}
    <3>1. CASE Overrun
      BY <1>0, <3>1 DEF Overrun, InLoop, netvars, clientvars
    <3>2. CASE UnsetEntry \/ ReadFails \/ EndOfSend \/ EndOfPass
      BY <1>3, <3>2 DEF UnsetEntry, ReadFails, EndOfSend, EndOfPass, EndOfScan, NextEntry, InLoop,
                        netvars, clientvars
    <3> QED BY <3>1, <3>2
  <2>2. /\ peer' \in [Clients -> PeerState]
        /\ \A c \in Clients : /\ peer'[c] = "open" => peer[c] = "open"
                              /\ peer'[c] = "idle" <=> peer[c] = "idle"
    BY <1>1 DEF UnsetEntry, ReadFails, ReadError, EndOfSend, EndOfPass, Overrun, netvars,
                  PeerState
  <2>3. /\ events' \in [1..MAX_EVENT -> Entry] /\ i' \in Nat \ {0}
        /\ j' \in Nat \ {0} /\ mesg' \in Seq(Line)
    <3>1. events' = events
      BY <2>1
    <3>2. i' \in Nat \ {0}
      BY <1>1, <2>1
    <3>3. j' \in Nat \ {0}
      BY <1>1, <2>1
    <3>4. mesg' \in Seq(Line)
      BY <1>1, <2>1
    <3> QED BY <1>1, <3>1, <3>2, <3>3, <3>4
  <2> QED BY <2>1, <2>2, <2>3, Epoll_Move
<1> QED BY <1>2, <1>3

\* accept(), and the connection's place in socklist (71-89)
LEMMA Epoll_Accept ==
  ASSUME EpollInv, Accept
  PROVE  EpollInv'
<1>0. i + 1 \in Nat \ {0}
  BY DEF EpollInv, TypeOK
<1>1. /\ TypeOK /\ DataInv /\ PlacesInv /\ HeldInv /\ HearInv /\ pc = "loop" /\ pc' = pc
      /\ i' = i + 1 /\ i' \in Nat \ {0} /\ backlog \in Seq(Clients) /\ socklist \in Seq(Clients)
      /\ UNCHANGED <<up, down, peer, listening, news, typed, events, j, said>>
      /\ held \in [Clients -> HeldState] /\ seen \in [Clients -> Nat]
  BY <1>0 DEF EpollInv, TypeOK, DataInv, Accept, InLoop, NextEntry
<1>2. CASE backlog = <<>>
  <2>1. UNCHANGED <<held, backlog, socklist, edge, mesg, seen>>
    BY <1>2 DEF Accept
  <2> QED BY <1>1, <2>1, Epoll_Move DEF TypeOK, clientvars
<1>3. CASE backlog # <<>>
  <2>1. PICK c \in Clients : c = Head(backlog)
    BY <1>1, <1>3, HeadTailProperties
  <2>2. /\ held' = [held EXCEPT ![c] = "open"] /\ backlog' = Tail(backlog)
        /\ socklist' = Append(socklist, c) /\ edge' \subseteq edge \cup {c} /\ mesg' = <<>>
        /\ seen' = [seen EXCEPT ![c] = Len(said)]
    BY <1>3, <2>1 DEF Accept, Place
  <2> DEFINE n == Len(backlog)
             m == Len(socklist)
             s == socklist'
             b == backlog'
  <2>3. /\ n \in Nat \ {0} /\ c = backlog[1] /\ b \in Seq(Clients) /\ Len(b) = n - 1
        /\ \A k \in 1..(n - 1) : b[k] = backlog[k + 1]
    BY <1>1, <1>3, <2>1, <2>2, HeadTailProperties, LenProperties, EmptySeq
  <2>4. /\ m \in Nat /\ s \in Seq(Clients) /\ Len(s) = m + 1 /\ s[m + 1] = c
        /\ \A k \in 1..m : s[k] = socklist[k]
    BY <1>1, <2>2, AppendProperties, LenProperties
  <2>5. /\ \A k \in 1..n : backlog[k] \in Clients /\ held[backlog[k]] = "none"
                                               /\ peer[backlog[k]] # "idle"
        /\ \A k, l \in 1..n : backlog[k] = backlog[l] => k = l
        /\ \A k \in 1..m : socklist[k] \in Clients /\ held[socklist[k]] # "none"
        /\ \A k, l \in 1..m : socklist[k] = socklist[l] => k = l
    BY <1>1, ElementOfSeq DEF PlacesInv
  <2>6. held[c] = "none" /\ down[c] = <<>> /\ peer[c] # "idle"
    <3>1. 1 \in 1..n
      BY <2>3
    <3> HIDE DEF n, m, s, b
    <3>2. held[c] = "none" /\ peer[c] # "idle"
      BY <2>3, <2>5, <3>1
    <3> QED BY <1>1, <3>2 DEF HeldInv
  <2>7. held'[c] = "open" /\ \A d \in Clients \ {c} : held'[d] = held[d]
    BY <1>1, <2>2
  <2>8. seen'[c] = Len(said) /\ \A d \in Clients \ {c} : seen'[d] = seen[d]
    BY <1>1, <2>2
  <2>9. Len(said) \in Nat /\ seen' \in [Clients -> Nat]
    BY <1>1, <2>2, LenProperties DEF DataInv
  <2>10. PlacesInv'
    <3> HIDE DEF n, m, s, b
    <3>1. \A k \in 1..(n - 1) : b[k] \in Clients \ {c} /\ held[b[k]] = "none" /\ peer[b[k]] # "idle"
      BY <2>3, <2>5
    <3>2. \A k, l \in 1..(n - 1) : b[k] = b[l] => k = l
      BY <2>3, <2>5
    <3>3. \A k \in 1..m : s[k] \in Clients \ {c} /\ held[s[k]] # "none"
      BY <2>4, <2>5, <2>6
    <3>4. \A k \in 1..(m + 1) : held'[s[k]] # "none"
      BY <2>4, <2>7, <3>3
    <3>5. \A k, l \in 1..m : s[k] = s[l] => k = l
      BY <2>4, <2>5
    <3>6. \A k, l \in 1..(m + 1) : s[k] = s[l] => k = l
      BY <2>4, <3>3, <3>5
    <3>7. \A k \in 1..(n - 1) : held'[b[k]] = "none" /\ peer'[b[k]] # "idle"
      BY <1>1, <2>7, <3>1
    <3> QED BY <2>3, <2>4, <3>2, <3>4, <3>6, <3>7 DEF PlacesInv, s, b
  <2>11. m + 1 <= MAX_EVENT
    BY <1>3 DEF Accept, nfds
  <2>12. TypeOK'
    <3>1. \A d \in Clients : held'[d] = "open" => \E k \in 1..Len(s) : s[k] = d
      <4> SUFFICES ASSUME NEW d \in Clients, held'[d] = "open"
                   PROVE  \E k \in 1..Len(s) : s[k] = d
        OBVIOUS
      <4>1. CASE d = c
        <5>1. m + 1 \in 1..Len(s)
          BY <2>4
        <5> QED BY <2>4, <4>1, <5>1
      <4>2. CASE d # c
        <5>1. PICK k \in 1..m : socklist[k] = d
          BY <1>1, <2>7, <4>2 DEF TypeOK
        <5>2. k \in 1..Len(s) /\ s[k] = d
          BY <2>4, <5>1
        <5> QED BY <5>2
      <4> QED BY <4>1, <4>2
    <3>2. held' \in [Clients -> HeldState] /\ edge' \subseteq {d \in Clients : held'[d] # "none"}
      BY <1>1, <2>2, <2>7 DEF HeldState, TypeOK
    <3>3. Len(s) <= MAX_EVENT /\ mesg' \in Seq(Line)
      BY <2>2, <2>4, <2>11, MaxEventAssumption, EmptySeq
    <3> QED BY <1>1, <3>1, <3>2, <3>3 DEF TypeOK
  <2>13. DataInv'
    BY <1>1, <2>3, <2>4, <2>9 DEF DataInv
  <2>14. HeldInv'
    BY <1>1, <2>2, <2>6, <2>7 DEF HeldInv, Running
  <2>15. HearInv'
    <3>1. Heard(c, Len(said))'
      <4>1. Len(down'[c]) = 0 /\ 1..0 = {}
        BY <1>1, <2>6
      <4> QED BY <1>1, <2>8, <2>9, <4>1 DEF Heard
    <3>2. \A d \in Clients \ {c} : Heard(d, Len(said)) => Heard(d, Len(said))'
      BY <1>1, <2>8 DEF Heard
    <3> QED BY <1>1, <2>7, <3>1, <3>2 DEF HearInv
  <2> QED BY <2>10, <2>12, <2>13, <2>14, <2>15 DEF EpollInv
<1> QED BY <1>2, <1>3

\* a read() that finds something (90-109)
LEMMA Epoll_Read ==
  ASSUME EpollInv, Read
  PROVE  EpollInv'
<1>1. /\ TypeOK /\ DataInv /\ PlacesInv /\ HeldInv /\ HearInv /\ pc = "loop" /\ pc' = "send"
      /\ j' = 1 /\ said' = Append(said, mesg')
      /\ UNCHANGED <<down, peer, held, backlog, listening, news, typed, seen, socklist, events,
                     i, edge>>
  BY DEF EpollInv, Read, InLoop, clientvars
<1>2. PICK c \in Clients :
        /\ c = events[i] /\ up[c] # <<>> /\ mesg' = up[c]
        /\ up' = [up EXCEPT ![c] = SubSeq(up[c], Len(up[c]) + 1, Len(up[c]))]
  BY DEF Read, ReadData
<1>3. up[c] \in Seq(Line) /\ SubSeq(up[c], Len(up[c]) + 1, Len(up[c])) \in Seq(Line)
  <2>1. up[c] \in Seq(Line)
    BY <1>1 DEF TypeOK
  <2> QED BY <2>1, TakenAll, EmptySeq
<1>4. up' \in [Clients -> Seq(Line)] /\ mesg' \in Seq(Line) /\ j' \in Nat \ {0}
  BY <1>1, <1>2, <1>3 DEF TypeOK
<1>5. /\ said' \in Seq(Seq(Line)) /\ said' # <<>> /\ Len(said') = Len(said) + 1
      /\ said'[Len(said')] = mesg' /\ \A k \in 1..Len(said) : said'[k] = said[k]
      /\ Len(said) \in Nat
  <2>1. said \in Seq(Seq(Line)) /\ mesg' \in Seq(Line) /\ said' = Append(said, mesg')
    BY <1>1, <1>4 DEF DataInv
  <2> QED BY <2>1, AppendProperties, LenProperties
<1>6. TypeOK'
  BY <1>1, <1>4 DEF TypeOK
<1>7. DataInv' /\ PlacesInv'
  BY <1>1, <1>5 DEF DataInv, PlacesInv
<1>8. HeldInv'
  BY <1>1 DEF HeldInv, Running
<1>9. HearInv'
  <2>0. PICK n \in Nat : n = Len(said)
    BY <1>5
  <2>1. ASSUME NEW d \in Clients, held[d] = "open", peer[d] = "open"
        PROVE  Heard(d, n)'
    <3>0. PICK m \in Nat : m = Len(down[d])
      <4>1. down[d] \in Seq(Seq(Line))
        BY <1>1 DEF TypeOK
      <4> QED BY <4>1, LenProperties
    <3>1. Heard(d, n) /\ seen[d] \in Nat
      BY <1>1, <2>0, <2>1 DEF HearInv, DataInv
    <3>2. m + seen[d] = n /\ \A k \in 1..m : down[d][k] = said[seen[d] + k]
      BY <3>0, <3>1 DEF Heard
    <3>3. \A k \in 1..m : seen[d] + k \in 1..n
      BY <3>1, <3>2
    <3>4. \A k \in 1..m : down[d][k] = said'[seen[d] + k]
      BY <1>5, <2>0, <3>2, <3>3
    <3> QED BY <1>1, <3>0, <3>2, <3>4 DEF Heard
  <2>2. \A d \in Clients : ~Told(d)'
    BY <1>1 DEF Told
  <2>3. Len(said') - 1 = n
    BY <1>5, <2>0
  <2> QED BY <1>1, <1>5, <2>1, <2>2, <2>3 DEF HearInv
<1> QED BY <1>6, <1>7, <1>8, <1>9 DEF EpollInv

\* one write() of the broadcast (110-112)
LEMMA Epoll_Send ==
  ASSUME EpollInv, Send
  PROVE  EpollInv'
<1>1. /\ TypeOK /\ DataInv /\ PlacesInv /\ HeldInv /\ HearInv /\ pc = "send"
      /\ j <= Len(socklist) /\ j \in Nat \ {0} /\ Len(socklist) \in Nat
      /\ UNCHANGED <<typed, seen, socklist, events, i, mesg, said>>
      /\ down \in [Clients -> Seq(Seq(Line))] /\ peer \in [Clients -> PeerState]
      /\ mesg \in Seq(Line)
  BY LenProperties DEF EpollInv, TypeOK, DataInv, Send, Sending
<1>2. PICK c \in Clients : c = socklist[j]
  <2>1. j \in 1..Len(socklist) /\ socklist \in Seq(Clients)
    BY <1>1 DEF DataInv
  <2> QED BY <2>1, ElementOfSeq
<1>3. CASE Fatal(c)
  <2>1. pc' = "killed" /\ ServerEnds /\ edge' = {} /\ Report(Clients) /\ UNCHANGED <<down, peer, j>>
    BY <1>2, <1>3 DEF Send
  <2> QED BY <1>1, <2>1, Epoll_End
<1>4. CASE ~Fatal(c)
  <2>1. /\ Write(c, mesg) /\ Report({c}) /\ j' = j + 1
        /\ UNCHANGED <<up, held, backlog, listening, pc, edge>>
    BY <1>2, <1>4 DEF Send
  <2>2. /\ peer' \in [Clients -> PeerState]
        /\ \A d \in Clients : /\ peer'[d] = "open" => peer[d] = "open"
                              /\ peer'[d] = "idle" <=> peer[d] = "idle"
    BY <1>1, <2>1 DEF Write, PeerState
  <2>3. Append(down[c], mesg) \in Seq(Seq(Line))
    <3>1. down[c] \in Seq(Seq(Line))
      BY <1>1
    <3> QED BY <1>1, <3>1, AppendProperties
  <2>4. /\ down' = [down EXCEPT ![c] = IF peer[c] = "open" THEN Append(down[c], mesg) ELSE down[c]]
        /\ news' = [d \in Clients |-> news[d] \/ d \in {c}]
    BY <2>1 DEF Write, Report
  <2>5. /\ down' \in [Clients -> Seq(Seq(Line))] /\ \A d \in Clients \ {c} : down'[d] = down[d]
        /\ peer[c] = "open" => down'[c] = Append(down[c], mesg)
    BY <1>1, <2>3, <2>4
  <2>6. news' \in [Clients -> BOOLEAN]
    BY <2>4
  <2>7. held[c] # "none" /\ j \in 1..Len(socklist)
    BY <1>1, <1>2 DEF PlacesInv
  <2>8. TypeOK'
    <3>1. j' \in Nat \ {0}
      BY <1>1, <2>1
    <3> QED BY <1>1, <2>1, <2>2, <2>5, <3>1 DEF TypeOK
  <2>9. DataInv'
    BY <1>1, <2>1, <2>6 DEF DataInv
  <2>10. PlacesInv'
    <3>1. \A k \in 1..Len(backlog) : backlog[k] \in Clients
      BY <1>1, ElementOfSeq DEF DataInv
    <3> QED BY <1>1, <2>1, <2>2, <3>1 DEF PlacesInv
  <2>11. HeldInv'
    BY <1>1, <2>1, <2>2, <2>5, <2>7 DEF HeldInv, Running
  <2>12. HearInv'
    <3>1. PICK n \in Nat : n = Len(said)
      BY <1>1, LenProperties DEF DataInv
    <3>2. ASSUME NEW d \in Clients \ {c}, held[d] = "open", peer[d] = "open"
          PROVE  Heard(d, IF Told(d) THEN n ELSE n - 1)' /\ (Told(d)' <=> Told(d))
      <4>1. Heard(d, IF Told(d) THEN n ELSE n - 1)
        BY <1>1, <3>1, <3>2 DEF HearInv
      <4>2. Told(d)' <=> Told(d)
        <5>1. \A k \in 1..Len(socklist) : k < j + 1 /\ socklist[k] = d => k < j
          BY <1>1, <1>2
        <5>2. \A k \in 1..Len(socklist) : k < j => k < j + 1
          BY <1>1
        <5> QED BY <1>1, <2>1, <5>1, <5>2 DEF Told
      <4>3. \A l : Heard(d, l) => Heard(d, l)'
        BY <1>1, <2>5 DEF Heard
      <4>4. CASE Told(d)
        BY <4>1, <4>2, <4>3, <4>4
      <4>5. CASE ~Told(d)
        BY <4>1, <4>2, <4>3, <4>5
      <4> QED BY <4>2, <4>4, <4>5
    <3>3. ASSUME held[c] = "open", peer[c] = "open"
          PROVE  Heard(c, n)' /\ Told(c)'
      <4>0. PICK m \in Nat : m = Len(down[c])
        <5>1. down[c] \in Seq(Seq(Line))
          BY <1>1
        <5> QED BY <5>1, LenProperties
      <4>1. ~Told(c)
        <5>1. \A k \in 1..Len(socklist) : socklist[k] = c => k = j
          BY <1>1, <1>2, <2>7 DEF PlacesInv
        <5>2. \A k \in 1..Len(socklist) : ~(k < j /\ socklist[k] = c)
          BY <1>1, <5>1
        <5> QED BY <5>2 DEF Told
      <4>2. Heard(c, n - 1)
        BY <1>1, <3>1, <3>3, <4>1 DEF HearInv
      <4>3. /\ Len(down'[c]) = m + 1 /\ down'[c][m + 1] = mesg
            /\ \A k \in 1..m : down'[c][k] = down[c][k]
        <5>1. down[c] \in Seq(Seq(Line)) /\ down'[c] = Append(down[c], mesg)
          BY <1>1, <2>5, <3>3
        <5> QED BY <1>1, <4>0, <5>1, AppendProperties
      <4>4. m + seen[c] = n - 1 /\ \A k \in 1..m : down[c][k] = said[seen[c] + k]
        BY <4>0, <4>2 DEF Heard
      <4>5. mesg = said[n] /\ seen[c] \in Nat
        BY <1>1, <3>1 DEF HearInv, DataInv
      <4>6. m + 1 + seen[c] = n /\ seen[c] + (m + 1) = n
        BY <4>4, <4>5
      <4>7. \A k \in 1..(m + 1) : down'[c][k] = said[seen[c] + k]
        <5>1. \A k \in 1..m : down'[c][k] = said[seen[c] + k]
          BY <4>3, <4>4
        <5>2. down'[c][m + 1] = said[seen[c] + (m + 1)]
          BY <4>3, <4>5, <4>6
        <5> QED BY <5>1, <5>2
      <4>8. Heard(c, n)'
        BY <1>1, <4>3, <4>6, <4>7 DEF Heard
      <4>9. Told(c)'
        <5>1. j \in 1..Len(socklist) /\ j < j + 1
          BY <1>1
        <5> QED BY <1>1, <1>2, <2>1, <5>1 DEF Told
      <4> QED BY <4>8, <4>9
    <3>4. said # <<>> /\ mesg = said[Len(said)]
      BY <1>1 DEF HearInv
    <3> QED BY <1>1, <2>1, <2>2, <3>1, <3>2, <3>3, <3>4 DEF HearInv
  <2> QED BY <2>8, <2>9, <2>10, <2>11, <2>12 DEF EpollInv
<1> QED BY <1>3, <1>4

-----------------------------------------------------------------------------
(* The clients and the network.                                            *)

\* a connection is made
LEMMA Epoll_Connect ==
  ASSUME EpollInv, NEW c \in Clients, Connect(c), edge' \subseteq edge,
         UNCHANGED <<pc, socklist, events, i, j, mesg, said>>
  PROVE  EpollInv'
<1>1. /\ TypeOK /\ DataInv /\ PlacesInv /\ HeldInv /\ peer[c] = "idle" /\ held[c] = "none"
      /\ backlog' = Append(backlog, c) /\ backlog \in Seq(Clients)
      /\ peer' = [peer EXCEPT ![c] = "open"] /\ peer \in [Clients -> PeerState]
      /\ UNCHANGED <<up, down, held, listening, news, typed, seen>>
  BY DEF EpollInv, Connect, Establish, clientvars, HeldInv, TypeOK, DataInv
<1>2. peer' \in [Clients -> PeerState] /\ peer'[c] = "open"
      /\ \A d \in Clients \ {c} : peer'[d] = peer[d]
  BY <1>1 DEF PeerState
<1>3. backlog' \in Seq(Clients) /\ PlacesInv'
  <2> DEFINE n == Len(backlog)
             b == backlog'
  <2>1. /\ n \in Nat /\ b \in Seq(Clients) /\ Len(b) = n + 1 /\ b[n + 1] = c
        /\ \A k \in 1..n : b[k] = backlog[k]
    BY <1>1, AppendProperties, LenProperties
  <2>2. /\ \A k \in 1..n : backlog[k] \in Clients /\ held[backlog[k]] = "none"
                                               /\ peer[backlog[k]] # "idle"
        /\ \A k, l \in 1..n : backlog[k] = backlog[l] => k = l
        /\ \A k \in 1..Len(socklist) : held[socklist[k]] # "none"
        /\ \A k, l \in 1..Len(socklist) : socklist[k] = socklist[l] => k = l
    BY <1>1, ElementOfSeq DEF PlacesInv
  <2> HIDE DEF n, b
  <2>3. \A k \in 1..n : b[k] \in Clients \ {c} /\ held[b[k]] = "none" /\ peer[b[k]] # "idle"
    BY <1>1, <2>1, <2>2
  <2>4. \A k \in 1..(n + 1) : held[b[k]] = "none" /\ peer'[b[k]] # "idle"
    BY <1>1, <1>2, <2>1, <2>3
  <2>5. \A k, l \in 1..n : b[k] = b[l] => k = l
    BY <2>1, <2>2
  <2>6. \A k, l \in 1..(n + 1) : b[k] = b[l] => k = l
    BY <2>1, <2>3, <2>5
  <2> QED BY <1>1, <2>1, <2>2, <2>4, <2>6 DEF PlacesInv, b
<1>4. \A d \in Clients : held[d] = "open" /\ peer'[d] = "open" =>
                           peer[d] = "open" /\ (\A n : Heard(d, n) => Heard(d, n)')
  BY <1>1, <1>2 DEF Heard
<1> QED BY <1>1, <1>2, <1>3, <1>4, Epoll_Outside DEF TypeOK, DataInv

\* a client writes, reads or leaves, or a reset arrives
LEMMA Epoll_Client ==
  ASSUME EpollInv, NEW c \in Clients,
         Type(c) \/ Quit(c) \/ ClientStep(c) \/ (RstArrives(c) /\ UNCHANGED clientvars),
         edge' \subseteq edge \cup {d \in Clients : held[d] = "open"},
         UNCHANGED <<pc, socklist, events, i, j, mesg, said>>
  PROVE  EpollInv'
<1>1. /\ TypeOK /\ DataInv /\ PlacesInv /\ UNCHANGED <<held, backlog, listening>>
      /\ down \in [Clients -> Seq(Seq(Line))] /\ peer \in [Clients -> PeerState]
      /\ up \in [Clients -> Seq(Line)] /\ typed \in [Clients -> Nat] /\ seen \in [Clients -> Nat]
      /\ news \in [Clients -> BOOLEAN] /\ peer[c] # "idle"
      /\ backlog \in Seq(Clients)
  BY DEF EpollInv, TypeOK, DataInv, Type, Quit, ClientStep, ReadSocket, Disconnected, Nothing,
         RstArrives, netvars, clientvars
<1>2. \A k \in 1..Len(backlog) : backlog[k] \in Clients
  BY <1>1, ElementOfSeq
<1>3. CASE Type(c)
  <2>1. /\ UNCHANGED <<down, peer, seen>> /\ typed' = [typed EXCEPT ![c] = typed[c] + 1]
        /\ news' = [d \in Clients |-> news[d] \/ d \in IF held[c] = "closed" THEN {c} ELSE {}]
    BY <1>3 DEF Type, Report
  <2>2. up' \in [Clients -> Seq(Line)]
    <3>1. PICK k \in {0, typed[c] + 1} : SendUp(c, <<c, k>>)
      BY <1>3 DEF Type
    <3>2. up[c] \in Seq(Line) /\ <<c, k>> \in Line
      BY <1>1 DEF Line
    <3>3. Append(up[c], <<c, k>>) \in Seq(Line)
      BY <3>2, AppendProperties
    <3> QED BY <1>1, <3>1, <3>3 DEF SendUp
  <2>3. typed' \in [Clients -> Nat] /\ news' \in [Clients -> BOOLEAN]
    BY <1>1, <2>1
  <2>4. PlacesInv' /\ \A d \in Clients : \A n : Heard(d, n) => Heard(d, n)'
    BY <1>1, <2>1 DEF PlacesInv, Heard
  <2> QED BY <1>1, <2>1, <2>2, <2>3, <2>4, Epoll_Outside
<1>4. CASE ReadSocket(c)
  <2>1. /\ UNCHANGED <<up, peer, typed>>
        /\ seen' = [seen EXCEPT ![c] = seen[c] + Len(down[c])]
        /\ down' = [down EXCEPT ![c] = <<>>] /\ news' = [news EXCEPT ![c] = FALSE]
    <3>1. SubSeq(down[c], Len(down[c]) + 1, Len(down[c])) = <<>>
      <4>1. down[c] \in Seq(Seq(Line))
        BY <1>1
      <4> QED BY <4>1, TakenAll
    <3> QED BY <1>4, <3>1 DEF ReadSocket, TakeDown
  <2>2. PICK m \in Nat : m = Len(down[c])
    <3>1. down[c] \in Seq(Seq(Line))
      BY <1>1
    <3> QED BY <3>1, LenProperties
  <2>3. seen[c] + m \in Nat
    BY <1>1
  <2>4. /\ seen' \in [Clients -> Nat] /\ news' \in [Clients -> BOOLEAN]
        /\ down' \in [Clients -> Seq(Seq(Line))]
        /\ down'[c] = <<>> /\ seen'[c] = seen[c] + m
        /\ \A d \in Clients \ {c} : down'[d] = down[d] /\ seen'[d] = seen[d]
    BY <1>1, <2>1, <2>2, <2>3, EmptySeq
  <2>5. \A n : Heard(c, n) => Heard(c, n)'
    <3> SUFFICES ASSUME NEW n, Heard(c, n) PROVE Heard(c, n)'
      OBVIOUS
    <3>1. m + seen[c] = n /\ Len(down'[c]) = 0 /\ 1..0 = {}
      BY <2>2, <2>4 DEF Heard
    <3>2. 0 + (seen[c] + m) = n
      BY <1>1, <3>1
    <3> QED BY <2>4, <3>1, <3>2 DEF Heard
  <2>6. \A d \in Clients : \A n : Heard(d, n) => Heard(d, n)'
    <3>1. \A d \in Clients \ {c} : \A n : Heard(d, n) => Heard(d, n)'
      BY <2>4 DEF Heard
    <3> QED BY <2>5, <3>1
  <2>7. PlacesInv' /\ \A d \in Clients : down[d] = <<>> => down'[d] = <<>>
    BY <1>1, <2>1, <2>4 DEF PlacesInv
  <2> QED BY <1>1, <2>1, <2>4, <2>6, <2>7, Epoll_Outside
<1>5. CASE Nothing(c)
  <2>1. UNCHANGED <<up, down, peer, seen, typed>> /\ news' \in [Clients -> BOOLEAN]
    BY <1>1, <1>5 DEF Nothing, netvars
  <2>2. PlacesInv' /\ \A d \in Clients : \A n : Heard(d, n) => Heard(d, n)'
    BY <1>1, <2>1 DEF PlacesInv, Heard
  <2> QED BY <1>1, <2>1, <2>2, Epoll_Outside
<1>6. CASE Quit(c) \/ Disconnected(c) \/ (RstArrives(c) /\ UNCHANGED clientvars)
  <2>1. /\ UNCHANGED <<up, news, typed, seen>>
        /\ \E s \in {"fin", "reset", "finrst", "dead"} : peer' = [peer EXCEPT ![c] = s]
        /\ down' = down \/ down' = [down EXCEPT ![c] = <<>>]
    BY <1>6 DEF Quit, Disconnected, RstArrives, CloseClientEnd, clientvars
  <2>2. /\ peer' \in [Clients -> PeerState] /\ peer'[c] \notin {"idle", "open"}
        /\ \A d \in Clients \ {c} : peer'[d] = peer[d] /\ down'[d] = down[d]
        /\ down' \in [Clients -> Seq(Seq(Line))] /\ down'[c] \in {down[c], <<>>}
    <3>1. /\ peer' \in [Clients -> PeerState] /\ peer'[c] \notin {"idle", "open"}
          /\ \A d \in Clients \ {c} : peer'[d] = peer[d]
      BY <1>1, <2>1 DEF PeerState
    <3>2. <<>> \in Seq(Seq(Line))
      BY EmptySeq
    <3>3. CASE down' = down
      BY <1>1, <3>1, <3>3
    <3>4. CASE down' = [down EXCEPT ![c] = <<>>]
      BY <1>1, <3>1, <3>2, <3>4
    <3> QED BY <2>1, <3>3, <3>4
  <2>3. \A d \in Clients \ {c} : \A n : Heard(d, n) => Heard(d, n)'
    BY <2>1, <2>2 DEF Heard
  <2>4. PlacesInv'
    BY <1>1, <1>2, <2>2 DEF PlacesInv
  <2> QED BY <1>1, <2>1, <2>2, <2>3, <2>4, Epoll_Outside
<1> QED BY <1>3, <1>4, <1>5, <1>6 DEF ClientStep

-----------------------------------------------------------------------------
(* The whole.                                                              *)

\* Nothing has happened yet (20-68)
LEMMA Epoll_Init ==
  ASSUME Init
  PROVE  EpollInv
<1>1. /\ socklist = <<>> /\ backlog = <<>> /\ said = <<>> /\ Len(<<>>) = 0 /\ 1..0 = {}
      /\ 0 <= MAX_EVENT
      /\ \A c \in Clients : held[c] = "none" /\ down[c] = <<>> /\ peer[c] = "idle"
  BY MaxEventAssumption DEF Init, NetInit
<1>2. TypeOK
  BY <1>1, EmptySeq DEF Init, NetInit, ClientInit, TypeOK, PeerState, HeldState, Entry
<1>3. DataInv
  BY <1>1, EmptySeq DEF Init, NetInit, ClientInit, DataInv
<1>4. PlacesInv
  BY <1>1 DEF PlacesInv
<1>5. HeldInv
  BY <1>1 DEF Init, HeldInv
<1>6. HearInv
  BY <1>1 DEF Init, HearInv
<1> QED BY <1>2, <1>3, <1>4, <1>5, <1>6 DEF EpollInv

\* Every step of the server, of a client or of the network preserves the invariant
LEMMA Epoll_Next ==
  ASSUME EpollInv, [Next]_vars
  PROVE  EpollInv'
<1>1. CASE ServerStep
  BY <1>1, Epoll_Wait, Epoll_Pass, Epoll_Accept, Epoll_Read, Epoll_Send DEF ServerStep
<1>2. CASE Outside
  <2>1. PICK c \in Clients :
          /\ ClientNext(c) \/ (RstArrives(c) /\ UNCHANGED clientvars)
          /\ edge' = IF held[c] = "open" /\ <<up, peer>>' # <<up, peer>>
                       THEN edge \cup {c} ELSE edge
          /\ UNCHANGED <<pc, socklist, events, i, j, mesg, said>>
    BY <1>2 DEF Outside
  <2>2. CASE Connect(c)
    <3>1. held[c] # "open"
      BY <2>2 DEF Connect, EpollInv, HeldInv
    <3> QED BY <2>1, <2>2, <3>1, Epoll_Connect
  <2>3. CASE ~Connect(c)
    <3>1. edge' \subseteq edge \cup {d \in Clients : held[d] = "open"}
      BY <2>1
    <3> QED BY <2>1, <2>3, <3>1, Epoll_Client DEF ClientNext
  <2> QED BY <2>2, <2>3
<1>3. CASE UNCHANGED vars
  <2>1. UNCHANGED <<up, down, peer, held, backlog, listening, news, typed, seen, pc, socklist,
                    events, i, j, mesg, edge, said>>
    BY <1>3 DEF vars, netvars, clientvars, servervars
  <2>2. \A c \in Clients : Told(c)' = Told(c)
    BY <2>1 DEF Told
  <2>3. \A c \in Clients : \A n : Heard(c, n) => Heard(c, n)'
    BY <2>1 DEF Heard
  <2>4. TypeOK' /\ DataInv'
    BY <2>1 DEF EpollInv, TypeOK, DataInv
  <2>5. PlacesInv' /\ HeldInv'
    BY <2>1 DEF EpollInv, PlacesInv, HeldInv, Running
  <2>6. HearInv'
    <3>1. \A c \in Clients : held[c] = "open" /\ peer[c] = "open" =>
            Heard(c, IF pc = "send" /\ ~Told(c) THEN Len(said) - 1 ELSE Len(said))
      BY DEF EpollInv, HearInv
    <3> QED BY <2>1, <2>2, <2>3, <3>1 DEF EpollInv, HearInv
  <2> QED BY <2>4, <2>5, <2>6 DEF EpollInv
<1> QED BY <1>1, <1>2, <1>3 DEF Next

-----------------------------------------------------------------------------
(* The theorems.                                                           *)

\* However many connect, every connection that is open has its place in socklist
\* (86), and main() goes beyond its arrays only with one connection for each entry of
\* socklist (70, 86-87, 110).
THEOREM EpollTypeOK == Spec => []TypeOK
<1>1. EpollInv => TypeOK
  BY DEF EpollInv
<1> QED BY <1>1, Epoll_Init, Epoll_Next, PTL DEF Spec, ServerSpec

\* All hear the same: a client that stays has been sent, each once and in one order,
\* the texts of everybody since it was accepted (94-114).
THEOREM EpollAllHearTheSame == Spec => []AllHearTheSame
<1>1. EpollInv => AllHearTheSame
  <2> SUFFICES ASSUME EpollInv, pc = "send" => ~Sending, NEW c \in Clients,
                      held[c] = "open", peer[c] = "open"
               PROVE  down[c] = SubSeq(said, seen[c] + 1, Len(said))
    BY DEF AllHearTheSame
  <2>1. /\ said \in Seq(Seq(Line)) /\ down[c] \in Seq(Seq(Line)) /\ seen[c] \in Nat
        /\ Heard(c, Len(said))
    BY Epoll_Heard DEF EpollInv, TypeOK, DataInv
  <2>2. PICK n \in Nat, m \in Nat : n = Len(said) /\ m = Len(down[c])
    BY <2>1, LenProperties
  <2>3. m + seen[c] = n /\ \A k \in 1..m : down[c][k] = said[seen[c] + k]
    BY <2>1, <2>2 DEF Heard
  <2> DEFINE s == SubSeq(said, seen[c] + 1, n)
  <2>4. /\ seen[c] + 1 \in Int /\ n \in Int /\ \A k \in (seen[c] + 1)..n : k \in 1..Len(said)
    BY <2>1, <2>2
  <2>5. \A k \in (seen[c] + 1)..n : said[k] \in Seq(Line)
    BY <2>1, <2>4, ElementOfSeq
  <2>6. /\ s \in Seq(Seq(Line)) /\ Len(s) = IF seen[c] + 1 <= n THEN n - (seen[c] + 1) + 1 ELSE 0
        /\ \A k \in 1..(n - (seen[c] + 1) + 1) : s[k] = said[(seen[c] + 1) + k - 1]
    <3> DEFINE T == Seq(Line)
               a == seen[c] + 1
    <3>1. said \in Seq(T) /\ a \in Int /\ n \in Int /\ \A k \in a..n : said[k] \in T
      BY <2>1, <2>4, <2>5
    <3> HIDE DEF T, a
    <3>2. /\ SubSeq(said, a, n) \in Seq(T)
          /\ Len(SubSeq(said, a, n)) = IF a <= n THEN n - a + 1 ELSE 0
          /\ \A k \in 1..(n - a + 1) : SubSeq(said, a, n)[k] = said[a + k - 1]
      BY <3>1, SubSeqProperties
    <3> QED BY <3>2 DEF T, a
  <2> HIDE DEF s
  <2>7. /\ (IF seen[c] + 1 <= n THEN n - (seen[c] + 1) + 1 ELSE 0) = m
        /\ n - (seen[c] + 1) + 1 = m
    BY <2>1, <2>2, <2>3
  <2>8. \A k \in 1..m : (seen[c] + 1) + k - 1 = seen[c] + k
    BY <2>1
  <2>9. Len(s) = m /\ \A k \in 1..m : s[k] = down[c][k]
    BY <2>3, <2>6, <2>7, <2>8
  <2>10. s = down[c]
    BY <2>1, <2>2, <2>6, <2>9, SeqEqual
  <2> QED BY <2>2, <2>10 DEF s
<1> QED BY <1>1, Epoll_Init, Epoll_Next, PTL DEF Spec, ServerSpec
=============================================================================
