---------------------------- MODULE WebServerProofs ----------------------------
(***************************************************************************)
(* What holds of src/0618/webserver.c and webserver2.c for any number of   *)
(* browsers and any number of descriptors.                                 *)
(***************************************************************************)
EXTENDS WebServer, SequenceTheorems, TLAPS

\* A reply that is a file or a part of it
OfFile(reply) == reply[1] \in {"whole", "first", "last"}
Whole(s) ==
  \/ s = << <<"error after 200", "missing">> >>
  \/ \E f \in File : s = << <<"whole", f>> >> \/ s = << <<"first", f>>, <<"last", f>> >>

\* Where a thread has not written anything yet
Unasked   == {"none", "start", "line"}
Parsing   == {"method", "file", "advance", "headers"}
Unwritten == Unasked \cup Parsing \cup {"open", "copy"}
Getting   == {"file", "advance", "headers", "open", "copy", "rest"}

\* Connections that wait for accept() are different and have no thread
BacklogInv ==
  /\ backlog \in Seq(Clients)
  /\ \A k \in 1..Len(backlog) : stage[backlog[k]] = "none" /\ peer[backlog[k]] # "idle"
  /\ \A j, k \in 1..Len(backlog) : backlog[j] = backlog[k] => j = k
  /\ listening \in BOOLEAN

\* Reset by a browser whose line was read and is a GET's
Early(c) == asked[c] = "aborted" /\ line[c][1] = "GET"

\* The client's end is open until it leaves.  A connection on which nothing has been
\* written is reset only by the client; the error is then still to come, or fgets()
\* has taken it behind the first line
PeerInv(c) ==
  /\ asked[c] = "nothing" => peer[c] \in {"idle", "open"}
  /\ asked[c] \in {"line", "all"} => peer[c] = "open"
  /\ asked[c] \in {"left", "aborted"} => peer[c] \notin {"idle", "open"}
  /\ stage[c] \in Unwritten =>
       \/ peer[c] \in {"idle", "open", "fin"}
       \/ peer[c] = "reset" /\ asked[c] = "aborted"
       \/ peer[c] = "dead" /\ stage[c] \in {"open", "copy"} /\ Early(c)
  /\ peer[c] = "idle" => stage[c] = "none"
  /\ stage[c] = "none" /\ listening => held[c] = "none"
  /\ stage[c] = "rest" => filename[c] = "large"

\* What the client has sent is in the stream, or its first line is in reg_line
AllSent(c) ==
  /\ up[c] \in {<<>>, << want[c] >>, <<want[c], Headers>>}
  /\ asked[c] = "nothing" => up[c] = <<>>
  /\ asked[c] = "line" => up[c] = << want[c] >>
  /\ asked[c] = "all" => up[c] = <<want[c], Headers>>
AllButLine(c) ==
  /\ up[c] \in {<<>>, << Headers >>}
  /\ asked[c] = "line" => up[c] = <<>>
  /\ asked[c] = "all" => up[c] = << Headers >>

\* (of a request that is not complete nothing is said once its client has left)
Complete(c) == asked[c] = "all" /\ up[c] = <<>>
RequestInv(c) ==
  /\ asked[c] = "nothing" =>
       /\ want[c] = NoLine /\ line[c] = NoLine /\ stage[c] \in Unasked \cup {"done"}
       /\ got[c] = <<>> /\ down[c] = <<>>
  /\ asked[c] \in {"line", "all"} => want[c] \in Request
  /\ stage[c] \in Unwritten => got[c] = <<>> /\ down[c] = <<>>
  /\ stage[c] \in Unasked => line[c] = NoLine /\ (listening => AllSent(c))
  /\ stage[c] \in Parsing => line[c] = want[c] /\ want[c] \in Request /\ AllButLine(c)
  /\ stage[c] \in Getting => want[c][1] = "GET"
  /\ stage[c] \in {"open", "copy", "rest", "end"} /\ want[c][1] = "GET" =>
       asked[c] \in {"left", "aborted"} \/ Complete(c)
  /\ stage[c] = "rest" /\ asked[c] \notin {"left", "aborted"} => Answer(c) = << <<"first", filename[c]>> >>
  /\ stage[c] = "end" /\ want[c][1] = "GET" /\ asked[c] \notin {"left", "aborted"} => Whole(Answer(c))
  /\ stage[c] = "done" /\ listening /\ line[c] # NoLine /\ want[c][1] = "GET" =>
       asked[c] \in {"left", "aborted"} \/ (asked[c] = "all" /\ Whole(Answer(c)))

\* In webserver2.c a thread's filename comes from its own request line
OwnFile(c, s) == \A k \in 1..Len(s) : OfFile(s[k]) => want[c] = <<"GET", s[k][2]>>
FileInv(c) ==
  program = "webserver2" =>
    /\ stage[c] \notin {"file", "advance"}
    /\ stage[c] \in {"headers", "open", "copy", "rest"} => want[c] = <<"GET", filename[c]>>
    /\ OwnFile(c, got[c]) /\ OwnFile(c, down[c])

\* After SIGPIPE no thread is left, and the client that did it is still to be named
KilledInv ==
  ~listening =>
    /\ \A c \in Clients : stage[c] \in {"none", "done"}
    /\ \E c \in Clients : Early(c) \/ (asked[c] \in {"left", "aborted"} /\ filename[c] = "large")

WebInv ==
  /\ TypeOK /\ BacklogInv /\ KilledInv
  /\ \A c \in Clients : PeerInv(c) /\ RequestInv(c) /\ FileInv(c)

-----------------------------------------------------------------------------
(* Sequences.                                                              *)

\* A line, or two, taken apart
LEMMA Apart ==
  \A a, b : /\ Head(<< a >>) = a /\ Tail(<< a >>) = <<>>
            /\ Head(<<a, b>>) = a /\ Tail(<<a, b>>) = << b >>
OBVIOUS

\* Of an empty sequence nothing is a file
LEMMA NoFile == \A c : OwnFile(c, <<>>)
BY DEF OwnFile

\* The first reply there is, and one more behind what there is
LEMMA OneMore ==
  ASSUME NEW S, NEW g \in Seq(S), NEW d \in Seq(S), NEW x \in S
  PROVE  /\ Append(d, x) \in Seq(S) /\ g \o Append(d, x) = Append(g \o d, x)
         /\ d = <<>> => Append(d, x) = << x >>
<1>1. Append(d, x) = d \o << x >> /\ << x >> \in Seq(S) /\ g \o d \in Seq(S)
  BY AppendIsConcat, ConcatProperties
<1>2. (g \o d) \o << x >> = g \o (d \o << x >>)
  BY <1>1, ConcatAssociative
<1>3. Append(g \o d, x) = (g \o d) \o << x >>
  BY <1>1, AppendIsConcat
<1>4. Append(d, x) \in Seq(S)
  BY AppendProperties
<1>5. d = <<>> => Append(d, x) = << x >>
  OBVIOUS
<1> QED BY <1>1, <1>2, <1>3, <1>4, <1>5

\* Every element of s is one of a or of b
Among(s, a, b) ==
  \A k \in 1..Len(s) : (\E l \in 1..Len(a) : s[k] = a[l]) \/ (\E j \in 1..Len(b) : s[k] = b[j])

\* What is in one sequence behind another is in one of them
LEMMA JoinedElements ==
  ASSUME NEW S, NEW g \in Seq(S), NEW d \in Seq(S)
  PROVE  Among(g \o d, g, d)
<1>1. Len(g) \in Nat /\ Len(d) \in Nat
  BY LenProperties
<1>2. /\ Len(g \o d) = Len(g) + Len(d)
      /\ \A j \in 1..(Len(g) + Len(d)) :
           (g \o d)[j] = IF j <= Len(g) THEN g[j] ELSE d[j - Len(g)]
  BY ConcatProperties
<1>3. ASSUME NEW k \in 1..(Len(g) + Len(d))
      PROVE  \/ \E l \in 1..Len(g) : (g \o d)[k] = g[l]
             \/ \E j \in 1..Len(d) : (g \o d)[k] = d[j]
  <2> DEFINE n == Len(g)
             m == Len(d)
  <2>1. n \in Nat /\ m \in Nat /\ k \in 1..(n + m)
        /\ (g \o d)[k] = IF k <= n THEN g[k] ELSE d[k - n]
    BY <1>1, <1>2
  <2> HIDE DEF n, m
  <2>2. CASE k <= n
    <3>1. k \in 1..n /\ (g \o d)[k] = g[k]
      BY <2>1, <2>2
    <3> QED BY <3>1 DEF n
  <2>3. CASE ~(k <= n)
    <3>1. k - n \in 1..m /\ (g \o d)[k] = d[k - n]
      BY <2>1, <2>3
    <3> QED BY <3>1 DEF m
  <2> QED BY <2>2, <2>3
<1> QED BY <1>2, <1>3 DEF Among

\* A second reply behind a first
LEMMA TwoReplies ==
  ASSUME NEW S, NEW a \in S, NEW b \in S
  PROVE  Append(<< a >>, b) = <<a, b>>
<1>1. << a >> \in Seq(S) /\ Len(<< a >>) = 1 /\ << a >>[1] = a
  OBVIOUS
<1>2. <<a, b>> \in Seq(S) /\ Len(<<a, b>>) = 2 /\ <<a, b>>[1] = a /\ <<a, b>>[2] = b
  OBVIOUS
<1>3. /\ Append(<< a >>, b) \in Seq(S) /\ Len(Append(<< a >>, b)) = 2
      /\ Append(<< a >>, b)[1] = a /\ Append(<< a >>, b)[2] = b
  BY <1>1, AppendProperties
<1>4. \A k \in 1..2 : Append(<< a >>, b)[k] = <<a, b>>[k]
  BY <1>2, <1>3
<1> QED BY <1>2, <1>3, <1>4, SeqEqual

\* What is read goes from the front of d to the end of g
Moves(S, g, d) ==
  \A n \in 1..Len(d) :
    /\ SubSeq(d, n + 1, Len(d)) \in Seq(S) /\ g \o SubSeq(d, 1, n) \in Seq(S)
    /\ (g \o SubSeq(d, 1, n)) \o SubSeq(d, n + 1, Len(d)) = g \o d
    /\ Among(SubSeq(d, n + 1, Len(d)), g, d) /\ Among(g \o SubSeq(d, 1, n), g, d)
LEMMA TakeSome ==
  ASSUME NEW S, NEW g \in Seq(S), NEW d \in Seq(S)
  PROVE  Moves(S, g, d)
<1>0. \A a, b \in Seq(S) : (g \o a) \o b = g \o (a \o b)
  BY ConcatAssociative
<1> SUFFICES ASSUME NEW n \in 1..Len(d)
             PROVE  /\ SubSeq(d, n + 1, Len(d)) \in Seq(S) /\ g \o SubSeq(d, 1, n) \in Seq(S)
                    /\ (g \o SubSeq(d, 1, n)) \o SubSeq(d, n + 1, Len(d)) = g \o d
                    /\ Among(SubSeq(d, n + 1, Len(d)), g, d)
                    /\ Among(g \o SubSeq(d, 1, n), g, d)
  BY DEF Moves
<1> DEFINE first == SubSeq(d, 1, n)
           rest  == SubSeq(d, n + 1, Len(d))
<1>1. Len(d) \in Nat /\ Len(g) \in Nat /\ \A k \in 1..Len(d) : d[k] \in S
  BY LenProperties, ElementOfSeq
<1>2. /\ first \in Seq(S) /\ Len(first) = n
      /\ \A k \in 1..n : first[k] = d[k]
  <2>1. 1 \in Int /\ n \in Int /\ \A k \in 1..n : d[k] \in S
    BY <1>1
  <2>2. /\ first \in Seq(S) /\ Len(first) = IF 1 <= n THEN n - 1 + 1 ELSE 0
        /\ \A k \in 1..(n - 1 + 1) : first[k] = d[1 + k - 1]
    BY <2>1, SubSeqProperties
  <2> HIDE DEF first
  <2> QED BY <1>1, <2>2
<1>3. /\ rest \in Seq(S) /\ Len(rest) = Len(d) - n
      /\ \A k \in 1..(Len(d) - n) : rest[k] = d[n + k]
  <2> DEFINE m == Len(d)
  <2>1. n + 1 \in Int /\ m \in Int /\ \A k \in (n + 1)..m : d[k] \in S
    BY <1>1
  <2>2. /\ rest \in Seq(S) /\ Len(rest) = IF n + 1 <= m THEN m - (n + 1) + 1 ELSE 0
        /\ \A k \in 1..(m - (n + 1) + 1) : rest[k] = d[(n + 1) + k - 1]
    BY <2>1, SubSeqProperties
  <2>3. m \in Nat /\ n \in 1..m
    BY <1>1
  <2> HIDE DEF rest, m
  <2>4. (IF n + 1 <= m THEN m - (n + 1) + 1 ELSE 0) = m - n /\ m - (n + 1) + 1 = m - n
    BY <2>3
  <2>5. \A k \in 1..(m - n) : (n + 1) + k - 1 = n + k
    BY <2>3
  <2> QED BY <2>2, <2>4, <2>5 DEF m
<1>4. first \o rest = d
  <2>1. 1 \in 1..(Len(d) + 1) /\ n \in (1 - 1)..Len(d) /\ Len(d) \in n..Len(d)
    BY <1>1
  <2>2. first \o rest = SubSeq(d, 1, Len(d))
    BY <2>1, ConcatAdjacentSubSeq
  <2> QED BY <2>2, SubSeqFull
<1> HIDE DEF first, rest
<1>5. (g \o first) \o rest = g \o d
  BY <1>0, <1>2, <1>3, <1>4
<1>6. /\ g \o first \in Seq(S) /\ Len(g \o first) = Len(g) + n
      /\ \A k \in 1..(Len(g) + n) : (g \o first)[k] = IF k <= Len(g) THEN g[k] ELSE first[k - Len(g)]
  BY <1>2, ConcatProperties
<1>7. Among(rest, g, d)
  <2> SUFFICES ASSUME NEW k \in 1..Len(rest) PROVE n + k \in 1..Len(d) /\ rest[k] = d[n + k]
    BY DEF Among
  <2> QED BY <1>1, <1>3
<1>8. Among(g \o first, g, d)
  <2>1. Among(g \o first, g, first)
    BY <1>2, JoinedElements
  <2>2. \A k \in 1..Len(first) : k \in 1..Len(d) /\ first[k] = d[k]
    BY <1>1, <1>2
  <2> QED BY <2>1, <2>2 DEF Among
<1> QED BY <1>3, <1>5, <1>6, <1>7, <1>8 DEF first, rest

-----------------------------------------------------------------------------
(* Putting steps together.                                                 *)

\* A line is not a request's first line if it is no line or the rest of a request
LEMMA Lines ==
  /\ NoLine \notin Request /\ Headers \notin Request /\ NoLine # Headers
  /\ \A r \in Request : r[1] = "GET" => r = <<"GET", r[2]>>
  /\ \A r \in Request \cup {NoLine, Headers} : r[2] \in File
BY DEF NoLine, Headers, Request, File

\* Nothing is different for the connection of d
Same(d) ==
  /\ up'[d] = up[d] /\ down'[d] = down[d] /\ peer'[d] = peer[d] /\ held'[d] = held[d]
  /\ stage'[d] = stage[d] /\ line'[d] = line[d] /\ filename'[d] = filename[d]
  /\ want'[d] = want[d] /\ asked'[d] = asked[d] /\ got'[d] = got[d]

\* A connection for which nothing is different keeps what is said of it
LEMMA Web_Frame ==
  ASSUME NEW d \in Clients, PeerInv(d), RequestInv(d), FileInv(d), Same(d),
         program' = program, listening' => listening
  PROVE  PeerInv(d)' /\ RequestInv(d)' /\ FileInv(d)'
<1>1. PeerInv(d)'
  BY DEF Same, PeerInv, Early
<1>2. RequestInv(d)'
  <2>1. AllSent(d)' = AllSent(d) /\ AllButLine(d)' = AllButLine(d)
    BY DEF Same, AllSent, AllButLine
  <2>2. Complete(d)' = Complete(d) /\ Answer(d)' = Answer(d)
    BY DEF Same, Complete, Answer
  <2> QED BY <2>1, <2>2 DEF Same, RequestInv
<1>3. FileInv(d)'
  BY DEF Same, FileInv, OwnFile
<1> QED BY <1>1, <1>2, <1>3

\* A step of one connection
LEMMA Web_Step ==
  ASSUME WebInv, NEW c \in Clients, \A d \in Clients \ {c} : Same(d),
         UNCHANGED <<program, backlog, listening>>,
         stage'[c] = "none" <=> stage[c] = "none", peer'[c] = "idle" => peer[c] = "idle",
         \/ listening
         \/ /\ stage' = stage /\ filename' = filename /\ line' = line
            /\ asked[c] \in {"left", "aborted"} => asked'[c] = asked[c],
         TypeOK', PeerInv(c)', RequestInv(c)', FileInv(c)'
  PROVE  WebInv'
<1>1. \A d \in Clients : PeerInv(d)' /\ RequestInv(d)' /\ FileInv(d)'
  BY Web_Frame DEF WebInv
<1>2. \A d \in Clients : /\ stage'[d] = "none" <=> stage[d] = "none"
                         /\ peer'[d] = "idle" => peer[d] = "idle"
  BY DEF Same
<1>3. BacklogInv'
  <2>1. \A k \in 1..Len(backlog) : backlog[k] \in Clients
    BY ElementOfSeq DEF WebInv, BacklogInv
  <2> QED BY <1>2, <2>1 DEF WebInv, BacklogInv
<1>4. KilledInv'
  <2>1. CASE listening
    BY <2>1 DEF KilledInv
  <2>2. CASE ~listening
    <3>1. \A d \in Clients : asked[d] \in {"left", "aborted"} => asked'[d] = asked[d]
      BY <2>2 DEF Same
    <3> QED BY <2>2, <3>1 DEF WebInv, KilledInv, Early
  <2> QED BY <2>1, <2>2
<1> QED BY <1>1, <1>3, <1>4 DEF WebInv

\* A thread that runs has its descriptor, and the process is there
LEMMA Running ==
  ASSUME WebInv, NEW c \in Clients, stage[c] \notin {"none", "done"}
  PROVE  /\ listening /\ held[c] = "open" /\ peer[c] # "idle"
         /\ PeerInv(c) /\ RequestInv(c) /\ FileInv(c) /\ TypeOK
BY DEF WebInv, KilledInv, TypeOK, PeerInv

-----------------------------------------------------------------------------
(* What a thread reads, and how it ends.                                   *)

\* a thread for the next connection (51-60)
LEMMA Web_Accept ==
  ASSUME WebInv, AcceptConnection
  PROVE  WebInv'
<1>0. PICK c \in Clients : c = Head(backlog)
  BY HeadTailProperties DEF AcceptConnection, WebInv, BacklogInv
<1>1. /\ TypeOK /\ backlog \in Seq(Clients) /\ backlog # <<>> /\ listening
      /\ backlog' = Tail(backlog) /\ held' = [held EXCEPT ![c] = "open"]
      /\ stage' = [stage EXCEPT ![c] = "start"]
      /\ stage \in [Clients -> Stage] /\ held \in [Clients -> HeldState]
      /\ UNCHANGED <<up, down, peer, listening, line, filename, saved, cursor, program,
                     want, asked, got>>
  BY <1>0 DEF AcceptConnection, Goto, WebInv, TypeOK, BacklogInv, clientvars
<1>2. /\ Len(backlog) \in Nat \ {0} /\ c = backlog[1]
      /\ Tail(backlog) \in Seq(Clients) /\ Len(Tail(backlog)) = Len(backlog) - 1
      /\ \A k \in 1..Len(Tail(backlog)) : Tail(backlog)[k] = backlog[k + 1]
  BY <1>0, <1>1, HeadTailProperties, LenProperties, EmptySeq
<1>3. stage[c] = "none" /\ peer[c] # "idle"
  BY <1>2 DEF WebInv, BacklogInv
<1>4. TypeOK'
  BY <1>1, <1>2 DEF TypeOK, HeldState, Stage
<1>5. BacklogInv'
  <2> DEFINE n == Len(backlog)
             m == Len(Tail(backlog))
             t == Tail(backlog)
  <2>1. n \in Nat \ {0} /\ m = n - 1
    BY <1>2
  <2>2. \A k \in 1..m : t[k] = backlog[k + 1] /\ k + 1 \in 1..n
    BY <1>2, <2>1
  <2>3. /\ \A k \in 1..n : stage[backlog[k]] = "none" /\ peer[backlog[k]] # "idle"
                           /\ backlog[k] \in Clients
        /\ \A j, k \in 1..n : backlog[j] = backlog[k] => j = k
    BY ElementOfSeq DEF WebInv, BacklogInv
  <2>4. \A k \in 1..m : t[k] # c
    BY <1>2, <2>1, <2>2, <2>3
  <2>5. t \in Seq(Clients) /\ backlog' = t /\ Len(backlog') = m
    BY <1>1, <1>2
  <2> HIDE DEF n, m, t
  <2>6. \A k \in 1..m : stage'[t[k]] = "none" /\ peer'[t[k]] # "idle"
    BY <1>1, <2>2, <2>3, <2>4
  <2>7. \A j, k \in 1..m : t[j] = t[k] => j = k
    BY <2>1, <2>2, <2>3
  <2> QED BY <1>1, <2>5, <2>6, <2>7 DEF BacklogInv
<1>6. KilledInv'
  BY <1>1 DEF KilledInv
<1>7. \A d \in Clients \ {c} : Same(d)
  BY <1>1 DEF Same, TypeOK
<1>8. \A d \in Clients \ {c} : PeerInv(d)' /\ RequestInv(d)' /\ FileInv(d)'
  BY <1>1, <1>7, Web_Frame DEF WebInv
<1>9. PeerInv(c)' /\ RequestInv(c)' /\ FileInv(c)'
  <2>1. PeerInv(c) /\ RequestInv(c) /\ FileInv(c) /\ stage'[c] = "start"
    BY <1>1 DEF WebInv
  <2>2. PeerInv(c)'
    BY <1>1, <1>3, <2>1 DEF PeerInv, Unwritten, Unasked
  <2>3. RequestInv(c)'
    BY <1>1, <1>3, <2>1
       DEF RequestInv, AllSent, Unwritten, Unasked, Parsing, Getting
  <2>4. FileInv(c)'
    BY <1>1, <2>1 DEF FileInv, OwnFile
  <2> QED BY <2>2, <2>3, <2>4
<1> QED BY <1>4, <1>5, <1>6, <1>8, <1>9 DEF WebInv

\* both fclose() (93-94, 105-106, 131-132)
LEMMA Web_Close ==
  ASSUME WebInv, NEW c \in Clients, CloseBoth(c),
         \/ stage[c] \in {"start", "line"}
         \/ stage[c] = "end"
  PROVE  WebInv'
<1>1. /\ listening /\ held[c] = "open" /\ peer[c] # "idle"
      /\ PeerInv(c) /\ RequestInv(c) /\ FileInv(c) /\ TypeOK
  BY Running
<1>2. /\ UNCHANGED <<peer, backlog, listening, line, filename, saved, cursor, program,
                     want, asked, got>>
      /\ up' = [up EXCEPT ![c] = <<>>] /\ held' = [held EXCEPT ![c] = "closed"]
      /\ stage' = [stage EXCEPT ![c] = "done"]
      /\ down' = down \/ (up[c] # <<>> /\ down' = [down EXCEPT ![c] = <<>>])
      /\ stage \in [Clients -> Stage] /\ held \in [Clients -> HeldState]
      /\ up \in [Clients -> Seq(Request \cup {Headers})] /\ down \in [Clients -> Seq(Reply)]
  BY <1>1 DEF CloseBoth, CloseServerEnd, Goto, clientvars, TypeOK
<1>3. /\ up'[c] = <<>> /\ held'[c] = "closed" /\ stage'[c] = "done"
      /\ down'[c] \in {down[c], <<>>} /\ (up[c] = <<>> => down'[c] = down[c])
  BY <1>2
<1>4. \A d \in Clients \ {c} : Same(d)
  BY <1>2 DEF Same
<1>5. TypeOK'
  <2>1. up' \in [Clients -> Seq(Request \cup {Headers})] /\ down' \in [Clients -> Seq(Reply)]
    BY <1>2, EmptySeq
  <2>2. stage' \in [Clients -> Stage] /\ held' \in [Clients -> HeldState]
    BY <1>2 DEF Stage, HeldState
  <2>3. \A d \in Clients : held'[d] = "open" <=> stage'[d] \notin {"none", "done"}
    BY <1>1, <1>2 DEF TypeOK
  <2> QED BY <1>1, <1>2, <2>1, <2>2, <2>3 DEF TypeOK
<1>6. PeerInv(c)'
  BY <1>1, <1>2, <1>3 DEF PeerInv, Unwritten, Unasked, Parsing
<1>7. RequestInv(c)'
  <2>1. stage[c] \in {"start", "line"} => line[c] = NoLine
    BY <1>1 DEF RequestInv, Unasked
  <2>2. stage[c] = "end" /\ want[c][1] = "GET" /\ asked[c] \notin {"left", "aborted"} =>
          asked[c] = "all" /\ Whole(Answer(c)')
    <3> SUFFICES ASSUME stage[c] = "end", want[c][1] = "GET", asked[c] \notin {"left", "aborted"}
                 PROVE  asked[c] = "all" /\ Whole(Answer(c)')
      OBVIOUS
    <3>1. Complete(c) /\ Whole(Answer(c))
      BY <1>1 DEF RequestInv
    <3>2. Answer(c)' = Answer(c)
      BY <1>2, <1>3, <3>1 DEF Complete, Answer
    <3> QED BY <3>1, <3>2 DEF Complete
  <2>3. asked[c] = "nothing" => down'[c] = <<>>
    BY <1>1, <1>3 DEF RequestInv
  <2> QED BY <1>1, <1>2, <1>3, <2>1, <2>2, <2>3
          DEF RequestInv, Unwritten, Unasked, Parsing, Getting, Whole
<1>8. FileInv(c)'
  <2>1. \A s : OwnFile(c, s) => OwnFile(c, s)'
    BY <1>2 DEF OwnFile
  <2>2. FileInv(c) /\ program = "webserver2" => OwnFile(c, got[c]) /\ OwnFile(c, down[c])
    BY DEF FileInv
  <2> QED BY <1>1, <1>2, <1>3, <2>1, <2>2, NoFile DEF FileInv
<1> QED BY <1>1, <1>2, <1>3, <1>4, <1>5, <1>6, <1>7, <1>8, Web_Step

\* fgets() of the request line (97) and of what follows it (127-131)
LEMMA Web_GetLine ==
  ASSUME WebInv, NEW c \in Clients, RequestLine(c) \/ RequestHeaders(c)
  PROVE  WebInv'
<1>1. /\ listening /\ held[c] = "open" /\ peer[c] # "idle"
      /\ PeerInv(c) /\ RequestInv(c) /\ FileInv(c) /\ TypeOK
  BY Running DEF RequestLine, RequestHeaders
<1>2. PICK s \in {"method", "open"} :
      /\ s = "method" <=> stage[c] = "line"
      /\ s = "open" <=> stage[c] = "headers"
      /\ up[c] # <<>> /\ stage' = [stage EXCEPT ![c] = s]
      /\ line' = [line EXCEPT ![c] = Head(up[c])] /\ up' = [up EXCEPT ![c] = Tail(up[c])]
      /\ UNCHANGED <<down, peer, held, backlog, listening, filename, saved, cursor,
                     program, want, asked, got>>
  BY <1>1 DEF RequestLine, RequestHeaders, GetLine, Goto, clientvars
<1>3. /\ stage \in [Clients -> Stage] /\ line \in [Clients -> Request \cup {NoLine, Headers}]
      /\ up \in [Clients -> Seq(Request \cup {Headers})]
      /\ want[c] \in Request \cup {NoLine}
  BY <1>1 DEF TypeOK
<1>4. /\ Head(up[c]) \in Request \cup {Headers} /\ Tail(up[c]) \in Seq(Request \cup {Headers})
  BY <1>2, <1>3, HeadTailProperties
<1>5. /\ stage'[c] = s /\ line'[c] = Head(up[c]) /\ up'[c] = Tail(up[c])
  BY <1>2, <1>3
<1>6. \A d \in Clients \ {c} : Same(d)
  BY <1>2, <1>3 DEF Same
<1>7. TypeOK'
  BY <1>1, <1>2, <1>3, <1>4 DEF TypeOK, Stage
<1>8. PeerInv(c)'
  BY <1>1, <1>2, <1>5 DEF PeerInv, Unwritten, Unasked, Parsing
<1>9. RequestInv(c)' /\ (s = "open" => want[c][1] = "GET")
  <2>1. CASE s = "method"
    <3>1. /\ AllSent(c) /\ got[c] = <<>> /\ down[c] = <<>>
      BY <1>1, <1>2, <2>1 DEF RequestInv, Unasked, Unwritten
    <3>2. line'[c] = want[c] /\ up'[c] \in {<<>>, << Headers >>} /\ asked[c] # "nothing"
          /\ (asked[c] = "line" => up'[c] = <<>>) /\ (asked[c] = "all" => up'[c] = << Headers >>)
      <4>1. /\ up[c] = << want[c] >> \/ up[c] = <<want[c], Headers>>
            /\ asked[c] = "line" => up[c] = << want[c] >>
            /\ asked[c] = "all" => up[c] = <<want[c], Headers>>
            /\ asked[c] # "nothing"
        BY <1>2, <3>1 DEF AllSent
      <4>2. line'[c] = Head(up[c]) /\ up'[c] = Tail(up[c])
        BY <1>5
      <4>3. Head(up[c]) = want[c] /\ Tail(up[c]) \in {<<>>, << Headers >>}
        BY <4>1, Apart
      <4>4. asked[c] = "line" => Tail(up[c]) = <<>>
        BY <4>1, Apart
      <4>5. asked[c] = "all" => Tail(up[c]) = << Headers >>
        BY <4>1, Apart
      <4> QED BY <4>1, <4>2, <4>3, <4>4, <4>5
    <3>3. want[c] \in Request
      BY <1>3, <1>4, <1>5, <3>2, Lines
    <3>4. AllButLine(c)'
      BY <1>2, <3>2 DEF AllButLine
    <3> QED BY <1>2, <1>5, <2>1, <3>1, <3>2, <3>3, <3>4
            DEF RequestInv, Unwritten, Unasked, Parsing, Getting
  <2>2. CASE s = "open"
    <3>1. /\ AllButLine(c) /\ got[c] = <<>> /\ down[c] = <<>> /\ want[c][1] = "GET"
          /\ want[c] \in Request /\ asked[c] # "nothing"
      BY <1>1, <1>2, <2>2 DEF RequestInv, Unasked, Unwritten, Parsing, Getting
    <3>2. up'[c] = <<>> /\ asked[c] \in {"all", "left", "aborted"}
      <4>1. up[c] = << Headers >> /\ asked[c] \in {"all", "left", "aborted"}
        BY <1>1, <1>2, <3>1 DEF AllButLine, TypeOK, Asked
      <4> QED BY <1>5, <4>1, Apart
    <3> QED BY <1>2, <1>5, <2>2, <3>1, <3>2
            DEF RequestInv, Unwritten, Unasked, Parsing, Getting, Complete
  <2> QED BY <2>1, <2>2
<1>10. FileInv(c)'
  BY <1>1, <1>2, <1>5 DEF FileInv, OwnFile
<1> QED BY <1>1, <1>2, <1>5, <1>6, <1>7, <1>8, <1>9, <1>10, Web_Step

-----------------------------------------------------------------------------
(* What a thread does with the request.                                    *)

\* a step in which nothing is read or written
LEMMA Web_Local ==
  ASSUME WebInv, NEW c \in Clients, NEW s \in Stage \ {"none", "done"},
         stage[c] \notin {"none", "done"}, Goto(c, s),
         UNCHANGED <<netvars, line, program, clientvars>>,
         filename' \in [Clients -> File], \A d \in Clients \ {c} : filename'[d] = filename[d],
         saved' \in Places, cursor' \in [Clients -> Places],
         PeerInv(c)', RequestInv(c)', FileInv(c)'
  PROVE  WebInv'
<1>1. TypeOK /\ listening /\ held[c] = "open" /\ stage \in [Clients -> Stage]
      /\ UNCHANGED <<up, down, peer, held, backlog, listening, want, asked, got>>
      /\ stage' = [stage EXCEPT ![c] = s]
  BY Running DEF netvars, clientvars, TypeOK, Goto
<1>2. \A d \in Clients \ {c} : Same(d)
  BY <1>1 DEF Same
<1>3. TypeOK'
  BY <1>1 DEF TypeOK
<1> QED BY <1>1, <1>2, <1>3, Web_Step

\* what is left of RequestInv(c) and FileInv(c) when only the stage and filename change
LEMMA Web_SameRequest ==
  ASSUME NEW c \in Clients, UNCHANGED <<netvars, line, program, clientvars>>
  PROVE  /\ AllSent(c)' = AllSent(c) /\ AllButLine(c)' = AllButLine(c)
         /\ Complete(c)' = Complete(c) /\ Answer(c)' = Answer(c)
         /\ \A s : OwnFile(c, s)' = OwnFile(c, s)
         /\ UNCHANGED <<up, down, peer, listening, want, asked, got>>
BY DEF netvars, clientvars, AllSent, AllButLine, Complete, Answer, OwnFile

\* fdopen() and dup() (91-93)
LEMMA Web_OpenStreams ==
  ASSUME WebInv, NEW c \in Clients, stage[c] = "start", Goto(c, "line"),
         UNCHANGED <<netvars, line, filename, saved, cursor, program, clientvars>>
  PROVE  WebInv'
<1>1. /\ PeerInv(c) /\ RequestInv(c) /\ FileInv(c) /\ TypeOK /\ stage'[c] = "line"
      /\ saved \in Places /\ cursor \in [Clients -> Places] /\ filename \in [Clients -> File]
  BY Running DEF TypeOK, Goto
<1>2. PeerInv(c)'
  BY <1>1, Web_SameRequest DEF PeerInv, Unwritten, Unasked
<1>3. RequestInv(c)'
  BY <1>1, Web_SameRequest DEF RequestInv, Unwritten, Unasked, Parsing, Getting
<1>4. FileInv(c)'
  BY <1>1, Web_SameRequest DEF FileInv
<1> QED BY <1>1, <1>2, <1>3, <1>4, Web_Local DEF Stage

\* the first strtok() (104-116), or sscanf() (103-113)
LEMMA Web_Method ==
  ASSUME WebInv, NEW c \in Clients, Method(c)
  PROVE  WebInv'
<1>1. /\ PeerInv(c) /\ RequestInv(c) /\ FileInv(c) /\ TypeOK
      /\ stage[c] = "method" /\ line[c][1] = "GET"
      /\ stage \in [Clients -> Stage] /\ filename \in [Clients -> File]
      /\ saved \in Places /\ cursor \in [Clients -> Places]
      /\ UNCHANGED <<netvars, line, cursor, program, clientvars>>
  BY Running DEF TypeOK, Method
<1>2. line[c] = want[c] /\ want[c] \in Request /\ want[c] = <<"GET", line[c][2]>>
      /\ line[c][2] \in File
  BY <1>1, Lines DEF RequestInv, Parsing
<1>3. PICK s \in {"file", "headers"} :
        /\ Goto(c, s) /\ stage'[c] = s
        /\ program = "webserver2" => s = "headers" /\ filename'[c] = line[c][2]
  BY <1>1 DEF Method, ToFilename, UsesStrtok, Goto
<1>4. /\ filename' \in [Clients -> File] /\ \A d \in Clients \ {c} : filename'[d] = filename[d]
      /\ saved' \in Places
  BY <1>1, <1>2 DEF Method, Places
<1>5. PeerInv(c)'
  BY <1>1, <1>3, Web_SameRequest DEF PeerInv, Unwritten, Unasked, Parsing
<1>6. RequestInv(c)'
  BY <1>1, <1>2, <1>3, Web_SameRequest DEF RequestInv, Unwritten, Unasked, Parsing, Getting
<1>7. FileInv(c)'
  BY <1>1, <1>2, <1>3, Web_SameRequest DEF FileInv
<1> QED BY <1>1, <1>3, <1>4, <1>5, <1>6, <1>7, Web_Local DEF Stage

\* the second strtok(), in webserver.c only (118-121)
LEMMA Web_Filename ==
  ASSUME WebInv, NEW c \in Clients, Filename(c) \/ Advance(c)
  PROVE  WebInv'
<1>1. /\ PeerInv(c) /\ RequestInv(c) /\ FileInv(c) /\ TypeOK
      /\ stage[c] \in {"file", "advance"}
      /\ stage \in [Clients -> Stage] /\ filename \in [Clients -> File]
      /\ line \in [Clients -> Request \cup {NoLine, Headers}]
      /\ saved \in Places /\ cursor \in [Clients -> Places]
      /\ UNCHANGED <<netvars, line, program, clientvars>>
  BY Running DEF TypeOK, Filename, Advance
<1>2. PICK s \in {"advance", "headers"} : Goto(c, s) /\ stage'[c] = s
  BY <1>1 DEF Filename, Advance, Goto
<1>3. program # "webserver2"
  BY <1>1 DEF FileInv
<1>4. Nobody \in Clients \cup {Nobody} /\ "end" \in {"file", "version", "end"}
  OBVIOUS
<1>5. /\ filename' \in [Clients -> File] /\ \A d \in Clients \ {c} : filename'[d] = filename[d]
  <2>1. CASE Filename(c)
    <3>1. Word(saved) \subseteq File
      BY <1>1, Lines DEF Word, File, Places
    <3> QED BY <1>1, <2>1, <3>1 DEF Filename
  <2>2. CASE Advance(c)
    BY <1>1, <2>2 DEF Advance
  <2> QED BY <2>1, <2>2
<1>6. saved' \in Places /\ cursor' \in [Clients -> Places]
  <2>1. CASE Filename(c)
    BY <1>1, <2>1 DEF Filename
  <2>2. CASE Advance(c)
    BY <1>1, <2>2 DEF Advance, Places
  <2> QED BY <2>1, <2>2
<1>7. PeerInv(c)'
  BY <1>1, <1>2, Web_SameRequest DEF PeerInv, Unwritten, Unasked, Parsing
<1>8. RequestInv(c)'
  BY <1>1, <1>2, Web_SameRequest DEF RequestInv, Unwritten, Unasked, Parsing, Getting
<1>9. FileInv(c)'
  BY <1>1, <1>3 DEF FileInv
<1> QED BY <1>1, <1>2, <1>5, <1>6, <1>7, <1>8, <1>9, Web_Local DEF Stage

\* fopen() succeeds (169, 161)
LEMMA Web_OpenFile ==
  ASSUME WebInv, NEW c \in Clients, OpenFile(c)
  PROVE  WebInv'
<1>1. /\ PeerInv(c) /\ RequestInv(c) /\ FileInv(c) /\ TypeOK
      /\ stage[c] = "open" /\ Goto(c, "copy") /\ stage'[c] = "copy"
      /\ filename \in [Clients -> File]
      /\ saved \in Places /\ cursor \in [Clients -> Places]
      /\ UNCHANGED <<netvars, line, filename, saved, cursor, program, clientvars>>
  BY Running DEF TypeOK, OpenFile, Goto
<1>2. PeerInv(c)'
  BY <1>1, Web_SameRequest DEF PeerInv, Unwritten, Unasked, Parsing, Early
<1>3. RequestInv(c)'
  BY <1>1, Web_SameRequest DEF RequestInv, Unwritten, Unasked, Parsing, Getting
<1>4. FileInv(c)'
  BY <1>1, Web_SameRequest DEF FileInv
<1> QED BY <1>1, <1>2, <1>3, <1>4, Web_Local DEF Stage

\* fgets() finds the end of the stream in place of the headers, or takes the error
\* that a reset has left, after which a write() is fatal (127-131)
LEMMA Web_NoHeaders ==
  ASSUME WebInv, NEW c \in Clients, NoHeaders(c)
  PROVE  WebInv'
<1>1. /\ listening /\ PeerInv(c) /\ RequestInv(c) /\ FileInv(c) /\ TypeOK
      /\ stage[c] = "headers" /\ stage \in [Clients -> Stage]
      /\ peer \in [Clients -> PeerState] /\ asked[c] \in Asked
  BY Running DEF TypeOK, NoHeaders
<1>2. peer[c] = "fin" \/ (peer[c] = "reset" /\ asked[c] = "aborted")
  BY <1>1 DEF NoHeaders, NoMoreLines, Readable, PeerInv, Unwritten, Parsing
<1>3. asked[c] \in {"left", "aborted"} /\ line[c] = want[c] /\ want[c][1] = "GET"
  BY <1>1, <1>2 DEF PeerInv, Asked, RequestInv, Parsing, Getting
<1>4. /\ UNCHANGED <<up, down, held, backlog, listening, line, filename, saved, cursor,
                     program, want, asked, got>>
      /\ stage' = [stage EXCEPT ![c] = "open"] /\ peer' \in [Clients -> PeerState]
      /\ peer'[c] = IF peer[c] = "reset" THEN "dead" ELSE peer[c]
      /\ \A d \in Clients \ {c} : peer'[d] = peer[d]
  BY <1>1 DEF NoHeaders, Goto, clientvars, PeerState
<1>5. stage' \in [Clients -> Stage] /\ stage'[c] = "open"
  BY <1>1, <1>4 DEF Stage
<1>6. TypeOK'
  BY <1>1, <1>4, <1>5 DEF TypeOK
<1>7. PeerInv(c)'
  BY <1>1, <1>2, <1>3, <1>4, <1>5 DEF PeerInv, Unwritten, Unasked, Parsing, Early
<1>8. RequestInv(c)'
  <2>1. Answer(c)' = Answer(c)
    BY <1>4 DEF Answer
  <2> QED BY <1>1, <1>3, <1>4, <1>5, <2>1
          DEF RequestInv, Unwritten, Unasked, Parsing, Getting
<1>9. FileInv(c)'
  BY <1>1, <1>4, <1>5 DEF FileInv, OwnFile
<1>10. \A d \in Clients \ {c} : Same(d)
  BY <1>1, <1>4 DEF Same
<1> QED BY <1>1, <1>2, <1>4, <1>5, <1>6, <1>7, <1>8, <1>9, <1>10, Web_Step

-----------------------------------------------------------------------------
(* What a thread writes.                                                   *)

\* A write() that does not end the process, of a thread that goes on to s: nothing is
\* different for other connections, and an answer to a client that is there grows by m
LEMMA Web_Write ==
  ASSUME WebInv, NEW c \in Clients, NEW m \in Reply, NEW s \in Stage \ {"none", "done"},
         stage[c] \notin {"none", "done"}, Write(c, m), Goto(c, s),
         UNCHANGED <<up, held, backlog, listening, line, filename, cursor, program, clientvars>>,
         saved' \in Places
  PROVE  /\ TypeOK' /\ \A d \in Clients \ {c} : Same(d)
         /\ UNCHANGED <<up, held, backlog, listening, line, filename, program, want, asked, got>>
         /\ stage'[c] = s /\ peer'[c] # "idle"
         /\ peer'[c] = "open" <=> peer[c] = "open"
         /\ down'[c] \in {down[c], Append(down[c], m)}
         /\ asked[c] \in {"nothing", "line", "all"} =>
              /\ peer[c] = "open" /\ peer'[c] = "open"
              /\ Answer(c)' = Append(Answer(c), m)
<1>1. /\ listening /\ held[c] = "open" /\ peer[c] # "idle" /\ PeerInv(c) /\ TypeOK
      /\ stage \in [Clients -> Stage] /\ peer \in [Clients -> PeerState]
      /\ down \in [Clients -> Seq(Reply)] /\ got \in [Clients -> Seq(Reply)]
  BY Running DEF TypeOK
<1>2. /\ UNCHANGED <<up, held, backlog, listening, line, filename, program, want, asked, got>>
      /\ stage' = [stage EXCEPT ![c] = s]
      /\ down' = [down EXCEPT ![c] = IF peer[c] = "open" THEN Append(@, m) ELSE @]
  BY DEF Goto, Write, clientvars
<1>3. /\ peer' \in [Clients -> PeerState] /\ peer'[c] # "idle"
      /\ \A d \in Clients \ {c} : peer'[d] = peer[d]
      /\ peer'[c] = "open" <=> peer[c] = "open"
  BY <1>1 DEF Write, PeerState
<1>4. Append(down[c], m) \in Seq(Reply)
      /\ got[c] \o Append(down[c], m) = Append(got[c] \o down[c], m)
  BY <1>1, OneMore
<1>5. /\ down' \in [Clients -> Seq(Reply)] /\ \A d \in Clients \ {c} : down'[d] = down[d]
      /\ down'[c] = IF peer[c] = "open" THEN Append(down[c], m) ELSE down[c]
  BY <1>1, <1>2, <1>4
<1>6. stage' \in [Clients -> Stage] /\ stage'[c] = s
      /\ \A d \in Clients \ {c} : stage'[d] = stage[d]
  BY <1>1, <1>2
<1>7. TypeOK'
  BY <1>1, <1>2, <1>3, <1>5, <1>6 DEF TypeOK, clientvars
<1>8. \A d \in Clients \ {c} : Same(d)
  BY <1>2, <1>3, <1>5, <1>6 DEF Same
<1>9. asked[c] \in {"nothing", "line", "all"} => peer[c] = "open"
  BY <1>1 DEF PeerInv
<1>10. peer[c] = "open" => Answer(c)' = Append(Answer(c), m)
  BY <1>2, <1>4, <1>5 DEF Answer
<1> QED BY <1>2, <1>3, <1>5, <1>6, <1>7, <1>8, <1>9, <1>10

\* What is true of two sequences is true of one with nothing but their elements
LEMMA OwnFrom ==
  ASSUME NEW c, NEW a, NEW b, NEW s, OwnFile(c, a), OwnFile(c, b),
         Among(s, a, b)
  PROVE  OwnFile(c, s)
BY DEF OwnFile, Among

\* What is (not) a file in what is on its way, with one reply more
LEMMA OwnMore ==
  ASSUME NEW c \in Clients, NEW d \in Seq(Reply), NEW m \in Reply, OwnFile(c, d),
         OfFile(m) => want[c] = <<"GET", m[2]>>
  PROVE  OwnFile(c, Append(d, m))
<1> DEFINE n == Len(d)
<1>1. n \in Nat /\ Len(Append(d, m)) = n + 1
      /\ \A k \in 1..(n + 1) : Append(d, m)[k] = IF k <= n THEN d[k] ELSE m
  BY AppendProperties, LenProperties
<1>2. \A k \in 1..n : OfFile(d[k]) => want[c] = <<"GET", d[k][2]>>
  BY DEF OwnFile
<1> HIDE DEF n
<1>3. SUFFICES ASSUME NEW k \in 1..(n + 1), OfFile(Append(d, m)[k])
               PROVE  want[c] = <<"GET", Append(d, m)[k][2]>>
  BY <1>1 DEF OwnFile
<1>4. CASE k <= n
  BY <1>1, <1>2, <1>3, <1>4
<1>5. CASE ~(k <= n)
  BY <1>1, <1>3, <1>5
<1> QED BY <1>4, <1>5

\* SIGPIPE: no thread is left
LEMMA Web_Killed ==
  ASSUME WebInv, Killed, UNCHANGED <<down, peer, line, filename, saved, cursor, program, clientvars>>,
         \E c \in Clients : Early(c) \/ (asked[c] \in {"left", "aborted"} /\ filename[c] = "large")
  PROVE  WebInv'
<1>1. /\ TypeOK /\ listening' = FALSE /\ backlog' = <<>>
      /\ held' = [c \in Clients |-> IF peer[c] = "idle" THEN "none" ELSE "closed"]
      /\ up' = [c \in Clients |-> <<>>]
      /\ stage' = [c \in Clients |-> IF stage[c] = "none" THEN "none" ELSE "done"]
      /\ UNCHANGED <<down, peer, line, filename, saved, cursor, program, want, asked, got>>
  BY DEF WebInv, Killed, ServerEnds, clientvars
<1>2. /\ \A c \in Clients : stage'[c] \in {"none", "done"} /\ (stage'[c] = "none" <=> stage[c] = "none")
      /\ \A c \in Clients : held'[c] # "open"
      /\ stage' \in [Clients -> Stage] /\ held' \in [Clients -> HeldState]
      /\ up' \in [Clients -> Seq(Request \cup {Headers})]
  BY <1>1, EmptySeq DEF Stage, HeldState
<1>3. TypeOK'
  BY <1>1, <1>2 DEF TypeOK
<1>4. BacklogInv'
  <2>1. backlog' \in Seq(Clients) /\ Len(backlog') = 0 /\ listening' = FALSE
    BY <1>1, EmptySeq
  <2>2. 1..0 = {}
    OBVIOUS
  <2> QED BY <2>1, <2>2 DEF BacklogInv
<1>5. KilledInv'
  BY <1>1, <1>2 DEF KilledInv, Early
<1>6. ASSUME NEW c \in Clients
      PROVE  PeerInv(c)' /\ RequestInv(c)' /\ FileInv(c)'
  <2>1. PeerInv(c) /\ RequestInv(c) /\ FileInv(c)
    BY DEF WebInv
  <2>2. PeerInv(c)'
    BY <1>1, <1>2, <2>1 DEF PeerInv, Unwritten, Unasked, Parsing, Early
  <2>3. RequestInv(c)'
    BY <1>1, <1>2, <2>1 DEF RequestInv, Unwritten, Unasked, Parsing, Getting
  <2>4. FileInv(c)'
    BY <1>1, <1>2, <2>1 DEF FileInv, OwnFile
  <2> QED BY <2>2, <2>3, <2>4
<1> QED BY <1>3, <1>4, <1>5, <1>6 DEF WebInv

\* sendOk() and sendError() after a POST or a bad request (109-116)
LEMMA Web_Refuse ==
  ASSUME WebInv, NEW c \in Clients, Refuse(c)
  PROVE  WebInv'
<1>1. /\ listening /\ PeerInv(c) /\ RequestInv(c) /\ FileInv(c) /\ TypeOK
      /\ stage[c] = "method" /\ line[c][1] # "GET" /\ saved \in Places
      /\ down[c] \in Seq(Reply)
  BY Running DEF Refuse, TypeOK
<1>2. peer[c] # "dead" /\ line[c] = want[c]
      /\ got[c] = <<>> /\ down[c] = <<>> /\ asked[c] # "nothing"
  BY <1>1 DEF PeerInv, RequestInv, Unwritten, Parsing, Unasked
<1>3. PICK m \in {<<"ok", "missing">>, <<"error", "missing">>} :
        /\ Write(c, m) /\ Goto(c, "end")
        /\ UNCHANGED <<up, held, backlog, listening, line, filename, cursor, program, clientvars>>
  BY <1>2 DEF Refuse, Fatal
<1>4. saved' \in Places
  BY <1>1 DEF Refuse, Places
<1>5. m \in Reply /\ ~OfFile(m)
  <2>1. <<"ok", "missing">> \in Reply /\ <<"error", "missing">> \in Reply
    BY DEF Reply
  <2>2. ~OfFile(<<"ok", "missing">>) /\ ~OfFile(<<"error", "missing">>)
    BY DEF OfFile
  <2> QED BY <1>3, <2>1, <2>2
<1>6. /\ TypeOK' /\ \A d \in Clients \ {c} : Same(d)
      /\ UNCHANGED <<up, held, backlog, listening, line, filename, program, want, asked, got>>
      /\ stage'[c] = "end" /\ peer'[c] # "idle" /\ (peer'[c] = "open" <=> peer[c] = "open")
      /\ down'[c] \in {down[c], Append(down[c], m)}
      /\ asked[c] \in {"nothing", "line", "all"} => peer[c] = "open" /\ peer'[c] = "open"
  BY <1>1, <1>3, <1>4, <1>5, Web_Write DEF Stage
<1>7. PeerInv(c)'
  BY <1>1, <1>2, <1>6 DEF PeerInv, Unwritten, Unasked, Parsing
<1>8. RequestInv(c)'
  BY <1>1, <1>2, <1>6 DEF RequestInv, Unwritten, Unasked, Parsing, Getting
<1>9. FileInv(c)'
  <2>1. OwnFile(c, down'[c])
    BY <1>1, <1>2, <1>5, <1>6, NoFile, OwnMore
  <2>2. \A s : OwnFile(c, s)' = OwnFile(c, s)
    BY <1>6 DEF OwnFile
  <2> QED BY <1>1, <1>6, <2>1, <2>2 DEF FileInv
<1> QED BY <1>1, <1>6, <1>7, <1>8, <1>9, Web_Step

\* sendData() without a file: the reply of sendError behind the headers of a 200
\* (169-174, 161-166)
LEMMA Web_OpenFails ==
  ASSUME WebInv, NEW c \in Clients, OpenFails(c)
  PROVE  WebInv'
<1> DEFINE m == <<"error after 200", "missing">>
<1>1. /\ listening /\ PeerInv(c) /\ RequestInv(c) /\ FileInv(c) /\ TypeOK
      /\ stage[c] = "open" /\ saved \in Places /\ asked[c] \in Asked
      /\ down[c] \in Seq(Reply)
  BY Running DEF OpenFails, TypeOK
<1>2. /\ Fatal(c) => Early(c)
      /\ got[c] = <<>> /\ down[c] = <<>>
      /\ asked[c] # "nothing" /\ want[c][1] = "GET"
      /\ asked[c] \notin {"left", "aborted"} => Complete(c)
  BY <1>1 DEF PeerInv, RequestInv, Unwritten, Parsing, Unasked, Getting, Fatal
<1>2a. CASE Fatal(c)
  <2>1. Killed /\ UNCHANGED <<down, peer, line, filename, saved, cursor, program, clientvars>>
    BY <1>2a DEF OpenFails, Send
  <2> QED BY <1>2a, <1>2, <2>1, Web_Killed
<1> SUFFICES ASSUME ~Fatal(c) PROVE WebInv'
  BY <1>2a
<1>3. /\ Write(c, m) /\ Goto(c, "end") /\ saved' = saved
      /\ UNCHANGED <<up, held, backlog, listening, line, filename, cursor, program, clientvars>>
  BY DEF OpenFails, Send
<1>4. m \in Reply /\ ~OfFile(m)
  BY DEF Reply, OfFile
<1>5. /\ TypeOK' /\ \A d \in Clients \ {c} : Same(d)
      /\ UNCHANGED <<up, held, backlog, listening, line, filename, program, want, asked, got>>
      /\ stage'[c] = "end" /\ peer'[c] # "idle" /\ (peer'[c] = "open" <=> peer[c] = "open")
      /\ down'[c] \in {down[c], Append(down[c], m)}
      /\ asked[c] \in {"nothing", "line", "all"} =>
           peer'[c] = "open" /\ Answer(c)' = Append(Answer(c), m)
  BY <1>1, <1>3, <1>4, Web_Write DEF Stage
<1>6. asked[c] \notin {"left", "aborted"} => asked[c] = "all" /\ up[c] = <<>> /\ Whole(Answer(c)')
  <2>1. Answer(c) = <<>>
    BY <1>2 DEF Answer
  <2>2. Append(<<>>, m) = << m >>
    OBVIOUS
  <2> QED BY <1>2, <1>5, <2>1, <2>2 DEF Complete, Whole
<1>7. PeerInv(c)'
  BY <1>1, <1>2, <1>5, <1>6 DEF PeerInv, Unwritten, Unasked, Parsing
<1>8. RequestInv(c)'
  BY <1>1, <1>2, <1>5, <1>6
     DEF RequestInv, Unwritten, Unasked, Parsing, Getting, Complete, Whole
<1>9. FileInv(c)'
  <2>1. OwnFile(c, down'[c])
    BY <1>1, <1>2, <1>4, <1>5, NoFile, OwnMore
  <2>2. \A s : OwnFile(c, s)' = OwnFile(c, s)
    BY <1>5 DEF OwnFile
  <2> QED BY <1>1, <1>5, <2>1, <2>2 DEF FileInv
<1> QED BY <1>1, <1>5, <1>7, <1>8, <1>9, Web_Step

\* the file, or what fills the buffer, with the headers before it (176-177, 168-169)
LEMMA Web_Copy ==
  ASSUME WebInv, NEW c \in Clients, Copy(c)
  PROVE  WebInv'
<1>1. /\ listening /\ PeerInv(c) /\ RequestInv(c) /\ FileInv(c) /\ TypeOK
      /\ stage[c] = "copy" /\ saved \in Places /\ asked[c] \in Asked
      /\ down[c] \in Seq(Reply) /\ filename[c] \in File
  BY Running DEF Copy, TypeOK
<1>2. /\ Fatal(c) => Early(c)
      /\ got[c] = <<>> /\ down[c] = <<>>
      /\ asked[c] # "nothing" /\ want[c][1] = "GET"
      /\ asked[c] \notin {"left", "aborted"} => Complete(c)
  BY <1>1 DEF PeerInv, RequestInv, Unwritten, Parsing, Unasked, Getting, Fatal
<1>2a. CASE Fatal(c)
  <2>1. Killed /\ UNCHANGED <<down, peer, line, filename, saved, cursor, program, clientvars>>
    BY <1>2a DEF Copy, Send
  <2> QED BY <1>2a, <1>2, <2>1, Web_Killed
<1> SUFFICES ASSUME ~Fatal(c) PROVE WebInv'
  BY <1>2a
<1>3. PICK m \in {<<"whole", filename[c]>>, <<"first", filename[c]>>}, s \in {"end", "rest"} :
        /\ \/ m = <<"first", filename[c]>> /\ s = "rest" /\ filename[c] = "large"
           \/ m = <<"whole", filename[c]>> /\ s = "end"
        /\ Write(c, m) /\ Goto(c, s) /\ saved' = saved
        /\ UNCHANGED <<up, held, backlog, listening, line, filename, cursor, program, clientvars>>
  BY DEF Copy, Send, BufferFills
<1>4. m \in Reply /\ m[2] = filename[c] /\ s \in Stage \ {"none", "done"}
  <2>1. \A f \in File : <<"whole", f>> \in Reply /\ <<"first", f>> \in Reply
    BY DEF Reply
  <2>2. m[2] = filename[c]
    BY <1>3
  <2>3. s \in Stage \ {"none", "done"}
    BY DEF Stage
  <2> QED BY <1>1, <1>3, <2>1, <2>2, <2>3
<1>5. /\ TypeOK' /\ \A d \in Clients \ {c} : Same(d)
      /\ UNCHANGED <<up, held, backlog, listening, line, filename, program, want, asked, got>>
      /\ stage'[c] = s /\ peer'[c] # "idle" /\ (peer'[c] = "open" <=> peer[c] = "open")
      /\ down'[c] \in {down[c], Append(down[c], m)}
      /\ asked[c] \in {"nothing", "line", "all"} =>
           peer'[c] = "open" /\ Answer(c)' = Append(Answer(c), m)
  BY <1>1, <1>3, <1>4, Web_Write
<1>6. asked[c] \notin {"left", "aborted"} =>
        /\ asked[c] = "all" /\ up[c] = <<>>
        /\ s = "end" => Whole(Answer(c)')
        /\ s = "rest" => Answer(c)' = << <<"first", filename[c]>> >>
  <2>1. Answer(c) = <<>>
    BY <1>2 DEF Answer
  <2>2. Append(<<>>, m) = << m >>
    OBVIOUS
  <2>3. s = "end" => Whole(<< m >>)
    BY <1>1, <1>3 DEF Whole
  <2> QED BY <1>1, <1>2, <1>3, <1>5, <2>1, <2>2, <2>3 DEF Complete, Asked
<1>7. PeerInv(c)'
  BY <1>1, <1>2, <1>3, <1>5, <1>6 DEF PeerInv, Unwritten, Unasked, Parsing
<1>8. RequestInv(c)'
  BY <1>1, <1>2, <1>3, <1>5, <1>6
     DEF RequestInv, Unwritten, Unasked, Parsing, Getting, Complete, Whole
<1>9. FileInv(c)'
  <2>1. program = "webserver2" => OwnFile(c, down'[c])
    BY <1>1, <1>2, <1>4, <1>5, NoFile, OwnMore DEF FileInv
  <2>2. \A t : OwnFile(c, t)' = OwnFile(c, t)
    BY <1>5 DEF OwnFile
  <2> QED BY <1>1, <1>5, <2>1, <2>2 DEF FileInv
<1> QED BY <1>1, <1>3, <1>5, <1>7, <1>8, <1>9, Web_Step

\* the rest of a large file, which may kill the process (177, 169)
LEMMA Web_CopyRest ==
  ASSUME WebInv, NEW c \in Clients, CopyRest(c)
  PROVE  WebInv'
<1> DEFINE m == <<"last", filename[c]>>
<1>1. /\ listening /\ PeerInv(c) /\ RequestInv(c) /\ FileInv(c) /\ TypeOK
      /\ stage[c] = "rest" /\ saved \in Places /\ asked[c] \in Asked
      /\ down[c] \in Seq(Reply) /\ filename[c] = "large" /\ Send(c, m, "end")
  BY Running DEF CopyRest, TypeOK, PeerInv
<1>2. /\ asked[c] # "nothing" /\ want[c][1] = "GET"
      /\ asked[c] \notin {"left", "aborted"} => Complete(c) /\ Answer(c) = << <<"first", filename[c]>> >>
  BY <1>1 DEF PeerInv, RequestInv, Unwritten, Parsing, Unasked, Getting
<1>3. CASE Fatal(c)
  <2>1. asked[c] \in {"left", "aborted"}
    BY <1>1, <1>3 DEF PeerInv, Fatal, Asked
  <2>2. Killed /\ UNCHANGED <<down, peer, line, filename, saved, cursor, program, clientvars>>
    BY <1>1, <1>3 DEF Send
  <2> QED BY <1>1, <2>1, <2>2, Web_Killed
<1>4. CASE ~Fatal(c)
  <2>1. /\ Write(c, m) /\ Goto(c, "end") /\ saved' = saved
        /\ UNCHANGED <<up, held, backlog, listening, line, filename, cursor, program, clientvars>>
    BY <1>1, <1>4 DEF Send
  <2>2. m \in Reply
    BY <1>1 DEF Reply, File
  <2>3. /\ TypeOK' /\ \A d \in Clients \ {c} : Same(d)
        /\ UNCHANGED <<up, held, backlog, listening, line, filename, program, want, asked, got>>
        /\ stage'[c] = "end" /\ peer'[c] # "idle" /\ (peer'[c] = "open" <=> peer[c] = "open")
        /\ down'[c] \in {down[c], Append(down[c], m)}
        /\ asked[c] \in {"nothing", "line", "all"} =>
             peer'[c] = "open" /\ Answer(c)' = Append(Answer(c), m)
    BY <1>1, <2>1, <2>2, Web_Write DEF Stage
  <2>4. asked[c] \notin {"left", "aborted"} => asked[c] = "all" /\ up[c] = <<>> /\ Whole(Answer(c)')
    <3>1. Append(<< <<"first", filename[c]>> >>, m) = << <<"first", filename[c]>>, m>>
      <4>1. <<"first", filename[c]>> \in Reply
        BY <1>1 DEF Reply, File
      <4> QED BY <2>2, <4>1, TwoReplies
    <3>2. Whole(<< <<"first", filename[c]>>, m>>)
      BY <1>1 DEF Whole, File
    <3> QED BY <1>2, <2>3, <3>1, <3>2 DEF Complete
  <2>5. PeerInv(c)'
    BY <1>1, <1>2, <2>3, <2>4 DEF PeerInv, Unwritten, Unasked, Parsing
  <2>6. RequestInv(c)'
    BY <1>1, <1>2, <2>3, <2>4
       DEF RequestInv, Unwritten, Unasked, Parsing, Getting, Complete, Whole
  <2>7. FileInv(c)'
    <3>1. program = "webserver2" => OwnFile(c, down'[c])
      BY <1>1, <2>2, <2>3, OwnMore DEF FileInv
    <3>2. \A t : OwnFile(c, t)' = OwnFile(c, t)
      BY <2>3 DEF OwnFile
    <3> QED BY <1>1, <2>3, <3>1, <3>2 DEF FileInv
  <2> QED BY <1>1, <2>3, <2>5, <2>6, <2>7, Web_Step
<1> QED BY <1>3, <1>4

-----------------------------------------------------------------------------
(* What browsers and the network do.                                       *)

\* a connection is made and waits for accept()
LEMMA Web_Connect ==
  ASSUME WebInv, NEW c \in Clients, Connect(c)
  PROVE  WebInv'
<1>1. /\ TypeOK /\ PeerInv(c) /\ RequestInv(c) /\ FileInv(c) /\ peer[c] = "idle" /\ listening
      /\ backlog \in Seq(Clients) /\ backlog' = Append(backlog, c)
      /\ peer' = [peer EXCEPT ![c] = "open"] /\ peer \in [Clients -> PeerState]
      /\ UNCHANGED <<up, down, held, listening, stage, line, filename, saved, cursor,
                     program, want, asked, got>>
      /\ stage[c] = "none"
  BY DEF Connect, Establish, WebInv, TypeOK, BacklogInv, threadvars, clientvars, PeerInv
<1>2. peer' \in [Clients -> PeerState] /\ peer'[c] = "open"
      /\ \A d \in Clients \ {c} : peer'[d] = peer[d]
  BY <1>1 DEF PeerState
<1>3. TypeOK'
  BY <1>1, <1>2 DEF TypeOK
<1>4. KilledInv'
  BY <1>1 DEF KilledInv
<1>5. BacklogInv'
  <2> DEFINE n == Len(backlog)
             b == backlog'
  <2>1. /\ n \in Nat /\ b \in Seq(Clients) /\ Len(b) = n + 1
        /\ \A k \in 1..n : b[k] = backlog[k]
        /\ b[n + 1] = c
    BY <1>1, AppendProperties, LenProperties
  <2>2. /\ \A k \in 1..n : stage[backlog[k]] = "none" /\ peer[backlog[k]] # "idle"
                           /\ backlog[k] \in Clients
        /\ \A j, k \in 1..n : backlog[j] = backlog[k] => j = k
    BY <1>1, ElementOfSeq DEF WebInv, BacklogInv
  <2> HIDE DEF n
  <2>3. \A k \in 1..n : b[k] \in Clients \ {c} /\ stage[b[k]] = "none" /\ peer[b[k]] # "idle"
    BY <1>1, <2>1, <2>2
  <2>4. \A k \in 1..(n + 1) : stage'[b[k]] = "none" /\ peer'[b[k]] # "idle"
    BY <1>1, <1>2, <2>1, <2>3
  <2>5. \A j, k \in 1..n : b[j] = b[k] => j = k
    BY <2>1, <2>2
  <2>6. \A j, k \in 1..(n + 1) : b[j] = b[k] => j = k
    BY <2>1, <2>3, <2>5
  <2> QED BY <1>1, <2>1, <2>4, <2>6 DEF BacklogInv
<1>6. \A d \in Clients \ {c} : Same(d)
  BY <1>1, <1>2 DEF Same
<1>7. \A d \in Clients \ {c} : PeerInv(d)' /\ RequestInv(d)' /\ FileInv(d)'
  BY <1>1, <1>6, Web_Frame DEF WebInv
<1>8. PeerInv(c)'
  BY <1>1, <1>2 DEF PeerInv
<1>9. RequestInv(c)'
  <2>1. AllSent(c)' = AllSent(c) /\ AllButLine(c)' = AllButLine(c)
    BY <1>1 DEF AllSent, AllButLine
  <2>2. Complete(c)' = Complete(c) /\ Answer(c)' = Answer(c)
    BY <1>1 DEF Complete, Answer
  <2> QED BY <1>1, <2>1, <2>2 DEF RequestInv
<1>10. FileInv(c)'
  BY <1>1 DEF FileInv, OwnFile
<1> QED BY <1>3, <1>4, <1>5, <1>7, <1>8, <1>9, <1>10 DEF WebInv

\* a line of the request is sent
LEMMA Web_Ask ==
  ASSUME WebInv, NEW c \in Clients, NEW m \in Request \cup {Headers},
         NEW how \in {"line", "all"}, peer[c] = "open",
         asked[c] = IF how = "line" THEN "nothing" ELSE "line", Ask(c, m, how),
         want' = IF how = "line" THEN [want EXCEPT ![c] = m] ELSE want,
         m \in Request <=> how = "line"
  PROVE  WebInv'
<1>1. /\ TypeOK /\ PeerInv(c) /\ RequestInv(c) /\ FileInv(c)
      /\ asked' = [asked EXCEPT ![c] = how]
      /\ up' = [up EXCEPT ![c] = IF held[c] = "closed" THEN up[c] ELSE Append(up[c], m)]
      /\ down' = down \/ (held[c] = "closed" /\ down' = [down EXCEPT ![c] = <<>>])
      /\ UNCHANGED <<peer, held, backlog, listening, stage, line, filename, saved, cursor,
                     program, got>>
      /\ asked \in [Clients -> Asked] /\ want \in [Clients -> Request \cup {NoLine}]
      /\ up \in [Clients -> Seq(Request \cup {Headers})] /\ down \in [Clients -> Seq(Reply)]
      /\ held[c] = "open" <=> stage[c] \notin {"none", "done"}
      /\ stage[c] \in Stage
  BY DEF Ask, SendUp, WebInv, TypeOK, threadvars
<1>2. Append(up[c], m) \in Seq(Request \cup {Headers})
  BY <1>1, AppendProperties
<1>3. /\ up' \in [Clients -> Seq(Request \cup {Headers})] /\ down' \in [Clients -> Seq(Reply)]
      /\ asked' \in [Clients -> Asked] /\ want' \in [Clients -> Request \cup {NoLine}]
  BY <1>1, <1>2, EmptySeq DEF Asked
<1>4. TypeOK'
  BY <1>1, <1>3 DEF TypeOK
<1>5. /\ asked'[c] = how /\ (how = "line" => want'[c] = m) /\ (how = "all" => want'[c] = want[c])
      /\ up'[c] = IF held[c] = "closed" THEN up[c] ELSE Append(up[c], m)
      /\ down'[c] \in {down[c], <<>>} /\ (held[c] # "closed" => down'[c] = down[c])
  BY <1>1
<1>6. \A d \in Clients \ {c} : Same(d)
  BY <1>1 DEF Same
<1>7. stage[c] = "none" /\ listening => held[c] = "none"
  BY <1>1 DEF PeerInv
<1>8. PeerInv(c)'
  BY <1>1, <1>5 DEF PeerInv
<1>9. RequestInv(c)'
  <2>1. CASE how = "line"
    <3>1. /\ line[c] = NoLine /\ stage[c] \in Unasked \cup {"done"} /\ got[c] = <<>>
          /\ down[c] = <<>> /\ down'[c] = <<>> /\ m \in Request
      BY <1>1, <1>5, <2>1 DEF RequestInv
    <3>2. stage[c] \in Unasked /\ listening => AllSent(c)'
      <4> SUFFICES ASSUME stage[c] \in Unasked, listening PROVE AllSent(c)'
        OBVIOUS
      <4>1. up[c] = <<>> /\ held[c] # "closed"
        BY <1>1, <1>7, <2>1 DEF RequestInv, AllSent, Unasked
      <4>2. up'[c] = << m >>
        BY <1>5, <4>1
      <4> QED BY <1>5, <2>1, <4>2 DEF AllSent
    <3> QED BY <1>1, <1>5, <2>1, <3>1, <3>2
            DEF RequestInv, Unwritten, Unasked, Parsing, Getting
  <2>2. CASE how = "all"
    <3>1. /\ asked[c] = "line" /\ m = Headers /\ want'[c] = want[c] /\ want[c] \in Request
          /\ stage[c] \in {"open", "copy", "rest", "end"} => want[c][1] # "GET"
          /\ stage[c] = "done" /\ listening /\ line[c] # NoLine => want[c][1] # "GET"
          /\ stage[c] \in Unwritten => got[c] = <<>> /\ down'[c] = <<>>
      BY <1>1, <1>5, <2>2 DEF RequestInv, Complete
    <3>2. stage[c] \in Unasked /\ listening => AllSent(c)'
      <4> SUFFICES ASSUME stage[c] \in Unasked, listening PROVE AllSent(c)'
        OBVIOUS
      <4>1. up[c] = << want[c] >> /\ held[c] # "closed"
        BY <1>1, <1>7, <3>1 DEF RequestInv, AllSent, Unasked
      <4>2. Append(<< want[c] >>, Headers) = <<want[c], Headers>>
        BY <3>1, TwoReplies
      <4>3. up'[c] = <<want[c], Headers>>
        BY <1>5, <3>1, <4>1, <4>2
      <4> QED BY <1>5, <2>2, <4>3 DEF AllSent
    <3>3. stage[c] \in Parsing => AllButLine(c)'
      <4> SUFFICES ASSUME stage[c] \in Parsing PROVE AllButLine(c)'
        OBVIOUS
      <4>1. up[c] = <<>> /\ held[c] # "closed"
        BY <1>1, <3>1 DEF RequestInv, AllButLine, Parsing
      <4>2. up'[c] = << Headers >>
        BY <1>5, <3>1, <4>1
      <4> QED BY <1>5, <2>2, <4>2 DEF AllButLine
    <3> QED BY <1>1, <1>5, <2>2, <3>1, <3>2, <3>3
            DEF RequestInv, Unwritten, Unasked, Parsing, Getting
  <2> QED BY <2>1, <2>2
<1>10. FileInv(c)'
  <2>1. CASE how = "line"
    <3>1. stage[c] \in Unasked \cup {"done"} /\ got[c] = <<>> /\ down'[c] = <<>>
      BY <1>1, <1>5, <2>1 DEF RequestInv
    <3> QED BY <1>1, <3>1 DEF FileInv, OwnFile, Unasked
  <2>2. CASE how = "all"
    <3>1. \A s : OwnFile(c, s)' = OwnFile(c, s)
      BY <2>2 DEF OwnFile
    <3> QED BY <1>1, <1>5, <2>2, <3>1, NoFile DEF FileInv
  <2> QED BY <2>1, <2>2
<1> QED BY <1>1, <1>4, <1>5, <1>6, <1>8, <1>9, <1>10, Web_Step

\* the browser reads
LEMMA Web_Take ==
  ASSUME WebInv, NEW c \in Clients, Take(c)
  PROVE  WebInv'
<1>1. /\ TypeOK /\ PeerInv(c) /\ RequestInv(c) /\ FileInv(c)
      /\ UNCHANGED <<up, peer, held, backlog, listening, stage, line, filename, saved, cursor,
                     program, want, asked>>
      /\ down \in [Clients -> Seq(Reply)] /\ got \in [Clients -> Seq(Reply)]
  BY DEF Take, WebInv, TypeOK, threadvars
<1>0. Moves(Reply, got[c], down[c])
  <2>1. got[c] \in Seq(Reply) /\ down[c] \in Seq(Reply)
    BY <1>1
  <2> QED BY <2>1, TakeSome
<1>2. PICK n \in 1..Len(down[c]) :
        /\ down' = [down EXCEPT ![c] = SubSeq(down[c], n + 1, Len(down[c]))]
        /\ got' = [got EXCEPT ![c] = got[c] \o SubSeq(down[c], 1, n)]
  BY <1>1 DEF Take, TakeDown
<1>3. /\ down'[c] = SubSeq(down[c], n + 1, Len(down[c]))
      /\ got'[c] = got[c] \o SubSeq(down[c], 1, n)
      /\ \A d \in Clients \ {c} : down'[d] = down[d] /\ got'[d] = got[d]
  BY <1>1, <1>2
<1>4. /\ down'[c] \in Seq(Reply) /\ got'[c] \in Seq(Reply)
      /\ got'[c] \o down'[c] = got[c] \o down[c]
      /\ Among(down'[c], got[c], down[c]) /\ Among(got'[c], got[c], down[c])
  BY <1>0, <1>2, <1>3 DEF Moves
<1>5. down[c] # <<>>
  <2>1. 1..Len(down[c]) # {}
    BY <1>2
  <2>2. Len(<<>>) = 0 /\ 1..0 = {}
    OBVIOUS
  <2> QED BY <2>1, <2>2
<1>6. TypeOK'
  <2>1. down' \in [Clients -> Seq(Reply)] /\ got' \in [Clients -> Seq(Reply)]
    BY <1>1, <1>2, <1>3, <1>4
  <2> QED BY <1>1, <2>1 DEF TypeOK
<1>7. \A d \in Clients \ {c} : Same(d)
  BY <1>1, <1>3 DEF Same
<1>8. PeerInv(c)'
  BY <1>1 DEF PeerInv, Early
<1>9. RequestInv(c)'
  <2>1. AllSent(c)' = AllSent(c) /\ AllButLine(c)' = AllButLine(c)
    BY <1>1 DEF AllSent, AllButLine
  <2>2. Complete(c)' = Complete(c) /\ Answer(c)' = Answer(c)
    BY <1>1, <1>4 DEF Complete, Answer
  <2>3. asked[c] # "nothing" /\ stage[c] \notin Unwritten
    BY <1>1, <1>5 DEF RequestInv
  <2> QED BY <1>1, <2>1, <2>2, <2>3 DEF RequestInv
<1>10. FileInv(c)'
  <2>1. OwnFile(c, got[c]) /\ OwnFile(c, down[c]) => OwnFile(c, got'[c]) /\ OwnFile(c, down'[c])
    BY <1>4, OwnFrom
  <2>2. \A s : OwnFile(c, s)' = OwnFile(c, s)
    BY <1>1 DEF OwnFile
  <2> QED BY <1>1, <2>1, <2>2 DEF FileInv
<1> QED BY <1>1, <1>6, <1>7, <1>8, <1>9, <1>10, Web_Step

\* the browser closes or resets the connection, or its kernel answers with a reset
LEMMA Web_Leave ==
  ASSUME WebInv, NEW c \in Clients, Leave(c) \/ Abort(c) \/ Network(c)
  PROVE  WebInv'
<1>1. /\ TypeOK /\ PeerInv(c) /\ RequestInv(c) /\ FileInv(c)
      /\ UNCHANGED <<up, held, backlog, listening, stage, line, filename, saved, cursor,
                     program, want, got>>
      /\ down \in [Clients -> Seq(Reply)] /\ peer \in [Clients -> PeerState]
      /\ asked \in [Clients -> Asked] /\ peer[c] # "idle"
  BY DEF Leave, Abort, Network, RstArrives, WebInv, TypeOK, threadvars, clientvars
<1>2. /\ peer' \in [Clients -> PeerState] /\ down' \in [Clients -> Seq(Reply)]
      /\ asked' \in [Clients -> Asked]
      /\ peer'[c] \notin {"idle", "open"} /\ asked'[c] \in {"left", "aborted"}
      /\ asked[c] \in {"left", "aborted"} => asked'[c] = asked[c]
      /\ down'[c] \in {down[c], <<>>}
      /\ down[c] = <<>> /\ peer[c] # "finrst" =>
           peer'[c] = "fin" \/ (peer'[c] = "reset" /\ asked'[c] = "aborted")
      /\ \A d \in Clients \ {c} :
           down'[d] = down[d] /\ peer'[d] = peer[d] /\ asked'[d] = asked[d]
  <2>1. CASE Leave(c)
    <3>1. PICK s \in {"fin", "reset", "finrst"} :
            /\ peer' = [peer EXCEPT ![c] = s] /\ (down[c] = <<>> => s = "fin")
            /\ down' = [down EXCEPT ![c] = <<>>] /\ asked' = [asked EXCEPT ![c] = "left"]
      BY <2>1 DEF Leave, CloseClientEnd
    <3>2. asked[c] \notin {"left", "aborted"}
      BY <1>1, <2>1 DEF Leave, PeerInv
    <3> QED BY <1>1, <3>1, <3>2, EmptySeq DEF PeerState, Asked
  <2>3. CASE Abort(c)
    <3>1. /\ peer' = [peer EXCEPT ![c] = "reset"] /\ down' = [down EXCEPT ![c] = <<>>]
          /\ asked' = [asked EXCEPT ![c] = "aborted"] /\ peer[c] = "open"
      BY <2>3 DEF Abort
    <3>2. asked[c] \notin {"left", "aborted"}
      BY <1>1, <3>1 DEF PeerInv
    <3> QED BY <1>1, <3>1, <3>2, EmptySeq DEF PeerState, Asked
  <2>2. CASE Network(c)
    <3>1. peer[c] = "finrst" /\ peer' = [peer EXCEPT ![c] = "dead"] /\ down' = down /\ asked' = asked
      BY <2>2 DEF Network, RstArrives, clientvars
    <3>2. asked[c] \in {"left", "aborted"}
      BY <1>1, <3>1 DEF PeerInv, Asked
    <3> QED BY <1>1, <3>1, <3>2 DEF PeerState
  <2> QED BY <2>1, <2>2, <2>3
<1>3. TypeOK'
  BY <1>1, <1>2 DEF TypeOK
<1>4. \A d \in Clients \ {c} : Same(d)
  BY <1>1, <1>2 DEF Same
<1>5. stage[c] \in Unwritten =>
        /\ got[c] = <<>> /\ down[c] = <<>>
        /\ peer'[c] = "fin" \/ (peer'[c] = "reset" /\ asked'[c] = "aborted")
  BY <1>1, <1>2 DEF PeerInv, RequestInv
<1>6. PeerInv(c)'
  BY <1>1, <1>2, <1>5 DEF PeerInv
<1>7. RequestInv(c)'
  <2>1. stage[c] \in Unasked /\ listening => AllSent(c)'
    BY <1>1, <1>2 DEF RequestInv, AllSent
  <2>2. stage[c] \in Parsing => AllButLine(c)'
    BY <1>1, <1>2 DEF RequestInv, AllButLine
  <2> QED BY <1>1, <1>2, <1>5, <2>1, <2>2 DEF RequestInv
<1>8. FileInv(c)'
  <2>1. \A s : OwnFile(c, s)' = OwnFile(c, s)
    BY <1>1 DEF OwnFile
  <2> QED BY <1>1, <1>2, <2>1, NoFile DEF FileInv
<1> QED BY <1>1, <1>2, <1>3, <1>4, <1>6, <1>7, <1>8, Web_Step

-----------------------------------------------------------------------------
(* The whole.                                                              *)

\* Nothing has happened yet (31-49)
LEMMA Web_Init ==
  ASSUME Init
  PROVE  WebInv
<1>1. TypeOK
  BY EmptySeq DEF Init, NetInit, TypeOK, Stage, Asked, File, PeerState, HeldState, Places
<1>2. BacklogInv
  <2>1. backlog \in Seq(Clients) /\ Len(backlog) = 0 /\ listening = TRUE
    BY EmptySeq DEF Init, NetInit
  <2>2. 1..0 = {}
    OBVIOUS
  <2> QED BY <2>1, <2>2 DEF BacklogInv
<1>3. KilledInv
  BY DEF Init, NetInit, KilledInv
<1>4. ASSUME NEW c \in Clients
      PROVE  PeerInv(c) /\ RequestInv(c) /\ FileInv(c)
  <2>1. /\ up[c] = <<>> /\ down[c] = <<>> /\ peer[c] = "idle" /\ held[c] = "none"
        /\ stage[c] = "none" /\ line[c] = NoLine /\ want[c] = NoLine /\ asked[c] = "nothing"
        /\ got[c] = <<>>
    BY DEF Init, NetInit
  <2>2. PeerInv(c)
    BY <2>1 DEF PeerInv
  <2>3. RequestInv(c)
    BY <2>1 DEF RequestInv, AllSent, Unwritten, Unasked, Parsing, Getting
  <2>4. FileInv(c)
    BY <2>1, NoFile DEF FileInv
  <2> QED BY <2>2, <2>3, <2>4
<1> QED BY <1>1, <1>2, <1>3, <1>4 DEF WebInv

\* Every step of main(), of a thread, of a browser or of the network preserves the
\* invariant
LEMMA Web_Next ==
  ASSUME WebInv, [Next]_vars
  PROVE  WebInv'
<1>1. ASSUME NEW c \in Clients, Thread(c) PROVE WebInv'
  <2>1. CASE OpenStreams(c)
    BY <2>1, Web_OpenStreams, Web_Close DEF OpenStreams
  <2>2. CASE RequestLine(c) \/ RequestHeaders(c)
    BY <2>2, Web_GetLine
  <2>3. CASE NoRequest(c) \/ End(c)
    BY <2>3, Web_Close DEF NoRequest, End
  <2>4. CASE Method(c) \/ Filename(c) \/ Advance(c) \/ NoHeaders(c) \/ OpenFile(c)
    BY <2>4, Web_Method, Web_Filename, Web_NoHeaders, Web_OpenFile
  <2>5. CASE Refuse(c) \/ OpenFails(c) \/ Copy(c) \/ CopyRest(c)
    BY <2>5, Web_Refuse, Web_OpenFails, Web_Copy, Web_CopyRest
  <2> QED BY <1>1, <2>1, <2>2, <2>3, <2>4, <2>5 DEF Thread
<1>2. ASSUME NEW c \in Clients, Browser(c) PROVE WebInv'
  <2>1. CASE AskLine(c)
    <3>1. PICK r \in Request : Ask(c, r, "line") /\ want' = [want EXCEPT ![c] = r]
      BY <2>1 DEF AskLine
    <3>2. peer[c] = "open" /\ asked[c] = "nothing"
      BY <2>1 DEF AskLine
    <3> QED BY <3>1, <3>2, Web_Ask
  <2>2. CASE AskHeaders(c)
    BY <2>2, Lines, Web_Ask DEF AskHeaders
  <2>3. CASE Connect(c) \/ Take(c) \/ Leave(c) \/ Abort(c)
    BY <2>3, Web_Connect, Web_Take, Web_Leave
  <2> QED BY <1>2, <2>1, <2>2, <2>3 DEF Browser
<1>3. CASE UNCHANGED vars
  <2>1. UNCHANGED <<up, down, peer, held, backlog, listening, stage, line, filename, saved,
                    cursor, want, asked, got, program>>
    BY <1>3 DEF vars, netvars, threadvars, clientvars
  <2>2. TypeOK' /\ BacklogInv' /\ KilledInv'
    BY <2>1 DEF WebInv, TypeOK, BacklogInv, KilledInv, Early
  <2>3. \A d \in Clients : Same(d)
    BY <2>1 DEF Same
  <2> QED BY <2>1, <2>2, <2>3, Web_Frame DEF WebInv
<1> QED BY <1>1, <1>2, <1>3, Web_Accept, Web_Leave DEF Next

-----------------------------------------------------------------------------
(* The theorems.                                                           *)

\* In every state the variables have their types, and a thread runs exactly as long
\* as the connection has its descriptor (51-60, 91-146).
THEOREM WebTypeOK == Spec => []TypeOK
<1>1. WebInv => TypeOK
  BY DEF WebInv
<1> QED BY <1>1, Web_Init, Web_Next, PTL DEF Spec

\* However many threads of webserver2.c there are, none sends a client (a part of) a
\* file other than the one the client has asked for (103-113, 147-170).
THEOREM WebServesWhatIsAsked == Spec => []ServesWhatIsAsked
<1>1. WebInv => ServesWhatIsAsked
  <2> SUFFICES ASSUME WebInv, program = "webserver2", NEW c \in Clients,
                      NEW k \in 1..Len(Answer(c)),
                      Answer(c)[k][1] \in {"whole", "first", "last"}
               PROVE  want[c] = <<"GET", Answer(c)[k][2]>>
    BY DEF ServesWhatIsAsked
  <2>1. got[c] \in Seq(Reply) /\ down[c] \in Seq(Reply)
    BY DEF WebInv, TypeOK
  <2>2. OwnFile(c, got[c]) /\ OwnFile(c, down[c])
    BY DEF WebInv, FileInv
  <2>3. Among(Answer(c), got[c], down[c])
    BY <2>1, JoinedElements DEF Answer
  <2>4. OwnFile(c, Answer(c))
    BY <2>2, <2>3, OwnFrom
  <2> QED BY <2>4 DEF OwnFile, OfFile
<1> QED BY <1>1, Web_Init, Web_Next, PTL DEF Spec

\* A GET that was sent to the end is answered to the end, whoever else asks or leaves
\* and even when no descriptor is left for the file (127-146, 154-178).
THEOREM WebAnswerIsWhole == Spec => []AnswerIsWhole
<1>1. WebInv => AnswerIsWhole
  <2> SUFFICES ASSUME WebInv, NEW c \in Clients, want[c][1] = "GET", asked[c] = "all",
                      line[c] # NoLine, stage[c] = "done", listening
               PROVE  Answer(c) \in {<< <<"error after 200", "missing">> >>}
                                      \cup {<< <<"whole", f>> >> : f \in File}
                                      \cup {<< <<"first", f>>, <<"last", f>> >> : f \in File}
    BY DEF AnswerIsWhole
  <2>1. Whole(Answer(c))
    BY DEF WebInv, RequestInv
  <2> QED BY <2>1 DEF Whole
<1> QED BY <1>1, Web_Init, Web_Next, PTL DEF Spec

\* SIGPIPE ends the process only if a client has gone from a large file, or has reset
\* its connection between the line of its GET and the end of its header lines, however
\* many clients go, in either way, at whatever moment (128, 177, 189, 210).
THEOREM WebTwoWaysToKill == Spec => []TwoWaysToKill
<1>1. WebInv => TwoWaysToKill
  BY DEF WebInv, KilledInv, TwoWaysToKill, Early
<1> QED BY <1>1, Web_Init, Web_Next, PTL DEF Spec
=============================================================================
