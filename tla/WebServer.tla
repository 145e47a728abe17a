------------------------------ MODULE WebServer ------------------------------
(***************************************************************************)
(* src/0618/webserver.c and webserver2.c: an HTTP server with a detached   *)
(* thread per connection.  The two programs differ in how clnt_connection  *)
(* takes the request line apart: webserver.c calls strtok() twice, which   *)
(* keeps its place in a variable all threads share; webserver2.c calls     *)
(* sscanf().  Line numbers are webserver.c's, in brackets webserver2.c's.  *)
(* The clients are browsers, of which only the requests matter.            *)
(***************************************************************************)
EXTENDS StreamSocket, FiniteSets, SequencesExt

CONSTANT Descriptors     \* how many the process may have beside the listening socket
ASSUME DescriptorsAssumption == Descriptors \in Nat

VARIABLES
  program,    \* which of the two programs runs
  stage,      \* stage[c]: where the thread of connection c is, see Stage
  line,       \* line[c]: the request line in the thread's reg_line
  filename,   \* filename[c]: the thread's variable of that name
  saved,      \* where strtok() would go on: whose reg_line, and at which word
  cursor,     \* cursor[c]: what the thread's call of strtok() took from saved; dead elsewhere
  want,       \* want[c]: the request line the client has sent
  asked,      \* asked[c]: how much of its request the client has sent, see Asked
  got         \* got[c]: what the client has received

threadvars == <<stage, line, filename, saved, cursor>>
clientvars == <<want, asked, got>>
vars       == <<netvars, threadvars, program, clientvars>>

(***************************************************************************)
(* A file is small (sent by one write(), when the stream is flushed) or    *)
(* large (the stream's buffer fills up before that); any other name, the   *)
(* empty one included, is missing.  "bad": no GET and no POST, or a line   *)
(* that has no such parts.                                                 *)
(***************************************************************************)
File    == {"small", "large", "missing"}
Request == ({"GET"} \X File) \cup ({"POST", "bad"} \X {"small"})
NoLine  == <<"none", "missing">>
Headers == <<"headers", "missing">>   \* the lines after the first, with the empty one

Stage == {"none", "start", "line", "method", "file", "advance", "headers", "open",
          "copy", "rest", "end", "done"}
Asked == {"nothing", "line", "all", "left", "aborted"}

\* what one write() sends: the replies of sendOk and sendError, the headers of
\* sendData with the reply of sendError, or with a file, its first or its last part
Reply == ({"whole", "first", "last"} \X File)
           \cup {<<"ok", "missing">>, <<"error", "missing">>, <<"error after 200", "missing">>}

Nobody == "nobody"
Places == ((Clients \cup {Nobody}) \X {"file", "version", "end"})

Init ==
  /\ NetInit
  /\ program \in {"webserver", "webserver2"}
  /\ stage    = [c \in Clients |-> "none"]
  /\ line     = [c \in Clients |-> NoLine]
  /\ filename = [c \in Clients |-> "missing"]
  /\ saved    = <<Nobody, "end">>
  /\ cursor   = [c \in Clients |-> <<Nobody, "end">>]
  /\ want     = [c \in Clients |-> NoLine]
  /\ asked    = [c \in Clients |-> "nothing"]
  /\ got      = [c \in Clients |-> <<>>]

TypeOK ==
  /\ program \in {"webserver", "webserver2"}
  /\ stage \in [Clients -> Stage] /\ line \in [Clients -> Request \cup {NoLine, Headers}]
  /\ filename \in [Clients -> File]
  /\ saved \in Places /\ cursor \in [Clients -> Places]
  /\ want \in [Clients -> Request \cup {NoLine}]
  /\ asked \in [Clients -> Asked] /\ got \in [Clients -> Seq(Reply)]
  /\ up \in [Clients -> Seq(Request \cup {Headers})] /\ down \in [Clients -> Seq(Reply)]
  /\ peer \in [Clients -> PeerState] /\ held \in [Clients -> HeldState]
  /\ \A c \in Clients : held[c] = "open" <=> stage[c] \notin {"none", "done"}

-----------------------------------------------------------------------------
(* Descriptors: the connection, its dup(), the file.                       *)

DescriptorsOf(c) ==
  CASE held[c] # "open"      -> 0
    [] stage[c] = "start"    -> 1
    [] stage[c] = "copy"     -> 3
    [] stage[c] = "rest"     -> 3
    [] OTHER                 -> 2
FreeDescriptor ==
  FoldSet(LAMBDA c, sum : sum + DescriptorsOf(c), 0, Clients) < Descriptors

Goto(c, s) == stage' = [stage EXCEPT ![c] = s]

\* SIGPIPE ends the process with all its threads
Killed == ServerEnds /\ stage' = [c \in Clients |-> IF stage[c] = "none" THEN "none" ELSE "done"]

\* a write() of the stream's buffer, after which the thread is at s (or SIGPIPE
\* ends the process); it may have to wait for the browser first, see MayBlock
Send(c, reply, s) ==
  /\ IF Fatal(c)
       THEN Killed /\ UNCHANGED <<down, peer>>
       ELSE Write(c, reply) /\ Goto(c, s) /\ UNCHANGED <<up, held, backlog, listening>>
  /\ UNCHANGED <<line, filename, saved, cursor, program, clientvars>>

\* both fclose(): what the client has sent and nobody has read makes it a reset,
\* which may overtake what the client has not read yet
CloseBoth(c) ==
  /\ CloseServerEnd(c)
  /\ \/ UNCHANGED down
     \/ up[c] # <<>> /\ down' = [down EXCEPT ![c] = <<>>]
  /\ Goto(c, "done")
  /\ UNCHANGED <<peer, backlog, listening, line, filename, saved, cursor, program, clientvars>>

-----------------------------------------------------------------------------
(* main(): accept() and a thread for the connection.                       *)

AcceptConnection ==
  /\ listening /\ backlog # <<>> /\ FreeDescriptor
  /\ held' = [held EXCEPT ![Head(backlog)] = "open"]
  /\ backlog' = Tail(backlog)
  /\ Goto(Head(backlog), "start")
  /\ UNCHANGED <<up, down, peer, listening, line, filename, saved, cursor, program, clientvars>>

-----------------------------------------------------------------------------
(* clnt_connection().                                                      *)

\* fdopen() and fdopen(dup()); without a descriptor for dup() it gives up
OpenStreams(c) ==
  /\ stage[c] = "start"
  /\ \/ /\ FreeDescriptor /\ Goto(c, "line")
        /\ UNCHANGED <<netvars, line, filename, saved, cursor, program, clientvars>>
     \/ ~FreeDescriptor /\ CloseBoth(c)

\* fgets(): a line, or NULL
GetLine(c, s) ==
  /\ up[c] # <<>>
  /\ line' = [line EXCEPT ![c] = Head(up[c])]
  /\ up' = [up EXCEPT ![c] = Tail(@)]
  /\ Goto(c, s)
  /\ UNCHANGED <<down, peer, held, backlog, listening, filename, saved, cursor,
                 program, clientvars>>
NoMoreLines(c) == up[c] = <<>> /\ Readable(c)

RequestLine(c) == stage[c] = "line" /\ GetLine(c, "method")

\* (mutant: the streams are left open)
LeaveOpen(c) ==
  /\ stage[c] = "line" /\ NoMoreLines(c)
  /\ Goto(c, "done") /\ UNCHANGED <<netvars, line, filename, saved, cursor, program, clientvars>>
NoRequest(c) == stage[c] = "line" /\ NoMoreLines(c) /\ CloseBoth(c)

\* (mutant: webserver2.c uses strtok too)
AlwaysStrtok == TRUE
UsesStrtok   == program = "webserver"

\* (mutant: the rest of the request is not read)
SkipHeaders(c) == stage' = [stage EXCEPT ![c] = IF UsesStrtok THEN "file" ELSE "open"]
ToFilename(c)  == stage' = [stage EXCEPT ![c] = IF UsesStrtok THEN "file" ELSE "headers"]

\* the first strtok(), or sscanf(); then what depends on the method
Method(c) ==
  /\ stage[c] = "method" /\ line[c][1] = "GET"
  /\ saved' = IF UsesStrtok THEN <<c, "file">> ELSE saved
  /\ filename' = IF UsesStrtok THEN filename ELSE [filename EXCEPT ![c] = line[c][2]]
  /\ ToFilename(c)
  /\ UNCHANGED <<netvars, line, cursor, program, clientvars>>

\* sendOk() or sendError(), each with its fflush()
Refuse(c) ==
  /\ stage[c] = "method" /\ line[c][1] # "GET"
  /\ LET reply == IF line[c][1] = "POST" THEN "ok" ELSE "error"
     IN  IF Fatal(c)
           THEN Killed /\ UNCHANGED <<down, peer>>
           ELSE /\ Write(c, <<reply, "missing">>) /\ Goto(c, "end")
                /\ UNCHANGED <<up, held, backlog, listening>>
  /\ saved' = IF UsesStrtok THEN <<c, "file">> ELSE saved
  /\ UNCHANGED <<line, filename, cursor, program, clientvars>>

\* The second strtok() takes its place from saved: the file's name is there only
\* if no other thread has called strtok() in between and its reg_line still holds
\* the line; in the reg_line of a thread that has ended there may be anything.
Word(place) ==
  IF place[1] = Nobody \/ place[2] # "file" THEN {"missing"}
  ELSE IF stage[place[1]] = "done" THEN File
  ELSE {line[place[1]][2]}

Filename(c) ==
  /\ stage[c] = "file"
  /\ cursor' = [cursor EXCEPT ![c] = saved]
  /\ \E f \in Word(saved) : filename' = [filename EXCEPT ![c] = f]
  /\ Goto(c, "advance")
  /\ UNCHANGED <<netvars, line, saved, program, clientvars>>

\* and leaves there the place it has come to
Advance(c) ==
  /\ stage[c] = "advance"
  /\ saved' = <<cursor[c][1], IF cursor[c][2] = "file" THEN "version" ELSE "end">>
  /\ cursor' = [cursor EXCEPT ![c] = <<Nobody, "end">>]
  /\ Goto(c, "headers")
  /\ UNCHANGED <<netvars, line, filename, program, clientvars>>

RequestHeaders(c) == stage[c] = "headers" /\ GetLine(c, "open")
NoHeaders(c) ==
  /\ stage[c] = "headers" /\ NoMoreLines(c)
  /\ peer' = [peer EXCEPT ![c] = IF @ = "reset" THEN "dead" ELSE @]
  /\ Goto(c, "open")
  /\ UNCHANGED <<up, down, held, backlog, listening, line, filename, saved, cursor,
                 program, clientvars>>

-----------------------------------------------------------------------------
(* sendData(): the headers of a 200 reply are in the stream's buffer when  *)
(* the file is opened.                                                     *)

OpenFile(c) ==
  /\ stage[c] = "open" /\ filename[c] # "missing" /\ FreeDescriptor
  /\ Goto(c, "copy")
  /\ UNCHANGED <<netvars, line, filename, saved, cursor, program, clientvars>>

OpenFails(c) ==
  /\ stage[c] = "open"
  /\ filename[c] = "missing" \/ ~FreeDescriptor
  /\ Send(c, <<"error after 200", "missing">>, "end")

\* (mutant: the headers are flushed before the file is read)
TwoWrites(f) == f # "missing"
BufferFills(f) == f = "large"

Copy(c) ==
  /\ stage[c] = "copy"
  /\ IF BufferFills(filename[c])
       THEN Send(c, <<"first", filename[c]>>, "rest")
       ELSE Send(c, <<"whole", filename[c]>>, "end")

CopyRest(c) == stage[c] = "rest" /\ Send(c, <<"last", filename[c]>>, "end")

\* A write() waits while the socket's buffer is full.  One buffer of the stream
\* always fits, but the rest of a large file, here one write(), may be more than
\* fits behind what a browser that stays has not read; how much fits is the
\* kernel's choice, so that the write() may return and may wait.
MayBlock(c) == stage[c] = "rest" /\ down[c] # <<>> /\ peer[c] = "open"

End(c) == stage[c] = "end" /\ CloseBoth(c)

Thread(c) ==
  \/ OpenStreams(c) \/ RequestLine(c) \/ NoRequest(c) \/ Method(c) \/ Refuse(c)
  \/ Filename(c) \/ Advance(c) \/ RequestHeaders(c) \/ NoHeaders(c)
  \/ OpenFile(c) \/ OpenFails(c) \/ Copy(c) \/ CopyRest(c) \/ End(c)

-----------------------------------------------------------------------------
(* A browser: it connects, asks, reads until the server closes, or reads   *)
(* nothing, and may leave at any time, with a close() or with a reset.     *)

Connect(c) ==
  /\ peer[c] = "idle" /\ listening
  /\ Establish(c)
  /\ UNCHANGED <<up, down, held, listening, threadvars, program, clientvars>>

\* what arrives at a closed connection is answered by a reset
Ask(c, message, how) ==
  /\ SendUp(c, message)
  /\ \/ UNCHANGED down
     \/ held[c] = "closed" /\ down' = [down EXCEPT ![c] = <<>>]
  /\ asked' = [asked EXCEPT ![c] = how]
  /\ UNCHANGED <<peer, held, backlog, listening, threadvars, program, got>>

AskLine(c) ==
  /\ peer[c] = "open" /\ asked[c] = "nothing"
  /\ \E r \in Request : Ask(c, r, "line") /\ want' = [want EXCEPT ![c] = r]
AskHeaders(c) ==
  /\ peer[c] = "open" /\ asked[c] = "line"
  /\ Ask(c, Headers, "all") /\ UNCHANGED want

Take(c) ==
  /\ peer[c] = "open"
  /\ \E n \in 1..Len(down[c]) :
       TakeDown(c, n) /\ got' = [got EXCEPT ![c] = @ \o SubSeq(down[c], 1, n)]
  /\ UNCHANGED <<up, peer, held, backlog, listening, threadvars, program, want, asked>>

Leave(c) ==
  /\ peer[c] = "open"
  /\ CloseClientEnd(c)
  /\ asked' = [asked EXCEPT ![c] = "left"]
  /\ UNCHANGED <<up, held, backlog, listening, threadvars, program, want, got>>

\* an abortive close: a RST whatever was read, which the server's kernel reports
\* behind what came before it
Abort(c) ==
  /\ peer[c] = "open"
  /\ peer' = [peer EXCEPT ![c] = "reset"] /\ down' = [down EXCEPT ![c] = <<>>]
  /\ asked' = [asked EXCEPT ![c] = "aborted"]
  /\ UNCHANGED <<up, held, backlog, listening, threadvars, program, want, got>>

Browser(c) ==
  Connect(c) \/ AskLine(c) \/ AskHeaders(c) \/ Take(c) \/ Leave(c) \/ Abort(c)
Network(c) == RstArrives(c) /\ UNCHANGED <<threadvars, program, clientvars>>

Next == AcceptConnection \/ \E c \in Clients : Thread(c) \/ Browser(c) \/ Network(c)

\* the operating system runs main() and every thread that does not wait, in a
\* read() or in a write()
Spec == Init /\ [][Next]_vars
          /\ WF_vars(AcceptConnection)
          /\ \A c \in Clients : WF_vars(Thread(c) /\ ~MayBlock(c))

-----------------------------------------------------------------------------
(* What must hold.                                                         *)

Answer(c) == got[c] \o down[c]

\* Threads do not get into each other's requests: in webserver2.c no client is
\* sent (a part of) a file but the one it has asked for.  webserver.c, where a
\* second strtok() may go on in another thread's line (104-121), is excepted.
ServesWhatIsAsked ==
  program = "webserver2" =>
    \A c \in Clients : \A k \in 1..Len(Answer(c)) :
      Answer(c)[k][1] \in {"whole", "first", "last"} => want[c] = <<"GET", Answer(c)[k][2]>>

\* A GET that was sent to the end is answered to the end: no answer is cut off
\* (169-174 [161-166]) or lost because the server closed with something unread,
\* unless the whole process went down.
AnswerIsWhole ==
  \A c \in Clients :
    want[c][1] = "GET" /\ asked[c] = "all" /\ line[c] # NoLine
      /\ stage[c] = "done" /\ listening =>
      Answer(c) \in {<< <<"error after 200", "missing">> >>}
                      \cup {<< <<"whole", f>> >> : f \in File}
                      \cup {<< <<"first", f>>, <<"last", f>> >> : f \in File}

\* Whoever has sent its request or has gone, by a close() or a reset, gives the
\* thread and its descriptors back (91-100, 127-140 [90-99, 120-132]), though
\* descriptors may run out on the way.  There is no timeout, so that two browsers
\* can keep theirs: one that stays and says nothing, and one that asks for a large
\* file, stays and does not read it, if it never again reads nor leaves
\* (172-177 [164-169]).
HandledInTheEnd ==
  \A c \in Clients :
    held[c] = "open" /\ asked[c] \in {"all", "left", "aborted"}
      ~> (held[c] = "closed" \/ []MayBlock(c))

\* Nobody ignores SIGPIPE, so that a client can end the process for all others
\* (49: "while(1)").  There are two ways, and no third: to go while a large file is
\* sent, since any other answer is a single write() (177, 189, 210 [169, 181, 202]);
\* and to reset the connection behind the line of a GET, before the header lines
\* are read to their end, since fgets() then takes the error and nobody looks
\* (128 [121]), whatever the file.
TwoWaysToKill ==
  ~listening =>
    \E c \in Clients :
      \/ asked[c] \in {"left", "aborted"} /\ filename[c] = "large"
      \/ asked[c] = "aborted" /\ line[c][1] = "GET"
=============================================================================
