----------------------------- MODULE NamedPipe -----------------------------
(***************************************************************************)
(* src/0613/fifo_server.c and fifo_client.c: a server that makes a fifo,   *)
(* in place of whatever has its name, and reads until there is no writer;  *)
(* clients that copy their stdin into it.  The name outlives the server,   *)
(* and a server that starts while another one runs takes the name away.    *)
(***************************************************************************)
EXTENDS Naturals, Sequences

CONSTANTS
  Writers,       \* the processes that run fifo_client.c
  Readers,       \* bound: how often fifo_server.c is started
  MaxChunks      \* bound: how many reads of its stdin a client copies
ASSUME PipeAssumption == Readers \in Nat /\ MaxChunks \in Nat

VARIABLES
  reader,        \* reader[s]: where the s-th server is in main()
  writer,        \* writer[c]: where client c is in main()
  fifo,          \* the fifo that has the name, called after its maker; 0: none has
  reads,         \* reads[s]: the fifo that s has found under the name
  writes,        \* writes[c]: the fifo that c has found under the name
  copied,        \* copied[c]: how much of its stdin c has written
  pipe,          \* pipe[i]: what has been written into fifo i and not been read
  missed         \* missed[i]: the clients that opened fifo i behind a read that returned 0

pipevars == <<reader, writer, fifo, reads, writes, copied, pipe, missed>>

Fifo  == 1..Readers
Ended == {"done", "failed", "killed"}

PipeInit ==
  /\ reader = [s \in Fifo |-> "unlink"] /\ writer = [c \in Writers |-> "start"]
  /\ fifo = 0 /\ reads = [s \in Fifo |-> 0] /\ writes = [c \in Writers |-> 0]
  /\ copied = [c \in Writers |-> 0]
  /\ pipe = [i \in Fifo |-> <<>>] /\ missed = [i \in Fifo |-> {}]

PipeTypeOK ==
  /\ reader \in [Fifo -> {"unlink", "mkfifo", "open", "opening", "read", "close"} \cup Ended]
  /\ writer \in [Writers -> {"start", "opening", "copy", "broken"} \cup Ended]
  /\ fifo \in 0..Readers /\ reads \in [Fifo -> 0..Readers] /\ writes \in [Writers -> 0..Readers]
  /\ copied \in [Writers -> 0..MaxChunks]
  /\ pipe \in [Fifo -> Seq(Writers)]
  /\ missed \in [Fifo -> SUBSET Writers]

\* who has fifo i open, or waits in open() for it
HasReader(i) == \E s \in Fifo : reads[s] = i /\ reader[s] \in {"opening", "read", "close"}
HasWriter(i) == \E c \in Writers : writes[c] = i /\ writer[c] \in {"opening", "copy"}

-----------------------------------------------------------------------------
(* fifo_server.c                                                           *)

ReaderAt(s, from, to) == reader[s] = from /\ reader' = [reader EXCEPT ![s] = to]

UnlinkFifo(s) ==
  /\ ReaderAt(s, "unlink", "mkfifo") /\ \A r \in 1..(s - 1) : reader[r] # "unlink"
  /\ fifo' = 0
  /\ UNCHANGED <<writer, reads, writes, copied, pipe, missed>>
\* it fails if another server has made one since
MakeFifo(s) ==
  /\ ReaderAt(s, "mkfifo", IF fifo = 0 THEN "open" ELSE "failed")
  /\ fifo' = IF fifo = 0 THEN s ELSE fifo
  /\ UNCHANGED <<writer, reads, writes, copied, pipe, missed>>

\* open() of whatever has the name now: it waits for a writer, and lets those go on
\* that wait for a reader
OpenToRead(s) ==
  /\ ReaderAt(s, "open", IF fifo = 0 THEN "failed"
                         ELSE IF HasWriter(fifo) THEN "read" ELSE "opening")
  /\ reads' = [reads EXCEPT ![s] = fifo]
  /\ writer' = [c \in Writers |->
       IF writer[c] = "opening" /\ writes[c] = fifo THEN "copy" ELSE writer[c]]
  /\ UNCHANGED <<fifo, writes, copied, pipe, missed>>

ReadPipe(s) ==
  /\ ReaderAt(s, "read", "read") /\ pipe[reads[s]] # <<>>
  /\ pipe' = [pipe EXCEPT ![reads[s]] = <<>>]
  /\ UNCHANGED <<writer, fifo, reads, writes, copied, missed>>
\* (mutant: the server takes an empty pipe for the end)
Drained(i)   == pipe[i] = <<>>
EndOfPipe(i) == pipe[i] = <<>> /\ ~HasWriter(i)
ReadZero(s) ==
  /\ ReaderAt(s, "read", "close") /\ EndOfPipe(reads[s])
  /\ UNCHANGED <<writer, fifo, reads, writes, copied, pipe, missed>>
\* close() and the end; the name stays
CloseReader(s) ==
  /\ ReaderAt(s, "close", "done")
  /\ UNCHANGED <<writer, fifo, reads, writes, copied, pipe, missed>>

KillReader(s) ==
  /\ reader[s] \in {"opening", "read"} /\ reader' = [reader EXCEPT ![s] = "killed"]
  /\ UNCHANGED <<writer, fifo, reads, writes, copied, pipe, missed>>

-----------------------------------------------------------------------------
(* fifo_client.c                                                           *)

WriterAt(c, from, to) == writer[c] = from /\ writer' = [writer EXCEPT ![c] = to]

\* open(): the other way round
OpenToWrite(c) ==
  /\ WriterAt(c, "start", IF fifo = 0 THEN "failed"
                          ELSE IF HasReader(fifo) THEN "copy" ELSE "opening")
  /\ writes' = [writes EXCEPT ![c] = fifo]
  /\ reader' = [s \in Fifo |->
       IF reader[s] = "opening" /\ reads[s] = fifo THEN "read" ELSE reader[s]]
  /\ missed' = [i \in Fifo |->
       IF i = fifo /\ \E s \in Fifo : reads[s] = i /\ reader[s] = "close"
         THEN missed[i] \cup {c} ELSE missed[i]]
  /\ UNCHANGED <<fifo, reads, copied, pipe>>

\* read() of stdin and write(), which nobody tests; SIGPIPE when there is no reader
CopyChunk(c) ==
  /\ copied[c] < MaxChunks
  /\ WriterAt(c, "copy", IF HasReader(writes[c]) THEN "copy" ELSE "broken")
  /\ copied' = [copied EXCEPT ![c] = @ + 1]
  /\ pipe' = IF HasReader(writes[c]) THEN [pipe EXCEPT ![writes[c]] = Append(@, c)] ELSE pipe
  /\ UNCHANGED <<reader, fifo, reads, writes, missed>>
EndOfCopy(c) ==
  /\ WriterAt(c, "copy", "done")
  /\ UNCHANGED <<reader, fifo, reads, writes, copied, pipe, missed>>

KillWriter(c) ==
  /\ writer[c] \in {"opening", "copy"} /\ writer' = [writer EXCEPT ![c] = "killed"]
  /\ UNCHANGED <<reader, fifo, reads, writes, copied, pipe, missed>>

-----------------------------------------------------------------------------
ReaderStep(s) == MakeFifo(s) \/ OpenToRead(s) \/ ReadPipe(s) \/ ReadZero(s) \/ CloseReader(s)

PipeNext ==
  \/ \E s \in Fifo : UnlinkFifo(s) \/ ReaderStep(s) \/ KillReader(s)
  \/ \E c \in Writers : OpenToWrite(c) \/ CopyChunk(c) \/ EndOfCopy(c) \/ KillWriter(c)

\* the operating system runs the servers; nobody has to start or type
PipeFairness == \A s \in Fifo : WF_pipevars(ReaderStep(s))

PipeSpec == PipeInit /\ [][PipeNext]_pipevars /\ PipeFairness

-----------------------------------------------------------------------------
(* What must hold.                                                         *)

\* A server ends only when every client that had its fifo open has closed it
\* (fifo_server.c:25): unless a server of that fifo is killed, the clients that get
\* SIGPIPE (fifo_client.c:18), and those whose data nobody reads, are among those
\* that opened it between its last read() and its close().
LostOnlyIfMissed ==
  \A i \in Fifo :
    LET of == {s \in Fifo : reads[s] = i}
    IN  (\A s \in of : reader[s] # "killed") =>
          /\ \A c \in Writers : writer[c] = "broken" /\ writes[c] = i => c \in missed[i]
          /\ (\E s \in of : reader[s] = "done") /\ ~HasReader(i) =>
               \A k \in 1..Len(pipe[i]) : pipe[i][k] \in missed[i]

\* A client that waits in open() (fifo_client.c:12) gets on, unless the server that
\* made its fifo is over, whose name then stays, or the name has been taken away.
OpenWaits(c)  == writer[c] = "opening"
OpenServed(c) == writer[c] # "opening" \/ reader[writes[c]] \in Ended \/ fifo # writes[c]
OpenReturns   == \A c \in Writers : OpenWaits(c) ~> OpenServed(c)
=============================================================================
