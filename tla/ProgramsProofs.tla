--------------------------- MODULE ProgramsProofs ---------------------------
(***************************************************************************)
(* Proofs about the programs that share no network: what the fifo may      *)
(* lose, that cnt follows the semaphore of sem.c, what the server of the   *)
(* message queue has printed when it stops, that the sensor console prints *)
(* what a sensor measured, that parent and child of shm_sem.c keep in step *)
(* and leave nothing behind, that the named semaphore loses no permit,     *)
(* that listDir() goes through its tree, and that whoever waits has        *)
(* somebody to wait for: for any number of processes, launches, lines and  *)
(* signals, and any values, calibrations and trees.                        *)
(***************************************************************************)
EXTENDS MCPrograms, NetworkProofs, SequenceTheorems, FiniteSetTheorems, WellFoundedInduction, TLAPS

-----------------------------------------------------------------------------
(* The fifo.                                                               *)

InPipeMissed(i) == \A k \in 1..Len(pipe[i]) : pipe[i][k] \in missed[i]

\* Between a server's last read() and its close() all that have its fifo open have
\* opened it since, and only they have written
ClosingInv ==
  \A s, i \in Fifo : reader[s] = "close" /\ reads[s] = i =>
    /\ \A c \in Writers : writes[c] = i /\ writer[c] \in {"opening", "copy"} => c \in missed[i]
    /\ InPipeMissed(i)

NoneKilled(i) == \A s \in Fifo : reads[s] = i => reader[s] # "killed"

\* The same holds of a fifo that nobody reads any more
AbandonedInv ==
  \A i \in Fifo : ~HasReader(i) /\ NoneKilled(i) =>
    /\ \A c \in Writers : writes[c] = i /\ writer[c] \in {"copy", "broken"} => c \in missed[i]
    /\ (\E s \in Fifo : reads[s] = i /\ reader[s] = "done") => InPipeMissed(i)

\* Who got SIGPIPE stays among those that came too late
BrokenInv ==
  \A i \in Fifo : NoneKilled(i) =>
    \A c \in Writers : writes[c] = i /\ writer[c] = "broken" => c \in missed[i]

PipeInv == PipeTypeOK /\ ClosingInv /\ AbandonedInv /\ BrokenInv

\* What is in a sequence when one more element has come
LEMMA Append_Elements ==
  ASSUME NEW S, NEW q \in Seq(S), NEW x \in S
  PROVE  /\ Append(q, x) \in Seq(S)
         /\ \A k \in 1..Len(Append(q, x)) :
              Append(q, x)[k] = x \/ (k \in 1..Len(q) /\ Append(q, x)[k] = q[k])
<1>1. Append(q, x) \in Seq(S) /\ Len(Append(q, x)) = Len(q) + 1 /\ Len(q) \in Nat
  BY AppendProperties, LenProperties
<1>2. ASSUME NEW k \in 1..Len(Append(q, x))
      PROVE  Append(q, x)[k] = x \/ (k \in 1..Len(q) /\ Append(q, x)[k] = q[k])
  <2>1. k = Len(q) + 1 \/ k \in 1..Len(q)
    BY <1>1
  <2> QED BY <2>1, AppendProperties
<1> QED BY <1>1, <1>2

LEMMA Pipe_Init == PipeInit => PipeInv
  BY PipeAssumption DEF PipeInit, PipeInv, PipeTypeOK, ClosingInv, AbandonedInv, BrokenInv,
       InPipeMissed, Fifo, Ended

LEMMA Pipe_Lost == PipeInv => LostOnlyIfMissed
  BY DEF PipeInv, AbandonedInv, BrokenInv, NoneKilled, LostOnlyIfMissed, InPipeMissed

LEMMA Pipe_Type == PipeTypeOK /\ [PipeNext]_pipevars => PipeTypeOK'
<1> SUFFICES ASSUME PipeTypeOK, [PipeNext]_pipevars PROVE PipeTypeOK'
  OBVIOUS
<1> USE PipeAssumption
<1>1. CASE \E s \in Fifo : UnlinkFifo(s) \/ ReaderStep(s) \/ KillReader(s)
  <2> PICK s \in Fifo : UnlinkFifo(s) \/ ReaderStep(s) \/ KillReader(s)
    BY <1>1
  <2>1. CASE UnlinkFifo(s)
    BY <2>1 DEF PipeTypeOK, UnlinkFifo, ReaderAt, Fifo, Ended
  <2>2. CASE MakeFifo(s)
    BY <2>2 DEF PipeTypeOK, MakeFifo, ReaderAt, Fifo, Ended
  <2>3. CASE OpenToRead(s)
    BY <2>3 DEF PipeTypeOK, OpenToRead, ReaderAt, Fifo, Ended
  <2>4. CASE ReadPipe(s)
    <3>1. pipe' \in [Fifo -> Seq(Writers)]
      BY <2>4, EmptySeq DEF PipeTypeOK, ReadPipe
    <3> QED BY <2>4, <3>1 DEF PipeTypeOK, ReadPipe, ReaderAt, Fifo, Ended
  <2>5. CASE ReadZero(s) \/ CloseReader(s) \/ KillReader(s)
    BY <2>5 DEF PipeTypeOK, ReadZero, CloseReader, KillReader, ReaderAt, Fifo, Ended
  <2> QED BY <2>1, <2>2, <2>3, <2>4, <2>5 DEF ReaderStep
<1>2. CASE \E c \in Writers : OpenToWrite(c) \/ CopyChunk(c) \/ EndOfCopy(c) \/ KillWriter(c)
  <2> PICK c \in Writers : OpenToWrite(c) \/ CopyChunk(c) \/ EndOfCopy(c) \/ KillWriter(c)
    BY <1>2
  <2>1. CASE OpenToWrite(c)
    BY <2>1 DEF PipeTypeOK, OpenToWrite, WriterAt, Fifo, Ended
  <2>2. CASE CopyChunk(c)
    <3>1. pipe' \in [Fifo -> Seq(Writers)]
      BY <2>2, Append_Elements DEF PipeTypeOK, CopyChunk
    <3>2. UNCHANGED <<reader, fifo, reads, writes, missed>>
      BY <2>2 DEF CopyChunk
    <3>3. writer' \in [Writers -> {"start", "opening", "copy", "broken"} \cup Ended]
      BY <2>2 DEF PipeTypeOK, CopyChunk, WriterAt
    <3>4. copied' \in [Writers -> 0..MaxChunks]
      BY <2>2 DEF PipeTypeOK, CopyChunk
    <3> QED BY <3>1, <3>2, <3>3, <3>4 DEF PipeTypeOK
  <2>3. CASE EndOfCopy(c) \/ KillWriter(c)
    BY <2>3 DEF PipeTypeOK, EndOfCopy, KillWriter, WriterAt, Fifo, Ended
  <2> QED BY <2>1, <2>2, <2>3
<1>3. CASE UNCHANGED pipevars
  BY <1>3 DEF PipeTypeOK, pipevars
<1> QED BY <1>1, <1>2, <1>3 DEF PipeNext

\* Where a server stands, as far as the invariant tells its places apart
Place == {"opening", "read", "close", "done", "killed"}

\* A step that only brings servers up to open()
LEMMA Pipe_Names ==
  ASSUME PipeInv, NEW s \in Fifo, UnlinkFifo(s) \/ MakeFifo(s)
  PROVE  ClosingInv' /\ AbandonedInv' /\ BrokenInv'
<1>1. UNCHANGED <<writer, writes, reads, pipe, missed>>
  BY DEF UnlinkFifo, MakeFifo
<1>2. \A r \in Fifo, p \in Place : reader'[r] = p <=> reader[r] = p
  BY DEF PipeInv, PipeTypeOK, UnlinkFifo, MakeFifo, ReaderAt, Place
<1>3. \A i \in Fifo : (HasReader(i)' <=> HasReader(i)) /\ (NoneKilled(i)' <=> NoneKilled(i))
  BY <1>1, <1>2 DEF HasReader, NoneKilled, Place
<1>4. ClosingInv'
  BY <1>1, <1>2 DEF PipeInv, ClosingInv, InPipeMissed, Place
<1>5. AbandonedInv'
  BY <1>1, <1>2, <1>3 DEF PipeInv, AbandonedInv, InPipeMissed, Place
<1>6. BrokenInv'
  BY <1>1, <1>3 DEF PipeInv, BrokenInv
<1> QED BY <1>4, <1>5, <1>6

\* open() for reading lets writers go on, of a fifo that has a reader from then on
LEMMA Pipe_OpenToRead ==
  ASSUME PipeInv, NEW s \in Fifo, OpenToRead(s)
  PROVE  ClosingInv' /\ AbandonedInv' /\ BrokenInv'
<1>1. UNCHANGED <<writes, pipe, missed>>
  BY DEF OpenToRead
<1>2. \A r \in Fifo : r # s => reader'[r] = reader[r] /\ reads'[r] = reads[r]
  BY DEF PipeInv, PipeTypeOK, OpenToRead, ReaderAt
<1>3. /\ reader[s] = "open" /\ reads'[s] = fifo
      /\ reader'[s] \in {"failed", "read", "opening"} /\ (fifo # 0 => reader'[s] # "failed")
  BY DEF PipeInv, PipeTypeOK, OpenToRead, ReaderAt
<1>4. \A c \in Writers : \/ writer'[c] = writer[c]
                         \/ writer[c] = "opening" /\ writes[c] = fifo /\ writer'[c] = "copy"
  BY DEF OpenToRead
<1>5. \A i \in Fifo : /\ HasReader(i) => HasReader(i)'
                      /\ NoneKilled(i)' => NoneKilled(i)
                      /\ i = fifo => HasReader(i)'
  BY <1>2, <1>3 DEF HasReader, NoneKilled, Fifo
<1>6. ClosingInv'
  BY <1>1, <1>2, <1>3, <1>4 DEF PipeInv, ClosingInv, InPipeMissed
<1>7. AbandonedInv'
  BY <1>1, <1>2, <1>3, <1>4, <1>5 DEF PipeInv, AbandonedInv, InPipeMissed
<1>8. BrokenInv'
  BY <1>1, <1>4, <1>5 DEF PipeInv, BrokenInv
<1> QED BY <1>6, <1>7, <1>8

\* read() empties a fifo, or finds that nobody has it open
LEMMA Pipe_Read ==
  ASSUME PipeInv, NEW s \in Fifo, ReadPipe(s) \/ ReadZero(s)
  PROVE  ClosingInv' /\ AbandonedInv' /\ BrokenInv'
<1>1. UNCHANGED <<writer, writes, reads, missed>>
  BY DEF ReadPipe, ReadZero
<1>2. /\ reader[s] = "read" /\ reader'[s] \in {"read", "close"}
      /\ \A r \in Fifo : r # s => reader'[r] = reader[r]
  BY DEF PipeInv, PipeTypeOK, ReadPipe, ReadZero, ReaderAt
<1>3. reader'[s] = "close" => pipe[reads[s]] = <<>> /\ ~HasWriter(reads[s])
  BY DEF PipeInv, PipeTypeOK, ReadPipe, ReadZero, ReaderAt, EndOfPipe
<1>4. \A i \in Fifo : pipe'[i] = pipe[i] \/ pipe'[i] = <<>>
  BY DEF PipeInv, PipeTypeOK, ReadPipe, ReadZero
<1>5. \A i \in Fifo : InPipeMissed(i) => InPipeMissed(i)'
  BY <1>1, <1>4 DEF InPipeMissed
<1>6. \A i \in Fifo : (HasReader(i)' <=> HasReader(i)) /\ (NoneKilled(i)' <=> NoneKilled(i))
  BY <1>1, <1>2 DEF HasReader, NoneKilled
<1>7. ClosingInv'
  <2> SUFFICES ASSUME NEW r \in Fifo, NEW i \in Fifo, reader'[r] = "close", reads[r] = i
               PROVE  /\ \A c \in Writers :
                           writes[c] = i /\ writer[c] \in {"opening", "copy"} => c \in missed[i]
                      /\ InPipeMissed(i)'
    BY <1>1 DEF ClosingInv
  <2>1. CASE r # s
    BY <2>1, <1>2, <1>5 DEF PipeInv, ClosingInv
  <2>2. CASE r = s
    BY <2>2, <1>3, <1>5 DEF HasWriter, InPipeMissed
  <2> QED BY <2>1, <2>2
<1>8. AbandonedInv'
  BY <1>1, <1>2, <1>5, <1>6 DEF PipeInv, AbandonedInv
<1>9. BrokenInv'
  BY <1>1, <1>6 DEF PipeInv, BrokenInv
<1> QED BY <1>7, <1>8, <1>9

\* A server's close() leaves what ClosingInv says of its fifo; of the fifo of a
\* killed one nothing is said
LEMMA Pipe_Close ==
  ASSUME PipeInv, NEW s \in Fifo, CloseReader(s) \/ KillReader(s)
  PROVE  ClosingInv' /\ AbandonedInv' /\ BrokenInv'
<1>1. UNCHANGED <<writer, writes, reads, pipe, missed>>
  BY DEF CloseReader, KillReader
<1>2. /\ \/ reader[s] = "close" /\ reader'[s] = "done"
         \/ reader[s] \in {"opening", "read"} /\ reader'[s] = "killed"
      /\ \A r \in Fifo : r # s => reader'[r] = reader[r]
  BY DEF PipeInv, PipeTypeOK, CloseReader, KillReader, ReaderAt
<1>3. \A i \in Fifo : NoneKilled(i)' => NoneKilled(i)
  BY <1>1, <1>2 DEF NoneKilled
<1>4. \A i \in Fifo : i # reads[s] => (HasReader(i)' <=> HasReader(i))
  BY <1>1, <1>2 DEF HasReader
<1>5. ClosingInv'
  BY <1>1, <1>2 DEF PipeInv, ClosingInv, InPipeMissed
<1>6. AbandonedInv'
  <2> SUFFICES ASSUME NEW i \in Fifo, ~HasReader(i)', NoneKilled(i)'
               PROVE  /\ \A c \in Writers :
                           writes[c] = i /\ writer[c] \in {"copy", "broken"} => c \in missed[i]
                      /\ (\E r \in Fifo : reads[r] = i /\ reader'[r] = "done") => InPipeMissed(i)
    BY <1>1 DEF AbandonedInv, InPipeMissed
  <2>1. CASE i # reads[s]
    BY <2>1, <1>1, <1>2, <1>3, <1>4 DEF PipeInv, AbandonedInv
  <2>2. CASE i = reads[s]
    <3>1. reader[s] = "close"
      BY <2>2, <1>1, <1>2 DEF NoneKilled
    <3>2. \A c \in Writers : writes[c] = i /\ writer[c] = "broken" => c \in missed[i]
      BY <1>3 DEF PipeInv, BrokenInv
    <3> QED BY <2>2, <3>1, <3>2 DEF PipeInv, ClosingInv
  <2> QED BY <2>1, <2>2
<1>7. BrokenInv'
  BY <1>1, <1>3 DEF PipeInv, BrokenInv
<1> QED BY <1>5, <1>6, <1>7

\* open() for writing: who comes to a fifo that a server is about to close is missed
LEMMA Pipe_OpenToWrite ==
  ASSUME PipeInv, NEW c \in Writers, OpenToWrite(c)
  PROVE  ClosingInv' /\ AbandonedInv' /\ BrokenInv'
<1>1. UNCHANGED <<reads, pipe, fifo>>
  BY DEF OpenToWrite
<1>2. /\ writer[c] = "start" /\ writes'[c] = fifo
      /\ writer'[c] \in {"failed", "copy", "opening"}
      /\ writer'[c] = "copy" => HasReader(fifo)
      /\ \A d \in Writers : d # c => writer'[d] = writer[d] /\ writes'[d] = writes[d]
  BY DEF PipeInv, PipeTypeOK, OpenToWrite, WriterAt
<1>3. \A r \in Fifo : \/ reader'[r] = reader[r]
                      \/ reader[r] = "opening" /\ reader'[r] = "read"
  BY DEF OpenToWrite
<1>4. \A i \in Fifo : /\ missed[i] \subseteq missed'[i]
                      /\ (i = fifo /\ \E r \in Fifo : reads[r] = i /\ reader[r] = "close") => c \in missed'[i]
  BY DEF OpenToWrite
<1>5. \A i \in Fifo : (HasReader(i)' <=> HasReader(i)) /\ (NoneKilled(i)' <=> NoneKilled(i))
  BY <1>1, <1>3 DEF HasReader, NoneKilled
<1>6. \A i \in Fifo : InPipeMissed(i) => InPipeMissed(i)'
  BY <1>1, <1>4 DEF InPipeMissed
<1>7. ClosingInv'
  BY <1>1, <1>2, <1>3, <1>4, <1>6 DEF PipeInv, ClosingInv
<1>8. AbandonedInv'
  BY <1>1, <1>2, <1>3, <1>4, <1>5, <1>6 DEF PipeInv, AbandonedInv
<1>9. BrokenInv'
  BY <1>2, <1>4, <1>5 DEF PipeInv, BrokenInv
<1> QED BY <1>7, <1>8, <1>9

\* write(): into a fifo that has a reader, or SIGPIPE
LEMMA Pipe_Copy ==
  ASSUME PipeInv, NEW c \in Writers, CopyChunk(c) \/ EndOfCopy(c) \/ KillWriter(c)
  PROVE  ClosingInv' /\ AbandonedInv' /\ BrokenInv'
<1>1. UNCHANGED <<reader, reads, writes, missed>>
  BY DEF CopyChunk, EndOfCopy, KillWriter
<1>2. /\ writer'[c] \in {"opening", "copy"} => writer[c] = "copy"
      /\ writer'[c] = "broken" => writer[c] = "copy" /\ ~HasReader(writes[c])
      /\ \A d \in Writers : d # c => writer'[d] = writer[d]
  BY DEF PipeInv, PipeTypeOK, CopyChunk, EndOfCopy, KillWriter, WriterAt
<1>3. \A i \in Fifo : \/ pipe'[i] = pipe[i]
                      \/ /\ writer[c] = "copy" /\ writes[c] = i /\ HasReader(i)
                         /\ pipe'[i] = Append(pipe[i], c)
  <2>1. CASE CopyChunk(c)
    BY <2>1 DEF PipeInv, PipeTypeOK, CopyChunk, WriterAt
  <2>2. CASE EndOfCopy(c) \/ KillWriter(c)
    BY <2>2 DEF EndOfCopy, KillWriter
  <2> QED BY <2>1, <2>2
<1>4. \A i \in Fifo : InPipeMissed(i) /\ (writes[c] = i /\ writer[c] = "copy" => c \in missed[i]) => InPipeMissed(i)'
  <2> SUFFICES ASSUME NEW i \in Fifo, InPipeMissed(i),
                      writes[c] = i /\ writer[c] = "copy" => c \in missed[i]
               PROVE  InPipeMissed(i)'
    OBVIOUS
  <2>1. pipe[i] \in Seq(Writers)
    BY DEF PipeInv, PipeTypeOK
  <2>2. CASE pipe'[i] = pipe[i]
    BY <2>2, <1>1 DEF InPipeMissed
  <2>3. CASE pipe'[i] = Append(pipe[i], c) /\ c \in missed[i]
    BY <2>1, <2>3, <1>1, Append_Elements DEF InPipeMissed
  <2> QED BY <1>3, <2>2, <2>3
<1>5. \A i \in Fifo : (HasReader(i)' <=> HasReader(i)) /\ (NoneKilled(i)' <=> NoneKilled(i))
  BY <1>1 DEF HasReader, NoneKilled
<1>6. ClosingInv'
  BY <1>1, <1>2, <1>4 DEF PipeInv, ClosingInv
<1>7. AbandonedInv'
  BY <1>1, <1>2, <1>4, <1>5 DEF PipeInv, AbandonedInv
<1>8. BrokenInv'
  BY <1>1, <1>2, <1>5 DEF PipeInv, AbandonedInv, BrokenInv
<1> QED BY <1>6, <1>7, <1>8

LEMMA Pipe_Next == PipeInv /\ [PipeNext]_pipevars => PipeInv'
<1> SUFFICES ASSUME PipeInv, [PipeNext]_pipevars PROVE ClosingInv' /\ AbandonedInv' /\ BrokenInv'
  BY Pipe_Type DEF PipeInv
<1>1. CASE UNCHANGED pipevars
  BY <1>1 DEF PipeInv, ClosingInv, AbandonedInv, BrokenInv, InPipeMissed, NoneKilled, HasReader, pipevars
<1>2. CASE PipeNext
  BY <1>2, Pipe_Names, Pipe_OpenToRead, Pipe_Read, Pipe_Close, Pipe_OpenToWrite, Pipe_Copy
     DEF PipeNext, ReaderStep
<1> QED BY <1>1, <1>2

\* What is written into a fifo is lost, and SIGPIPE raised, only for clients that came
\* between a server's last read() and its close(), with any number of servers and
\* clients: fifo_server.c:25, fifo_client.c:18.
THEOREM PipeLosesOnlyMissed == PipeSpec => []LostOnlyIfMissed
<1> QED BY Pipe_Init, Pipe_Next, Pipe_Lost, PTL DEF PipeSpec

-----------------------------------------------------------------------------
(* The semaphore of sem.c.                                                 *)

\* What a call has done to the semaphore and not yet to cnt
OwedBy(call) == IF call.at \in {"load", "store"} THEN (IF call.op = "p" THEN 1 ELSE -1) ELSE 0
Owed(k)      == IF k \in 1..Len(calls) THEN OwedBy(calls[k]) ELSE 0
\* main(), and the two handlers: no more than three calls are active
Debt         == Owed(1) + Owed(2) + Owed(3)

\* Each caller has one active call at most: a handler does not interrupt itself
Distinct == \A j, k \in 1..Len(calls) : calls[j].by = calls[k].by => j = k
\* Nobody has come between the load and the store of a call
StoreOnTop ==
  ~torn => \A k \in 1..Len(calls) :
             calls[k].at = "store" => k = Len(calls) /\ calls[k].register = cnt
BeforeSetval == ~torn /\ main \in {"semget", "setval"} => calls = <<>> /\ cnt = 0
Balance      == ~torn /\ main \in {"p", "loop"} => Value - semval = cnt + Debt

SignalInv == SignalTypeOK /\ Distinct /\ StoreOnTop /\ BeforeSetval /\ Balance

LEMMA Signal_Init == SignalInit => SignalInv
<1> SUFFICES ASSUME SignalInit PROVE SignalInv
  OBVIOUS
<1>1. calls \in Seq(Call) /\ Len(calls) = 0
  BY EmptySeq DEF SignalInit
<1>2. SignalTypeOK
  <2>1. Len(calls) <= 3
    BY <1>1
  <2>2. /\ main = "semget" /\ semval \in Int /\ cnt \in Int /\ pending \subseteq Signal
        /\ signals \in 0..MaxSignals /\ torn = FALSE
    BY SemaphoreAssumption DEF SignalInit, NoSet
  <2> QED BY <1>1, <2>1, <2>2 DEF SignalTypeOK
<1>3. Distinct /\ StoreOnTop
  BY <1>1 DEF Distinct, StoreOnTop
<1>4. BeforeSetval /\ Balance
  BY DEF SignalInit, BeforeSetval, Balance
<1> QED BY <1>2, <1>3, <1>4 DEF SignalInv

LEMMA Signal_Count == SignalInv => CountIsValue
<1> SUFFICES ASSUME SignalInv, main = "loop", calls = <<>>, ~torn PROVE cnt = Value - semval
  BY DEF CountIsValue
<1>1. Debt = 0
  BY DEF Debt, Owed
<1> QED BY <1>1, SemaphoreAssumption DEF SignalInv, SignalTypeOK, Balance

\* (the SMT solver does not see this of a Len())
LEMMA UpToThree == \A n \in Nat : (n <= 3 <=> n \in 0..3) /\ (n \in 0..3 /\ n # 0 <=> n \in 1..3)
  OBVIOUS

LEMMA Signal_Stack ==
  ASSUME SignalTypeOK
  PROVE  /\ calls \in Seq(Call) /\ Len(calls) \in 0..3 /\ Debt \in Int
         /\ \A k \in 1..Len(calls) : calls[k] \in Call /\ OwedBy(calls[k]) \in Int
         /\ calls # <<>> => Len(calls) \in 1..3 /\ Top \in Call
<1>1. calls \in Seq(Call) /\ Len(calls) \in 0..3
  <2>1. calls \in Seq(Call) /\ Len(calls) <= 3
    BY DEF SignalTypeOK
  <2>2. Len(calls) \in Nat
    BY <2>1, LenProperties
  <2> QED BY <2>1, <2>2, UpToThree
<1>2. \A k \in 1..Len(calls) : calls[k] \in Call /\ OwedBy(calls[k]) \in Int
  BY <1>1, ElementOfSeq DEF OwedBy
<1>3. calls # <<>> => Len(calls) \in 1..3 /\ Top \in Call
  BY <1>1, <1>2, EmptySeq DEF Top
<1>4. Debt \in Int
  BY <1>2 DEF Debt, Owed
<1> QED BY <1>1, <1>2, <1>3, <1>4

\* The innermost call returns
LEMMA Signal_Pop ==
  ASSUME SignalInv, calls # <<>>, Return
  PROVE  /\ calls' \in Seq(Call) /\ Len(calls') = Len(calls) - 1
         /\ \A k \in 1..Len(calls') : calls'[k] = calls[k]
         /\ Distinct' /\ Debt' = Debt - OwedBy(Top)
<1>1. /\ calls \in Seq(Call) /\ Len(calls) \in 1..3 /\ Debt \in Int
      /\ \A k \in 1..Len(calls) : calls[k] \in Call /\ OwedBy(calls[k]) \in Int
  BY Signal_Stack DEF SignalInv
<1>2. /\ calls' \in Seq(Call) /\ Len(calls') = Len(calls) - 1
      /\ \A k \in 1..Len(calls') : calls'[k] = calls[k]
  <2>1. 1 \in Int /\ Len(calls) - 1 \in Int /\ \A k \in 1..(Len(calls) - 1) : calls[k] \in Call
    BY <1>1
  <2>2. calls' = SubSeq(calls, 1, Len(calls) - 1)
    BY DEF Return
  <2> DEFINE n == Len(calls)
  <2>3. /\ calls' \in Seq(Call)
        /\ Len(calls') = IF 1 <= n - 1 THEN (n - 1) - 1 + 1 ELSE 0
        /\ \A k \in 1..((n - 1) - 1 + 1) : calls'[k] = calls[1 + k - 1]
    BY <2>1, <2>2, SubSeqProperties
  <2>4. n \in 1..3
    BY <1>1
  <2> HIDE DEF n
  <2>5. (IF 1 <= n - 1 THEN (n - 1) - 1 + 1 ELSE 0) = n - 1 /\ (n - 1) - 1 + 1 = n - 1
    BY <2>4
  <2>6. \A k \in 1..(n - 1) : 1 + k - 1 = k
    BY <2>4
  <2>7. Len(calls') = n - 1 /\ \A k \in 1..(n - 1) : calls'[k] = calls[k]
    BY <2>3, <2>5, <2>6
  <2> QED BY <2>3, <2>7 DEF n
<1>3. Distinct'
  <2>1. \A j, k \in 1..Len(calls) : calls[j].by = calls[k].by => j = k
    BY DEF SignalInv, Distinct
  <2>2. \A k \in 1..Len(calls') : k \in 1..Len(calls)
    <3> DEFINE n == Len(calls)
               m == Len(calls')
    <3>1. n \in 1..3 /\ m = n - 1
      BY <1>1, <1>2
    <3> HIDE DEF n, m
    <3>2. \A k \in 1..m : k \in 1..n
      BY <3>1
    <3> QED BY <3>2 DEF n, m
  <2>3. \A j, k \in 1..Len(calls') : calls'[j].by = calls'[k].by => j = k
    BY <1>2, <2>1, <2>2
  <2> QED BY <2>3 DEF Distinct
<1>4. Debt' = Debt - OwedBy(Top)
  <2> DEFINE n == Len(calls)
  <2>1. \A k \in 1..3 : Owed(k)' = IF k = n THEN 0 ELSE Owed(k)
    BY <1>1, <1>2 DEF Owed
  <2>2. Owed(n) = OwedBy(Top)
    BY <1>1 DEF Owed, Top
  <2>3. \A k \in 1..3 : Owed(k) \in Int
    BY <1>1 DEF Owed
  <2>4. n \in {1, 2, 3}
    BY <1>1
  <2> HIDE DEF n
  <2>5. Owed(1) \in Int /\ Owed(2) \in Int /\ Owed(3) \in Int
    BY <1>1, <2>3
  <2>6. CASE n = 1
    <3>1. Owed(1)' = 0 /\ Owed(2)' = Owed(2) /\ Owed(3)' = Owed(3)
      BY <2>1, <2>6
    <3> QED BY <2>2, <2>5, <2>6, <3>1 DEF Debt
  <2>7. CASE n = 2
    <3>1. Owed(1)' = Owed(1) /\ Owed(2)' = 0 /\ Owed(3)' = Owed(3)
      BY <2>1, <2>7
    <3> QED BY <2>2, <2>5, <2>7, <3>1 DEF Debt
  <2>8. CASE n = 3
    <3>1. Owed(1)' = Owed(1) /\ Owed(2)' = Owed(2) /\ Owed(3)' = 0
      BY <2>1, <2>8
    <3> QED BY <2>2, <2>5, <2>8, <3>1 DEF Debt
  <2> QED BY <2>4, <2>6, <2>7, <2>8
<1> QED BY <1>2, <1>3, <1>4

\* The innermost call gets to another instruction
LEMMA Signal_Top ==
  ASSUME SignalInv, calls # <<>>, NEW e \in Call, e.by = Top.by,
         calls' = [calls EXCEPT ![Len(calls)] = e]
  PROVE  /\ calls' \in Seq(Call) /\ Len(calls') = Len(calls)
         /\ \A k \in 1..Len(calls) : calls'[k] = IF k = Len(calls) THEN e ELSE calls[k]
         /\ Distinct' /\ Debt' = Debt - OwedBy(Top) + OwedBy(e)
<1>1. /\ calls \in Seq(Call) /\ Len(calls) \in 1..3 /\ Debt \in Int
      /\ \A k \in 1..Len(calls) : calls[k] \in Call /\ OwedBy(calls[k]) \in Int
      /\ OwedBy(e) \in Int
  BY Signal_Stack DEF SignalInv, OwedBy
<1>2. /\ calls' \in Seq(Call) /\ Len(calls') = Len(calls)
      /\ \A k \in 1..Len(calls) : calls'[k] = IF k = Len(calls) THEN e ELSE calls[k]
  <2>1. Len(calls) \in 1..Len(calls)
    BY <1>1
  <2> QED BY <1>1, <2>1, ExceptSeq
<1>3. Distinct'
  <2>1. \A k \in 1..Len(calls) : calls'[k].by = calls[k].by
    BY <1>1, <1>2 DEF Top
  <2> QED BY <1>2, <2>1 DEF SignalInv, Distinct
<1>4. Debt' = Debt - OwedBy(Top) + OwedBy(e)
  <2> DEFINE n == Len(calls)
  <2>1. \A k \in 1..3 : Owed(k)' = IF k = n THEN OwedBy(e) ELSE Owed(k)
    <3>1. \A k \in 1..3 : Owed(k)' = IF k \in 1..n THEN OwedBy(calls'[k]) ELSE 0
      BY <1>2 DEF Owed, OwedBy
    <3>2. n \in 1..n
      BY <1>1
    <3>3. /\ \A k \in 1..n : calls'[k] = IF k = n THEN e ELSE calls[k]
          /\ \A k \in 1..3 : Owed(k) = IF k \in 1..n THEN OwedBy(calls[k]) ELSE 0
      BY <1>2 DEF Owed
    <3> HIDE DEF n
    <3> QED BY <3>1, <3>2, <3>3
  <2>2. Owed(n) = OwedBy(Top)
    BY <1>1 DEF Owed, Top
  <2>3. \A k \in 1..3 : Owed(k) \in Int
    BY <1>1 DEF Owed
  <2>4. n \in {1, 2, 3}
    BY <1>1
  <2> HIDE DEF n
  <2>5. Owed(1) \in Int /\ Owed(2) \in Int /\ Owed(3) \in Int /\ OwedBy(e) \in Int
    BY <1>1, <2>3
  <2>6. CASE n = 1
    <3>1. Owed(1)' = OwedBy(e) /\ Owed(2)' = Owed(2) /\ Owed(3)' = Owed(3)
      BY <2>1, <2>6
    <3> QED BY <2>2, <2>5, <2>6, <3>1 DEF Debt
  <2>7. CASE n = 2
    <3>1. Owed(1)' = Owed(1) /\ Owed(2)' = OwedBy(e) /\ Owed(3)' = Owed(3)
      BY <2>1, <2>7
    <3> QED BY <2>2, <2>5, <2>7, <3>1 DEF Debt
  <2>8. CASE n = 3
    <3>1. Owed(1)' = Owed(1) /\ Owed(2)' = Owed(2) /\ Owed(3)' = OwedBy(e)
      BY <2>1, <2>8
    <3> QED BY <2>2, <2>5, <2>8, <3>1 DEF Debt
  <2> QED BY <2>4, <2>6, <2>7, <2>8
<1> QED BY <1>2, <1>3, <1>4

\* Below the innermost call none is between its load and its store
LEMMA Signal_Below ==
  ASSUME SignalInv, ~torn, NEW k \in 1..Len(calls), k # Len(calls)
  PROVE  calls[k].at # "store"
  BY DEF SignalInv, StoreOnTop

\* semop() has failed: the call returns and has changed nothing
LEMMA Signal_Fails ==
  ASSUME SignalInv, SemFails \/ SemInterrupted
  PROVE  SignalInv'
<1>1. /\ calls # <<>> /\ Top.at \in {"semop", "interrupted"} /\ Return
      /\ UNCHANGED <<main, semval, cnt, pending, signals, torn>>
  BY DEF SemFails, SemInterrupted, GiveUp, Running
<1>2. /\ calls' \in Seq(Call) /\ Len(calls') = Len(calls) - 1
      /\ \A k \in 1..Len(calls') : calls'[k] = calls[k]
      /\ Distinct' /\ Debt' = Debt - OwedBy(Top)
  BY <1>1, Signal_Pop
<1>3. Len(calls) \in 1..3 /\ Debt \in Int
  BY <1>1, Signal_Stack DEF SignalInv
<1>4. Debt' = Debt
  BY <1>1, <1>2, <1>3 DEF OwedBy
<1>5. SignalTypeOK'
  <2>1. Len(calls') <= 3
    BY <1>2, <1>3
  <2> QED BY <1>1, <1>2, <2>1 DEF SignalInv, SignalTypeOK
<1>6. StoreOnTop'
  BY <1>1, <1>2, <1>3, Signal_Below DEF StoreOnTop
<1>7. BeforeSetval' /\ Balance'
  BY <1>1, <1>4 DEF SignalInv, BeforeSetval, Balance
<1> QED BY <1>2, <1>5, <1>6, <1>7 DEF SignalInv

\* semop() is done, or waits: the call owes what it has done to the semaphore
LEMMA Signal_Semop ==
  ASSUME SignalInv, SemDone \/ SemWaits
  PROVE  SignalInv'
<1> DEFINE e == [Top EXCEPT !.at = IF semval' = semval THEN "waits" ELSE "load"]
<1>1. /\ calls # <<>> /\ Top.at = "semop" /\ semval \in Int /\ semval' \in Int
      /\ calls' = [calls EXCEPT ![Len(calls)] = e]
      /\ UNCHANGED <<main, cnt, pending, signals, torn>>
  BY DEF SignalInv, SignalTypeOK, SemDone, SemWaits, Running, Reach, Top
<1>2. Top \in Call /\ Debt \in Int
  BY <1>1, Signal_Stack DEF SignalInv
<1>3. e \in Call /\ e.by = Top.by /\ e.at # "store"
  BY <1>2 DEF Call, At
<1>4. /\ calls' \in Seq(Call) /\ Len(calls') = Len(calls)
      /\ \A k \in 1..Len(calls) : calls'[k] = IF k = Len(calls) THEN e ELSE calls[k]
      /\ Distinct' /\ Debt' = Debt - OwedBy(Top) + OwedBy(e)
  BY <1>1, <1>3, Signal_Top
<1>5. semval - semval' = OwedBy(e) /\ OwedBy(Top) = 0
  BY <1>1, <1>2 DEF SemDone, SemWaits, Call, Operation, OwedBy
<1> HIDE DEF e
<1>6. SignalTypeOK'
  BY <1>1, <1>4 DEF SignalInv, SignalTypeOK
<1>7. StoreOnTop'
  BY <1>1, <1>3, <1>4, Signal_Below DEF StoreOnTop
<1>8. BeforeSetval'
  BY <1>1 DEF SignalInv, BeforeSetval
<1>9. Balance'
  <2>1. Value \in Int /\ cnt \in Int /\ OwedBy(e) \in Int
    BY <1>1, <1>5, SemaphoreAssumption DEF SignalInv, SignalTypeOK
  <2>2. Debt' = Debt + OwedBy(e) /\ Debt \in Int
    BY <1>2, <1>4, <1>5, <2>1
  <2>3. semval \in Int /\ semval' \in Int /\ UNCHANGED <<main, cnt, torn>>
    BY <1>1
  <2>4. Balance
    BY DEF SignalInv
  <2> QED BY <1>5, <2>1, <2>2, <2>3, <2>4 DEF Balance
<1> QED BY <1>4, <1>6, <1>7, <1>8, <1>9 DEF SignalInv

\* ++cnt and --cnt: what was owed is paid, if nobody came between
LEMMA Signal_Load ==
  ASSUME SignalInv, Load
  PROVE  SignalInv'
<1> DEFINE e == [Top EXCEPT !.at = "store", !.register = cnt]
<1>1. /\ calls # <<>> /\ Top.at = "load" /\ cnt \in Int
      /\ calls' = [calls EXCEPT ![Len(calls)] = e]
      /\ UNCHANGED <<main, semval, cnt, pending, signals, torn>>
  BY DEF SignalInv, SignalTypeOK, Load, Running, Top
<1>2. Top \in Call /\ Debt \in Int /\ OwedBy(Top) \in Int
  BY <1>1, Signal_Stack DEF SignalInv, OwedBy
<1>3. e \in Call /\ e.by = Top.by /\ e.register = cnt
  BY <1>1, <1>2 DEF Call, At
<1>4. /\ calls' \in Seq(Call) /\ Len(calls') = Len(calls)
      /\ \A k \in 1..Len(calls) : calls'[k] = IF k = Len(calls) THEN e ELSE calls[k]
      /\ Distinct' /\ Debt' = Debt - OwedBy(Top) + OwedBy(e)
  BY <1>1, <1>3, Signal_Top
<1>5. OwedBy(e) = OwedBy(Top)
  BY <1>1, <1>2 DEF Call, OwedBy
<1> HIDE DEF e
<1>6. SignalTypeOK'
  BY <1>1, <1>4 DEF SignalInv, SignalTypeOK
<1>7. StoreOnTop'
  BY <1>1, <1>3, <1>4, Signal_Below DEF StoreOnTop
<1>8. BeforeSetval' /\ Balance'
  BY <1>1, <1>2, <1>4, <1>5 DEF SignalInv, BeforeSetval, Balance
<1> QED BY <1>4, <1>6, <1>7, <1>8 DEF SignalInv

LEMMA Signal_Store ==
  ASSUME SignalInv, Store
  PROVE  SignalInv'
<1>1. /\ calls # <<>> /\ Top.at = "store" /\ Return
      /\ cnt' = IF Top.op = "p" THEN Top.register + 1 ELSE Top.register - 1
      /\ UNCHANGED <<main, semval, pending, signals, torn>>
  BY DEF Store, Running
<1>2. /\ calls' \in Seq(Call) /\ Len(calls') = Len(calls) - 1
      /\ \A k \in 1..Len(calls') : calls'[k] = calls[k]
      /\ Distinct' /\ Debt' = Debt - OwedBy(Top)
  BY <1>1, Signal_Pop
<1>3. Len(calls) \in 1..3 /\ Debt \in Int /\ Top \in Call
  BY <1>1, Signal_Stack DEF SignalInv
<1>4. Top.register \in Int /\ cnt' \in Int
  BY <1>1, <1>3 DEF Call
<1>5. SignalTypeOK'
  <2>1. Len(calls') <= 3
    BY <1>2, <1>3
  <2> QED BY <1>1, <1>2, <1>4, <2>1 DEF SignalInv, SignalTypeOK
<1>6. StoreOnTop'
  BY <1>1, <1>2, <1>3, Signal_Below DEF StoreOnTop
<1>7. BeforeSetval'
  BY <1>1 DEF SignalInv, BeforeSetval
<1>8. Balance'
  <2> SUFFICES ASSUME ~torn, main \in {"p", "loop"} PROVE Value - semval = cnt' + Debt'
    BY <1>1 DEF Balance
  <2>1. Top.register = cnt
    <3>1. Len(calls) \in 1..Len(calls)
      BY <1>3
    <3> QED BY <1>1, <3>1 DEF SignalInv, StoreOnTop, Top
  <2>2. cnt' = cnt + OwedBy(Top) /\ OwedBy(Top) \in Int
    BY <1>1, <1>4, <2>1 DEF OwedBy
  <2>3. Value - semval = cnt + Debt /\ cnt \in Int
    BY DEF SignalInv, SignalTypeOK, Balance
  <2> QED BY <1>2, <1>3, <2>2, <2>3
<1> QED BY <1>2, <1>5, <1>6, <1>7, <1>8 DEF SignalInv

\* main()'s steps, and a signal that is sent
LEMMA Signal_Main ==
  ASSUME SignalInv, MainStep \/ (\E sig \in Signal : SendSignal(sig))
  PROVE  SignalInv'
<1>1. CASE SetValue
  <2> DEFINE call == NewCall("p", "main")
  <2>1. call \in Call /\ OwedBy(call) = 0 /\ call.at = "semop"
    BY DEF NewCall, Call, Operation, Caller, At, OwedBy
  <2>2. calls' = <<call>>
    BY <1>1 DEF SetValue
  <2> HIDE DEF call
  <2>3. calls' \in Seq(Call) /\ Len(calls') = 1 /\ calls'[1] = call
    BY <2>1, <2>2
  <2>4. /\ main = "setval" /\ main' = "p" /\ calls = <<>> /\ semval' = Value
        /\ UNCHANGED <<cnt, pending, signals, torn>>
    BY <1>1 DEF SetValue, MainAt
  <2>5. SignalTypeOK'
    <3>1. Len(calls') <= 3
      BY <2>3
    <3> QED BY <2>3, <2>4, <3>1, SemaphoreAssumption DEF SignalInv, SignalTypeOK
  <2>6. Distinct' /\ StoreOnTop'
    BY <2>1, <2>3 DEF Distinct, StoreOnTop
  <2>7. Debt' = 0
    <3>1. Owed(1)' = 0
      BY <2>1, <2>3 DEF Owed, OwedBy
    <3>2. Owed(2)' = 0 /\ Owed(3)' = 0
      BY <2>3 DEF Owed
    <3> QED BY <3>1, <3>2 DEF Debt
  <2>8. BeforeSetval' /\ Balance'
    BY <2>4, <2>7, SemaphoreAssumption DEF SignalInv, BeforeSetval, Balance
  <2> QED BY <2>5, <2>6, <2>8 DEF SignalInv
<1>2. CASE SemGetPrivate \/ ReturnFromP \/ LeaveLoop \/ RemoveSet
  <2>1. /\ UNCHANGED <<calls, cnt, pending, signals, torn>> /\ calls = <<>> /\ semval' \in Int
        /\ \/ main = "semget" /\ main' = "setval"
           \/ main = "p" /\ main' = "loop" /\ semval' = semval
           \/ main' \in {"rmid", "done"}
    BY <1>2 DEF SemGetPrivate, ReturnFromP, LeaveLoop, RemoveSet, MainAt, NoSet, SignalInv, SignalTypeOK
  <2>2. SignalTypeOK'
    BY <2>1 DEF SignalInv, SignalTypeOK
  <2>3. Distinct' /\ StoreOnTop' /\ BeforeSetval' /\ Debt' = Debt
    BY <2>1 DEF SignalInv, Distinct, StoreOnTop, BeforeSetval, Debt, Owed
  <2>4. Balance'
    BY <2>1, <2>3 DEF SignalInv, Balance
  <2> QED BY <2>2, <2>3, <2>4 DEF SignalInv
<1>3. ASSUME NEW sig \in Signal, SendSignal(sig) PROVE SignalInv'
  <2>1. /\ UNCHANGED <<main, calls, semval, cnt, torn>>
        /\ signals < MaxSignals /\ signals' = signals + 1 /\ pending' = pending \cup {sig}
    BY <1>3 DEF SendSignal
  <2>2. SignalTypeOK'
    BY <2>1, SemaphoreAssumption DEF SignalInv, SignalTypeOK
  <2>3. Distinct' /\ StoreOnTop' /\ BeforeSetval' /\ Balance'
    BY <2>1 DEF SignalInv, Distinct, StoreOnTop, BeforeSetval, Balance, Debt, Owed
  <2> QED BY <2>2, <2>3 DEF SignalInv
<1> QED BY <1>1, <1>2, <1>3 DEF MainStep

\* A handler starts: what was owed stays owed, and the calls that waited will give up
LEMMA Signal_Deliver ==
  ASSUME SignalInv, NEW sig \in Signal, Deliver(sig)
  PROVE  SignalInv'
<1> DEFINE n == Len(calls)
           m == [k \in 1..n |->
                   IF calls[k].at = "waits" THEN [calls[k] EXCEPT !.at = "interrupted"] ELSE calls[k]]
           call == NewCall(IF sig = "SIGINT" THEN "v" ELSE "p", sig)
<1>1. /\ calls' = Append(m, call) /\ UNCHANGED <<main, semval, cnt, signals>>
      /\ pending' = pending \ {sig}
      /\ torn' = (torn \/ main \in {"semget", "setval"} \/ \E k \in 1..n : calls[k].at = "store")
      /\ \A k \in 1..n : calls[k].by # sig
  BY DEF Deliver, Masked
<1>2. call \in Call /\ OwedBy(call) = 0 /\ call.at = "semop" /\ call.by = sig
  BY DEF NewCall, Call, Operation, Caller, At, OwedBy
<1>3. /\ n \in 0..3 /\ Debt \in Int
      /\ \A k \in 1..n : calls[k] \in Call /\ OwedBy(calls[k]) \in Int
  BY Signal_Stack DEF SignalInv
<1>4. \A k \in 1..n : /\ m[k] \in Call /\ m[k].by = calls[k].by /\ OwedBy(m[k]) = OwedBy(calls[k])
                      /\ m[k].at = "store" <=> calls[k].at = "store"
  BY <1>3 DEF Call, At, OwedBy
<1>5. m \in Seq(Call) /\ Len(m) = n
  <2>1. m \in [1..n -> Call] /\ n \in Nat
    BY <1>3, <1>4
  <2>2. m \in Seq(Call)
    BY <2>1, SeqDef
  <2>3. DOMAIN m = 1..n
    OBVIOUS
  <2>4. DOMAIN m = 1..Len(m) /\ Len(m) \in Nat
    BY <2>2, LenProperties
  <2> HIDE DEF m, n
  <2> QED BY <2>1, <2>2, <2>3, <2>4
<1> HIDE DEF n, m, call
<1>6. /\ calls' \in Seq(Call) /\ Len(calls') = n + 1 /\ calls'[n + 1] = call
      /\ \A k \in 1..n : calls'[k] = m[k]
  BY <1>1, <1>2, <1>5, AppendProperties
<1>7. Distinct'
  <2>1. \A j, k \in 1..n : calls[j].by = calls[k].by => j = k
    BY DEF SignalInv, Distinct, n
  <2>2. \A k \in 1..(n + 1) : k \in 1..n \/ k = n + 1
    BY <1>3
  <2>3. \A j, k \in 1..(n + 1) : calls'[j].by = calls'[k].by => j = k
    BY <1>1, <1>2, <1>4, <1>6, <2>1, <2>2
  <2> QED BY <1>6, <2>3 DEF Distinct
<1>8. n \in 0..2
  <2> SUFFICES ASSUME n = 3 PROVE FALSE
    BY <1>3
  <2>1. \A k \in 1..3 : calls[k].by \in {"SIGINT", "SIGTSTP", "main"}
    BY <1>3 DEF Call, Caller, Signal
  <2>2. \A j, k \in 1..3 : calls[j].by = calls[k].by => j = k
    BY DEF SignalInv, Distinct, n
  <2>3. \A k \in 1..3 : calls[k].by # sig
    BY <1>1
  <2> QED BY <2>1, <2>2, <2>3 DEF Signal
<1>9. Debt' = Debt
  <2>1. \A k \in 1..3 : Owed(k) = IF k \in 1..n THEN OwedBy(calls[k]) ELSE 0
    BY DEF Owed, n
  <2>2. \A k \in 1..3 : Owed(k)' = IF k \in 1..(n + 1) THEN OwedBy(calls'[k]) ELSE 0
    BY <1>6 DEF Owed, OwedBy
  <2>3. \A k \in 1..3 : Owed(k)' = Owed(k)
    BY <1>2, <1>3, <1>4, <1>6, <2>1, <2>2
  <2> QED BY <2>3 DEF Debt
<1>10. SignalTypeOK'
  <2>1. Len(calls') <= 3
    BY <1>6, <1>8
  <2> QED BY <1>1, <1>6, <2>1 DEF SignalInv, SignalTypeOK
<1>11. StoreOnTop'
  <2> SUFFICES ASSUME ~torn', NEW k \in 1..(n + 1), calls'[k].at = "store" PROVE FALSE
    BY <1>6 DEF StoreOnTop
  <2>1. \A j \in 1..n : calls[j].at # "store"
    BY <1>1
  <2>2. k \in 1..n \/ k = n + 1
    BY <1>3
  <2> QED BY <1>2, <1>4, <1>6, <2>1, <2>2
<1>12. BeforeSetval' /\ Balance'
  BY <1>1, <1>9 DEF SignalInv, BeforeSetval, Balance, SignalTypeOK
<1> QED BY <1>7, <1>10, <1>11, <1>12 DEF SignalInv

LEMMA Signal_Next == SignalInv /\ [SignalNext]_sigvars => SignalInv'
<1> SUFFICES ASSUME SignalInv, [SignalNext]_sigvars PROVE SignalInv'
  OBVIOUS
<1>1. CASE UNCHANGED sigvars
  BY <1>1 DEF SignalInv, SignalTypeOK, Distinct, StoreOnTop, BeforeSetval, Balance, Debt, Owed, sigvars
<1>2. CASE SignalNext
  BY <1>2, Signal_Main, Signal_Fails, Signal_Semop, Signal_Load, Signal_Store, Signal_Deliver
     DEF SignalNext, CallStep
<1> QED BY <1>1, <1>2

\* Whatever the semaphore's value and however many signals, when main() tests cnt it
\* is what the semaphore lacks, although handlers have interrupted p() and v(), unless
\* one came between a load of cnt and its store, or before SETVAL: sem.c:76-78.
THEOREM SignalCountIsValue == SignalSpec => []CountIsValue
<1> QED BY Signal_Init, Signal_Next, Signal_Count, PTL DEF SignalSpec

-----------------------------------------------------------------------------
(* The message queue.                                                      *)

IsLine(m)       == m.mtype = 1
IsPrinted(c)  == \E k \in 1..Len(printed) : printed[k] = c
IsQueued(c, n) == \E k \in 1..n : IsLine(messages[k]) /\ messages[k].from = c

\* A server's name is new until it makes its queue, and there is no queue without
\* a name; a client that has found one still knows its name when it is gone
QueueNames ==
  /\ \A s \in 1..Servers : server[s] = "none" => queue # s /\ \A c \in Senders : msqid[c] # s
  /\ \A c \in Senders : sender[c] \in {"line", "stop"} => msqid[c] # NoQueue
  /\ queue = NoQueue => messages = <<>>

PrintedInOrder ==
  /\ Len(printed) <= Len(accepted)
  /\ \A k \in 1..Len(printed) : printed[k] = accepted[k]

\* f[j] is how many of the accepted lines are printed or among the j oldest messages
Counts(f, n) ==
  /\ f \in [0..n -> 0..Len(accepted)]
  /\ f[0] = Len(printed) /\ f[n] = Len(accepted)
  /\ \A j \in 1..n :
       /\ IsLine(messages[j]) => f[j] = f[j - 1] + 1 /\ accepted[f[j]] = messages[j].from
       /\ ~IsLine(messages[j]) => f[j] = f[j - 1]
RestIsQueued == queue # NoQueue => \E f : Counts(f, Len(messages))

\* Everybody's stop is behind its line, which is printed by then or in the queue
OwnInv ==
  /\ stopper # NoQueue => IsPrinted(stopper)
  /\ \A j \in 1..Len(messages) :
       ~IsLine(messages[j]) => IsPrinted(messages[j].from) \/ IsQueued(messages[j].from, j - 1)
  /\ \A c \in Senders : sender[c] = "stop" /\ msqid[c] = queue =>
       IsPrinted(c) \/ IsQueued(c, Len(messages))

QueueInv == QueueTypeOK /\ QueueNames /\ PrintedInOrder /\ RestIsQueued /\ OwnInv

\* the definition of the community modules by elements
LEMMA PrefixOf ==
  ASSUME NEW S, NEW s \in Seq(S), NEW t \in Seq(S), Len(s) <= Len(t),
         \A k \in 1..Len(s) : s[k] = t[k]
  PROVE  IsPrefix(s, t)
<1> DEFINE n == Len(s)
           u == SubSeq(t, 1, n)
<1>1. n \in Nat /\ Len(t) \in Nat /\ n <= Len(t) /\ \A k \in 1..Len(t) : t[k] \in S
  BY LenProperties, ElementOfSeq
<1> HIDE DEF n
<1>2. 1 \in Int /\ n \in Int /\ \A k \in 1..n : t[k] \in S
  BY <1>1
<1>3. /\ u \in Seq(S) /\ Len(u) = IF 1 <= n THEN n - 1 + 1 ELSE 0
      /\ \A k \in 1..(n - 1 + 1) : u[k] = t[1 + k - 1]
  BY <1>2, SubSeqProperties
<1>4. Len(u) = n /\ n - 1 + 1 = n /\ \A k \in 1..n : 1 + k - 1 = k
  BY <1>1, <1>3
<1> HIDE DEF u
<1>5. \A k \in 1..n : u[k] = s[k]
  BY <1>3, <1>4 DEF n
<1>6. u = s
  BY <1>3, <1>4, <1>5, SeqEqual DEF n
<1>7. SubSeq(s, 1, Len(s)) = s
  BY SubSeqFull
<1> QED BY <1>6, <1>7 DEF IsPrefix, u, n

LEMMA Queue_Init == QueueInit => QueueInv
<1> SUFFICES ASSUME QueueInit PROVE QueueInv
  OBVIOUS
<1>1. Len(<<>>) = 0 /\ <<>> \in Seq(Message) /\ <<>> \in Seq(Senders)
  BY EmptySeq
<1>2. QueueTypeOK
  BY <1>1, QueueAssumption DEF QueueInit, QueueTypeOK, NoQueue
<1> QED BY <1>1, <1>2 DEF QueueInit, QueueInv, QueueNames, PrintedInOrder, RestIsQueued, OwnInv,
                          NoQueue

LEMMA Queue_OwnLineFirst == QueueInv => OwnLineFirst
<1> SUFFICES ASSUME QueueInv PROVE OwnLineFirst
  OBVIOUS
<1>1. printed \in Seq(Senders) /\ accepted \in Seq(Senders) /\ PrintedInOrder
  BY DEF QueueInv, QueueTypeOK
<1>2. IsPrefix(printed, accepted)
  BY <1>1, PrefixOf DEF PrintedInOrder
<1> QED BY <1>2 DEF QueueInv, OwnInv, IsPrinted, OwnLineFirst

\* msgget() and msgctl(IPC_RMID) (msg_server.c:18-30): the queue is new, or gone
LEMMA Queue_Create ==
  ASSUME QueueInv, NEW s \in 1..Servers, CreateQueue(s)
  PROVE  QueueInv'
<1>1. /\ server[s] = "none" /\ server' = [server EXCEPT ![s] = "receive"]
      /\ queue' = s /\ accepted' = <<>> /\ printed' = <<>> /\ stopper' = NoQueue
      /\ UNCHANGED <<sender, msqid, messages>>
      /\ messages = <<>> /\ s # NoQueue /\ QueueTypeOK /\ QueueNames
  BY QueueAssumption DEF CreateQueue, ServerAt, QueueInv, QueueNames, NoQueue
<1>2. Len(<<>>) = 0 /\ <<>> \in Seq(Senders)
  BY EmptySeq
<1>3. QueueTypeOK'
  BY <1>1, <1>2, QueueAssumption DEF QueueTypeOK, QueueEnd
<1>4. QueueNames'
  BY <1>1, <1>3 DEF QueueNames, QueueTypeOK
<1>5. PrintedInOrder'
  BY <1>1, <1>2 DEF PrintedInOrder
<1>6. RestIsQueued'
  <2> DEFINE f == [j \in 0..0 |-> 0]
  <2>1. f \in [0..0 -> 0..0] /\ f[0] = 0
    OBVIOUS
  <2> HIDE DEF f
  <2>2. Counts(f, Len(messages))'
    BY <1>1, <1>2, <2>1 DEF Counts
  <2> QED BY <2>2 DEF RestIsQueued
<1>7. OwnInv'
  BY <1>1, <1>2 DEF OwnInv, QueueNames
<1> QED BY <1>3, <1>4, <1>5, <1>6, <1>7 DEF QueueInv

LEMMA Queue_Remove ==
  ASSUME QueueInv, NEW s \in 1..Servers, RemoveQueue(s)
  PROVE  QueueInv'
<1>1. /\ server' = [server EXCEPT ![s] = "done"] /\ server[s] = "remove"
      /\ queue' = NoQueue /\ messages' = <<>>
      /\ UNCHANGED <<sender, msqid, accepted, printed, stopper>> /\ QueueTypeOK
  BY DEF RemoveQueue, ServerAt, DropQueue, QueueInv
<1>2. Len(<<>>) = 0 /\ <<>> \in Seq(Message)
  BY EmptySeq
<1>3. QueueTypeOK'
  BY <1>1, <1>2, QueueAssumption DEF QueueTypeOK, QueueEnd, NoQueue
<1>4. QueueNames'
  BY <1>1, QueueAssumption DEF QueueNames, QueueTypeOK, QueueInv, NoQueue
<1>5. PrintedInOrder' /\ RestIsQueued'
  BY <1>1 DEF PrintedInOrder, RestIsQueued, QueueInv
<1>6. OwnInv'
  BY <1>1, <1>2, <1>4 DEF OwnInv, QueueNames, QueueInv, IsPrinted
<1> QED BY <1>3, <1>4, <1>5, <1>6 DEF QueueInv

\* processes that come, fail and end leave the queue alone
LEMMA Queue_Other ==
  ASSUME QueueInv,
         \/ \E s \in 1..Servers : QueueExists(s) \/ KillServer(s)
         \/ \E c \in Senders : FindQueue(c) \/ QueueIsGone(c) \/ KillSender(c)
  PROVE  QueueInv'
<1>1. /\ UNCHANGED <<queue, messages, accepted, printed, stopper>> /\ QueueTypeOK
      /\ QueueNames /\ OwnInv
  BY DEF QueueExists, KillServer, FindQueue, QueueIsGone, KillSender, QueueInv
<1>2. /\ \A s \in 1..Servers : server'[s] = "none" => server[s] = "none"
      /\ \A c \in Senders : /\ sender'[c] \in {"line", "stop"} => msqid'[c] # NoQueue
                            /\ msqid'[c] = msqid[c] \/ msqid'[c] = queue
                            /\ sender'[c] = "stop" => sender[c] = "stop" /\ msqid'[c] = msqid[c]
      /\ QueueTypeOK'
  <2>1. CASE \E s \in 1..Servers : QueueExists(s) \/ KillServer(s)
    <3>1. sender' = sender /\ msqid' = msqid
      BY <2>1 DEF QueueExists, KillServer
    <3>2. /\ server' \in [1..Servers -> {"none", "receive", "remove"} \cup QueueEnd]
          /\ \A s \in 1..Servers : server'[s] = "none" => server[s] = "none"
      BY <1>1, <2>1 DEF QueueExists, KillServer, ServerAt, QueueTypeOK, QueueEnd
    <3> QED BY <1>1, <3>1, <3>2 DEF QueueTypeOK, QueueNames
  <2>2. CASE \E c \in Senders : FindQueue(c) \/ QueueIsGone(c) \/ KillSender(c)
    <3>1. PICK c \in Senders : FindQueue(c) \/ QueueIsGone(c) \/ KillSender(c)
      BY <2>2
    <3>2. server' = server
      BY <3>1 DEF FindQueue, QueueIsGone, KillSender
    <3>3. /\ sender' \in [Senders -> {"none", "line", "stop"} \cup QueueEnd]
          /\ msqid' \in [Senders -> 0..Servers]
      <4>1. CASE FindQueue(c)
        BY <1>1, <4>1 DEF FindQueue, SenderAt, QueueTypeOK, QueueEnd
      <4>2. CASE QueueIsGone(c) \/ KillSender(c)
        BY <1>1, <4>2 DEF QueueIsGone, KillSender, QueueTypeOK, QueueEnd
      <4> QED BY <3>1, <4>1, <4>2
    <3>4. \A d \in Senders :
            /\ sender'[d] \in {"line", "stop"} => msqid'[d] # NoQueue
            /\ msqid'[d] = msqid[d] \/ msqid'[d] = queue
            /\ sender'[d] = "stop" => sender[d] = "stop" /\ msqid'[d] = msqid[d]
      BY <1>1, <3>1 DEF FindQueue, QueueIsGone, KillSender, SenderAt, QueueTypeOK, QueueNames,
             QueueEnd
    <3> QED BY <1>1, <3>2, <3>3, <3>4 DEF QueueTypeOK
  <2> QED BY <2>1, <2>2
<1>3. QueueNames'
  BY <1>1, <1>2 DEF QueueNames
<1>4. PrintedInOrder' /\ RestIsQueued'
  BY <1>1 DEF PrintedInOrder, RestIsQueued, Counts, QueueInv
<1>5. OwnInv'
  BY <1>1, <1>2 DEF OwnInv, IsPrinted, IsQueued
<1> QED BY <1>2, <1>3, <1>4, <1>5 DEF QueueInv

\* msgrcv() (msg_server.c:24-30): the oldest message is printed, or ends the server
LEMMA Queue_Receive ==
  ASSUME QueueInv, NEW s \in 1..Servers, ReceiveLine(s) \/ ReceiveStop(s)
  PROVE  QueueInv'
<1> DEFINE h == messages[1]
<1>1. PICK n \in Nat : n = Len(messages)
  BY LenProperties DEF QueueInv, QueueTypeOK
<1>2. /\ messages \in Seq(Message) /\ messages # <<>> /\ n >= 1
      /\ messages' = Tail(messages) /\ Head(messages) = h /\ h \in Message
      /\ UNCHANGED <<sender, msqid, queue, accepted>> /\ QueueTypeOK /\ QueueNames /\ OwnInv
      /\ printed \in Seq(Senders) /\ accepted \in Seq(Senders)
  <2>1. /\ messages \in Seq(Message) /\ messages # <<>> /\ messages' = Tail(messages)
        /\ UNCHANGED <<sender, msqid, queue, accepted>> /\ QueueTypeOK /\ QueueNames /\ OwnInv
        /\ printed \in Seq(Senders) /\ accepted \in Seq(Senders)
    BY DEF ReceiveLine, ReceiveStop, QueueInv, QueueTypeOK
  <2>2. n >= 1
    BY <1>1, <2>1, EmptySeq
  <2>3. Head(messages) = h /\ h \in Message
    BY <1>1, <2>1, <2>2, ElementOfSeq
  <2> QED BY <2>1, <2>2, <2>3
<1>3. /\ Tail(messages) \in Seq(Message) /\ Len(messages') = n - 1
      /\ \A k \in 1..(n - 1) : messages'[k] = messages[k + 1]
  BY <1>1, <1>2, HeadTailProperties
<1>4. \/ IsLine(h) /\ printed' = Append(printed, h.from) /\ stopper' = stopper
      \/ ~IsLine(h) /\ printed' = printed /\ stopper' = h.from
  BY <1>2 DEF ReceiveLine, ReceiveStop, IsLine
<1> HIDE DEF h
<1>5. h.from \in Senders
  BY <1>2 DEF Message
<1>6. /\ printed' \in Seq(Senders) /\ Len(printed) \in Nat /\ Len(accepted) \in Nat
      /\ Len(printed') = Len(printed) + (IF IsLine(h) THEN 1 ELSE 0)
      /\ \A k \in 1..Len(printed) : k \in 1..Len(printed') /\ printed'[k] = printed[k]
      /\ IsLine(h) => printed'[Len(printed) + 1] = h.from
  <2>1. Len(printed) \in Nat /\ Len(accepted) \in Nat
    BY <1>2, LenProperties
  <2>2. CASE IsLine(h)
    <3>1. /\ printed' \in Seq(Senders) /\ Len(printed') = Len(printed) + 1
          /\ \A k \in 1..Len(printed) : printed'[k] = printed[k]
          /\ printed'[Len(printed) + 1] = h.from
      <4>1. PICK x \in Senders : x = h.from
        BY <1>5
      <4>2. printed' = Append(printed, x)
        BY <1>4, <2>2, <4>1
      <4> QED BY <1>2, <4>1, <4>2, AppendProperties
    <3> QED BY <2>1, <2>2, <3>1
  <2>3. CASE ~IsLine(h)
    BY <1>2, <1>4, <2>1, <2>3
  <2> QED BY <2>2, <2>3
<1>7. QueueTypeOK'
  <2>1. server' \in [1..Servers -> {"none", "receive", "remove"} \cup QueueEnd]
    BY <1>2 DEF QueueTypeOK, ReceiveLine, ReceiveStop, ServerAt, QueueEnd
  <2>2. stopper' \in Senders \cup {NoQueue}
    BY <1>2, <1>4, <1>5 DEF QueueTypeOK
  <2> QED BY <1>2, <1>3, <1>6, <2>1, <2>2 DEF QueueTypeOK
<1>8. QueueNames'
  <2>1. queue # NoQueue
    BY <1>2 DEF QueueNames
  <2>2. \A r \in 1..Servers : server'[r] = "none" => server[r] = "none"
    BY <1>2 DEF QueueTypeOK, ReceiveLine, ReceiveStop, ServerAt
  <2> QED BY <1>2, <2>1, <2>2 DEF QueueNames
<1>9. \E g : Counts(g, n - 1)'
  <2>1. PICK f : Counts(f, n)
    BY <1>1, <1>2 DEF QueueInv, RestIsQueued, QueueNames
  <2> DEFINE m == n - 1
             g == [j \in 0..m |-> f[j + 1]]
  <2>2. m \in Nat /\ n = m + 1
    BY <1>2
  <2>3. g \in [0..m -> 0..Len(accepted)]
    BY <2>1, <2>2 DEF Counts
  <2>4. f[0] = Len(printed) /\ f[n] = Len(accepted) /\ 1 \in 1..n
    BY <1>2, <2>1 DEF Counts
  <2>5. f[1] = Len(printed')
    <3>1. 1 - 1 = 0
      OBVIOUS
    <3> QED BY <1>6, <2>1, <2>4, <3>1 DEF Counts, h
  <2>6. g[0] = f[1] /\ g[m] = f[n]
    BY <2>2
  <2>7. ASSUME NEW j \in 1..m
        PROVE  /\ IsLine(messages'[j]) => g[j] = g[j - 1] + 1
                                           /\ accepted[g[j]] = messages'[j].from
               /\ ~IsLine(messages'[j]) => g[j] = g[j - 1]
    <3>1. /\ j + 1 \in 1..n /\ messages'[j] = messages[j + 1] /\ j + 1 - 1 = j
          /\ g[j] = f[j + 1] /\ g[j - 1] = f[j]
      BY <1>3, <2>2
    <3>2. /\ IsLine(messages[j + 1]) => f[j + 1] = f[j + 1 - 1] + 1
                                         /\ accepted[f[j + 1]] = messages[j + 1].from
          /\ ~IsLine(messages[j + 1]) => f[j + 1] = f[j + 1 - 1]
      BY <2>1, <3>1 DEF Counts
    <3> HIDE DEF g
    <3> QED BY <3>1, <3>2
  <2> HIDE DEF g
  <2>8. Counts(g, m)'
    BY <1>2, <2>3, <2>4, <2>5, <2>6, <2>7 DEF Counts
  <2> QED BY <2>8
<1>10. RestIsQueued'
  BY <1>3, <1>9 DEF RestIsQueued
<1>11. PrintedInOrder'
  <2>1. CASE ~IsLine(h)
    BY <1>2, <1>4, <2>1 DEF QueueInv, PrintedInOrder
  <2>2. CASE IsLine(h)
    <3>1. PICK f : Counts(f, n)
      BY <1>1, <1>2 DEF QueueInv, RestIsQueued, QueueNames
    <3>2. f[1] = f[0] + 1 /\ accepted[f[1]] = h.from
      <4>1. 1 \in 1..n /\ 1 - 1 = 0
        BY <1>2
      <4> QED BY <2>2, <3>1, <4>1 DEF Counts, h
    <3>3. f[0] = Len(printed) /\ f[1] \in 0..Len(accepted)
      BY <1>2, <3>1 DEF Counts
    <3>4. Len(printed) + 1 <= Len(accepted) /\ accepted[Len(printed) + 1] = h.from
      BY <1>6, <3>2, <3>3
    <3>5. \A k \in 1..Len(printed') : k = Len(printed) + 1 \/ k \in 1..Len(printed)
      BY <1>6, <2>2
    <3> QED BY <1>2, <1>6, <2>2, <3>4, <3>5 DEF QueueInv, PrintedInOrder
  <2> QED BY <2>1, <2>2
<1>12. ASSUME NEW c \in Senders, NEW k \in 1..n, IsPrinted(c) \/ IsQueued(c, k)
       PROVE  IsPrinted(c)' \/ IsQueued(c, k - 1)'
  <2>1. CASE IsPrinted(c)
    BY <1>6, <2>1 DEF IsPrinted
  <2>2. CASE IsQueued(c, k)
    <3>1. PICK e \in 1..k : IsLine(messages[e]) /\ messages[e].from = c
      BY <2>2 DEF IsQueued
    <3>2. CASE e = 1
      <4>1. Len(printed) + 1 \in 1..Len(printed')
        BY <1>6, <3>1, <3>2 DEF h
      <4> QED BY <1>6, <3>1, <3>2, <4>1 DEF IsPrinted, h
    <3>3. CASE e # 1
      <4>1. e - 1 \in 1..(k - 1) /\ e - 1 \in 1..(n - 1) /\ e - 1 + 1 = e
        BY <3>3
      <4>2. messages'[e - 1] = messages[e]
        BY <1>3, <4>1
      <4> QED BY <3>1, <4>1, <4>2 DEF IsQueued
    <3> QED BY <3>2, <3>3
  <2> QED BY <1>12, <2>1, <2>2
<1>13. OwnInv'
  <2>1. stopper' # NoQueue => IsPrinted(stopper)'
    <3>1. CASE IsLine(h)
      BY <1>2, <1>4, <1>6, <3>1 DEF OwnInv, IsPrinted
    <3>2. CASE ~IsLine(h)
      <4>1. IsPrinted(h.from) \/ IsQueued(h.from, 1 - 1)
        <5>1. 1 \in 1..Len(messages)
          BY <1>1, <1>2
        <5> QED BY <1>2, <3>2, <5>1 DEF OwnInv, h
      <4>2. IsPrinted(h.from)
        BY <4>1 DEF IsQueued
      <4>3. stopper' = h.from /\ printed' = printed
        BY <1>4, <3>2
      <4> QED BY <4>2, <4>3 DEF IsPrinted
    <3> QED BY <3>1, <3>2
  <2>2. ASSUME NEW j \in 1..(n - 1), ~IsLine(messages'[j])
        PROVE  IsPrinted(messages[j].from)' \/ IsQueued(messages[j].from, j - 1)'
    <3>1. PICK c \in Senders : c = messages[j + 1].from
      <4>1. messages[j + 1] \in Message
        BY <1>1, <1>2, ElementOfSeq
      <4> QED BY <4>1 DEF Message
    <3>2. j \in 1..n /\ j + 1 \in 1..n /\ messages'[j] = messages[j + 1] /\ j + 1 - 1 = j
      BY <1>3
    <3>3. IsPrinted(c) \/ IsQueued(c, j)
      BY <1>1, <1>2, <2>2, <3>1, <3>2 DEF OwnInv
    <3>4. IsPrinted(c)' \/ IsQueued(c, j - 1)'
      BY <1>12, <3>2, <3>3
    <3> QED BY <3>1, <3>2, <3>4
  <2>3. ASSUME NEW c \in Senders, sender'[c] = "stop", msqid'[c] = queue'
        PROVE  IsPrinted(c)' \/ IsQueued(c, n - 1)'
    <3>1. IsPrinted(c) \/ IsQueued(c, n)
      BY <1>1, <1>2, <2>3 DEF OwnInv
    <3>2. n \in 1..n
      BY <1>2
    <3> QED BY <1>12, <3>1, <3>2
  <2> QED BY <1>3, <2>1, <2>2, <2>3 DEF OwnInv
<1> QED BY <1>7, <1>8, <1>10, <1>11, <1>13 DEF QueueInv

\* msgsnd() (msg_client.c:34-45): a line, and then a stop behind it
LEMMA Queue_Send ==
  ASSUME QueueInv, NEW c \in Senders, SendFirst(c) \/ SendSecond(c)
  PROVE  QueueInv'
<1>1. PICK n \in Nat : n = Len(messages)
  BY LenProperties DEF QueueInv, QueueTypeOK
<1>2. PICK m \in Message :
        /\ m.from = c /\ messages' = Append(messages, m) /\ msqid[c] = queue
        /\ \/ /\ IsLine(m) /\ sender[c] = "line" /\ sender' = [sender EXCEPT ![c] = "stop"]
              /\ accepted' = Append(accepted, c)
           \/ /\ ~IsLine(m) /\ sender[c] = "stop" /\ sender' = [sender EXCEPT ![c] = "done"]
              /\ accepted' = accepted
  <2>1. CASE SendFirst(c)
    <3>1. [mtype |-> 1, from |-> c] \in Message
      BY DEF Message
    <3> QED BY <2>1, <3>1 DEF SendFirst, SenderAt, SendMessage, Put, TypesSent, IsLine
  <2>2. CASE SendSecond(c)
    <3>1. [mtype |-> 2, from |-> c] \in Message
      BY DEF Message
    <3> QED BY <2>2, <3>1 DEF SendSecond, SenderAt, SendMessage, Put, TypesSent, IsLine
  <2> QED BY <2>1, <2>2
<1>3. /\ messages \in Seq(Message) /\ accepted \in Seq(Senders) /\ printed \in Seq(Senders)
      /\ UNCHANGED <<server, msqid, queue, printed, stopper>>
      /\ QueueTypeOK /\ QueueNames /\ OwnInv /\ PrintedInOrder /\ queue # NoQueue
  <2>1. UNCHANGED <<server, msqid, queue, printed, stopper>>
    BY DEF SendFirst, SendSecond, SendMessage
  <2> QED BY <1>2, <2>1 DEF QueueInv, QueueTypeOK, QueueNames
<1>4. /\ messages' \in Seq(Message) /\ Len(messages') = n + 1
      /\ \A k \in 1..n : k \in 1..(n + 1) /\ messages'[k] = messages[k]
      /\ messages'[n + 1] = m
  <2>1. /\ Append(messages, m) \in Seq(Message) /\ Len(Append(messages, m)) = Len(messages) + 1
        /\ \A k \in 1..Len(messages) : Append(messages, m)[k] = messages[k]
        /\ Append(messages, m)[Len(messages) + 1] = m
    BY <1>3, AppendProperties
  <2> QED BY <1>1, <1>2, <2>1
<1>5. PICK a \in Nat : a = Len(accepted)
  BY <1>3, LenProperties
<1>6. /\ accepted' \in Seq(Senders)
      /\ Len(accepted') = a + (IF IsLine(m) THEN 1 ELSE 0)
      /\ \A k \in 1..a : accepted'[k] = accepted[k]
      /\ IsLine(m) => accepted'[a + 1] = c
  <2>1. CASE IsLine(m)
    <3>1. /\ Append(accepted, c) \in Seq(Senders) /\ Len(Append(accepted, c)) = Len(accepted) + 1
          /\ \A k \in 1..Len(accepted) : Append(accepted, c)[k] = accepted[k]
          /\ Append(accepted, c)[Len(accepted) + 1] = c
      BY <1>3, AppendProperties
    <3> QED BY <1>2, <1>5, <2>1, <3>1
  <2>2. CASE ~IsLine(m)
    BY <1>2, <1>3, <1>5, <2>2
  <2> QED BY <2>1, <2>2
<1>7. QueueTypeOK'
  <2>1. sender' \in [Senders -> {"none", "line", "stop"} \cup QueueEnd]
    BY <1>2, <1>3 DEF QueueTypeOK, QueueEnd
  <2> QED BY <1>3, <1>4, <1>6, <2>1 DEF QueueTypeOK
<1>8. QueueNames'
  <2>1. \A d \in Senders : sender'[d] \in {"line", "stop"} => sender[d] \in {"line", "stop"}
    BY <1>2, <1>3 DEF QueueTypeOK
  <2> QED BY <1>3, <2>1 DEF QueueNames
<1>9. PrintedInOrder'
  <2>1. PICK p \in Nat : p = Len(printed)
    BY <1>3, LenProperties
  <2>2. p <= a /\ \A k \in 1..p : printed[k] = accepted[k]
    BY <1>3, <1>5, <2>1 DEF PrintedInOrder
  <2>3. Len(printed') = p /\ \A k \in 1..p : k \in 1..a
    BY <1>3, <2>1, <2>2
  <2>4. p <= Len(accepted') /\ \A k \in 1..p : printed'[k] = accepted'[k]
    <3>1. a <= Len(accepted')
      BY <1>6
    <3>2. \A k \in 1..p : accepted'[k] = accepted[k]
      BY <1>6, <2>3
    <3> QED BY <1>3, <2>1, <2>2, <3>1, <3>2
  <2> QED BY <2>3, <2>4 DEF PrintedInOrder
<1>10. \E g : Counts(g, n + 1)'
  <2>1. PICK f : Counts(f, n)
    BY <1>1, <1>3 DEF QueueInv, RestIsQueued
  <2>2. PICK b \in Nat : b = Len(accepted') /\ a <= b /\ b = a + (IF IsLine(m) THEN 1 ELSE 0)
    BY <1>6
  <2> DEFINE g == [j \in 0..(n + 1) |-> IF j = n + 1 THEN b ELSE f[j]]
  <2>3. /\ f \in [0..n -> 0..a] /\ f[0] = Len(printed) /\ f[n] = a
    BY <1>5, <2>1 DEF Counts
  <2>4. g \in [0..(n + 1) -> 0..b]
    <3>1. \A j \in 0..(n + 1) : j # n + 1 => j \in 0..n
      OBVIOUS
    <3>2. \A j \in 0..n : f[j] \in 0..b
      BY <2>2, <2>3
    <3> QED BY <3>1, <3>2
  <2>5. g[0] = f[0] /\ g[n + 1] = b /\ g[n] = a
    BY <2>3
  <2>6. ASSUME NEW j \in 1..(n + 1)
        PROVE  /\ IsLine(messages'[j]) => g[j] = g[j - 1] + 1
                                           /\ accepted'[g[j]] = messages'[j].from
               /\ ~IsLine(messages'[j]) => g[j] = g[j - 1]
    <3>1. CASE j = n + 1
      <4>1. messages'[j] = m /\ g[j] = b /\ g[j - 1] = a
        <5>1. j - 1 = n
          BY <3>1
        <5> HIDE DEF g
        <5> QED BY <1>4, <2>5, <3>1, <5>1
      <4> HIDE DEF g
      <4> QED BY <1>2, <1>6, <2>2, <4>1
    <3>2. CASE j # n + 1
      <4>1. j \in 1..n /\ messages'[j] = messages[j] /\ g[j] = f[j] /\ g[j - 1] = f[j - 1]
        BY <1>4, <3>2
      <4>2. f[j] \in 0..a /\ f[j - 1] \in 0..a
        BY <2>3, <4>1
      <4>3. /\ IsLine(messages[j]) => f[j] = f[j - 1] + 1 /\ accepted[f[j]] = messages[j].from
            /\ ~IsLine(messages[j]) => f[j] = f[j - 1]
        BY <2>1, <4>1 DEF Counts
      <4>4. IsLine(messages[j]) => f[j] \in 1..a
        BY <4>2, <4>3
      <4> HIDE DEF g
      <4> QED BY <1>6, <4>1, <4>3, <4>4
    <3> QED BY <3>1, <3>2
  <2> HIDE DEF g
  <2>7. Counts(g, n + 1)'
    <3>1. n + 1 \in Nat
      OBVIOUS
    <3> QED BY <1>3, <2>2, <2>3, <2>4, <2>5, <2>6, <3>1 DEF Counts
  <2> QED BY <2>7
<1>11. RestIsQueued'
  BY <1>4, <1>10 DEF RestIsQueued
<1>12. ASSUME NEW d \in Senders, NEW k \in 0..n, IsPrinted(d) \/ IsQueued(d, k)
       PROVE  IsPrinted(d)' \/ IsQueued(d, k)'
  <2>1. CASE IsPrinted(d)
    BY <1>3, <2>1 DEF IsPrinted
  <2>2. CASE IsQueued(d, k)
    <3>1. PICK e \in 1..k : IsLine(messages[e]) /\ messages[e].from = d
      BY <2>2 DEF IsQueued
    <3>2. e \in 1..n /\ messages'[e] = messages[e]
      BY <1>4, <3>1
    <3> QED BY <3>1, <3>2 DEF IsQueued
  <2> QED BY <1>12, <2>1, <2>2
<1>13. OwnInv'
  <2>1. stopper' # NoQueue => IsPrinted(stopper)'
    BY <1>3 DEF OwnInv, IsPrinted
  <2>2. ~IsLine(m) => IsPrinted(c)' \/ IsQueued(c, n)'
    <3>1. ~IsLine(m) => IsPrinted(c) \/ IsQueued(c, n)
      BY <1>1, <1>2, <1>3 DEF OwnInv
    <3> QED BY <1>12, <3>1
  <2>3. IsLine(m) => IsQueued(c, n + 1)'
    <3>1. n + 1 \in 1..(n + 1)
      OBVIOUS
    <3> QED BY <1>2, <1>4, <3>1 DEF IsQueued
  <2>4. ASSUME NEW j \in 1..(n + 1), ~IsLine(messages'[j])
        PROVE  IsPrinted(messages[j].from)' \/ IsQueued(messages[j].from, j - 1)'
    <3>1. CASE j = n + 1
      <4>1. messages'[j].from = c /\ j - 1 = n /\ ~IsLine(m)
        BY <1>2, <1>4, <2>4, <3>1
      <4> QED BY <2>2, <4>1
    <3>2. CASE j # n + 1
      <4>1. j \in 1..n /\ messages'[j] = messages[j] /\ j - 1 \in 0..n
        BY <1>4, <3>2
      <4>2. PICK d \in Senders : d = messages[j].from
        <5>1. messages[j] \in Message
          BY <1>1, <1>3, <4>1, ElementOfSeq
        <5> QED BY <5>1 DEF Message
      <4>3. IsPrinted(d) \/ IsQueued(d, j - 1)
        BY <1>1, <1>3, <2>4, <4>1, <4>2 DEF OwnInv
      <4>4. IsPrinted(d)' \/ IsQueued(d, j - 1)'
        BY <1>12, <4>1, <4>3
      <4> QED BY <4>1, <4>2, <4>4
    <3> QED BY <3>1, <3>2
  <2>5. ASSUME NEW d \in Senders, sender'[d] = "stop", msqid'[d] = queue'
        PROVE  IsPrinted(d)' \/ IsQueued(d, n + 1)'
    <3>1. CASE d = c
      <4>1. IsLine(m)
        BY <1>2, <1>3, <2>5, <3>1 DEF QueueTypeOK
      <4> QED BY <2>3, <3>1, <4>1
    <3>2. CASE d # c
      <4>1. sender[d] = "stop" /\ msqid[d] = queue
        BY <1>2, <1>3, <2>5, <3>2 DEF QueueTypeOK
      <4>2. IsPrinted(d) \/ IsQueued(d, n)
        BY <1>1, <1>3, <4>1 DEF OwnInv
      <4>3. n \in 0..n /\ \A k \in 1..n : k \in 1..(n + 1)
        OBVIOUS
      <4>4. IsPrinted(d)' \/ IsQueued(d, n)'
        BY <1>12, <4>2, <4>3
      <4> QED BY <4>3, <4>4 DEF IsQueued
    <3> QED BY <3>1, <3>2
  <2> QED BY <1>4, <2>1, <2>4, <2>5 DEF OwnInv
<1> QED BY <1>7, <1>8, <1>9, <1>11, <1>13 DEF QueueInv

\* every step of any number of servers and clients preserves the invariant
LEMMA Queue_Next == QueueInv /\ [QueueNext]_queuevars => QueueInv'
<1> SUFFICES ASSUME QueueInv, [QueueNext]_queuevars PROVE QueueInv'
  OBVIOUS
<1>1. CASE \E s \in 1..Servers :
             CreateQueue(s) \/ QueueExists(s) \/ QueueServerStep(s) \/ KillServer(s)
  BY <1>1, Queue_Create, Queue_Remove, Queue_Receive, Queue_Other DEF QueueServerStep
<1>2. CASE \E c \in Senders : FindQueue(c) \/ QueueSenderStep(c) \/ KillSender(c)
  <2>1. PICK c \in Senders : FindQueue(c) \/ QueueSenderStep(c) \/ KillSender(c)
    BY <1>2
  <2>2. CASE SendFirst(c) \/ SendSecond(c)
    BY <2>2, Queue_Send
  <2>3. CASE FindQueue(c) \/ QueueIsGone(c) \/ KillSender(c)
    BY <2>3, Queue_Other
  <2> QED BY <2>1, <2>2, <2>3 DEF QueueSenderStep
<1>3. CASE UNCHANGED queuevars
  <2>1. QueueTypeOK' /\ QueueNames' /\ PrintedInOrder'
    BY <1>3 DEF queuevars, QueueInv, QueueTypeOK, QueueNames, PrintedInOrder
  <2>2. RestIsQueued'
    <3>1. RestIsQueued /\ UNCHANGED <<queue, messages, accepted, printed>>
      BY <1>3 DEF queuevars, QueueInv
    <3>2. ASSUME NEW f, Counts(f, Len(messages)) PROVE Counts(f, Len(messages))'
      BY <3>1, <3>2 DEF Counts
    <3> QED BY <3>1, <3>2 DEF RestIsQueued
  <2>3. OwnInv'
    BY <1>3 DEF queuevars, QueueInv, OwnInv, IsPrinted, IsQueued
  <2> QED BY <2>1, <2>2, <2>3 DEF QueueInv
<1> QED BY <1>1, <1>2, <1>3 DEF QueueNext

\* Lines are printed once and in the order the queue took them, and the client whose
\* stop ends the server has had its own printed (msg_server.c:24, msg_client.c:34-45),
\* whatever is killed and whatever a killed server has left in the queue.
THEOREM QueueOwnLineFirst == QueueSpec => []OwnLineFirst
<1> QED BY Queue_Init, Queue_Next, Queue_OwnLineFirst, PTL DEF QueueSpec

-----------------------------------------------------------------------------
(* The sensor console.                                                     *)

\* A sensor measures only while the program waits for it
OnlyAwaited == \A d \in Sensor : oneshot[d] = 1 => d = key /\ console = "wait"

\* What is not on its way any more has come
HasSample ==
  ~busfault => /\ console = "wait" /\ oneshot[key] = 0 => fresh
               /\ console \in {"read", "show"} => fresh

\* What has been read is the beginning of what the registers hold now
ReadSoFar ==
  /\ console \notin {"read", "show"} => bytes = <<>>
  /\ console = "show" => Len(bytes) = Len(Registers(key))
  /\ ~busfault => \A k \in 1..Len(bytes) : bytes[k] = Registers(key)[k]

ConsoleInv == ConsoleTypeOK /\ OnlyAwaited /\ HasSample /\ ReadSoFar

\* Two bytes are enough for a short, whatever its sign
LEMMA DivMod ==
  ASSUME NEW v \in Int
  PROVE  /\ v = 256 * (v \div 256) + (v % 256) /\ v \div 256 \in Int
         /\ v % 256 \in Int /\ 0 <= v % 256 /\ v % 256 < 256
OBVIOUS

LEMMA Byte ==
  ASSUME NEW v \in Int
  PROVE  Hi(v) \in Under(256) /\ Lo(v) \in Under(256)
<1>1. PICK q \in Int : q = v \div 256
  BY DivMod
<1>2. PICK h \in Int : h = q % 256 /\ 0 <= h /\ h < 256
  BY DivMod
<1>3. PICK l \in Int : l = v % 256 /\ 0 <= l /\ l < 256
  BY DivMod
<1>4. Hi(v) = h /\ Lo(v) = l
  BY <1>1, <1>2, <1>3 DEF Hi, Lo
<1> QED BY <1>2, <1>3, <1>4 DEF Under

LEMMA Short_HiLo ==
  ASSUME NEW v \in Int16
  PROVE  Short(Hi(v), Lo(v)) = v
<1>0. v \in Int /\ -32768 <= v /\ v < 32768
  BY DEF Int16
<1>1. PICK q \in Int : q = v \div 256
  BY <1>0, DivMod
<1>2. PICK h \in Int : h = q % 256 /\ 0 <= h /\ h < 256
  BY DivMod
<1>3. PICK l \in Int : l = v % 256 /\ 0 <= l /\ l < 256
  BY <1>0, DivMod
<1>4. v = 256 * q + l
  BY <1>0, <1>1, <1>3, DivMod
<1>5. PICK d \in Int : q = 256 * d + h
  BY <1>2, DivMod
<1>6. -128 <= q /\ q <= 127
  BY <1>0, <1>3, <1>4
<1>7. h = IF q < 0 THEN q + 256 ELSE q
  BY <1>2, <1>5, <1>6
<1>8. Hi(v) = h /\ Lo(v) = l
  BY <1>1, <1>2, <1>3 DEF Hi, Lo
<1> QED BY <1>0, <1>3, <1>4, <1>6, <1>7, <1>8 DEF Short

\* Three bytes are enough for 24 bits
LEMMA ThreeBytes ==
  ASSUME NEW v \in Under(16777216)
  PROVE  /\ Lo(v) \in Under(256) /\ Hi(v) \in Under(256) /\ Upper(v) \in Under(256)
         /\ Upper(v) * 65536 + Hi(v) * 256 + Lo(v) = v
<1>1. v \in Int /\ 0 <= v /\ v < 16777216
  BY DEF Under
<1>2. PICK q \in Int : q = v \div 256
  BY <1>1, DivMod
<1>3. PICK l \in Int : l = v % 256 /\ 0 <= l /\ l < 256 /\ v = 256 * q + l
  BY <1>1, <1>2, DivMod
<1>4. PICK r \in Int : r = q \div 256
  BY DivMod
<1>5. PICK h \in Int : h = q % 256 /\ 0 <= h /\ h < 256 /\ q = 256 * r + h
  BY <1>4, DivMod
<1>6. 0 <= r /\ r < 256
  BY <1>1, <1>3, <1>5
<1>7. r % 256 = r
  BY <1>6
<1>8. Lo(v) = l /\ Hi(v) = h /\ Upper(v) = r
  BY <1>2, <1>3, <1>4, <1>5, <1>7 DEF Lo, Hi, Upper
<1>9. r * 65536 + h * 256 + l = v
  BY <1>3, <1>5
<1> QED BY <1>3, <1>5, <1>6, <1>8, <1>9 DEF Under

\* the two forms of the line through two points
Straight(x, x0, y0, x1, y1) == OnLine(x, x0, y0, x1, y1) = y0 * (x1 - x) + y1 * (x - x0)
LEMMA OnLine_Points ==
  \A x, x0, y0, x1, y1 \in Int : Straight(x, x0, y0, x1, y1)
BY DEF Straight, OnLine

\* a number of ten bits has two in its high byte
LEMMA TenBits ==
  ASSUME NEW v \in Under(1024)
  PROVE  \E q \in Int, l \in Int : /\ q = Hi(v) /\ l = Lo(v) /\ 0 <= q /\ q <= 3
                                  /\ v = 256 * q + l
<1>1. v \in Int /\ 0 <= v /\ v < 1024
  BY DEF Under
<1>2. PICK q \in Int, l \in Int : /\ q = v \div 256 /\ l = v % 256 /\ 0 <= q /\ q <= 3
                                /\ v = 256 * q + l
  BY <1>1, DivMod
<1>3. Hi(v) = q /\ Lo(v) = l
  BY <1>2 DEF Hi, Lo
<1> QED BY <1>2, <1>3

\* the two bits above the low byte of each calibration point, in one register
LEMMA TenthBits ==
  ASSUME NEW v \in Under(1024), NEW w \in Under(1024), NEW y, y = Hi(v) + 4 * Hi(w)
  PROVE  /\ (y % 4) * 256 + Lo(v) = v
         /\ ((y % 16) \div 4) * 256 + Lo(w) = w
<1>1. PICK q \in Int, l \in Int : /\ q = Hi(v) /\ l = Lo(v) /\ 0 <= q /\ q <= 3
                                /\ v = 256 * q + l
  BY TenBits
<1>2. PICK r \in Int, m \in Int : /\ r = Hi(w) /\ m = Lo(w) /\ 0 <= r /\ r <= 3
                                /\ w = 256 * r + m
  BY TenBits
<1>3. PICK x \in Int : x = y /\ x = q + 4 * r
  <2>1. q + 4 * r \in Int
    OBVIOUS
  <2>2. y = q + 4 * r
    BY <1>1, <1>2, Zenon
  <2> QED BY <2>1, <2>2
<1>4. x = q + 4 * r /\ 0 <= q /\ q <= 3 /\ 0 <= r /\ r <= 3
  BY <1>1, <1>2, <1>3
<1>5. x % 4 = q /\ x % 16 = x /\ x \div 4 = r
  <2>1. x % 4 = q
    BY <1>4
  <2>2. x % 16 = x
    <3>1. 0 <= x /\ x < 16
      BY <1>4
    <3> QED BY <3>1
  <2>3. x \div 4 = r
    BY <1>4
  <2> QED BY <2>1, <2>2, <2>3
<1>6. y % 4 = q /\ (y % 16) \div 4 = r
  BY <1>3, <1>5
<1> QED BY <1>1, <1>2, <1>6

LEMMA Registers_Type ==
  ASSUME ConsoleTypeOK, NEW d \in Sensor
  PROVE  /\ Registers(d) \in Seq(Under(256))
         /\ Len(Registers(d)) = IF d = "p" THEN 5 ELSE 17
<1>1. /\ sample[d].temp \in Int16 /\ sample[d].humid \in Int16
      /\ sample[d].press \in Under(16777216)
      /\ chip.t0 \in Under(1024) /\ chip.t1 \in Under(1024)
      /\ chip.h0 \in Under(256) /\ chip.h1 \in Under(256)
      /\ chip.t0out \in Int16 /\ chip.t1out \in Int16
      /\ chip.h0out \in Int16 /\ chip.h1out \in Int16
  BY SampleAssumption DEF ConsoleTypeOK
<1>2. Hi(chip.t0) + 4 * Hi(chip.t1) \in Under(256)
  <2>1. Hi(chip.t0) \in 0..3 /\ Hi(chip.t1) \in 0..3
    BY <1>1, TenBits
  <2> QED BY <2>1 DEF Under
<1>3. \A v \in {sample[d].temp, sample[d].humid, chip.t0out, chip.t1out, chip.h0out, chip.h1out,
                chip.t0, chip.t1} :
        Hi(v) \in Under(256) /\ Lo(v) \in Under(256)
  <2>1. \A v \in Int : Hi(v) \in Under(256) /\ Lo(v) \in Under(256)
    BY Byte
  <2>2. \A v : v \in Int16 \/ v \in Under(1024) => v \in Int
    BY DEF Int16, Under
  <2> QED BY <1>1, <2>1, <2>2
<1>4. /\ Lo(sample[d].press) \in Under(256) /\ Hi(sample[d].press) \in Under(256)
      /\ Upper(sample[d].press) \in Under(256)
  BY <1>1, ThreeBytes
<1>5. CASE d = "p"
  BY <1>3, <1>4, <1>5 DEF Registers
<1>6. CASE d # "p"
  BY <1>1, <1>2, <1>3, <1>6 DEF Registers
<1> QED BY <1>5, <1>6

LEMMA Console_Init == ConsoleInit => ConsoleInv
<1> SUFFICES ASSUME ConsoleInit PROVE ConsoleInv
  OBVIOUS
<1>1. Len(<<>>) = 0 /\ <<>> \in Seq(Under(256))
  BY EmptySeq
<1>2. ConsoleTypeOK
  BY <1>1 DEF ConsoleInit, ConsoleTypeOK, Sensor
<1>3. OnlyAwaited /\ HasSample /\ ReadSoFar
  BY <1>1 DEF ConsoleInit, OnlyAwaited, HasSample, ReadSoFar
<1> QED BY <1>2, <1>3 DEF ConsoleInv

\* one step of the program other than a read, a switch or a key
LEMMA Console_Measure ==
  ASSUME ConsoleInv, PowerOff \/ PowerOn \/ StartSample \/ WaitSample \/ Compute \/ ShowReading
  PROVE  ConsoleInv'
<1>1. ConsoleTypeOK /\ OnlyAwaited /\ HasSample /\ ReadSoFar /\ key' = key /\ key \in Sensor
      /\ sample' = sample /\ chip' = chip
  BY DEF ConsoleInv, ConsoleTypeOK, PowerOff, PowerOn, StartSample, WaitSample, Compute, ShowReading
<1>2. Registers(key)' = Registers(key)
  BY <1>1 DEF Registers
<1>3. Len(<<>>) = 0 /\ <<>> \in Seq(Under(256))
  BY EmptySeq
<1>4. CASE PowerOff \/ PowerOn
  <2>1. /\ power' \in [Sensor -> {0, 1}] /\ console' \in {"on", "start"}
        /\ console \in {"off", "on"} /\ UNCHANGED <<oneshot, bytes, fresh>> /\ busfault' \in BOOLEAN
    BY <1>1, <1>4 DEF PowerOff, PowerOn, ConsoleAt, WriteReg, BusFails, ConsoleTypeOK
  <2>2. ConsoleTypeOK'
    BY <1>1, <2>1 DEF ConsoleTypeOK
  <2> QED BY <1>1, <1>3, <2>1, <2>2 DEF ConsoleInv, OnlyAwaited, HasSample, ReadSoFar
<1>5. CASE StartSample
  <2>1. /\ oneshot' \in [Sensor -> {0, 1}] /\ console' = "wait" /\ console = "start"
        /\ UNCHANGED <<power, bytes, fresh>> /\ busfault' \in BOOLEAN
        /\ \A d \in Sensor : d # key => oneshot'[d] = oneshot[d]
        /\ busfault' = FALSE => oneshot'[key] = 1
    BY <1>1, <1>5 DEF StartSample, ConsoleAt, WriteReg, BusFails, ConsoleTypeOK
  <2>2. ConsoleTypeOK'
    BY <1>1, <2>1 DEF ConsoleTypeOK
  <2> QED BY <1>1, <1>3, <2>1, <2>2 DEF ConsoleInv, OnlyAwaited, HasSample, ReadSoFar
<1>6. CASE WaitSample \/ Compute
  <2>1. /\ UNCHANGED <<power, oneshot, bytes, fresh, busfault>>
        /\ \/ console = "wait" /\ console' = "read" /\ oneshot[key] = 0
           \/ console = "read" /\ console' = "show" /\ Len(bytes) = Len(Registers(key))
    BY <1>6 DEF WaitSample, SampleReady, Compute, ConsoleAt
  <2>2. ConsoleTypeOK'
    BY <1>1, <2>1 DEF ConsoleTypeOK
  <2>3. OnlyAwaited' /\ HasSample'
    BY <1>1, <2>1 DEF OnlyAwaited, HasSample
  <2>4. ReadSoFar'
    BY <1>1, <1>2, <1>3, <2>1 DEF ReadSoFar
  <2> QED BY <2>2, <2>3, <2>4 DEF ConsoleInv
<1>7. CASE ShowReading
  <2>1. /\ UNCHANGED <<power, oneshot>> /\ console = "show" /\ console' = "key"
        /\ bytes' = <<>> /\ fresh' = FALSE /\ busfault' = FALSE
    BY <1>7 DEF ShowReading, ConsoleAt
  <2>2. ConsoleTypeOK'
    BY <1>1, <1>3, <2>1 DEF ConsoleTypeOK
  <2> QED BY <1>1, <1>3, <2>1, <2>2 DEF ConsoleInv, OnlyAwaited, HasSample, ReadSoFar
<1> QED BY <1>4, <1>5, <1>6, <1>7

\* wiringPiI2CReadReg8() (rpi4.c:186-192): the next register, or 255 after a failure
LEMMA Console_Read ==
  ASSUME ConsoleInv, ReadReg
  PROVE  ConsoleInv'
<1>1. /\ ConsoleTypeOK /\ OnlyAwaited /\ HasSample /\ ReadSoFar /\ key \in Sensor
      /\ UNCHANGED <<console, key, power, oneshot, sample, chip, fresh>> /\ console = "read"
      /\ bytes \in Seq(Under(256))
  BY DEF ConsoleInv, ConsoleTypeOK, ReadReg
<1>2. Registers(key)' = Registers(key)
  BY <1>1 DEF Registers
<1>3. PICK n \in Nat : n = Len(bytes)
  BY <1>1, LenProperties
<1>4. Registers(key) \in Seq(Under(256))
  BY <1>1, Registers_Type
<1>5. PICK x \in Under(256) :
        /\ bytes' = Append(bytes, x) /\ busfault' \in BOOLEAN
        /\ busfault' = FALSE => busfault = FALSE /\ x = Registers(key)[n + 1]
  <2>1. Registers(key)[n + 1] \in Under(256)
    <3>1. n + 1 \in 1..Len(Registers(key))
      <4>1. Len(Registers(key)) \in Nat /\ n < Len(Registers(key))
        BY <1>3, <1>4, LenProperties DEF ReadReg
      <4> QED BY <4>1
    <3> QED BY <1>4, <3>1, ElementOfSeq
  <2>2. 255 \in Under(256)
    BY DEF Under
  <2>3. CASE busfault' = busfault /\ bytes' = Append(bytes, Registers(key)[n + 1])
    BY <1>1, <2>1, <2>3 DEF ConsoleTypeOK
  <2>4. CASE busfault' = TRUE /\ bytes' = Append(bytes, 255)
    BY <2>2, <2>4
  <2> QED BY <1>3, <2>3, <2>4 DEF ReadReg, BusFails
<1>6. /\ bytes' \in Seq(Under(256)) /\ Len(bytes') = n + 1 /\ bytes'[n + 1] = x
      /\ \A k \in 1..n : bytes'[k] = bytes[k]
  <2>1. /\ Append(bytes, x) \in Seq(Under(256)) /\ Len(Append(bytes, x)) = Len(bytes) + 1
        /\ \A k \in 1..Len(bytes) : Append(bytes, x)[k] = bytes[k]
        /\ Append(bytes, x)[Len(bytes) + 1] = x
    BY <1>1, AppendProperties
  <2> QED BY <1>3, <1>5, <2>1
<1>7. ConsoleTypeOK'
  BY <1>1, <1>5, <1>6 DEF ConsoleTypeOK
<1>8. OnlyAwaited' /\ HasSample'
  BY <1>1, <1>5, <1>7 DEF OnlyAwaited, HasSample, ConsoleTypeOK
<1>9. ReadSoFar'
  <2>1. ASSUME busfault' = FALSE, NEW k \in 1..(n + 1)
        PROVE  bytes'[k] = Registers(key)[k]
    <3>1. CASE k = n + 1
      BY <1>5, <1>6, <2>1, <3>1
    <3>2. CASE k # n + 1
      BY <1>1, <1>3, <1>5, <1>6, <2>1, <3>2 DEF ReadSoFar
    <3> QED BY <3>1, <3>2
  <2>2. ~busfault' => \A k \in 1..Len(bytes') : bytes'[k] = Registers(key)'[k]
    BY <1>2, <1>5, <1>6, <2>1
  <2> QED BY <1>1, <2>2 DEF ReadSoFar
<1> QED BY <1>7, <1>8, <1>9 DEF ConsoleInv

\* a key is pressed, or a sensor takes its sample, which it does only while waited for
LEMMA Console_Other ==
  ASSUME ConsoleInv, PressQuit \/ \E d \in Sensor : PressKey(d) \/ TakeSample(d)
  PROVE  ConsoleInv'
<1>1. ConsoleTypeOK /\ OnlyAwaited /\ HasSample /\ ReadSoFar
  BY DEF ConsoleInv
<1>2. Len(<<>>) = 0
  OBVIOUS
<1>3. CASE PressQuit
  <2>1. /\ console = "key" /\ console' = "over"
        /\ UNCHANGED <<key, oneshot, sample, chip, bytes, fresh, busfault>>
    BY <1>3 DEF PressQuit, ConsoleAt
  <2>2. power' \in [Sensor -> {0, 1}]
    BY <1>1, <1>3 DEF PressQuit, ConsoleTypeOK, Sensor
  <2> QED BY <1>1, <1>2, <2>1, <2>2 DEF ConsoleInv, ConsoleTypeOK, OnlyAwaited, HasSample, ReadSoFar
<1>4. ASSUME NEW d \in Sensor, PressKey(d)
      PROVE  ConsoleInv'
  <2>1. /\ console = "key" /\ console' = "off" /\ key' = d
        /\ UNCHANGED <<power, oneshot, sample, chip, bytes, fresh, busfault>>
    BY <1>4 DEF PressKey, ConsoleAt
  <2> QED BY <1>1, <1>2, <2>1 DEF ConsoleInv, ConsoleTypeOK, OnlyAwaited, HasSample, ReadSoFar
<1>5. ASSUME NEW d \in Sensor, TakeSample(d)
      PROVE  ConsoleInv'
  <2>1. /\ d = key /\ console = "wait" /\ bytes = <<>>
        /\ oneshot' = [oneshot EXCEPT ![d] = 0]
        /\ \E s \in Samples : sample' = [sample EXCEPT ![d] = s]
        /\ fresh' = TRUE /\ UNCHANGED <<console, key, power, chip, bytes, busfault>>
    BY <1>1, <1>5 DEF TakeSample, OnlyAwaited, ReadSoFar
  <2>2. sample' \in [Sensor -> Samples] /\ oneshot' \in [Sensor -> {0, 1}]
    BY <1>1, <2>1 DEF ConsoleTypeOK
  <2>3. ConsoleTypeOK'
    BY <1>1, <2>1, <2>2 DEF ConsoleTypeOK
  <2>4. \A e \in Sensor : oneshot'[e] = 1 => oneshot[e] = 1
    BY <1>1, <2>1 DEF ConsoleTypeOK
  <2> QED BY <1>1, <1>2, <2>1, <2>3, <2>4 DEF ConsoleInv, OnlyAwaited, HasSample, ReadSoFar
<1> QED BY <1>3, <1>4, <1>5

LEMMA Console_Next == ConsoleInv /\ [ConsoleNext]_sensorvars => ConsoleInv'
<1> SUFFICES ASSUME ConsoleInv, [ConsoleNext]_sensorvars PROVE ConsoleInv'
  OBVIOUS
<1>1. CASE ConsoleNext
  BY <1>1, Console_Measure, Console_Read, Console_Other DEF ConsoleNext, MeasureStep
<1>2. CASE UNCHANGED sensorvars
  BY <1>2 DEF sensorvars, ConsoleInv, ConsoleTypeOK, OnlyAwaited, HasSample, ReadSoFar, Registers
<1> QED BY <1>1, <1>2

\* What getPressure() and getTemperature() make of the registers (rpi4.c:195, 256-279)
LEMMA Console_Reading ==
  ASSUME ConsoleTypeOK, NEW d \in Sensor, NEW b,
         \A k \in 1..Len(Registers(d)) : b[k] = Registers(d)[k]
  PROVE  LET s == sample[d]
             r == Reading(d, b)
         IN  IF d = "p" THEN r = [temp |-> s.temp, press |-> s.press]
             ELSE /\ r.temp  = chip.t0 * (chip.t1out - s.temp) + chip.t1 * (s.temp - chip.t0out)
                  /\ r.humid = chip.h0 * (chip.h1out - s.humid) + chip.h1 * (s.humid - chip.h0out)
<1> DEFINE s == sample[d]
<1>1. /\ s.temp \in Int16 /\ s.humid \in Int16 /\ s.press \in Under(16777216)
      /\ chip.t0 \in Under(1024) /\ chip.t1 \in Under(1024)
      /\ chip.h0 \in Under(256) /\ chip.h1 \in Under(256)
      /\ chip.t0out \in Int16 /\ chip.t1out \in Int16
      /\ chip.h0out \in Int16 /\ chip.h1out \in Int16
  BY SampleAssumption DEF ConsoleTypeOK
<1>3. \A v \in Int16 : Short(Hi(v), Lo(v)) = v
  BY Short_HiLo
<1>4. Upper(s.press) * 65536 + Hi(s.press) * 256 + Lo(s.press) = s.press
  BY <1>1, ThreeBytes
<1>5. \A v : v \in Int16 \/ v \in Under(256) \/ v \in Under(1024) => v \in Int
  BY DEF Int16, Under
<1>6. CASE d = "p"
  <2>1. Registers(d) = <<Lo(s.temp), Hi(s.temp), Lo(s.press), Hi(s.press), Upper(s.press)>>
    BY <1>6 DEF Registers
  <2>2. /\ b[1] = Lo(s.temp) /\ b[2] = Hi(s.temp)
        /\ b[3] = Lo(s.press) /\ b[4] = Hi(s.press) /\ b[5] = Upper(s.press)
    BY <2>1
  <2>3. Short(b[2], b[1]) = s.temp
    BY <1>1, <1>3, <2>2
  <2>4. b[5] * 65536 + b[4] * 256 + b[3] = s.press
    BY <1>4, <2>2
  <2>5. Reading(d, b) = [temp |-> s.temp, press |-> s.press]
    BY <1>6, <2>3, <2>4 DEF Reading
  <2> QED BY <1>6, <2>5
<1>7. CASE d # "p"
  <2>1. /\ b[1] = Lo(chip.t0out) /\ b[2] = Hi(chip.t0out)
        /\ b[3] = Lo(chip.t1out) /\ b[4] = Hi(chip.t1out)
        /\ b[5] = Lo(chip.t0) /\ b[6] = Lo(chip.t1) /\ b[7] = Hi(chip.t0) + 4 * Hi(chip.t1)
        /\ b[8] = Lo(chip.h0out) /\ b[9] = Hi(chip.h0out)
        /\ b[10] = Lo(chip.h1out) /\ b[11] = Hi(chip.h1out) /\ b[12] = chip.h0 /\ b[13] = chip.h1
        /\ b[14] = Lo(s.temp) /\ b[15] = Hi(s.temp) /\ b[16] = Lo(s.humid) /\ b[17] = Hi(s.humid)
    BY <1>7 DEF Registers
  <2>2. /\ (b[7] % 4) * 256 + b[5] = chip.t0
        /\ ((b[7] % 16) \div 4) * 256 + b[6] = chip.t1
    <3>1. b[7] = Hi(chip.t0) + 4 * Hi(chip.t1)
      BY <2>1
    <3>2. /\ (b[7] % 4) * 256 + Lo(chip.t0) = chip.t0
          /\ ((b[7] % 16) \div 4) * 256 + Lo(chip.t1) = chip.t1
      <4>1. chip.t0 \in Under(1024) /\ chip.t1 \in Under(1024)
        BY <1>1
      <4> QED BY <3>1, <4>1, TenthBits
    <3> QED BY <2>1, <3>2
  <2>3. /\ Short(b[2], b[1]) = chip.t0out /\ Short(b[4], b[3]) = chip.t1out
        /\ Short(b[9], b[8]) = chip.h0out /\ Short(b[11], b[10]) = chip.h1out
        /\ Short(b[15], b[14]) = s.temp /\ Short(b[17], b[16]) = s.humid
    BY <1>1, <1>3, <2>1
  <2>4. Reading(d, b) = [temp  |-> OnLine(s.temp, chip.t0out, chip.t0, chip.t1out, chip.t1),
                         humid |-> OnLine(s.humid, chip.h0out, chip.h0, chip.h1out, chip.h1)]
    BY <1>7, <2>1, <2>2, <2>3 DEF Reading
  <2>5. /\ OnLine(s.temp, chip.t0out, chip.t0, chip.t1out, chip.t1)
             = chip.t0 * (chip.t1out - s.temp) + chip.t1 * (s.temp - chip.t0out)
        /\ OnLine(s.humid, chip.h0out, chip.h0, chip.h1out, chip.h1)
             = chip.h0 * (chip.h1out - s.humid) + chip.h1 * (s.humid - chip.h0out)
    <3>1. /\ chip.t0out \in Int /\ chip.t1out \in Int /\ chip.h0out \in Int /\ chip.h1out \in Int
          /\ chip.t0 \in Int /\ chip.t1 \in Int /\ chip.h0 \in Int /\ chip.h1 \in Int
          /\ s.temp \in Int /\ s.humid \in Int
      <4>1. chip.t0out \in Int /\ chip.t1out \in Int /\ chip.h0out \in Int /\ chip.h1out \in Int
        BY <1>1, <1>5
      <4>2. chip.t0 \in Int /\ chip.t1 \in Int /\ chip.h0 \in Int /\ chip.h1 \in Int
        BY <1>1, <1>5
      <4>3. s.temp \in Int /\ s.humid \in Int
        BY <1>1, <1>5
      <4> QED BY <4>1, <4>2, <4>3
    <3> HIDE DEF s
    <3>2. /\ Straight(s.temp, chip.t0out, chip.t0, chip.t1out, chip.t1)
          /\ Straight(s.humid, chip.h0out, chip.h0, chip.h1out, chip.h1)
      BY <3>1, OnLine_Points
    <3> QED BY <3>2 DEF Straight
  <2> QED BY <1>7, <2>4, <2>5
<1> QED BY <1>6, <1>7

LEMMA Console_Shows == ConsoleInv => ReadingIsSample
<1> SUFFICES ASSUME ConsoleInv, console = "show", ~busfault PROVE ReadingIsSample
  BY DEF ReadingIsSample
<1>1. /\ fresh /\ ConsoleTypeOK /\ key \in Sensor
      /\ \A k \in 1..Len(Registers(key)) : bytes[k] = Registers(key)[k]
  BY DEF ConsoleInv, HasSample, ReadSoFar, ConsoleTypeOK
<1> QED BY <1>1, Console_Reading DEF ReadingIsSample

\* Without a failed transfer, what is printed is one sample taken after the key was
\* pressed, with its sign and on the line through the calibration points (rpi4.c:195,
\* 256-279), whatever a sensor measures and an HTS221 is calibrated to, also after a
\* failure of an earlier key.
THEOREM ConsoleReadingIsSample == ConsoleSpec => []ReadingIsSample
<1> QED BY Console_Init, Console_Next, Console_Shows, PTL DEF ConsoleSpec

-----------------------------------------------------------------------------
(* Shared memory and its semaphore.                                        *)

\* A launch begins when the parents of all before it have ended
LaunchOrder ==
  \A n \in Launch : pc[Parent(n)] # "none" =>
    \A m \in Launch : m < n => pc[Parent(m)] \in Over

\* A child is there after the fork(), and has ended where waitpid() has returned; it
\* never was where the fork() failed
ForkInv ==
  \A n \in Launch :
    /\ pc[Parent(n)] \in {"none", "set"} => pc[Child(n)] = "none"
    /\ pc[Parent(n)] \in {"get", "attach", "op", "wait"} => pc[Child(n)] # "none"
    /\ pc[Parent(n)] \in {"removeseg", "removesem", "done"} => pc[Child(n)] \in Over \cup {"none"}

\* What is undone for a process is at most what its turns have done
TurnsOf(n) ==
  /\ pc[Parent(n)] \in {"none", "set", "get", "attach"} => turn[Parent(n)] = 0
  /\ pc[Child(n)] \in {"none", "get", "attach"} => turn[Child(n)] = 0
  /\ pc[Parent(n)] = "op" => turn[Parent(n)] < Turns
  /\ pc[Child(n)] \in {"add", "op"} => turn[Child(n)] < Turns
  /\ -turn[Parent(n)] <= undo[Parent(n)] /\ undo[Parent(n)] <= 0
  /\ 0 <= undo[Child(n)] /\ undo[Child(n)] <= turn[Child(n)]
LaunchTurnInv == \A n \in Launch : TurnsOf(n)

\* What is under the two keys is the last launch's, or gone; one whose fork() failed
\* does not know the segment
LastLaunch(n) == \A m \in Launch : m > n => pc[Parent(m)] = "none"
KeysInv ==
  \A n \in Launch : LastLaunch(n) =>
    /\ pc[Parent(n)] \notin Over \cup {"none"} => sem \in {None, semid[n]}
    /\ pc[Parent(n)] \in {"attach", "op", "wait", "removeseg"} /\ pc[Child(n)] # "none" =>
         seg \in {None, shmid[Parent(n)]}
    /\ pc[Parent(n)] \in {"removesem", "done"} /\ pc[Child(n)] # "none" => seg = None
    /\ pc[Parent(n)] = "done" => sem = None

\* A segment that its parent has still to make is nobody's
MadeInv ==
  \A n \in Launch : pc[Parent(n)] \in {"none", "set", "get"} =>
    seg # n /\ cVal[n] = 0 /\ \A p \in Process : shmid[p] # n

\* Without an orphan one launch is there at a time, with a segment and a set of its
\* own, and each turn of the child waits for one of the parent's
SegmentInv ==
  NoOrphans /\ seg # None =>
    pc[Parent(seg)] \in {"attach", "op", "wait", "removeseg"} /\ shmid[Parent(seg)] = seg
ParentInv(n) ==
  /\ pc[Parent(n)] # "failed"
  /\ pc[Parent(n)] = "set" => sem = semid[n]
  /\ pc[Parent(n)] = "attach" => seg = n
  /\ pc[Parent(n)] \in {"attach", "op", "wait"} =>
       shmid[Parent(n)] = n /\ cVal[n] <= turn[Parent(n)] + 2
ChildInv(n) ==
  /\ pc[Child(n)] \in {"get", "attach", "add", "op"} =>
       sem = semid[n] /\ val = turn[Parent(n)] - turn[Child(n)]
  /\ pc[Child(n)] = "attach" => seg = n
  /\ pc[Child(n)] \in {"attach", "add", "op"} =>
       shmid[Child(n)] = n /\ pc[Parent(n)] \in {"attach", "op", "wait"}
  /\ pc[Child(n)] = "add" => cVal[n] = turn[Child(n)] + 1
  /\ pc[Child(n)] = "op" => cVal[n] = turn[Child(n)] + 2
  /\ pc[Child(n)] = "removeseg" => turn[Parent(n)] > 0
AloneInv == SegmentInv /\ (NoOrphans => \A n \in Launch : ParentInv(n) /\ ChildInv(n))

ShmInv == ShmTypeOK /\ LaunchOrder /\ ForkInv /\ LaunchTurnInv /\ KeysInv /\ MadeInv /\ AloneInv

\* Who is a process, and that no two of them are the same
LEMMA Shm_Process ==
  /\ \A n \in Launch : /\ Parent(n) \in Process /\ Parent(n)[1] = n
                       /\ Child(n) \in Process /\ Child(n)[1] = n
  /\ \A n, m \in Launch : /\ Parent(n) # Child(m)
                          /\ n # m => Parent(n) # Parent(m) /\ Child(n) # Child(m)
  /\ \A p \in Process : \E n \in Launch : p = Parent(n) \/ p = Child(n)
  /\ Launch \subseteq Nat \ {None}
  BY LaunchesAssumption DEF Process, Parent, Child, Launch, None

\* What a process that goes on does to the places of the others
LEMMA Shm_ParentGoes ==
  ASSUME ShmTypeOK, NEW n \in Launch, NEW from, NEW to \in Stage, Goto(Parent(n), from, to)
  PROVE  /\ pc[Parent(n)] = from /\ pc'[Parent(n)] = to /\ pc' \in [Process -> Stage]
         /\ \A m \in Launch : m # n => pc'[Parent(m)] = pc[Parent(m)]
         /\ \A m \in Launch : pc'[Child(m)] = pc[Child(m)]
  BY Shm_Process DEF ShmTypeOK, Goto
LEMMA Shm_ChildGoes ==
  ASSUME ShmTypeOK, NEW n \in Launch, NEW from, NEW to \in Stage, Goto(Child(n), from, to)
  PROVE  /\ pc[Child(n)] = from /\ pc'[Child(n)] = to /\ pc' \in [Process -> Stage]
         /\ \A m \in Launch : m # n => pc'[Child(m)] = pc[Child(m)]
         /\ \A m \in Launch : pc'[Parent(m)] = pc[Parent(m)]
  BY Shm_Process DEF ShmTypeOK, Goto

\* Nobody is alive beside the launch whose parent is
UnderWay(n) == pc[Parent(n)] \notin Over \cup {"none"} \/ pc[Child(n)] \notin Over \cup {"none"}
LEMMA Shm_Sole ==
  ASSUME ShmInv, NoOrphans, NEW n \in Launch, NEW m \in Launch, UnderWay(n), UnderWay(m)
  PROVE  n = m /\ pc[Parent(n)] \notin Over \cup {"none"}
<1>1. ASSUME NEW k \in Launch, UnderWay(k) PROVE pc[Parent(k)] \notin Over \cup {"none"}
  BY <1>1 DEF ShmInv, ForkInv, AloneInv, ParentInv, NoOrphans, UnderWay, Over
<1>2. ASSUME NEW k \in Launch, NEW l \in Launch, UnderWay(k), UnderWay(l) PROVE ~(k < l)
  BY <1>1, <1>2 DEF ShmInv, LaunchOrder
<1> QED BY <1>1, <1>2, Shm_Process

LEMMA Shm_Init == ShmInit => ShmInv
<1> SUFFICES ASSUME ShmInit PROVE ShmInv OBVIOUS
<1>1. ShmTypeOK BY DEF ShmInit, ShmTypeOK, Stage, Turns
<1>2. /\ \A p \in Process : pc[p] = "none" /\ turn[p] = 0 /\ undo[p] = 0 /\ shmid[p] = None
      /\ seg = None /\ \A m \in Launch : cVal[m] = 0
  BY DEF ShmInit
<1> QED
  BY <1>1, <1>2, Shm_Process DEF ShmInv, LaunchOrder, ForkInv, LaunchTurnInv, TurnsOf, KeysInv, MadeInv, AloneInv,
       SegmentInv, ParentInv, ChildInv, Over, Turns

\* What semop() does, to the turns and to what will be undone
LEMMA Shm_SemOp ==
  ASSUME ShmTypeOK, NEW p \in Process, NEW d \in {-1, 1}, SemOp(p, d),
         turn[p] < Turns, undo[p] - d \in (-Turns)..Turns
  PROVE  /\ UNCHANGED <<semid, sem, shmid, seg, cVal>>
         /\ turn' \in [Process -> 0..Turns] /\ undo' \in [Process -> (-Turns)..Turns]
         /\ val' \in Nat
         /\ turn'[p] = turn[p] + 1
         /\ \A q \in Process : q # p => turn'[q] = turn[q] /\ undo'[q] = undo[q]
         /\ \/ semid[p[1]] # sem /\ val' = val /\ undo'[p] = undo[p]
            \/ semid[p[1]] = sem /\ val' = val + d /\ undo'[p] = undo[p] - d
<1>1. /\ UNCHANGED <<semid, sem, shmid, seg, cVal>>
      /\ turn' = [turn EXCEPT ![p] = turn[p] + 1]
  BY DEF SemOp, shmvars
<1>2. turn \in [Process -> 0..Turns] /\ undo \in [Process -> (-Turns)..Turns] /\ val \in Nat
  BY DEF ShmTypeOK
<1>3. turn' \in [Process -> 0..Turns]
  BY <1>1, <1>2 DEF Turns
<1>4. CASE semid[p[1]] # sem
  BY <1>1, <1>2, <1>3, <1>4 DEF SemOp
<1>5. CASE semid[p[1]] = sem
  <2>1. val + d >= 0 /\ val' = val + d /\ undo' = [undo EXCEPT ![p] = undo[p] - d]
    BY <1>5 DEF SemOp
  <2>2. val' \in Nat
    BY <1>2, <2>1
  <2>3. undo' \in [Process -> (-Turns)..Turns]
    BY <1>2, <2>1
  <2>4. undo'[p] = undo[p] - d /\ \A q \in Process : q # p => undo'[q] = undo[q]
    BY <1>2, <2>1
  <2> QED BY <1>1, <1>2, <1>3, <1>5, <2>1, <2>2, <2>3, <2>4
<1> QED BY <1>4, <1>5

LEMMA Shm_V ==
  ASSUME ShmInv, NEW n \in Launch, V(n)
  PROVE  ShmInv'
<1> DEFINE to == IF turn[Parent(n)] + 1 < Turns THEN "op" ELSE "wait"
<1>1. /\ pc[Parent(n)] = "op" /\ pc'[Parent(n)] = to /\ pc' \in [Process -> Stage]
      /\ \A m \in Launch : m # n => pc'[Parent(m)] = pc[Parent(m)]
      /\ \A m \in Launch : pc'[Child(m)] = pc[Child(m)]
  BY Shm_ParentGoes DEF V, ParentTurns, ShmInv, Stage
<1>2. to \in {"op", "wait"} /\ (to = "op" => turn[Parent(n)] + 1 < Turns)
  OBVIOUS
<1> HIDE DEF to
<1>3. /\ UNCHANGED <<semid, sem, shmid, seg, cVal>>
      /\ turn' \in [Process -> 0..Turns] /\ undo' \in [Process -> (-Turns)..Turns]
      /\ val' \in Nat
      /\ turn'[Parent(n)] = turn[Parent(n)] + 1
      /\ \A m \in Launch :
           /\ turn'[Child(m)] = turn[Child(m)] /\ undo'[Child(m)] = undo[Child(m)]
           /\ m # n => turn'[Parent(m)] = turn[Parent(m)] /\ undo'[Parent(m)] = undo[Parent(m)]
      /\ \/ semid[n] # sem /\ val' = val /\ undo'[Parent(n)] = undo[Parent(n)]
         \/ semid[n] = sem /\ val' = val + 1 /\ undo'[Parent(n)] = undo[Parent(n)] - 1
  <2>1. ShmTypeOK /\ SemOp(Parent(n), 1)
    BY DEF ShmInv, V
  <2>2. turn[Parent(n)] < Turns /\ undo[Parent(n)] - 1 \in (-Turns)..Turns
    BY <1>1, <2>1, Shm_Process DEF ShmInv, LaunchTurnInv, TurnsOf, ShmTypeOK, Turns
  <2> QED BY <2>1, <2>2, Shm_SemOp, Shm_Process
<1>4. ShmTypeOK'
  BY <1>1, <1>3 DEF ShmInv, ShmTypeOK
<1>5. LaunchTurnInv'
  <2> SUFFICES ASSUME NEW m \in Launch PROVE TurnsOf(m)'
    BY DEF LaunchTurnInv
  <2>1. /\ TurnsOf(m)
        /\ turn[Parent(m)] \in 0..Turns /\ turn[Child(m)] \in 0..Turns
        /\ undo[Parent(m)] \in Int /\ undo[Child(m)] \in Int
    BY Shm_Process DEF ShmInv, ShmTypeOK, LaunchTurnInv, Turns
  <2>2. CASE m = n
    BY <1>1, <1>2, <1>3, <2>1, <2>2 DEF TurnsOf, Turns
  <2>3. CASE m # n
    BY <1>1, <1>2, <1>3, <2>1, <2>3 DEF TurnsOf, Turns
  <2> QED BY <2>2, <2>3
<1>6. LaunchOrder' /\ ForkInv'
  BY <1>1, <1>2 DEF ShmInv, LaunchOrder, ForkInv, Over
<1>7. MadeInv'
  BY <1>1, <1>2, <1>3 DEF ShmInv, MadeInv
<1>8. KeysInv'
  BY <1>1, <1>2, <1>3 DEF ShmInv, KeysInv, LastLaunch, Over
<1>9. AloneInv'
  <2>1. NoOrphans' => NoOrphans
    BY <1>1, <1>2 DEF NoOrphans
  <2>2. SegmentInv'
    BY <1>1, <1>2, <1>3, <2>1 DEF ShmInv, AloneInv, SegmentInv, ShmTypeOK, None
  <2>3. ASSUME NoOrphans', NEW m \in Launch PROVE ParentInv(m)' /\ ChildInv(m)'
    <3>1. ParentInv(m) /\ ChildInv(m) /\ (m # n => ~UnderWay(m))
      BY <1>1, <2>1, <2>3, Shm_Sole DEF ShmInv, AloneInv, UnderWay, Over
    <3>2. CASE m = n
      <4>1. /\ turn[Parent(n)] \in Nat /\ turn[Child(n)] \in Nat /\ val \in Nat
            /\ \A k \in Launch : cVal[k] \in Nat
        BY Shm_Process DEF ShmInv, ShmTypeOK, Turns
      <4>2. pc[Child(n)] \in {"get", "attach", "add", "op"} => semid[n] = sem /\ val' = val + 1
        BY <1>3, <3>1, <3>2 DEF ChildInv
      <4>3. ParentInv(n)'
        BY <1>1, <1>2, <1>3, <3>1, <3>2, <4>1 DEF ParentInv
      <4>4. ChildInv(n)'
        BY <1>1, <1>2, <1>3, <3>1, <3>2, <4>1, <4>2 DEF ChildInv
      <4> QED BY <3>2, <4>3, <4>4
    <3>3. CASE m # n
      BY <1>1, <1>2, <1>3, <3>1, <3>3 DEF ParentInv, ChildInv, UnderWay, Over
    <3> QED BY <3>2, <3>3
  <2> QED BY <2>2, <2>3 DEF AloneInv
<1> QED BY <1>4, <1>5, <1>6, <1>7, <1>8, <1>9 DEF ShmInv

LEMMA Shm_SemGet ==
  ASSUME ShmInv, NEW n \in Launch, SemGet(n)
  PROVE  ShmInv'
<1>1. /\ pc[Parent(n)] = "none" /\ pc'[Parent(n)] = "set" /\ pc' \in [Process -> Stage]
      /\ \A m \in Launch : m # n => pc'[Parent(m)] = pc[Parent(m)]
      /\ \A m \in Launch : pc'[Child(m)] = pc[Child(m)]
  BY Shm_ParentGoes DEF SemGet, ShmInv, Stage, Over
<1>2. /\ \A m \in Launch : m < n => pc[Parent(m)] \in Over
      /\ sem' \in {sem, n} /\ (sem # None => sem' = sem) /\ (sem = None => sem' = n)
      /\ semid' \in [Launch -> {None} \cup Launch] /\ sem' \in {None} \cup Launch
      /\ semid'[n] = sem' /\ \A m \in Launch : m # n => semid'[m] = semid[m]
      /\ UNCHANGED <<turn, val, undo, shmid, seg, cVal>>
  BY Shm_Process DEF SemGet, shmvars, ShmInv, ShmTypeOK, Launch
<1>3. ShmTypeOK'
  BY <1>1, <1>2 DEF ShmInv, ShmTypeOK
<1>4. LaunchTurnInv'
  BY <1>1, <1>2 DEF ShmInv, LaunchTurnInv, TurnsOf
<1>5. LaunchOrder' /\ ForkInv'
  BY <1>1, <1>2 DEF ShmInv, LaunchOrder, ForkInv, Over
<1>6. MadeInv'
  BY <1>1, <1>2 DEF ShmInv, MadeInv
<1>7. KeysInv'
  BY <1>1, <1>2, Shm_Process DEF ShmInv, LaunchOrder, KeysInv, LastLaunch, Over
<1>8. AloneInv'
  <2>1. NoOrphans' => NoOrphans
    BY <1>1 DEF NoOrphans
  <2>2. ASSUME NoOrphans, NEW m \in Launch PROVE ~UnderWay(m)
    <3>1. pc[Parent(m)] \in Over \cup {"none"}
      BY <1>1, <1>2, Shm_Process DEF ShmInv, LaunchOrder, Over
    <3> QED BY <2>2, <3>1 DEF ShmInv, ForkInv, AloneInv, ParentInv, NoOrphans, UnderWay, Over
  <2>3. SegmentInv'
    BY <1>2, <2>1, <2>2 DEF ShmInv, AloneInv, SegmentInv, ShmTypeOK, UnderWay, Over
  <2>4. ASSUME NoOrphans', NEW m \in Launch PROVE ParentInv(m)' /\ ChildInv(m)'
    <3>1. ParentInv(m) /\ ChildInv(m) /\ ~UnderWay(m)
      BY <2>1, <2>2, <2>4 DEF ShmInv, AloneInv
    <3> QED BY <1>1, <1>2, <3>1 DEF ParentInv, ChildInv, UnderWay, Over
  <2> QED BY <2>3, <2>4 DEF AloneInv
<1> QED BY <1>3, <1>4, <1>5, <1>6, <1>7, <1>8 DEF ShmInv

LEMMA Shm_SetVal ==
  ASSUME ShmInv, NEW n \in Launch, SetVal(n)
  PROVE  ShmInv'
<1>1. /\ pc[Parent(n)] = "set" /\ pc'[Parent(n)] = "get" /\ pc' \in [Process -> Stage]
      /\ pc'[Child(n)] = "get"
      /\ \A m \in Launch : m # n => pc'[Parent(m)] = pc[Parent(m)] /\ pc'[Child(m)] = pc[Child(m)]
  BY Shm_Process DEF SetVal, ShmInv, ShmTypeOK, Stage
<1>2. /\ semid[n] = sem /\ val' = 0 /\ undo' \in [Process -> (-Turns)..Turns]
      /\ \A m \in Launch : undo'[Parent(m)] = 0 /\ undo'[Child(m)] = 0
      /\ pc'[Child(n)] = "get" /\ pc[Child(n)] = "none"
      /\ UNCHANGED <<turn, semid, sem, shmid, seg, cVal>>
  BY <1>1, Shm_Process DEF SetVal, Initial, shmvars, ShmInv, ForkInv, ShmTypeOK, Turns
<1>3. ShmTypeOK'
  BY <1>1, <1>2 DEF ShmInv, ShmTypeOK
<1>4. LaunchTurnInv'
  <2> SUFFICES ASSUME NEW m \in Launch PROVE TurnsOf(m)'
    BY DEF LaunchTurnInv
  <2>1. /\ TurnsOf(m)
        /\ turn[Parent(m)] \in 0..Turns /\ turn[Child(m)] \in 0..Turns
        /\ undo[Parent(m)] \in Int /\ undo[Child(m)] \in Int
    BY Shm_Process DEF ShmInv, ShmTypeOK, LaunchTurnInv, Turns
  <2>2. CASE m = n
    BY <1>1, <1>2, <2>1, <2>2 DEF TurnsOf, Turns
  <2>3. CASE m # n
    BY <1>1, <1>2, <2>1, <2>3 DEF TurnsOf, Turns
  <2> QED BY <2>2, <2>3
<1>5. LaunchOrder' /\ ForkInv'
  BY <1>1, <1>2 DEF ShmInv, LaunchOrder, ForkInv, Over
<1>6. MadeInv'
  BY <1>1, <1>2 DEF ShmInv, MadeInv
<1>7. KeysInv'
  BY <1>1, <1>2 DEF ShmInv, KeysInv, LastLaunch, Over
<1>8. AloneInv'
  <2>1. NoOrphans' => NoOrphans
    BY <1>1 DEF NoOrphans
  <2>2. SegmentInv'
    BY <1>1, <1>2, <2>1 DEF ShmInv, AloneInv, SegmentInv, ShmTypeOK, None
  <2>3. ASSUME NoOrphans', NEW m \in Launch PROVE ParentInv(m)' /\ ChildInv(m)'
    <3>1. ParentInv(m) /\ ChildInv(m) /\ (m # n => ~UnderWay(m))
      BY <1>1, <2>1, <2>3, Shm_Sole DEF ShmInv, AloneInv, UnderWay, Over
    <3>2. CASE m = n
      BY <1>1, <1>2, <3>1, <3>2, Shm_Process DEF ShmInv, ShmTypeOK, LaunchTurnInv, TurnsOf, ParentInv, ChildInv
    <3>3. CASE m # n
      BY <1>1, <1>2, <3>1, <3>3 DEF ParentInv, ChildInv, UnderWay, Over
    <3> QED BY <3>2, <3>3
  <2> QED BY <2>2, <2>3 DEF AloneInv
<1> QED BY <1>3, <1>4, <1>5, <1>6, <1>7, <1>8 DEF ShmInv

LEMMA Shm_ForkFails ==
  ASSUME ShmInv, NEW n \in Launch, ForkFails(n)
  PROVE  ShmInv'
<1>1. /\ pc[Parent(n)] = "set" /\ pc'[Parent(n)] = "removeseg" /\ pc' \in [Process -> Stage]
      /\ \A m \in Launch : m # n => pc'[Parent(m)] = pc[Parent(m)]
      /\ \A m \in Launch : pc'[Child(m)] = pc[Child(m)]
  BY Shm_ParentGoes DEF ForkFails, ShmInv, Stage, Over
<1>2. /\ semid[n] = sem /\ val' = 0 /\ undo' \in [Process -> (-Turns)..Turns]
      /\ \A m \in Launch : undo'[Parent(m)] = 0 /\ undo'[Child(m)] = 0
      /\ pc[Child(n)] = "none"
      /\ shmid' \in [Process -> {None} \cup Launch] /\ shmid'[Parent(n)] \in {None, seg}
      /\ \A q \in Process : q # Parent(n) => shmid'[q] = shmid[q]
      /\ UNCHANGED <<turn, semid, sem, seg, cVal>>
  BY <1>1, Shm_Process DEF ForkFails, Initial, ShmInv, ForkInv, ShmTypeOK, Turns
<1>3. ShmTypeOK'
  BY <1>1, <1>2 DEF ShmInv, ShmTypeOK
<1>4. LaunchTurnInv'
  <2> SUFFICES ASSUME NEW m \in Launch PROVE TurnsOf(m)'
    BY DEF LaunchTurnInv
  <2>1. /\ TurnsOf(m)
        /\ turn[Parent(m)] \in 0..Turns /\ turn[Child(m)] \in 0..Turns
        /\ undo[Parent(m)] \in Int /\ undo[Child(m)] \in Int
    BY Shm_Process DEF ShmInv, ShmTypeOK, LaunchTurnInv, Turns
  <2>2. CASE m = n
    BY <1>1, <1>2, <2>1, <2>2 DEF TurnsOf, Turns
  <2>3. CASE m # n
    BY <1>1, <1>2, <2>1, <2>3 DEF TurnsOf, Turns
  <2> QED BY <2>2, <2>3
<1>5. LaunchOrder' /\ ForkInv'
  BY <1>1, <1>2 DEF ShmInv, LaunchOrder, ForkInv, Over
<1>6. MadeInv'
  <2> SUFFICES ASSUME NEW m \in Launch, pc'[Parent(m)] \in {"none", "set", "get"}
               PROVE  seg' # m /\ cVal'[m] = 0 /\ \A q \in Process : shmid'[q] # m
    BY DEF MadeInv
  <2>1. seg # m /\ cVal[m] = 0 /\ (\A q \in Process : shmid[q] # m) /\ m # None
    BY <1>1, Shm_Process DEF ShmInv, MadeInv
  <2> QED BY <1>2, <2>1
<1>7. KeysInv'
  BY <1>1, <1>2, Shm_Process DEF ShmInv, KeysInv, LaunchOrder, LastLaunch, Over
<1>8. AloneInv'
  <2>1. NoOrphans' => NoOrphans
    BY <1>1 DEF NoOrphans
  <2>2. ASSUME NoOrphans PROVE seg = None
    <3> SUFFICES ASSUME seg # None PROVE FALSE OBVIOUS
    <3>1. seg \in Launch /\ pc[Parent(seg)] \in {"attach", "op", "wait", "removeseg"}
      BY <2>2 DEF ShmInv, AloneInv, SegmentInv, ShmTypeOK
    <3>2. seg = n
      BY <1>1, <2>2, <3>1, Shm_Sole DEF UnderWay, Over
    <3> QED BY <1>1, <3>1, <3>2
  <2>3. SegmentInv'
    BY <1>2, <2>1, <2>2 DEF SegmentInv
  <2>4. ASSUME NoOrphans', NEW m \in Launch PROVE ParentInv(m)' /\ ChildInv(m)'
    <3>1. ParentInv(m) /\ ChildInv(m) /\ (m # n => ~UnderWay(m))
      BY <1>1, <2>1, <2>4, Shm_Sole DEF ShmInv, AloneInv, UnderWay, Over
    <3>2. CASE m = n
      BY <1>1, <1>2, <3>1, <3>2 DEF ParentInv, ChildInv
    <3>3. CASE m # n
      BY <1>1, <1>2, <3>1, <3>3 DEF ParentInv, ChildInv, UnderWay, Over
    <3> QED BY <3>2, <3>3
  <2> QED BY <2>3, <2>4 DEF AloneInv
<1> QED BY <1>3, <1>4, <1>5, <1>6, <1>7, <1>8 DEF ShmInv

LEMMA Shm_SetValFails ==
  ASSUME ShmInv, NEW n \in Launch, SetValFails(n)
  PROVE  ShmInv'
<1>1. /\ pc[Parent(n)] = "set" /\ pc'[Parent(n)] = "failed" /\ pc' \in [Process -> Stage]
      /\ \A m \in Launch : m # n => pc'[Parent(m)] = pc[Parent(m)]
      /\ \A m \in Launch : pc'[Child(m)] = pc[Child(m)]
  BY Shm_ParentGoes DEF SetValFails, ShmInv, Stage, Over
<1>2. semid[n] # sem /\ UNCHANGED <<turn, semid, sem, val, undo, shmid, seg, cVal>>
  BY DEF SetValFails, semvars, shmvars
<1>3. ShmTypeOK'
  BY <1>1, <1>2 DEF ShmInv, ShmTypeOK
<1>4. LaunchTurnInv'
  BY <1>1, <1>2 DEF ShmInv, LaunchTurnInv, TurnsOf
<1>5. LaunchOrder' /\ ForkInv'
  BY <1>1, <1>2 DEF ShmInv, LaunchOrder, ForkInv, Over
<1>6. MadeInv'
  BY <1>1, <1>2 DEF ShmInv, MadeInv
<1>7. KeysInv'
  BY <1>1, <1>2 DEF ShmInv, KeysInv, LastLaunch, Over
<1>8. AloneInv'
  <2>1. NoOrphans' => NoOrphans
    BY <1>1 DEF NoOrphans
  <2>2. SegmentInv'
    BY <1>1, <1>2, <2>1 DEF ShmInv, AloneInv, SegmentInv, ShmTypeOK, None
  <2>3. ASSUME NoOrphans', NEW m \in Launch PROVE ParentInv(m)' /\ ChildInv(m)'
    <3>1. ParentInv(m) /\ ChildInv(m) /\ (m # n => ~UnderWay(m))
      BY <1>1, <2>1, <2>3, Shm_Sole DEF ShmInv, AloneInv, UnderWay, Over
    <3>2. CASE m = n
      BY <1>1, <1>2, <3>1, <3>2, Shm_Process DEF ShmInv, ShmTypeOK, ParentInv, ChildInv
    <3>3. CASE m # n
      BY <1>1, <1>2, <3>1, <3>3 DEF ParentInv, ChildInv, UnderWay, Over
    <3> QED BY <3>2, <3>3
  <2> QED BY <2>2, <2>3 DEF AloneInv
<1> QED BY <1>3, <1>4, <1>5, <1>6, <1>7, <1>8 DEF ShmInv

LEMMA Shm_CreateSegment ==
  ASSUME ShmInv, NEW n \in Launch, CreateSegment(n)
  PROVE  ShmInv'
<1>1. /\ pc[Parent(n)] = "get" /\ pc'[Parent(n)] = "attach" /\ pc' \in [Process -> Stage]
      /\ \A m \in Launch : m # n => pc'[Parent(m)] = pc[Parent(m)]
      /\ \A m \in Launch : pc'[Child(m)] = pc[Child(m)]
  BY Shm_ParentGoes DEF CreateSegment, ShmInv, Stage, Over
<1>2. /\ (seg # None => seg' = seg) /\ (seg = None => seg' = n)
      /\ shmid' \in [Process -> {None} \cup Launch] /\ seg' \in {None} \cup Launch
      /\ shmid'[Parent(n)] = seg'
      /\ \A q \in Process : q # Parent(n) => shmid'[q] = shmid[q]
      /\ UNCHANGED <<turn, semid, sem, val, undo, cVal>>
  BY Shm_Process DEF CreateSegment, semvars, ShmInv, ShmTypeOK, Launch
<1>3. ShmTypeOK'
  BY <1>1, <1>2 DEF ShmInv, ShmTypeOK
<1>4. LaunchTurnInv'
  BY <1>1, <1>2 DEF ShmInv, LaunchTurnInv, TurnsOf, Turns
<1>5. LaunchOrder' /\ ForkInv'
  BY <1>1, <1>2 DEF ShmInv, LaunchOrder, ForkInv, Over
<1>6. MadeInv'
  BY <1>1, <1>2 DEF ShmInv, MadeInv
<1>7. KeysInv'
  BY <1>1, <1>2, Shm_Process DEF ShmInv, LaunchOrder, KeysInv, LastLaunch, Over
<1>8. AloneInv'
  <2>1. NoOrphans' => NoOrphans
    BY <1>1 DEF NoOrphans
  <2>2. ASSUME NoOrphans PROVE seg = None
    BY <1>1, <2>2, Shm_Sole DEF ShmInv, AloneInv, SegmentInv, ShmTypeOK, UnderWay, Over
  <2>3. SegmentInv'
    BY <1>1, <1>2, <2>1, <2>2 DEF SegmentInv
  <2>4. ASSUME NoOrphans', NEW m \in Launch PROVE ParentInv(m)' /\ ChildInv(m)'
    <3>1. ParentInv(m) /\ ChildInv(m) /\ (m # n => ~UnderWay(m))
      BY <1>1, <2>1, <2>4, Shm_Sole DEF ShmInv, AloneInv, UnderWay, Over
    <3>2. CASE m = n
      <4>1. shmid'[Parent(n)] = n /\ cVal[n] = 0 /\ turn[Parent(n)] = 0
        BY <1>1, <1>2, <2>1, <2>2, <2>4 DEF ShmInv, MadeInv, LaunchTurnInv, TurnsOf
      <4> QED BY <1>1, <1>2, <3>1, <3>2, <4>1, Shm_Process DEF ParentInv, ChildInv
    <3>3. CASE m # n
      BY <1>1, <1>2, <3>1, <3>3 DEF ParentInv, ChildInv, UnderWay, Over
    <3> QED BY <3>2, <3>3
  <2> QED BY <2>3, <2>4 DEF AloneInv
<1> QED BY <1>3, <1>4, <1>5, <1>6, <1>7, <1>8 DEF ShmInv

LEMMA Shm_ParentAttaches ==
  ASSUME ShmInv, NEW n \in Launch, ParentAttaches(n)
  PROVE  ShmInv'
<1>1. /\ pc[Parent(n)] = "attach" /\ pc'[Parent(n)] = "op" /\ pc' \in [Process -> Stage]
      /\ \A m \in Launch : m # n => pc'[Parent(m)] = pc[Parent(m)]
      /\ \A m \in Launch : pc'[Child(m)] = pc[Child(m)]
  BY Shm_ParentGoes DEF ParentAttaches, ShmInv, Stage, Over
<1>2. UNCHANGED <<turn, semid, sem, val, undo, shmid, seg, cVal>>
  BY DEF ParentAttaches, semvars, shmvars
<1>3. ShmTypeOK'
  BY <1>1, <1>2 DEF ShmInv, ShmTypeOK
<1>4. LaunchTurnInv'
  BY <1>1, <1>2 DEF ShmInv, LaunchTurnInv, TurnsOf, Turns
<1>5. LaunchOrder' /\ ForkInv'
  BY <1>1, <1>2 DEF ShmInv, LaunchOrder, ForkInv, Over
<1>6. MadeInv'
  BY <1>1, <1>2 DEF ShmInv, MadeInv
<1>7. KeysInv'
  BY <1>1, <1>2 DEF ShmInv, KeysInv, LastLaunch, Over
<1>8. AloneInv'
  <2>1. NoOrphans' => NoOrphans
    BY <1>1 DEF NoOrphans
  <2>2. SegmentInv'
    BY <1>1, <1>2, <2>1 DEF ShmInv, AloneInv, SegmentInv, ShmTypeOK, None
  <2>3. ASSUME NoOrphans', NEW m \in Launch PROVE ParentInv(m)' /\ ChildInv(m)'
    <3>1. ParentInv(m) /\ ChildInv(m) /\ (m # n => ~UnderWay(m))
      BY <1>1, <2>1, <2>3, Shm_Sole DEF ShmInv, AloneInv, UnderWay, Over
    <3>2. CASE m = n
      BY <1>1, <1>2, <3>1, <3>2, Shm_Process DEF ShmInv, ShmTypeOK, ParentInv, ChildInv
    <3>3. CASE m # n
      BY <1>1, <1>2, <3>1, <3>3 DEF ParentInv, ChildInv, UnderWay, Over
    <3> QED BY <3>2, <3>3
  <2> QED BY <2>2, <2>3 DEF AloneInv
<1> QED BY <1>3, <1>4, <1>5, <1>6, <1>7, <1>8 DEF ShmInv

\* shmat() of a segment that is gone: there is an orphan then
LEMMA Shm_ParentFails ==
  ASSUME ShmInv, NEW n \in Launch, AttachFails(Parent(n))
  PROVE  ShmInv'
<1>1. /\ pc[Parent(n)] = "attach" /\ pc'[Parent(n)] = "failed" /\ pc' \in [Process -> Stage]
      /\ \A m \in Launch : m # n => pc'[Parent(m)] = pc[Parent(m)]
      /\ \A m \in Launch : pc'[Child(m)] = pc[Child(m)]
  BY Shm_ParentGoes DEF AttachFails, ShmInv, Stage, Over
<1>2. seg # shmid[Parent(n)] /\ UNCHANGED <<turn, semid, sem, val, undo, shmid, seg, cVal>>
  BY DEF AttachFails, semvars, shmvars
<1>3. ShmTypeOK'
  BY <1>1, <1>2 DEF ShmInv, ShmTypeOK
<1>4. LaunchTurnInv'
  BY <1>1, <1>2 DEF ShmInv, LaunchTurnInv, TurnsOf
<1>5. LaunchOrder' /\ ForkInv'
  BY <1>1, <1>2 DEF ShmInv, LaunchOrder, ForkInv, Over
<1>6. MadeInv'
  BY <1>1, <1>2 DEF ShmInv, MadeInv
<1>7. KeysInv'
  BY <1>1, <1>2 DEF ShmInv, KeysInv, LastLaunch, Over
<1>8. AloneInv'
  <2>1. ~NoOrphans
    BY <1>1, <1>2 DEF ShmInv, AloneInv, ParentInv
  <2>2. ~NoOrphans'
    BY <1>1, <2>1 DEF NoOrphans
  <2> QED BY <2>2 DEF AloneInv, SegmentInv
<1> QED BY <1>3, <1>4, <1>5, <1>6, <1>7, <1>8 DEF ShmInv

LEMMA Shm_WaitPid ==
  ASSUME ShmInv, NEW n \in Launch, WaitPid(n)
  PROVE  ShmInv'
<1>1. /\ pc[Parent(n)] = "wait" /\ pc'[Parent(n)] = "removeseg" /\ pc' \in [Process -> Stage]
      /\ \A m \in Launch : m # n => pc'[Parent(m)] = pc[Parent(m)]
      /\ \A m \in Launch : pc'[Child(m)] = pc[Child(m)]
  BY Shm_ParentGoes DEF WaitPid, ShmInv, Stage, Over
<1>2. pc[Child(n)] \in Over /\ UNCHANGED <<turn, semid, sem, val, undo, shmid, seg, cVal>>
  BY DEF WaitPid, semvars, shmvars
<1>3. ShmTypeOK'
  BY <1>1, <1>2 DEF ShmInv, ShmTypeOK
<1>4. LaunchTurnInv'
  BY <1>1, <1>2 DEF ShmInv, LaunchTurnInv, TurnsOf
<1>5. LaunchOrder' /\ ForkInv'
  BY <1>1, <1>2 DEF ShmInv, LaunchOrder, ForkInv, Over
<1>6. MadeInv'
  BY <1>1, <1>2 DEF ShmInv, MadeInv
<1>7. KeysInv'
  BY <1>1, <1>2 DEF ShmInv, KeysInv, LastLaunch, Over
<1>8. AloneInv'
  <2>1. NoOrphans' => NoOrphans
    BY <1>1 DEF NoOrphans
  <2>2. SegmentInv'
    BY <1>1, <1>2, <2>1 DEF ShmInv, AloneInv, SegmentInv, ShmTypeOK, None
  <2>3. ASSUME NoOrphans', NEW m \in Launch PROVE ParentInv(m)' /\ ChildInv(m)'
    <3>1. ParentInv(m) /\ ChildInv(m) /\ (m # n => ~UnderWay(m))
      BY <1>1, <2>1, <2>3, Shm_Sole DEF ShmInv, AloneInv, UnderWay, Over
    <3>2. CASE m = n
      BY <1>1, <1>2, <3>1, <3>2, Shm_Process DEF ShmInv, ShmTypeOK, Over, ParentInv, ChildInv
    <3>3. CASE m # n
      BY <1>1, <1>2, <3>1, <3>3 DEF ParentInv, ChildInv, UnderWay, Over
    <3> QED BY <3>2, <3>3
  <2> QED BY <2>2, <2>3 DEF AloneInv
<1> QED BY <1>3, <1>4, <1>5, <1>6, <1>7, <1>8 DEF ShmInv

LEMMA Shm_ParentRemovesSegment ==
  ASSUME ShmInv, NEW n \in Launch, ShmRmid(Parent(n))
  PROVE  ShmInv'
<1>1. /\ pc[Parent(n)] = "removeseg" /\ pc'[Parent(n)] = "removesem" /\ pc' \in [Process -> Stage]
      /\ \A m \in Launch : m # n => pc'[Parent(m)] = pc[Parent(m)]
      /\ \A m \in Launch : pc'[Child(m)] = pc[Child(m)]
  BY Shm_ParentGoes DEF ShmRmid, ShmInv, Stage, Over
<1>2. /\ (seg = shmid[Parent(n)] => seg' = None) /\ (seg # shmid[Parent(n)] => seg' = seg)
      /\ seg' \in {None} \cup Launch
      /\ UNCHANGED <<turn, semid, sem, val, undo, shmid, cVal>>
  BY DEF ShmRmid, RemoveSegment, semvars, ShmInv, ShmTypeOK
<1>3. ShmTypeOK'
  BY <1>1, <1>2 DEF ShmInv, ShmTypeOK
<1>4. LaunchTurnInv'
  BY <1>1, <1>2 DEF ShmInv, LaunchTurnInv, TurnsOf
<1>5. LaunchOrder' /\ ForkInv'
  BY <1>1, <1>2 DEF ShmInv, LaunchOrder, ForkInv, Over
<1>6. MadeInv'
  <2> SUFFICES ASSUME NEW m \in Launch, pc'[Parent(m)] \in {"none", "set", "get"}
               PROVE  seg' # m /\ cVal'[m] = 0 /\ \A q \in Process : shmid'[q] # m
    BY DEF MadeInv
  <2>1. seg # m /\ cVal[m] = 0 /\ (\A q \in Process : shmid[q] # m) /\ m # None
    BY <1>1, Shm_Process DEF ShmInv, MadeInv
  <2> QED BY <1>2, <2>1
<1>7. KeysInv'
  BY <1>1, <1>2 DEF ShmInv, KeysInv, LastLaunch, Over
<1>8. AloneInv'
  <2>1. NoOrphans' => NoOrphans
    BY <1>1 DEF NoOrphans
  <2>2. SegmentInv'
    BY <1>1, <1>2, <2>1 DEF ShmInv, AloneInv, SegmentInv, ShmTypeOK, None
  <2>3. ASSUME NoOrphans', NEW m \in Launch PROVE ParentInv(m)' /\ ChildInv(m)'
    <3>1. ParentInv(m) /\ ChildInv(m) /\ (m # n => ~UnderWay(m))
      BY <1>1, <2>1, <2>3, Shm_Sole DEF ShmInv, AloneInv, UnderWay, Over
    <3>2. CASE m = n
      <4>1. pc[Child(n)] \in Over \cup {"none"}
        BY <1>1 DEF ShmInv, ForkInv
      <4> QED BY <1>1, <1>2, <3>1, <3>2, <4>1 DEF Over, ParentInv, ChildInv
    <3>3. CASE m # n
      BY <1>1, <1>2, <3>1, <3>3 DEF ParentInv, ChildInv, UnderWay, Over
    <3> QED BY <3>2, <3>3
  <2> QED BY <2>2, <2>3 DEF AloneInv
<1> QED BY <1>3, <1>4, <1>5, <1>6, <1>7, <1>8 DEF ShmInv

LEMMA Shm_ParentRemovesSet ==
  ASSUME ShmInv, NEW n \in Launch, SemRmid(Parent(n))
  PROVE  ShmInv'
<1>1. /\ pc[Parent(n)] = "removesem" /\ pc'[Parent(n)] = "done" /\ pc' \in [Process -> Stage]
      /\ \A m \in Launch : m # n => pc'[Parent(m)] = pc[Parent(m)]
      /\ \A m \in Launch : pc'[Child(m)] = pc[Child(m)]
  BY Shm_ParentGoes DEF SemRmid, ShmInv, Stage, Over
<1>2. /\ val' \in Nat /\ undo' \in [Process -> (-Turns)..Turns] /\ sem' \in {None} \cup Launch
      /\ \/ semid[n] # sem /\ UNCHANGED <<sem, val, undo>>
         \/ /\ semid[n] = sem /\ sem' = None
            /\ \A m \in Launch : undo'[Parent(m)] = 0 /\ undo'[Child(m)] = 0
      /\ UNCHANGED <<turn, semid, shmid, seg, cVal>>
  BY Shm_Process DEF SemRmid, shmvars, ShmInv, ShmTypeOK, Turns
<1>3. ShmTypeOK'
  BY <1>1, <1>2 DEF ShmInv, ShmTypeOK
<1>4. LaunchTurnInv'
  <2> SUFFICES ASSUME NEW m \in Launch PROVE TurnsOf(m)'
    BY DEF LaunchTurnInv
  <2>1. /\ TurnsOf(m)
        /\ turn[Parent(m)] \in 0..Turns /\ turn[Child(m)] \in 0..Turns
        /\ undo[Parent(m)] \in Int /\ undo[Child(m)] \in Int
    BY Shm_Process DEF ShmInv, ShmTypeOK, LaunchTurnInv, Turns
  <2>2. CASE m = n
    BY <1>1, <1>2, <2>1, <2>2 DEF TurnsOf, Turns
  <2>3. CASE m # n
    BY <1>1, <1>2, <2>1, <2>3 DEF TurnsOf, Turns
  <2> QED BY <2>2, <2>3
<1>5. LaunchOrder' /\ ForkInv'
  BY <1>1, <1>2 DEF ShmInv, LaunchOrder, ForkInv, Over
<1>6. MadeInv'
  BY <1>1, <1>2 DEF ShmInv, MadeInv
<1>7. KeysInv'
  BY <1>1, <1>2 DEF ShmInv, KeysInv, LastLaunch, Over
<1>8. AloneInv'
  <2>1. NoOrphans' => NoOrphans
    BY <1>1 DEF NoOrphans
  <2>2. SegmentInv'
    BY <1>1, <1>2, <2>1 DEF ShmInv, AloneInv, SegmentInv, ShmTypeOK, None
  <2>3. ASSUME NoOrphans', NEW m \in Launch PROVE ParentInv(m)' /\ ChildInv(m)'
    <3>1. ParentInv(m) /\ ChildInv(m) /\ (m # n => ~UnderWay(m))
      BY <1>1, <2>1, <2>3, Shm_Sole DEF ShmInv, AloneInv, UnderWay, Over
    <3>2. CASE m = n
      <4>1. pc[Child(n)] \in Over \cup {"none"}
        BY <1>1 DEF ShmInv, ForkInv
      <4> QED BY <1>1, <1>2, <3>1, <3>2, <4>1 DEF Over, ParentInv, ChildInv
    <3>3. CASE m # n
      BY <1>1, <1>2, <3>1, <3>3 DEF ParentInv, ChildInv, UnderWay, Over
    <3> QED BY <3>2, <3>3
  <2> QED BY <2>2, <2>3 DEF AloneInv
<1> QED BY <1>3, <1>4, <1>5, <1>6, <1>7, <1>8 DEF ShmInv

LEMMA Shm_ChildRemovesSegment ==
  ASSUME ShmInv, NEW n \in Launch, ShmRmid(Child(n))
  PROVE  ShmInv'
<1>1. /\ pc[Child(n)] = "removeseg" /\ pc'[Child(n)] = "removesem" /\ pc' \in [Process -> Stage]
      /\ \A m \in Launch : m # n => pc'[Child(m)] = pc[Child(m)]
      /\ \A m \in Launch : pc'[Parent(m)] = pc[Parent(m)]
  BY Shm_ChildGoes DEF ShmRmid, ShmInv, Stage, Over
<1>2. /\ (seg = shmid[Child(n)] => seg' = None) /\ (seg # shmid[Child(n)] => seg' = seg)
      /\ seg' \in {None} \cup Launch
      /\ UNCHANGED <<turn, semid, sem, val, undo, shmid, cVal>>
  BY DEF ShmRmid, RemoveSegment, semvars, ShmInv, ShmTypeOK
<1>3. ShmTypeOK'
  BY <1>1, <1>2 DEF ShmInv, ShmTypeOK
<1>4. LaunchTurnInv'
  BY <1>1, <1>2 DEF ShmInv, LaunchTurnInv, TurnsOf
<1>5. LaunchOrder' /\ ForkInv'
  BY <1>1, <1>2 DEF ShmInv, LaunchOrder, ForkInv, Over
<1>6. MadeInv'
  <2> SUFFICES ASSUME NEW m \in Launch, pc'[Parent(m)] \in {"none", "set", "get"}
               PROVE  seg' # m /\ cVal'[m] = 0 /\ \A q \in Process : shmid'[q] # m
    BY DEF MadeInv
  <2>1. seg # m /\ cVal[m] = 0 /\ (\A q \in Process : shmid[q] # m) /\ m # None
    BY <1>1, Shm_Process DEF ShmInv, MadeInv
  <2> QED BY <1>2, <2>1
<1>7. KeysInv'
  BY <1>1, <1>2 DEF ShmInv, KeysInv, LastLaunch, Over
<1>8. AloneInv'
  <2>1. NoOrphans' => NoOrphans
    BY <1>1 DEF NoOrphans
  <2>2. SegmentInv'
    BY <1>1, <1>2, <2>1 DEF ShmInv, AloneInv, SegmentInv, ShmTypeOK, None
  <2>3. ASSUME NoOrphans', NEW m \in Launch PROVE ParentInv(m)' /\ ChildInv(m)'
    <3>1. ParentInv(m) /\ ChildInv(m) /\ (m # n => ~UnderWay(m))
      BY <1>1, <2>1, <2>3, Shm_Sole DEF ShmInv, AloneInv, UnderWay, Over
    <3>2. CASE m = n
      <4>1. pc[Parent(n)] # "attach"
        BY <1>1, <3>1, <3>2 DEF ShmInv, LaunchTurnInv, TurnsOf, ChildInv
      <4> QED BY <1>1, <1>2, <3>1, <3>2, <4>1 DEF ParentInv, ChildInv
    <3>3. CASE m # n
      BY <1>1, <1>2, <3>1, <3>3 DEF ParentInv, ChildInv, UnderWay, Over
    <3> QED BY <3>2, <3>3
  <2> QED BY <2>2, <2>3 DEF AloneInv
<1> QED BY <1>3, <1>4, <1>5, <1>6, <1>7, <1>8 DEF ShmInv

LEMMA Shm_ChildRemovesSet ==
  ASSUME ShmInv, NEW n \in Launch, SemRmid(Child(n))
  PROVE  ShmInv'
<1>1. /\ pc[Child(n)] = "removesem" /\ pc'[Child(n)] = "done" /\ pc' \in [Process -> Stage]
      /\ \A m \in Launch : m # n => pc'[Child(m)] = pc[Child(m)]
      /\ \A m \in Launch : pc'[Parent(m)] = pc[Parent(m)]
  BY Shm_ChildGoes DEF SemRmid, ShmInv, Stage, Over
<1>2. /\ val' \in Nat /\ undo' \in [Process -> (-Turns)..Turns] /\ sem' \in {None} \cup Launch
      /\ \/ semid[n] # sem /\ UNCHANGED <<sem, val, undo>>
         \/ /\ semid[n] = sem /\ sem' = None
            /\ \A m \in Launch : undo'[Parent(m)] = 0 /\ undo'[Child(m)] = 0
      /\ UNCHANGED <<turn, semid, shmid, seg, cVal>>
  BY Shm_Process DEF SemRmid, shmvars, ShmInv, ShmTypeOK, Turns
<1>3. ShmTypeOK'
  BY <1>1, <1>2 DEF ShmInv, ShmTypeOK
<1>4. LaunchTurnInv'
  <2> SUFFICES ASSUME NEW m \in Launch PROVE TurnsOf(m)'
    BY DEF LaunchTurnInv
  <2>1. /\ TurnsOf(m)
        /\ turn[Parent(m)] \in 0..Turns /\ turn[Child(m)] \in 0..Turns
        /\ undo[Parent(m)] \in Int /\ undo[Child(m)] \in Int
    BY Shm_Process DEF ShmInv, ShmTypeOK, LaunchTurnInv, Turns
  <2>2. CASE m = n
    BY <1>1, <1>2, <2>1, <2>2 DEF TurnsOf, Turns
  <2>3. CASE m # n
    BY <1>1, <1>2, <2>1, <2>3 DEF TurnsOf, Turns
  <2> QED BY <2>2, <2>3
<1>5. LaunchOrder' /\ ForkInv'
  BY <1>1, <1>2 DEF ShmInv, LaunchOrder, ForkInv, Over
<1>6. MadeInv'
  BY <1>1, <1>2 DEF ShmInv, MadeInv
<1>7. KeysInv'
  BY <1>1, <1>2 DEF ShmInv, KeysInv, LastLaunch, Over
<1>8. AloneInv'
  <2>1. NoOrphans' => NoOrphans
    BY <1>1 DEF NoOrphans
  <2>2. SegmentInv'
    BY <1>1, <1>2, <2>1 DEF ShmInv, AloneInv, SegmentInv, ShmTypeOK, None
  <2>3. ASSUME NoOrphans', NEW m \in Launch PROVE ParentInv(m)' /\ ChildInv(m)'
    <3>1. ParentInv(m) /\ ChildInv(m) /\ (m # n => ~UnderWay(m))
      BY <1>1, <2>1, <2>3, Shm_Sole DEF ShmInv, AloneInv, UnderWay, Over
    <3>2. CASE m = n
      BY <1>1, <1>2, <3>1, <3>2, Shm_Process DEF ShmInv, ShmTypeOK, ForkInv, Over, ParentInv, ChildInv
    <3>3. CASE m # n
      BY <1>1, <1>2, <3>1, <3>3 DEF ParentInv, ChildInv, UnderWay, Over
    <3> QED BY <3>2, <3>3
  <2> QED BY <2>2, <2>3 DEF AloneInv
<1> QED BY <1>3, <1>4, <1>5, <1>6, <1>7, <1>8 DEF ShmInv

LEMMA Shm_GetSegment ==
  ASSUME ShmInv, NEW n \in Launch, GetSegment(n)
  PROVE  ShmInv'
<1>1. /\ pc[Child(n)] = "get" /\ pc'[Child(n)] = "attach" /\ pc' \in [Process -> Stage]
      /\ \A m \in Launch : m # n => pc'[Child(m)] = pc[Child(m)]
      /\ \A m \in Launch : pc'[Parent(m)] = pc[Parent(m)]
  BY Shm_ChildGoes DEF GetSegment, ShmInv, Stage, Over
<1>2. /\ seg \in Launch /\ shmid' \in [Process -> {None} \cup Launch] /\ shmid'[Child(n)] = seg
      /\ \A q \in Process : q # Child(n) => shmid'[q] = shmid[q]
      /\ UNCHANGED <<turn, semid, sem, val, undo, seg, cVal>>
  BY Shm_Process DEF GetSegment, semvars, ShmInv, ShmTypeOK
<1>3. ShmTypeOK'
  BY <1>1, <1>2 DEF ShmInv, ShmTypeOK
<1>4. LaunchTurnInv'
  BY <1>1, <1>2 DEF ShmInv, LaunchTurnInv, TurnsOf, Turns
<1>5. LaunchOrder' /\ ForkInv'
  BY <1>1, <1>2 DEF ShmInv, LaunchOrder, ForkInv, Over
<1>6. MadeInv'
  <2> SUFFICES ASSUME NEW m \in Launch, pc'[Parent(m)] \in {"none", "set", "get"}
               PROVE  seg' # m /\ cVal'[m] = 0 /\ \A q \in Process : shmid'[q] # m
    BY DEF MadeInv
  <2>1. seg # m /\ cVal[m] = 0 /\ \A q \in Process : shmid[q] # m
    BY <1>1 DEF ShmInv, MadeInv
  <2> QED BY <1>2, <2>1
<1>7. KeysInv'
  BY <1>1, <1>2, Shm_Process DEF ShmInv, KeysInv, LastLaunch, Over
<1>8. AloneInv'
  <2>1. NoOrphans' => NoOrphans
    BY <1>1 DEF NoOrphans
  <2>2. SegmentInv'
    <3>1. /\ seg' = seg /\ pc'[Parent(seg)] = pc[Parent(seg)]
          /\ shmid'[Parent(seg)] = shmid[Parent(seg)]
      BY <1>1, <1>2, Shm_Process
    <3> QED BY <2>1, <3>1 DEF ShmInv, AloneInv, SegmentInv
  <2>3. ASSUME NoOrphans', NEW m \in Launch PROVE ParentInv(m)' /\ ChildInv(m)'
    <3>1. ParentInv(m) /\ ChildInv(m) /\ (m # n => ~UnderWay(m))
      BY <1>1, <2>1, <2>3, Shm_Sole DEF ShmInv, AloneInv, UnderWay, Over
    <3>2. seg = n /\ pc[Parent(n)] \in {"attach", "op", "wait"}
      <4>1. pc[Parent(seg)] \in {"attach", "op", "wait", "removeseg"}
        BY <1>2, <2>1, <2>3, Shm_Process DEF ShmInv, AloneInv, SegmentInv
      <4>2. seg = n
        BY <1>1, <1>2, <2>1, <2>3, <4>1, Shm_Sole DEF UnderWay, Over
      <4> QED BY <1>1, <4>1, <4>2 DEF ShmInv, ForkInv, Over
    <3>3. CASE m = n
      <4>1. shmid'[Parent(n)] = shmid[Parent(n)] /\ shmid'[Child(n)] = n
        BY <1>2, <3>2, Shm_Process
      <4>2. ParentInv(n)'
        BY <1>1, <1>2, <3>1, <3>2, <3>3, <4>1 DEF ParentInv
      <4>3. ChildInv(n)'
        BY <1>1, <1>2, <3>1, <3>2, <3>3, <4>1 DEF ChildInv
      <4> QED BY <3>3, <4>2, <4>3
    <3>4. CASE m # n
      BY <1>1, <1>2, <3>1, <3>2, <3>4, Shm_Process DEF ParentInv, ChildInv, UnderWay, Over
    <3> QED BY <3>3, <3>4
  <2> QED BY <2>2, <2>3 DEF AloneInv
<1> QED BY <1>3, <1>4, <1>5, <1>6, <1>7, <1>8 DEF ShmInv

LEMMA Shm_ChildAttaches ==
  ASSUME ShmInv, NEW n \in Launch, ChildAttaches(n)
  PROVE  ShmInv'
<1>1. /\ pc[Child(n)] = "attach" /\ pc'[Child(n)] = "add" /\ pc' \in [Process -> Stage]
      /\ \A m \in Launch : m # n => pc'[Child(m)] = pc[Child(m)]
      /\ \A m \in Launch : pc'[Parent(m)] = pc[Parent(m)]
  BY Shm_ChildGoes DEF ChildAttaches, ShmInv, Stage, Over
<1>2. /\ shmid[Child(n)] = seg /\ cVal' \in [Launch -> Nat]
      /\ \A m \in Launch : cVal'[m] = IF m = seg THEN 1 ELSE cVal[m]
      /\ UNCHANGED <<turn, semid, sem, val, undo, shmid, seg>>
  BY Shm_Process DEF ChildAttaches, semvars, ShmInv, ShmTypeOK
<1>3. ShmTypeOK'
  BY <1>1, <1>2 DEF ShmInv, ShmTypeOK
<1>4. LaunchTurnInv'
  BY <1>1, <1>2 DEF ShmInv, LaunchTurnInv, TurnsOf, Turns
<1>5. LaunchOrder' /\ ForkInv'
  BY <1>1, <1>2 DEF ShmInv, LaunchOrder, ForkInv, Over
<1>6. MadeInv'
  <2> SUFFICES ASSUME NEW m \in Launch, pc'[Parent(m)] \in {"none", "set", "get"}
               PROVE  seg' # m /\ cVal'[m] = 0 /\ \A q \in Process : shmid'[q] # m
    BY DEF MadeInv
  <2>1. seg # m /\ cVal[m] = 0 /\ \A q \in Process : shmid[q] # m
    BY <1>1 DEF ShmInv, MadeInv
  <2> QED BY <1>2, <2>1
<1>7. KeysInv'
  BY <1>1, <1>2, Shm_Process DEF ShmInv, KeysInv, LastLaunch, Over
<1>8. AloneInv'
  <2>1. NoOrphans' => NoOrphans
    BY <1>1 DEF NoOrphans
  <2>2. SegmentInv'
    <3>1. /\ seg' = seg /\ shmid' = shmid /\ seg \in {None} \cup Launch
          /\ seg \in Launch => pc'[Parent(seg)] = pc[Parent(seg)]
      BY <1>1, <1>2 DEF ShmInv, ShmTypeOK
    <3> QED BY <2>1, <3>1 DEF ShmInv, AloneInv, SegmentInv
  <2>3. ASSUME NoOrphans', NEW m \in Launch PROVE ParentInv(m)' /\ ChildInv(m)'
    <3>1. ParentInv(m) /\ ChildInv(m) /\ (m # n => ~UnderWay(m))
      BY <1>1, <2>1, <2>3, Shm_Sole DEF ShmInv, AloneInv, UnderWay, Over
    <3>2. CASE m = n
      <4>1. /\ turn[Parent(n)] \in Nat /\ turn[Child(n)] = 0
            /\ seg = n /\ cVal'[n] = 1
        BY <1>1, <1>2, <3>1, <3>2, Shm_Process DEF ShmInv, ShmTypeOK, LaunchTurnInv, TurnsOf, Turns, ChildInv
      <4>2. ParentInv(n)'
        BY <1>1, <1>2, <3>1, <3>2, <4>1 DEF ParentInv
      <4>3. ChildInv(n)'
        BY <1>1, <1>2, <3>1, <3>2, <4>1 DEF ChildInv
      <4> QED BY <3>2, <4>2, <4>3
    <3>3. CASE m # n
      BY <1>1, <1>2, <3>1, <3>3, Shm_Process DEF ParentInv, ChildInv, UnderWay, Over
    <3> QED BY <3>2, <3>3
  <2> QED BY <2>2, <2>3 DEF AloneInv
<1> QED BY <1>3, <1>4, <1>5, <1>6, <1>7, <1>8 DEF ShmInv

LEMMA Shm_NoSegment ==
  ASSUME ShmInv, NEW n \in Launch, NoSegment(n)
  PROVE  ShmInv'
<1>1. /\ pc[Child(n)] = "get" /\ pc'[Child(n)] = "failed" /\ pc' \in [Process -> Stage]
      /\ \A m \in Launch : m # n => pc'[Child(m)] = pc[Child(m)]
      /\ \A m \in Launch : pc'[Parent(m)] = pc[Parent(m)]
  BY Shm_ChildGoes DEF NoSegment, ShmInv, Stage, Over
<1>2. UNCHANGED <<turn, semid, sem, val, undo, shmid, seg, cVal>>
  BY DEF NoSegment, semvars, shmvars
<1>3. ShmTypeOK'
  BY <1>1, <1>2 DEF ShmInv, ShmTypeOK
<1>4. LaunchTurnInv'
  BY <1>1, <1>2 DEF ShmInv, LaunchTurnInv, TurnsOf
<1>5. LaunchOrder' /\ ForkInv'
  BY <1>1, <1>2 DEF ShmInv, LaunchOrder, ForkInv, Over
<1>6. MadeInv'
  BY <1>1, <1>2 DEF ShmInv, MadeInv
<1>7. KeysInv'
  BY <1>1, <1>2 DEF ShmInv, KeysInv, LastLaunch, Over
<1>8. AloneInv'
  <2>1. NoOrphans' => NoOrphans
    BY <1>1 DEF NoOrphans
  <2>2. SegmentInv'
    BY <1>1, <1>2, <2>1 DEF ShmInv, AloneInv, SegmentInv, ShmTypeOK, None
  <2>3. ASSUME NoOrphans', NEW m \in Launch PROVE ParentInv(m)' /\ ChildInv(m)'
    <3>1. ParentInv(m) /\ ChildInv(m) /\ (m # n => ~UnderWay(m))
      BY <1>1, <2>1, <2>3, Shm_Sole DEF ShmInv, AloneInv, UnderWay, Over
    <3>2. CASE m = n
      BY <1>1, <1>2, <3>1, <3>2, Shm_Process DEF ShmInv, ShmTypeOK, ParentInv, ChildInv
    <3>3. CASE m # n
      BY <1>1, <1>2, <3>1, <3>3 DEF ParentInv, ChildInv, UnderWay, Over
    <3> QED BY <3>2, <3>3
  <2> QED BY <2>2, <2>3 DEF AloneInv
<1> QED BY <1>3, <1>4, <1>5, <1>6, <1>7, <1>8 DEF ShmInv

LEMMA Shm_ChildFails ==
  ASSUME ShmInv, NEW n \in Launch, AttachFails(Child(n))
  PROVE  ShmInv'
<1>1. /\ pc[Child(n)] = "attach" /\ pc'[Child(n)] = "failed" /\ pc' \in [Process -> Stage]
      /\ \A m \in Launch : m # n => pc'[Child(m)] = pc[Child(m)]
      /\ \A m \in Launch : pc'[Parent(m)] = pc[Parent(m)]
  BY Shm_ChildGoes DEF AttachFails, ShmInv, Stage, Over
<1>2. UNCHANGED <<turn, semid, sem, val, undo, shmid, seg, cVal>>
  BY DEF AttachFails, semvars, shmvars
<1>3. ShmTypeOK'
  BY <1>1, <1>2 DEF ShmInv, ShmTypeOK
<1>4. LaunchTurnInv'
  BY <1>1, <1>2 DEF ShmInv, LaunchTurnInv, TurnsOf
<1>5. LaunchOrder' /\ ForkInv'
  BY <1>1, <1>2 DEF ShmInv, LaunchOrder, ForkInv, Over
<1>6. MadeInv'
  BY <1>1, <1>2 DEF ShmInv, MadeInv
<1>7. KeysInv'
  BY <1>1, <1>2 DEF ShmInv, KeysInv, LastLaunch, Over
<1>8. AloneInv'
  <2>1. NoOrphans' => NoOrphans
    BY <1>1 DEF NoOrphans
  <2>2. SegmentInv'
    BY <1>1, <1>2, <2>1 DEF ShmInv, AloneInv, SegmentInv, ShmTypeOK, None
  <2>3. ASSUME NoOrphans', NEW m \in Launch PROVE ParentInv(m)' /\ ChildInv(m)'
    <3>1. ParentInv(m) /\ ChildInv(m) /\ (m # n => ~UnderWay(m))
      BY <1>1, <2>1, <2>3, Shm_Sole DEF ShmInv, AloneInv, UnderWay, Over
    <3>2. CASE m = n
      BY <1>1, <1>2, <3>1, <3>2, Shm_Process DEF ShmInv, ShmTypeOK, ParentInv, ChildInv
    <3>3. CASE m # n
      BY <1>1, <1>2, <3>1, <3>3 DEF ParentInv, ChildInv, UnderWay, Over
    <3> QED BY <3>2, <3>3
  <2> QED BY <2>2, <2>3 DEF AloneInv
<1> QED BY <1>3, <1>4, <1>5, <1>6, <1>7, <1>8 DEF ShmInv

LEMMA Shm_Add ==
  ASSUME ShmInv, NEW n \in Launch, Add(n)
  PROVE  ShmInv'
<1>1. /\ pc[Child(n)] = "add" /\ pc'[Child(n)] = "op" /\ pc' \in [Process -> Stage]
      /\ \A m \in Launch : m # n => pc'[Child(m)] = pc[Child(m)]
      /\ \A m \in Launch : pc'[Parent(m)] = pc[Parent(m)]
  BY Shm_ChildGoes DEF Add, ShmInv, Stage, Over
<1>2. /\ cVal' \in [Launch -> Nat]
      /\ \A m \in Launch : m = shmid[Child(n)] => cVal'[m] = cVal[m] + 1
      /\ \A m \in Launch : m # shmid[Child(n)] => cVal'[m] = cVal[m]
      /\ UNCHANGED <<turn, semid, sem, val, undo, shmid, seg>>
  <2>1. cVal \in [Launch -> Nat] /\ cVal' = [cVal EXCEPT ![shmid[Child(n)]] = cVal[shmid[Child(n)]] + 1]
    BY DEF Add, ShmInv, ShmTypeOK
  <2>2. UNCHANGED <<turn, semid, sem, val, undo, shmid, seg>>
    BY DEF Add, semvars
  <2>3. CASE shmid[Child(n)] \in Launch
    BY <2>1, <2>2, <2>3
  <2>4. CASE shmid[Child(n)] \notin Launch
    BY <2>1, <2>2, <2>4
  <2> QED BY <2>3, <2>4
<1>3. ShmTypeOK'
  BY <1>1, <1>2 DEF ShmInv, ShmTypeOK
<1>4. LaunchTurnInv'
  BY <1>1, <1>2 DEF ShmInv, LaunchTurnInv, TurnsOf
<1>5. LaunchOrder' /\ ForkInv'
  BY <1>1, <1>2 DEF ShmInv, LaunchOrder, ForkInv, Over
<1>6. MadeInv'
  <2> SUFFICES ASSUME NEW m \in Launch, pc'[Parent(m)] \in {"none", "set", "get"}
               PROVE  seg' # m /\ cVal'[m] = 0 /\ \A q \in Process : shmid'[q] # m
    BY DEF MadeInv
  <2>1. seg # m /\ cVal[m] = 0 /\ m # shmid[Child(n)]
          /\ \A q \in Process : shmid[q] # m
    BY <1>1, Shm_Process DEF ShmInv, MadeInv
  <2> QED BY <1>2, <2>1
<1>7. KeysInv'
  BY <1>1, <1>2 DEF ShmInv, KeysInv, LastLaunch, Over
<1>8. AloneInv'
  <2>1. NoOrphans' => NoOrphans
    BY <1>1 DEF NoOrphans
  <2>2. SegmentInv'
    BY <1>1, <1>2, <2>1 DEF ShmInv, AloneInv, SegmentInv, ShmTypeOK, None
  <2>3. ASSUME NoOrphans', NEW m \in Launch PROVE ParentInv(m)' /\ ChildInv(m)'
    <3>1. ParentInv(m) /\ ChildInv(m) /\ (m # n => ~UnderWay(m))
      BY <1>1, <2>1, <2>3, Shm_Sole DEF ShmInv, AloneInv, UnderWay, Over
    <3>2. CASE m = n
      BY <1>1, <1>2, <3>1, <3>2, Shm_Process DEF ShmInv, ShmTypeOK, ParentInv, ChildInv
    <3>3. CASE m # n
      BY <1>1, <1>2, <3>1, <3>3 DEF ParentInv, ChildInv, UnderWay, Over
    <3> QED BY <3>2, <3>3
  <2> QED BY <2>2, <2>3 DEF AloneInv
<1> QED BY <1>3, <1>4, <1>5, <1>6, <1>7, <1>8 DEF ShmInv

LEMMA Shm_KillParent ==
  ASSUME ShmInv, NEW n \in Launch, Kill(Parent(n))
  PROVE  ShmInv'
<1>1. /\ pc[Parent(n)] \notin Over \cup {"none"} /\ pc'[Parent(n)] = "killed" /\ pc' \in [Process -> Stage]
      /\ \A m \in Launch : m # n => pc'[Parent(m)] = pc[Parent(m)]
      /\ \A m \in Launch : pc'[Child(m)] = pc[Child(m)]
  BY Shm_Process DEF Kill, ShmInv, ShmTypeOK, Stage, Over
<1>2. /\ val' \in Nat /\ undo' \in [Process -> (-Turns)..Turns]
      /\ undo'[Parent(n)] = 0
      /\ \A m \in Launch : undo'[Child(m)] = undo[Child(m)] /\ (m # n => undo'[Parent(m)] = undo[Parent(m)])
      /\ UNCHANGED <<turn, semid, sem, shmid, seg, cVal>>
  BY Shm_Process DEF Kill, shmvars, ShmInv, ShmTypeOK, Turns
<1>3. ShmTypeOK'
  BY <1>1, <1>2 DEF ShmInv, ShmTypeOK
<1>4. LaunchTurnInv'
  <2> SUFFICES ASSUME NEW m \in Launch PROVE TurnsOf(m)'
    BY DEF LaunchTurnInv
  <2>1. /\ TurnsOf(m)
        /\ turn[Parent(m)] \in 0..Turns /\ turn[Child(m)] \in 0..Turns
        /\ undo[Parent(m)] \in Int /\ undo[Child(m)] \in Int
    BY Shm_Process DEF ShmInv, ShmTypeOK, LaunchTurnInv, Turns
  <2>2. CASE m = n
    BY <1>1, <1>2, <2>1, <2>2 DEF TurnsOf, Turns
  <2>3. CASE m # n
    BY <1>1, <1>2, <2>1, <2>3 DEF TurnsOf, Turns
  <2> QED BY <2>2, <2>3
<1>5. LaunchOrder' /\ ForkInv'
  BY <1>1, <1>2 DEF ShmInv, LaunchOrder, ForkInv, Over
<1>6. MadeInv'
  BY <1>1, <1>2 DEF ShmInv, MadeInv
<1>7. KeysInv'
  BY <1>1, <1>2 DEF ShmInv, KeysInv, LastLaunch, Over
<1>8. AloneInv'
  BY <1>1 DEF AloneInv, SegmentInv, NoOrphans
<1> QED BY <1>3, <1>4, <1>5, <1>6, <1>7, <1>8 DEF ShmInv

LEMMA Shm_KillChild ==
  ASSUME ShmInv, NEW n \in Launch, Kill(Child(n))
  PROVE  ShmInv'
<1>1. /\ pc[Child(n)] \notin Over \cup {"none"} /\ pc'[Child(n)] = "killed" /\ pc' \in [Process -> Stage]
      /\ \A m \in Launch : m # n => pc'[Child(m)] = pc[Child(m)]
      /\ \A m \in Launch : pc'[Parent(m)] = pc[Parent(m)]
  BY Shm_Process DEF Kill, ShmInv, ShmTypeOK, Stage, Over
<1>2. /\ val' \in Nat /\ undo' \in [Process -> (-Turns)..Turns]
      /\ undo'[Child(n)] = 0
      /\ \A m \in Launch : undo'[Parent(m)] = undo[Parent(m)] /\ (m # n => undo'[Child(m)] = undo[Child(m)])
      /\ UNCHANGED <<turn, semid, sem, shmid, seg, cVal>>
  BY Shm_Process DEF Kill, shmvars, ShmInv, ShmTypeOK, Turns
<1>3. ShmTypeOK'
  BY <1>1, <1>2 DEF ShmInv, ShmTypeOK
<1>4. LaunchTurnInv'
  <2> SUFFICES ASSUME NEW m \in Launch PROVE TurnsOf(m)'
    BY DEF LaunchTurnInv
  <2>1. /\ TurnsOf(m)
        /\ turn[Parent(m)] \in 0..Turns /\ turn[Child(m)] \in 0..Turns
        /\ undo[Parent(m)] \in Int /\ undo[Child(m)] \in Int
    BY Shm_Process DEF ShmInv, ShmTypeOK, LaunchTurnInv, Turns
  <2>2. CASE m = n
    BY <1>1, <1>2, <2>1, <2>2 DEF TurnsOf, Turns
  <2>3. CASE m # n
    BY <1>1, <1>2, <2>1, <2>3 DEF TurnsOf, Turns
  <2> QED BY <2>2, <2>3
<1>5. LaunchOrder' /\ ForkInv'
  BY <1>1, <1>2 DEF ShmInv, LaunchOrder, ForkInv, Over
<1>6. MadeInv'
  BY <1>1, <1>2 DEF ShmInv, MadeInv
<1>7. KeysInv'
  BY <1>1, <1>2 DEF ShmInv, KeysInv, LastLaunch, Over
<1>8. AloneInv'
  <2>1. NoOrphans' => NoOrphans
    BY <1>1 DEF NoOrphans
  <2>2. SegmentInv'
    BY <1>1, <1>2, <2>1 DEF ShmInv, AloneInv, SegmentInv, ShmTypeOK, None
  <2>3. ASSUME NoOrphans', NEW m \in Launch PROVE ParentInv(m)' /\ ChildInv(m)'
    <3>1. ParentInv(m) /\ ChildInv(m) /\ (m # n => ~UnderWay(m))
      BY <1>1, <2>1, <2>3, Shm_Sole DEF ShmInv, AloneInv, UnderWay, Over
    <3>2. CASE m = n
      BY <1>1, <1>2, <3>1, <3>2, Shm_Process DEF ShmInv, ShmTypeOK, ParentInv, ChildInv
    <3>3. CASE m # n
      BY <1>1, <1>2, <3>1, <3>3 DEF ParentInv, ChildInv, UnderWay, Over
    <3> QED BY <3>2, <3>3
  <2> QED BY <2>2, <2>3 DEF AloneInv
<1> QED BY <1>3, <1>4, <1>5, <1>6, <1>7, <1>8 DEF ShmInv


LEMMA Shm_P ==
  ASSUME ShmInv, NEW n \in Launch, P(n)
  PROVE  ShmInv'
<1> DEFINE to == IF turn[Child(n)] + 1 < Turns THEN "add" ELSE "removeseg"
<1>1. /\ pc[Child(n)] = "op" /\ pc'[Child(n)] = to /\ pc' \in [Process -> Stage]
      /\ \A m \in Launch : m # n => pc'[Child(m)] = pc[Child(m)]
      /\ \A m \in Launch : pc'[Parent(m)] = pc[Parent(m)]
  BY Shm_ChildGoes DEF P, ShmInv, Stage
<1>2. to \in {"add", "removeseg"} /\ (to = "add" => turn[Child(n)] + 1 < Turns)
  OBVIOUS
<1> HIDE DEF to
<1>3. /\ UNCHANGED <<semid, sem, shmid, seg, cVal>>
      /\ turn' \in [Process -> 0..Turns] /\ undo' \in [Process -> (-Turns)..Turns]
      /\ val' \in Nat
      /\ turn'[Child(n)] = turn[Child(n)] + 1
      /\ \A m \in Launch :
           /\ turn'[Parent(m)] = turn[Parent(m)] /\ undo'[Parent(m)] = undo[Parent(m)]
           /\ m # n => turn'[Child(m)] = turn[Child(m)] /\ undo'[Child(m)] = undo[Child(m)]
      /\ \/ semid[n] # sem /\ val' = val /\ undo'[Child(n)] = undo[Child(n)]
         \/ semid[n] = sem /\ val' = val - 1 /\ undo'[Child(n)] = undo[Child(n)] + 1
  <2>1. ShmTypeOK /\ SemOp(Child(n), -1)
    BY DEF ShmInv, P
  <2>2. turn[Child(n)] < Turns /\ undo[Child(n)] - (-1) \in (-Turns)..Turns
    BY <1>1, <2>1, Shm_Process DEF ShmInv, LaunchTurnInv, TurnsOf, ShmTypeOK, Turns
  <2>3. val + (-1) = val - 1 /\ undo[Child(n)] - (-1) = undo[Child(n)] + 1
    BY <2>1, Shm_Process DEF ShmTypeOK
  <2> QED BY <2>1, <2>2, <2>3, Shm_SemOp, Shm_Process
<1>4. ShmTypeOK'
  BY <1>1, <1>3 DEF ShmInv, ShmTypeOK
<1>5. LaunchTurnInv'
  <2> SUFFICES ASSUME NEW m \in Launch PROVE TurnsOf(m)'
    BY DEF LaunchTurnInv
  <2>1. /\ TurnsOf(m)
        /\ turn[Parent(m)] \in 0..Turns /\ turn[Child(m)] \in 0..Turns
        /\ undo[Parent(m)] \in Int /\ undo[Child(m)] \in Int
    BY Shm_Process DEF ShmInv, ShmTypeOK, LaunchTurnInv, Turns
  <2>2. CASE m = n
    BY <1>1, <1>2, <1>3, <2>1, <2>2 DEF TurnsOf, Turns
  <2>3. CASE m # n
    BY <1>1, <1>2, <1>3, <2>1, <2>3 DEF TurnsOf, Turns
  <2> QED BY <2>2, <2>3
<1>6. LaunchOrder' /\ ForkInv'
  BY <1>1, <1>2 DEF ShmInv, LaunchOrder, ForkInv, Over
<1>7. MadeInv'
  BY <1>1, <1>2, <1>3 DEF ShmInv, MadeInv
<1>8. KeysInv'
  BY <1>1, <1>2, <1>3 DEF ShmInv, KeysInv, LastLaunch, Over
<1>9. AloneInv'
  <2>1. NoOrphans' => NoOrphans
    BY <1>1, <1>2 DEF NoOrphans
  <2>2. SegmentInv'
    BY <1>1, <1>2, <1>3, <2>1 DEF ShmInv, AloneInv, SegmentInv, ShmTypeOK, None
  <2>3. ASSUME NoOrphans', NEW m \in Launch PROVE ParentInv(m)' /\ ChildInv(m)'
    <3>1. ParentInv(m) /\ ChildInv(m) /\ (m # n => ~UnderWay(m))
      BY <1>1, <2>1, <2>3, Shm_Sole DEF ShmInv, AloneInv, UnderWay, Over
    <3>2. CASE m = n
      <4>1. /\ turn[Parent(n)] \in Nat /\ turn[Child(n)] \in Nat /\ val \in Nat
            /\ \A k \in Launch : cVal[k] \in Nat
        BY Shm_Process DEF ShmInv, ShmTypeOK, Turns
      <4>2. /\ pc[Parent(n)] \in {"attach", "op", "wait"} /\ semid[n] = sem
            /\ val' = val - 1 /\ val = turn[Parent(n)] - turn[Child(n)]
            /\ shmid[Child(n)] = n /\ cVal[n] = turn[Child(n)] + 2
        BY <1>1, <1>3, <3>1, <3>2 DEF ChildInv
      <4>3. ParentInv(n)'
        BY <1>1, <1>2, <1>3, <3>1, <3>2, <4>1 DEF ParentInv
      <4>4. turn[Parent(n)] > 0
        BY <1>3, <4>1, <4>2
      <4>5. ChildInv(n)'
        BY <1>1, <1>2, <1>3, <4>1, <4>2, <4>4 DEF ChildInv
      <4> QED BY <3>2, <4>3, <4>5
    <3>3. CASE m # n
      BY <1>1, <1>2, <1>3, <3>1, <3>3 DEF ParentInv, ChildInv, UnderWay, Over
    <3> QED BY <3>2, <3>3
  <2> QED BY <2>2, <2>3 DEF AloneInv
<1> QED BY <1>4, <1>5, <1>6, <1>7, <1>8, <1>9 DEF ShmInv

LEMMA Shm_Next == ShmInv /\ [ShmNext]_shmsemvars => ShmInv'
<1>1. CASE UNCHANGED shmsemvars
  BY <1>1 DEF ShmInv, ShmTypeOK, LaunchOrder, ForkInv, LaunchTurnInv, TurnsOf, KeysInv, LastLaunch,
       MadeInv, AloneInv, SegmentInv, ParentInv, ChildInv, NoOrphans, shmsemvars, semvars, shmvars
<1>2. ASSUME ShmInv, NEW n \in Launch, SemGet(n) \/ ForkFails(n) \/ ParentStep(n) PROVE ShmInv'
  BY <1>2, Shm_SemGet, Shm_SetVal, Shm_ForkFails, Shm_SetValFails, Shm_CreateSegment,
     Shm_ParentAttaches, Shm_ParentFails, Shm_V, Shm_WaitPid,
     Shm_ParentRemovesSegment, Shm_ParentRemovesSet DEF ParentStep
<1>3. ASSUME ShmInv, NEW n \in Launch, ChildStep(n) PROVE ShmInv'
  BY <1>3, Shm_GetSegment, Shm_NoSegment, Shm_ChildAttaches, Shm_ChildFails, Shm_Add, Shm_P,
     Shm_ChildRemovesSegment, Shm_ChildRemovesSet DEF ChildStep
<1>4. ASSUME ShmInv, NEW p \in Process, Kill(p) PROVE ShmInv'
  BY <1>4, Shm_Process, Shm_KillParent, Shm_KillChild
<1> QED BY <1>1, <1>2, <1>3, <1>4 DEF ShmNext

\* The child is never more than one addition ahead of the parent's turns, in what the
\* parent prints (shm_sem.c:80-83, 106-107), in any number of launches of which no
\* parent is killed: each P waits for a V, and nobody else has the set or the segment.
THEOREM ShmInStep == ShmSpec => []InStep
<1>1. ShmInv => InStep
  BY DEF ShmInv, AloneInv, ParentInv, InStep
<1> QED BY <1>1, Shm_Init, Shm_Next, PTL DEF ShmSpec

\* The last launch that comes to its end leaves no segment and no set (115-116),
\* whatever became of any number of earlier ones, of their children, and of its own.
THEOREM ShmNothingLeft == ShmSpec => []NothingLeft
<1>1. ShmInv => NothingLeft
  BY DEF ShmInv, KeysInv, LastLaunch, NothingLeft
<1> QED BY <1>1, Shm_Init, Shm_Next, PTL DEF ShmSpec

-----------------------------------------------------------------------------
(* The directory listing.                                                  *)

\* What is there, and what the user may do with it, does not change
TreeInv ==
  /\ IsFiniteSet(dirs \cup files) /\ dirs \cup files \subseteq Seq(Name \cup {Start})
  /\ <<>> \in dirs /\ <<Start>> \in dirs /\ dirs \cap files = {}
  /\ \A d \in dirs \cup files :
       d \in {<<>>, <<Start>>} \/ \E p \in dirs \ {<<>>}, n \in Name : d = Append(p, n)
  /\ mode \in [dirs -> Mode]

\* The j-th subdirectory that a call has found
Sub(f, j) == f.buffer[f.dirName[j]]
\* What is said of calls and listings takes the directories D, and all files T, as
\* parameters, and so has no variable of its own
IsSub(f, n, D) == n # "." /\ Append(f.dir, n) \in D
NamesIn(d, T)  == {n \in Name : Append(d, n) \in T} \cup {"."}

\* What a call has read is in its buffer, each entry once
EntriesRead(f, T) ==
  /\ f.unread \subseteq NamesIn(f.dir, T) /\ f.read = Len(f.buffer)
  /\ Cardinality(f.unread) + f.read <= Buffered
  /\ \A n \in NamesIn(f.dir, T) : n \in f.unread \/ \E k \in 1..Len(f.buffer) : f.buffer[k] = n
  /\ \A k \in 1..Len(f.buffer) : f.buffer[k] \notin f.unread
Once(f) == \A k, l \in 1..Len(f.buffer) : f.buffer[k] = f.buffer[l] => k = l
\* dirName is where in the buffer the subdirectories are
SubsFound(f, D) ==
  /\ \A j \in 1..Len(f.dirName) : f.dirName[j] \in 1..Len(f.buffer) /\ IsSub(f, Sub(f, j), D)
  /\ \A k \in 1..Len(f.buffer) :
       IsSub(f, f.buffer[k], D) => \E j \in 1..Len(f.dirName) : f.dirName[j] = k
FoundOnce(f) == \A j, l \in 1..Len(f.dirName) : f.dirName[j] = f.dirName[l] => j = l
FrameOK(f, D, T) ==
  /\ f.dir \in D \ {<<>>} /\ f.buffer \in Seq(PathName) /\ f.dirName \in Seq(Nat)
  /\ f.i \in Nat \ {0} /\ EntriesRead(f, T) /\ Once(f) /\ SubsFound(f, D) /\ FoundOnce(f)

\* Each call is of the subdirectory that the one before is at
ListCall == [dir : Seq(PathName), unread : SUBSET PathName, read : Nat,
         buffer : Seq(PathName), dirName : Seq(Nat), i : Nat]
Nested(f, g) ==
  f.unread = {} /\ f.i <= Len(f.dirName) /\ g.dir = Append(f.dir, Sub(f, f.i))
FramesOK(fs, D, T) ==
  /\ fs \in Seq(ListCall)
  /\ \A k \in 1..Len(fs) : FrameOK(fs[k], D, T) /\ Len(fs[k].dir) = k
  /\ \A k \in 1..(Len(fs) - 1) : Nested(fs[k], fs[k + 1])
FramesInv == FramesOK(frames, dirs, dirs \cup files)

\* The working directory is the innermost call's
PlaceInv ==
  /\ walk \in [at : {"call", "read", "loop", "fail", "over", "crashed"}, arg : PathName]
  /\ cwd = IF frames = <<>> THEN <<>> ELSE frames[Len(frames)].dir
  /\ walk.at \in {"read", "loop"} => frames # <<>>
  /\ walk.at = "over" => frames = <<>>
  /\ walk.at = "call" /\ frames = <<>> => walk.arg = Start /\ listed = <<>>
  /\ walk.at \notin {"read", "crashed"} /\ frames # <<>> => frames[Len(frames)].unread = {}
  /\ walk.at = "read" => frames[Len(frames)].i = 1
  /\ walk.at \in {"call", "fail"} /\ frames # <<>> =>
       frames[Len(frames)].i <= Len(frames[Len(frames)].dirName)
  /\ walk.at = "call" /\ frames # <<>> => walk.arg = Sub(frames[Len(frames)], frames[Len(frames)].i)

\* What has been listed, and what of it is below an active call
IsIn(d, l) == \E k \in 1..Len(l) : l[k] = d
Reached(f, n, m) == \E j \in 1..Len(f.dirName) : n = Sub(f, j) /\ j < m
ListedOK(l, fs, D) ==
  /\ l \in Seq(D \ {<<>>})
  /\ \A k, m \in 1..Len(l) : l[k] = l[m] => k = m
  /\ \A k \in 1..Len(fs) : IsIn(fs[k].dir, l)
  /\ \A p \in D \ {<<>>}, n \in Name : IsIn(Append(p, n), l) => IsIn(p, l)
  /\ \A k \in 1..Len(fs), n \in Name : IsIn(Append(fs[k].dir, n), l) =>
       Reached(fs[k], n, IF k < Len(fs) THEN fs[k].i + 1 ELSE fs[k].i)
ListedInv == ListedOK(listed, frames, dirs)

\* If every directory can be opened, what is below one that is done has been listed
Openable == AllMay("r") /\ \A d \in dirs : Len(d) <= MaxOpen
SubsListed(l, f) ==
  \A j \in 1..Len(f.dirName) : j < f.i => IsIn(Append(f.dir, Sub(f, j)), l)
DoneOK(l, fs, D) ==
  /\ \A k \in 1..Len(fs) : SubsListed(l, fs[k])
  /\ \A p \in D \ {<<>>}, n \in Name : IsIn(p, l) /\ Append(p, n) \in D =>
       IsIn(Append(p, n), l) \/ \E k \in 1..Len(fs) : fs[k].dir = p
DoneInv ==
  Openable => /\ walk.at # "fail" /\ (walk.at = "over" => IsIn(<<Start>>, listed))
              /\ DoneOK(listed, frames, dirs)

\* A tree in which every directory that can be read can be entered, and a buffer that
\* has room for the entries of each
Walkable == AllMay("x") /\ Small
CallsInv == FramesInv /\ PlaceInv /\ ListedInv /\ DoneInv
WalkInv  == TreeInv /\ (Walkable => CallsInv)

\* Two paths that are one have the same end and the same front
LEMMA Path_Append ==
  ASSUME NEW S, NEW T, NEW p \in Seq(S), NEW q \in Seq(T), NEW m \in S, NEW n \in T,
         Append(p, m) = Append(q, n)
  PROVE  p = q /\ m = n
<1>1. Len(p) = Len(q) /\ m = n
  <2>1. Len(Append(p, m)) = Len(p) + 1 /\ Len(Append(q, n)) = Len(q) + 1
        /\ Append(p, m)[Len(p) + 1] = m /\ Append(q, n)[Len(q) + 1] = n
        /\ Len(p) \in Nat /\ Len(q) \in Nat
    BY AppendProperties, LenProperties
  <2> QED BY <2>1
<1>2. \A k \in 1..Len(p) : p[k] = q[k]
  BY <1>1, AppendProperties
<1> QED BY <1>1, <1>2, SeqEqual

LEMMA Path_Longer ==
  ASSUME NEW S, NEW p \in Seq(S), NEW n \in S
  PROVE  /\ Len(Append(p, n)) = Len(p) + 1 /\ Append(p, n) # <<>>
         /\ p # <<>> => \A m : Append(p, n) # <<m>>
<1>1. Len(Append(p, n)) = Len(p) + 1 /\ Len(p) \in Nat
  BY AppendProperties, LenProperties
<1>2. Append(p, n) # <<>>
  BY AppendProperties
<1>3. ASSUME p # <<>>, NEW m, Append(p, n) = <<m>> PROVE FALSE
  <2>1. Len(p) # 0
    BY <1>3, EmptySeq
  <2>2. Len(<<m>>) = 1
    OBVIOUS
  <2> QED BY <1>1, <1>3, <2>1, <2>2
<1> QED BY <1>1, <1>2, <1>3

\* What is below a directory is a name of its own, no longer than it has to be
LEMMA Walk_Below ==
  ASSUME TreeInv, NEW p \in dirs \ {<<>>}, NEW n, n \in PathName, Append(p, n) \in dirs \cup files
  PROVE  n \in Name /\ Len(Append(p, n)) = Len(p) + 1 /\ Append(p, n) # <<>> /\ Append(p, n) # <<Start>>
<1>1. p \in Seq(PathName) /\ p # <<>>
  BY DEF TreeInv, PathName
<1>2. Len(Append(p, n)) = Len(p) + 1 /\ Append(p, n) # <<>> /\ Append(p, n) # <<Start>>
  BY <1>1, Path_Longer
<1>3. Append(p, n) \notin {<<>>, <<Start>>}
  BY <1>2
<1>4. PICK q \in dirs \ {<<>>}, m \in Name : Append(p, n) = Append(q, m)
  BY <1>3 DEF TreeInv
<1>5. n = m
  <2>1. q \in Seq(Name \cup {Start})
    BY DEF TreeInv
  <2>2. p \in Seq(PathName) /\ q \in Seq(PathName) /\ n \in PathName /\ m \in PathName
    BY <1>1, <2>1 DEF PathName
  <2> QED BY <1>4, <2>2, Path_Append
<1> QED BY <1>2, <1>3, <1>5

\* A call is of a directory that has not been listed
LEMMA Walk_Called ==
  ASSUME TreeInv, FramesInv, PlaceInv, ListedInv, walk.at = "call"
  PROVE  /\ Called \in dirs \ {<<>>} /\ Len(Called) = Len(frames) + 1 /\ ~IsIn(Called, listed)
         /\ frames = <<>> => Called = <<Start>> /\ listed = <<>>
         /\ frames # <<>> => Called = Append(frames[Len(frames)].dir, walk.arg) /\ walk.arg \in Name
<1>1. CASE frames = <<>>
  <2>1. Called = <<Start>> /\ listed = <<>>
    BY <1>1 DEF PlaceInv, Called, Below, Start
  <2>2. <<Start>> # <<>> /\ Len(<<Start>>) = 1 /\ Len(<<>>) = 0
    OBVIOUS
  <2> QED BY <1>1, <2>1, <2>2 DEF TreeInv, IsIn
<1>2. CASE frames # <<>>
  <2> DEFINE top == frames[Len(frames)]
  <2>1. Len(frames) \in 1..Len(frames) /\ Len(frames) \in Nat \ {0}
    BY <1>2, EmptySeq, LenProperties DEF FramesInv, FramesOK
  <2>2. /\ FrameOK(top, dirs, dirs \cup files) /\ Len(top.dir) = Len(frames) /\ cwd = top.dir
        /\ top.i \in 1..Len(top.dirName) /\ walk.arg = Sub(top, top.i)
    <3>1. /\ FrameOK(top, dirs, dirs \cup files) /\ Len(top.dir) = Len(frames) /\ cwd = top.dir
          /\ top.i <= Len(top.dirName) /\ walk.arg = Sub(top, top.i)
      BY <1>2, <2>1 DEF FramesInv, FramesOK, PlaceInv
    <3> QED BY <3>1, LenProperties DEF FrameOK
  <2> HIDE DEF top
  <2>3. /\ IsSub(top, walk.arg, dirs) /\ walk.arg \in PathName /\ top.dir \in dirs \ {<<>>}
    BY <2>2 DEF FrameOK, SubsFound, PlaceInv
  <2>4. Called = Append(top.dir, walk.arg) /\ Called \in dirs
    BY <2>2, <2>3 DEF IsSub, Called, Below
  <2>5. walk.arg \in Name /\ Len(Called) = Len(frames) + 1 /\ Called # <<>>
    BY <2>2, <2>3, <2>4, Walk_Below
  <2>6. ~IsIn(Called, listed)
    <3> SUFFICES ASSUME IsIn(Called, listed) PROVE FALSE OBVIOUS
    <3>1. PICK j \in 1..Len(top.dirName) : walk.arg = Sub(top, j) /\ j < top.i
      BY <2>1, <2>4, <2>5 DEF ListedInv, ListedOK, Reached, top
    <3>2. /\ top.dirName[j] \in 1..Len(top.buffer) /\ top.dirName[top.i] \in 1..Len(top.buffer)
          /\ top.buffer[top.dirName[j]] = top.buffer[top.dirName[top.i]]
      BY <2>2, <3>1 DEF FrameOK, SubsFound, Sub
    <3>3. top.dirName[j] = top.dirName[top.i]
      BY <2>2, <3>2 DEF FrameOK, Once
    <3>4. j = top.i
      BY <2>2, <3>3 DEF FrameOK, FoundOnce
    <3> QED BY <2>2, <3>1, <3>4
  <2> QED BY <1>2, <2>4, <2>5, <2>6 DEF top
<1> QED BY <1>1, <1>2

LEMMA Walk_Init == WalkInit => WalkInv
<1> SUFFICES ASSUME WalkInit PROVE WalkInv OBVIOUS
<1>1. PICK t \in Trees : dirs = t.dirs \cup {<<>>} /\ files = t.files
  BY DEF WalkInit
<1>2. TreeInv
  <2>1. /\ IsFiniteSet(t.dirs \cup t.files) /\ t.dirs \cup t.files \subseteq Seq(Name \cup {Start})
        /\ <<Start>> \in t.dirs /\ t.dirs \cap t.files = {}
        /\ \A d \in t.dirs \cup t.files :
             d = <<Start>> \/ \E p \in t.dirs, n \in Name : d = Append(p, n)
    BY WalkAssumption
  <2>2. <<>> \notin t.dirs \cup t.files
    <3>1. ASSUME NEW p \in t.dirs, NEW n \in Name PROVE Append(p, n) # <<>>
      BY <2>1, Path_Longer
    <3> QED BY <2>1, <3>1
  <2>3. IsFiniteSet(dirs \cup files)
    <3>1. dirs \cup files = (t.dirs \cup t.files) \cup {<<>>}
      BY <1>1
    <3> QED BY <2>1, <3>1, FS_AddElement
  <2>4. mode \in [dirs -> Mode]
    BY DEF WalkInit, Mode
  <2>5. dirs \ {<<>>} = t.dirs
    BY <1>1, <2>2
  <2>6. dirs \cup files \subseteq Seq(Name \cup {Start}) /\ <<>> \in dirs /\ <<Start>> \in dirs
    BY <1>1, <2>1, EmptySeq
  <2>7. dirs \cap files = {}
    BY <1>1, <2>1, <2>2
  <2>8. ASSUME NEW d \in dirs \cup files
        PROVE  d \in {<<>>, <<Start>>} \/ \E p \in dirs \ {<<>>}, n \in Name : d = Append(p, n)
    BY <1>1, <2>1, <2>5
  <2> QED BY <2>3, <2>4, <2>6, <2>7, <2>8 DEF TreeInv
<1>3. FramesInv /\ PlaceInv /\ ListedInv /\ DoneInv
  BY EmptySeq DEF WalkInit, FramesInv, FramesOK, PlaceInv, ListedInv, ListedOK, DoneInv, DoneOK,
                  IsIn, PathName
<1> QED BY <1>2, <1>3 DEF WalkInv, CallsInv

LEMMA Walk_OpenFails ==
  ASSUME TreeInv, CallsInv, OpenFails
  PROVE  CallsInv'
<1>1. /\ walk' = [walk EXCEPT !.at = "fail"] /\ walk.at = "call"
      /\ UNCHANGED <<dirs, files, mode, frames, cwd, stat, listed>>
  BY DEF OpenFails, WalkGoes
<1>2. FramesInv' /\ ListedInv'
  BY <1>1 DEF CallsInv, FramesInv, ListedInv
<1>3. walk'.at = "fail" /\ PlaceInv'
  BY <1>1 DEF CallsInv, PlaceInv
<1>4. ~Openable
  <2>1. Called \in dirs /\ Len(Called) = Len(frames) + 1 /\ Len(frames) \in Nat
    BY <1>1, Walk_Called, LenProperties DEF CallsInv, FramesInv, FramesOK
  <2> QED BY <2>1, WalkAssumption DEF OpenFails, Openable, AllMay
<1>5. ~Openable'
  BY <1>1, <1>4 DEF Openable, AllMay
<1> QED BY <1>2, <1>3, <1>5 DEF CallsInv, DoneInv

LEMMA Walk_NoSuchOwner ==
  ASSUME TreeInv, CallsInv, NoSuchOwner
  PROVE  CallsInv'
<1>1. /\ walk' = [walk EXCEPT !.at = "crashed"]
      /\ UNCHANGED <<dirs, files, mode, frames, cwd, stat, listed>>
  BY DEF NoSuchOwner, WalkGoes
<1>2. FramesInv' /\ ListedInv'
  BY <1>1 DEF CallsInv, FramesInv, ListedInv
<1>3. walk'.at = "crashed" /\ PlaceInv'
  BY <1>1 DEF CallsInv, PlaceInv
<1>4. DoneInv'
  BY <1>1, <1>3 DEF CallsInv, DoneInv, Openable, AllMay
<1> QED BY <1>2, <1>3, <1>4 DEF CallsInv

LEMMA Walk_EndOfDir ==
  ASSUME TreeInv, CallsInv, EndOfDir
  PROVE  CallsInv'
<1>1. /\ walk' = [walk EXCEPT !.at = "loop"] /\ walk.at = "read" /\ frames[Len(frames)].unread = {}
      /\ UNCHANGED <<dirs, files, mode, frames, cwd, stat, listed>>
  BY DEF EndOfDir, WalkGoes, TopFrame, Last
<1>2. FramesInv' /\ ListedInv'
  BY <1>1 DEF CallsInv, FramesInv, ListedInv
<1>3. walk'.at = "loop" /\ PlaceInv'
  BY <1>1 DEF CallsInv, PlaceInv
<1>4. DoneInv'
  BY <1>1, <1>3 DEF CallsInv, DoneInv, Openable, AllMay
<1> QED BY <1>2, <1>3, <1>4 DEF CallsInv

LEMMA Walk_Recurse ==
  ASSUME TreeInv, CallsInv, Recurse
  PROVE  CallsInv'
<1> DEFINE top == frames[Len(frames)]
<1>1. /\ walk' = [at |-> "call", arg |-> Sub(top, top.i)] /\ walk.at = "loop"
      /\ frames # <<>> /\ top.i <= Len(top.dirName)
      /\ UNCHANGED <<dirs, files, mode, frames, cwd, stat, listed>>
  BY DEF Recurse, TopFrame, Last, Sub
<1>2. FramesInv' /\ ListedInv'
  BY <1>1 DEF CallsInv, FramesInv, ListedInv
<1>3. Sub(top, top.i) \in PathName
  <2>1. Len(frames) \in 1..Len(frames)
    BY <1>1, EmptySeq, LenProperties DEF CallsInv, FramesInv, FramesOK
  <2>2. FrameOK(top, dirs, dirs \cup files)
    BY <2>1 DEF CallsInv, FramesInv, FramesOK
  <2> HIDE DEF top
  <2>3. top.i \in 1..Len(top.dirName) /\ top.buffer \in Seq(PathName)
    BY <1>1, <2>2, LenProperties DEF FrameOK
  <2> QED BY <2>2, <2>3 DEF FrameOK, SubsFound, Sub
<1>4. PlaceInv'
  BY <1>1, <1>3 DEF CallsInv, PlaceInv, Sub
<1>5. DoneInv'
  BY <1>1 DEF CallsInv, DoneInv, Openable, AllMay
<1> QED BY <1>2, <1>4, <1>5 DEF CallsInv

\* A call that goes on to another place of dirName is still what it was
LEMMA Frame_Next ==
  ASSUME NEW f \in ListCall, NEW D, NEW T, FrameOK(f, D, T), NEW m \in Nat \ {0}
  PROVE  LET g == [f EXCEPT !.i = m]
         IN  /\ g \in ListCall /\ FrameOK(g, D, T) /\ g.i = m
             /\ g.dir = f.dir /\ g.unread = f.unread /\ g.dirName = f.dirName
             /\ \A j : Sub(g, j) = Sub(f, j)
<1> DEFINE g == [f EXCEPT !.i = m]
<1>1. /\ g \in ListCall /\ g.i = m /\ g.dir = f.dir /\ g.unread = f.unread /\ g.read = f.read
      /\ g.dirName = f.dirName /\ g.buffer = f.buffer
  BY DEF ListCall
<1> HIDE DEF g
<1>2. \A j : Sub(g, j) = Sub(f, j)
  BY <1>1 DEF Sub
<1>3. EntriesRead(g, T) /\ Once(g)
  BY <1>1 DEF FrameOK, EntriesRead, Once
<1>4. SubsFound(g, D) /\ FoundOnce(g)
  <2>1. \A n : IsSub(g, n, D) <=> IsSub(f, n, D)
    BY <1>1 DEF IsSub
  <2>2. SubsFound(f, D) /\ FoundOnce(f)
    BY DEF FrameOK
  <2>3. SubsFound(g, D)
    BY <1>1, <1>2, <2>1, <2>2 DEF SubsFound
  <2>4. FoundOnce(g)
    BY <1>1, <2>2 DEF FoundOnce
  <2> QED BY <2>3, <2>4
<1>5. FrameOK(g, D, T)
  BY <1>1, <1>3, <1>4 DEF FrameOK
<1> QED BY <1>1, <1>2, <1>5 DEF g

\* A sequence with another last element
LEMMA Seq_Top ==
  ASSUME NEW S, NEW q \in Seq(S), q # <<>>, NEW x \in S
  PROVE  /\ [q EXCEPT ![Len(q)] = x] \in Seq(S) /\ [q EXCEPT ![Len(q)] = x] # <<>>
         /\ Len([q EXCEPT ![Len(q)] = x]) = Len(q) /\ [q EXCEPT ![Len(q)] = x][Len(q)] = x
         /\ \A k \in 1..(Len(q) - 1) : [q EXCEPT ![Len(q)] = x][k] = q[k]
<1>1. Len(q) \in Nat \ {0} /\ Len(q) \in 1..Len(q)
  BY EmptySeq, LenProperties
<1>2. DEFINE r == [q EXCEPT ![Len(q)] = x]
<1>3. r \in Seq(S) /\ Len(r) = Len(q) /\ \A k \in 1..Len(q) : r[k] = IF k = Len(q) THEN x ELSE q[k]
  BY <1>1, ExceptSeq
<1> HIDE DEF r
<1>4. r # <<>>
  BY <1>1, <1>3, EmptySeq
<1>5. r[Len(q)] = x /\ \A k \in 1..(Len(q) - 1) : r[k] = q[k]
  BY <1>1, <1>3
<1> QED BY <1>3, <1>4, <1>5 DEF r

\* The innermost call changes, but not the directory it lists
LEMMA Frames_Top ==
  ASSUME NEW D, NEW T, NEW fs, FramesOK(fs, D, T), fs # <<>>,
         NEW gs \in Seq(ListCall), Len(gs) = Len(fs), \A k \in 1..(Len(fs) - 1) : gs[k] = fs[k],
         FrameOK(gs[Len(fs)], D, T), gs[Len(fs)].dir = fs[Len(fs)].dir
  PROVE  FramesOK(gs, D, T)
<1> DEFINE L == Len(fs)
<1>1. fs \in Seq(ListCall) /\ L \in Nat \ {0} /\ L \in 1..L
  BY EmptySeq, LenProperties DEF FramesOK
<1>2. Len(gs) = L /\ gs[L].dir = fs[L].dir /\ \A k \in 1..(L - 1) : gs[k] = fs[k]
  OBVIOUS
<1>3. ASSUME NEW k \in 1..L PROVE FrameOK(gs[k], D, T) /\ Len(gs[k].dir) = k
  <2>1. FrameOK(fs[k], D, T) /\ Len(fs[k].dir) = k
    BY DEF FramesOK
  <2>2. CASE k = L
    BY <1>2, <2>1, <2>2
  <2>3. CASE k # L
    BY <1>1, <1>2, <2>1, <2>3
  <2> QED BY <2>2, <2>3
<1>4. ASSUME NEW k \in 1..(L - 1) PROVE Nested(gs[k], gs[k + 1])
  <2>1. Nested(fs[k], fs[k + 1]) /\ gs[k] = fs[k]
    BY <1>2 DEF FramesOK
  <2>2. gs[k + 1].dir = fs[k + 1].dir
    <3>1. CASE k + 1 = L
      BY <1>2, <3>1
    <3>2. CASE k + 1 # L
      <4>1. k + 1 \in 1..(L - 1)
        BY <1>1, <3>2
      <4> QED BY <1>2, <4>1
    <3> QED BY <3>1, <3>2
  <2> QED BY <2>1, <2>2 DEF Nested
<1> QED BY <1>3, <1>4 DEF FramesOK

\* What has been listed stays below the calls when the innermost one goes on
LEMMA Listed_Top ==
  ASSUME NEW D, NEW T, NEW fs, FramesOK(fs, D, T), fs # <<>>, NEW l, ListedOK(l, fs, D),
         NEW gs, gs # <<>>, Len(gs) = Len(fs), \A k \in 1..(Len(fs) - 1) : gs[k] = fs[k],
         gs[Len(fs)].dir = fs[Len(fs)].dir,
         \A n \in Name : Reached(fs[Len(fs)], n, fs[Len(fs)].i)
                          => Reached(gs[Len(fs)], n, gs[Len(fs)].i)
  PROVE  ListedOK(l, gs, D)
<1> DEFINE L == Len(fs)
<1>1. L \in Nat \ {0} /\ L \in 1..L
  BY EmptySeq, LenProperties DEF FramesOK
<1>2. ASSUME NEW k \in 1..L PROVE gs[k].dir = fs[k].dir /\ (k # L => gs[k] = fs[k])
  BY <1>1
<1>3. \A k \in 1..Len(gs) : IsIn(gs[k].dir, l)
  BY <1>2 DEF ListedOK
<1>4. ASSUME NEW k \in 1..Len(gs), NEW n \in Name, IsIn(Append(gs[k].dir, n), l)
      PROVE  Reached(gs[k], n, IF k < Len(gs) THEN gs[k].i + 1 ELSE gs[k].i)
  <2>1. Reached(fs[k], n, IF k < L THEN fs[k].i + 1 ELSE fs[k].i)
    BY <1>2, <1>4 DEF ListedOK
  <2>2. CASE k = L
    BY <1>1, <2>1, <2>2
  <2>3. CASE k # L
    BY <1>1, <1>2, <2>1, <2>3
  <2> QED BY <2>2, <2>3
<1> QED BY <1>3, <1>4 DEF ListedOK

LEMMA Walk_BreakLoop ==
  ASSUME TreeInv, CallsInv, BreakLoop
  PROVE  CallsInv'
<1>1. /\ walk.at = "fail" /\ UNCHANGED <<dirs, files, mode, cwd, stat, listed>>
      /\ ~Openable /\ ~Openable'
  BY DEF BreakLoop, WalkGoes, CallsInv, DoneInv, Openable, AllMay
<1>2. DoneInv'
  BY <1>1 DEF DoneInv
<1>3. CASE frames = <<>>
  <2>1. walk' = [walk EXCEPT !.at = "over"] /\ UNCHANGED frames
    BY <1>3 DEF BreakLoop, WalkGoes
  <2>2. FramesInv' /\ ListedInv'
    BY <1>1, <1>3, <2>1 DEF CallsInv, FramesInv, ListedInv
  <2>3. PlaceInv'
    BY <1>1, <1>3, <2>1 DEF CallsInv, PlaceInv
  <2> QED BY <1>2, <2>2, <2>3 DEF CallsInv
<1>4. CASE frames # <<>>
  <2> DEFINE L == Len(frames)
             f == frames[L]
             g == [f EXCEPT !.i = Len(f.dirName) + 1]
  <2>1. L \in Nat \ {0} /\ f \in ListCall /\ FrameOK(f, dirs, dirs \cup files)
    <3>1. frames \in Seq(ListCall) /\ Len(frames) \in 1..Len(frames)
      BY <1>4, EmptySeq, LenProperties DEF CallsInv, FramesInv, FramesOK
    <3>2. f \in ListCall
      BY <3>1, ElementOfSeq
    <3>3. FrameOK(f, dirs, dirs \cup files)
      BY <3>1 DEF CallsInv, FramesInv, FramesOK
    <3> QED BY <3>1, <3>2, <3>3
  <2>2. walk' = [walk EXCEPT !.at = "loop"] /\ frames' = [frames EXCEPT ![L] = g]
    BY <1>4 DEF BreakLoop, WalkGoes, WithTop, TopFrame, Last
  <2>3. f.i \in 1..Len(f.dirName) /\ f.unread = {} /\ cwd = f.dir /\ f.dirName \in Seq(Nat)
    BY <1>1, <1>4, <2>1 DEF CallsInv, PlaceInv, FrameOK
  <2>4. Len(f.dirName) + 1 \in Nat \ {0}
    BY <2>3, LenProperties
  <2>5. /\ g \in ListCall /\ FrameOK(g, dirs, dirs \cup files) /\ g.i = Len(f.dirName) + 1
        /\ g.dir = f.dir /\ g.unread = f.unread /\ g.dirName = f.dirName
        /\ \A j : Sub(g, j) = Sub(f, j)
    BY <2>1, <2>4, Frame_Next
  <2> HIDE DEF g
  <2>6. /\ FramesOK(frames', dirs, dirs \cup files) /\ frames' # <<>> /\ Len(frames') = L
        /\ frames'[L] = g /\ \A k \in 1..(L - 1) : frames'[k] = frames[k]
    <3>1. FramesOK(frames, dirs, dirs \cup files) /\ frames \in Seq(ListCall)
      BY DEF CallsInv, FramesInv, FramesOK
    <3>2. /\ frames' \in Seq(ListCall) /\ frames' # <<>> /\ Len(frames') = L
          /\ frames'[L] = g /\ \A k \in 1..(L - 1) : frames'[k] = frames[k]
      BY <1>4, <2>2, <2>5, <3>1, Seq_Top
    <3> QED BY <1>4, <2>5, <3>1, <3>2, Frames_Top
  <2>7. ListedOK(listed, frames', dirs)
    <3>1. \A n \in Name : Reached(f, n, f.i) => Reached(g, n, g.i)
      BY <2>3, <2>4, <2>5 DEF Reached
    <3>2. FramesOK(frames, dirs, dirs \cup files) /\ ListedOK(listed, frames, dirs)
      BY DEF CallsInv, FramesInv, ListedInv
    <3> QED BY <1>4, <2>5, <2>6, <3>1, <3>2, Listed_Top
  <2>8. PlaceInv'
    BY <1>1, <2>1, <2>2, <2>3, <2>5, <2>6 DEF CallsInv, PlaceInv
  <2>9. FramesInv' /\ ListedInv'
    BY <1>1, <2>6, <2>7 DEF FramesInv, ListedInv
  <2> QED BY <1>2, <2>8, <2>9 DEF CallsInv
<1> QED BY <1>3, <1>4

\* A sequence of different elements, with one more
LEMMA Distinct_Append ==
  ASSUME NEW S, NEW q \in Seq(S), NEW x \in S,
         \A j, l \in 1..Len(q) : q[j] = q[l] => j = l, \A j \in 1..Len(q) : q[j] # x
  PROVE  \A j, l \in 1..Len(Append(q, x)) : Append(q, x)[j] = Append(q, x)[l] => j = l
<1> DEFINE r == Append(q, x)
<1>1. PICK M \in Nat : M = Len(q)
  BY LenProperties
<1>2. Len(r) = M + 1 /\ r[M + 1] = x /\ \A j \in 1..M : r[j] = q[j]
  BY <1>1, AppendProperties
<1> HIDE DEF r
<1>3. \A j \in 1..(M + 1) : j = M + 1 \/ j \in 1..M
  OBVIOUS
<1>4. \A j \in 1..M : r[j] # r[M + 1]
  BY <1>1, <1>2
<1>5. \A j, l \in 1..M : r[j] = r[l] => j = l
  BY <1>1, <1>2
<1>6. ASSUME NEW j \in 1..(M + 1), NEW l \in 1..(M + 1), r[j] = r[l] PROVE j = l
  BY <1>3, <1>4, <1>5, <1>6
<1> QED BY <1>2, <1>6 DEF r

\* One more call, of the subdirectory that the innermost one is at
LEMMA Frames_Push ==
  ASSUME NEW D, NEW T, NEW fs, FramesOK(fs, D, T),
         NEW g \in ListCall, FrameOK(g, D, T), Len(g.dir) = Len(fs) + 1,
         fs # <<>> => Nested(fs[Len(fs)], g)
  PROVE  FramesOK(Append(fs, g), D, T)
<1> DEFINE gs == Append(fs, g)
           L  == Len(fs)
<1>1. fs \in Seq(ListCall) /\ L \in Nat
  BY LenProperties DEF FramesOK
<1>2. gs \in Seq(ListCall) /\ Len(gs) = L + 1 /\ gs[L + 1] = g /\ \A k \in 1..L : gs[k] = fs[k]
  BY <1>1, AppendProperties
<1> HIDE DEF gs
<1>3. ASSUME NEW k \in 1..Len(gs) PROVE FrameOK(gs[k], D, T) /\ Len(gs[k].dir) = k
  <2>1. CASE k = L + 1
    BY <1>2, <2>1
  <2>2. CASE k \in 1..L
    BY <1>2, <2>2 DEF FramesOK
  <2> QED BY <1>1, <1>2, <2>1, <2>2
<1>4. ASSUME NEW k \in 1..(Len(gs) - 1) PROVE Nested(gs[k], gs[k + 1])
  <2>1. CASE k = L
    <3>1. fs # <<>>
      BY <1>2, <2>1, EmptySeq
    <3> QED BY <1>1, <1>2, <2>1, <3>1
  <2>2. CASE k # L
    <3>1. k \in 1..(L - 1) /\ k \in 1..L /\ k + 1 \in 1..L
      BY <1>1, <1>2, <2>2
    <3> QED BY <1>2, <3>1 DEF FramesOK
  <2> QED BY <2>1, <2>2
<1> QED BY <1>2, <1>3, <1>4 DEF FramesOK, gs

\* The listing with one more directory
LEMMA IsIn_Append ==
  ASSUME NEW S, NEW l \in Seq(S), NEW d \in S
  PROVE  \A e : IsIn(e, Append(l, d)) <=> IsIn(e, l) \/ e = d
<1>1. /\ Len(Append(l, d)) = Len(l) + 1 /\ Append(l, d)[Len(l) + 1] = d /\ Len(l) \in Nat
      /\ \A i \in 1..Len(l) : Append(l, d)[i] = l[i]
  BY AppendProperties, LenProperties
<1> QED BY <1>1 DEF IsIn

\* Where a directory that is an active call's is
LEMMA Frame_Place ==
  ASSUME NEW D, NEW T, NEW fs, FramesOK(fs, D, T), NEW k \in 1..Len(fs), NEW m \in 1..Len(fs),
         fs[k].dir = fs[m].dir
  PROVE  k = m
BY DEF FramesOK

LEMMA Listed_Push ==
  ASSUME NEW D, NEW T, D \subseteq Seq(PathName), NEW fs, FramesOK(fs, D, T), NEW l, ListedOK(l, fs, D),
         NEW g \in ListCall, g.dir \in D \ {<<>>}, Len(g.dir) = Len(fs) + 1, ~IsIn(g.dir, l),
         fs = <<>> => g.dir = <<Start>>,
         fs # <<>> => /\ Nested(fs[Len(fs)], g) /\ fs[Len(fs)].i \in Nat \ {0}
                      /\ Sub(fs[Len(fs)], fs[Len(fs)].i) \in PathName
  PROVE  ListedOK(Append(l, g.dir), Append(fs, g), D)
<1> DEFINE gs == Append(fs, g)
           L  == Len(fs)
           k2 == Append(l, g.dir)
<1>1. /\ fs \in Seq(ListCall) /\ L \in Nat /\ gs \in Seq(ListCall) /\ Len(gs) = L + 1
      /\ gs[L + 1] = g /\ \A k \in 1..L : gs[k] = fs[k]
  BY AppendProperties, LenProperties DEF FramesOK
<1>2. /\ l \in Seq(D \ {<<>>}) /\ k2 \in Seq(D \ {<<>>}) /\ Len(k2) = Len(l) + 1 /\ Len(l) \in Nat
      /\ k2[Len(l) + 1] = g.dir /\ \A k \in 1..Len(l) : k2[k] = l[k]
  BY AppendProperties, LenProperties DEF ListedOK
<1>3. \A e : IsIn(e, k2) <=> IsIn(e, l) \/ e = g.dir
  BY <1>2, IsIn_Append
<1> HIDE DEF gs, k2
<1>4. \A k, m \in 1..Len(k2) : k2[k] = k2[m] => k = m
  <2>1. \A k \in 1..Len(l) : l[k] # g.dir
    BY DEF IsIn
  <2>2. \A k, m \in 1..Len(l) : l[k] = l[m] => k = m
    BY DEF ListedOK
  <2> QED BY <1>2, <2>1, <2>2, Distinct_Append DEF k2
<1>5. ASSUME NEW k \in 1..Len(gs) PROVE IsIn(gs[k].dir, k2)
  <2>1. CASE k \in 1..L
    BY <1>1, <1>3, <2>1 DEF ListedOK
  <2> QED BY <1>1, <1>3, <2>1
\* whose subdirectory the new one is
<1>6. ASSUME NEW p \in D \ {<<>>}, NEW n \in Name, Append(p, n) = g.dir
      PROVE  fs # <<>> /\ p = fs[L].dir /\ n = Sub(fs[L], fs[L].i)
  <2>1. p \in Seq(PathName) /\ n \in PathName
    BY DEF PathName
  <2>2. fs # <<>>
    BY <1>6, <2>1, Path_Longer
  <2>3. L \in 1..Len(fs)
    BY <1>1, <2>2, EmptySeq
  <2> DEFINE q == fs[L].dir
             m == Sub(fs[L], fs[L].i)
  <2>4. q \in Seq(PathName)
    BY <2>3 DEF FramesOK, FrameOK
  <2>5. Append(p, n) = Append(q, m) /\ m \in PathName
    BY <1>6, <2>2 DEF Nested
  <2>6. q = p /\ m = n
    <3> HIDE DEF q, m
    <3> QED BY <2>1, <2>4, <2>5, Path_Append
  <2> QED BY <2>2, <2>6
<1>7. ASSUME NEW p \in D \ {<<>>}, NEW n \in Name, IsIn(Append(p, n), k2) PROVE IsIn(p, k2)
  <2>1. CASE IsIn(Append(p, n), l)
    BY <1>3, <2>1 DEF ListedOK
  <2>2. CASE Append(p, n) = g.dir
    <3>1. L \in 1..Len(fs) /\ p = fs[L].dir
      BY <1>1, <1>6, <2>2, EmptySeq
    <3> QED BY <1>3, <3>1 DEF ListedOK
  <2> QED BY <1>3, <1>7, <2>1, <2>2
<1>8. ASSUME NEW k \in 1..Len(gs), NEW n \in Name, IsIn(Append(gs[k].dir, n), k2)
      PROVE  Reached(gs[k], n, IF k < Len(gs) THEN gs[k].i + 1 ELSE gs[k].i)
  <2>1. CASE k = L + 1
    <3>1. g.dir \in Seq(PathName) /\ n \in PathName /\ Len(g.dir) \in Nat
      BY LenProperties DEF PathName
    <3>2. Append(g.dir, n) # g.dir
      BY <3>1, Path_Longer
    <3>3. IsIn(Append(g.dir, n), l)
      BY <1>1, <1>3, <1>8, <2>1, <3>2
    <3> QED BY <3>3 DEF ListedOK
  <2>2. CASE k \in 1..L
    <3>1. gs[k] = fs[k] /\ fs[k].dir \in D \ {<<>>} /\ fs[k].i \in Nat \ {0}
      BY <1>1, <2>2 DEF FramesOK, FrameOK
    <3>2. CASE IsIn(Append(fs[k].dir, n), l)
      <4>1. Reached(fs[k], n, IF k < L THEN fs[k].i + 1 ELSE fs[k].i)
        BY <2>2, <3>2 DEF ListedOK
      <4>2. Reached(fs[k], n, fs[k].i) => Reached(fs[k], n, fs[k].i + 1)
        <5>1. fs[k].dirName \in Seq(Nat)
          BY <2>2 DEF FramesOK, FrameOK
        <5> QED BY <3>1, <5>1, LenProperties DEF Reached
      <4> QED BY <1>1, <2>2, <3>1, <4>1, <4>2
    <3>3. CASE Append(fs[k].dir, n) = g.dir
      <4>1. fs # <<>> /\ fs[k].dir = fs[L].dir /\ n = Sub(fs[L], fs[L].i)
        BY <1>6, <3>1, <3>3
      <4>2. k = L
        BY <1>1, <2>2, <4>1, Frame_Place
      <4>3. Nested(fs[L], g) /\ fs[L].i \in Nat \ {0} /\ fs[L].dirName \in Seq(Nat)
        BY <2>2, <4>1, <4>2 DEF FramesOK, FrameOK
      <4>4. fs[L].i \in 1..Len(fs[L].dirName) /\ fs[L].i < fs[L].i + 1
        BY <4>3, LenProperties DEF Nested
      <4>5. Reached(fs[L], n, fs[L].i + 1)
        BY <4>1, <4>4 DEF Reached
      <4> QED BY <1>1, <3>1, <4>2, <4>5
    <3> QED BY <1>3, <1>8, <3>1, <3>2, <3>3
  <2> QED BY <1>1, <2>1, <2>2
<1> QED BY <1>2, <1>4, <1>5, <1>7, <1>8 DEF ListedOK, gs, k2

LEMMA Done_Push ==
  ASSUME NEW D, NEW T, NEW fs, FramesOK(fs, D, T), NEW l, l \in Seq(D \ {<<>>}), DoneOK(l, fs, D),
         NEW g \in ListCall, g.dir \in D \ {<<>>}, g.dirName = <<>>
  PROVE  DoneOK(Append(l, g.dir), Append(fs, g), D)
<1> DEFINE gs == Append(fs, g)
           L  == Len(fs)
           k2 == Append(l, g.dir)
<1>1. /\ L \in Nat /\ Len(gs) = L + 1 /\ gs[L + 1] = g /\ \A k \in 1..L : gs[k] = fs[k]
  BY AppendProperties, LenProperties DEF FramesOK
<1>2. \A e : IsIn(e, k2) <=> IsIn(e, l) \/ e = g.dir
  BY IsIn_Append
<1> HIDE DEF gs, k2
<1>3. ASSUME NEW k \in 1..Len(gs) PROVE SubsListed(k2, gs[k])
  <2>1. CASE k = L + 1
    <3>1. 1..Len(g.dirName) = {}
      BY EmptySeq
    <3> QED BY <1>1, <2>1, <3>1 DEF SubsListed
  <2>2. CASE k \in 1..L
    BY <1>1, <1>2, <2>2 DEF DoneOK, SubsListed
  <2> QED BY <1>1, <2>1, <2>2
<1>4. ASSUME NEW p \in D \ {<<>>}, NEW n \in Name, IsIn(p, k2), Append(p, n) \in D
      PROVE  IsIn(Append(p, n), k2) \/ \E k \in 1..Len(gs) : gs[k].dir = p
  <2>1. CASE IsIn(p, l)
    <3>1. IsIn(Append(p, n), l) \/ \E k \in 1..L : fs[k].dir = p
      BY <1>4, <2>1 DEF DoneOK
    <3> QED BY <1>1, <1>2, <3>1
  <2>2. CASE p = g.dir
    BY <1>1, <2>2
  <2> QED BY <1>2, <1>4, <2>1, <2>2
<1> QED BY <1>3, <1>4 DEF DoneOK, gs, k2

\* A directory has finitely many entries
LEMMA Names_Finite ==
  ASSUME TreeInv, NEW d \in dirs
  PROVE  IsFiniteSet(NamesIn(d, dirs \cup files))
<1> DEFINE N == {n \in Name : Append(d, n) \in dirs \cup files}
           child == [n \in N |-> Append(d, n)]
<1>1. d \in Seq(PathName) /\ \A n \in N : n \in PathName /\ Append(d, n) \in dirs \cup files
  BY DEF TreeInv, PathName
<1>2. \A m, n \in N : Append(d, m) = Append(d, n) => m = n
  BY <1>1, Path_Append
<1>3. child \in Injection(N, dirs \cup files)
  BY <1>1, <1>2 DEF Injection, IsInjective
<1>4. IsFiniteSet(N)
  BY <1>3, FS_Injection DEF TreeInv
<1>5. NamesIn(d, dirs \cup files) = N \cup {"."}
  BY DEF NamesIn
<1> QED BY <1>4, <1>5, FS_AddElement

LEMMA Walk_OpenDir ==
  ASSUME TreeInv, CallsInv, Walkable, OpenDir
  PROVE  CallsInv'
<1> DEFINE N == NamesIn(Called, dirs \cup files)
           g == [dir |-> Called, unread |-> N, read |-> 0, buffer |-> <<>>, dirName |-> <<>>, i |-> 1]
           L == Len(frames)
<1>1. /\ walk.at = "call" /\ walk' = [walk EXCEPT !.at = "read"] /\ cwd' = Called
      /\ frames' = Append(frames, g) /\ listed' = Append(listed, Called)
      /\ UNCHANGED <<dirs, files, mode>> /\ Called \in dirs
  BY DEF OpenDir, WalkGoes, Walkable, AllMay, Entries, NamesIn
<1>2. /\ Called \in dirs \ {<<>>} /\ Len(Called) = L + 1 /\ ~IsIn(Called, listed)
      /\ frames = <<>> => Called = <<Start>>
      /\ frames # <<>> => Called = Append(frames[L].dir, walk.arg) /\ walk.arg \in Name
  BY <1>1, Walk_Called DEF CallsInv
<1>3. Called \in Seq(PathName) /\ N \subseteq PathName
  BY <1>2 DEF TreeInv, PathName, NamesIn
<1>4. g \in ListCall /\ g.dir = Called /\ g.dirName = <<>> /\ g.i = 1 /\ g.unread = N
  BY <1>3, EmptySeq DEF ListCall
<1>5. FrameOK(g, dirs, dirs \cup files)
  <2>1. Cardinality(N) + 0 <= Buffered
    <3>1. Cardinality(N) \in Nat
      BY <1>1, Names_Finite, FS_CardinalityType
    <3>2. Cardinality(N) <= Buffered
      BY <1>1 DEF Walkable, Small, Entries, NamesIn
    <3> QED BY <3>1, <3>2
  <2>2. /\ g.read = 0 /\ g.buffer = <<>> /\ Len(<<>>) = 0 /\ 1..0 = {}
        /\ <<>> \in Seq(PathName) /\ <<>> \in Seq(Nat)
    BY EmptySeq
  <2> HIDE DEF g, N
  <2>3. EntriesRead(g, dirs \cup files)
    BY <1>4, <2>1, <2>2 DEF EntriesRead, N
  <2> QED BY <1>2, <1>4, <2>2, <2>3 DEF FrameOK, Once, SubsFound, FoundOnce
<1> HIDE DEF g, N
<1>6. /\ FramesOK(frames, dirs, dirs \cup files) /\ ListedOK(listed, frames, dirs)
      /\ frames \in Seq(ListCall) /\ L \in Nat
  BY LenProperties DEF CallsInv, FramesInv, FramesOK, ListedInv
<1>7. ASSUME frames # <<>>
      PROVE  /\ Nested(frames[L], g) /\ frames[L].i \in Nat \ {0}
             /\ Sub(frames[L], frames[L].i) \in PathName
  <2>1. L \in 1..L
    BY <1>6, <1>7, EmptySeq
  <2>2. FrameOK(frames[L], dirs, dirs \cup files)
    BY <1>6, <2>1 DEF FramesOK
  <2>3. /\ frames[L].unread = {} /\ frames[L].i <= Len(frames[L].dirName)
        /\ walk.arg = Sub(frames[L], frames[L].i) /\ walk.arg \in PathName
    BY <1>1, <1>7 DEF CallsInv, PlaceInv
  <2> QED BY <1>2, <1>4, <1>7, <2>2, <2>3 DEF FrameOK, Nested
<1>8. FramesOK(frames', dirs, dirs \cup files)
  BY <1>1, <1>2, <1>4, <1>5, <1>6, <1>7, Frames_Push
<1>9. ListedOK(listed', frames', dirs)
  <2>1. dirs \subseteq Seq(PathName)
    BY DEF TreeInv, PathName
  <2>2. ListedOK(Append(listed, g.dir), Append(frames, g), dirs)
    BY <1>2, <1>4, <1>6, <1>7, <2>1, Listed_Push
  <2> QED BY <1>1, <1>4, <2>2
<1>10. frames' # <<>> /\ Len(frames') = L + 1 /\ frames'[L + 1] = g
  BY <1>1, <1>4, <1>6, AppendProperties
<1>11. /\ walk'.at = "read" /\ walk'.arg = walk.arg
       /\ walk' \in [at : {"call", "read", "loop", "fail", "over", "crashed"}, arg : PathName]
  BY <1>1 DEF CallsInv, PlaceInv
<1>12. PlaceInv'
  BY <1>1, <1>4, <1>10, <1>11 DEF PlaceInv
<1>13. DoneInv'
  <2> SUFFICES ASSUME Openable' PROVE DoneOK(listed', frames', dirs)
    BY <1>1, <1>11 DEF DoneInv
  <2>1. Openable
    BY <1>1 DEF Openable, AllMay
  <2>2. DoneOK(listed, frames, dirs) /\ listed \in Seq(dirs \ {<<>>})
    BY <1>6, <2>1 DEF CallsInv, DoneInv, ListedOK
  <2>3. DoneOK(Append(listed, g.dir), Append(frames, g), dirs)
    BY <1>2, <1>4, <1>6, <2>2, Done_Push
  <2> QED BY <1>1, <1>4, <2>3
<1>14. FramesInv' /\ ListedInv'
  BY <1>1, <1>8, <1>9 DEF FramesInv, ListedInv
<1> QED BY <1>12, <1>13, <1>14 DEF CallsInv

\* A call that has read an entry: it is in the buffer, and found if it is a directory
LEMMA Frame_Read ==
  ASSUME NEW D, NEW T, NEW f \in ListCall, FrameOK(f, D, T), IsFiniteSet(f.unread), NEW n \in f.unread,
         NEW g \in ListCall, g.dir = f.dir, g.i = f.i, g.unread = f.unread \ {n}, g.read = f.read + 1,
         g.buffer = Append(f.buffer, n),
         g.dirName = IF IsSub(f, n, D) THEN Append(f.dirName, f.read + 1) ELSE f.dirName
  PROVE  FrameOK(g, D, T)
<1> DEFINE B == Len(f.buffer)
           M == Len(f.dirName)
<1>1. /\ f.buffer \in Seq(PathName) /\ f.dirName \in Seq(Nat) /\ n \in PathName /\ f.read = B
      /\ B \in Nat /\ M \in Nat
  BY LenProperties DEF FrameOK, EntriesRead, ListCall
<1>2. /\ g.buffer \in Seq(PathName) /\ Len(g.buffer) = B + 1 /\ g.buffer[B + 1] = n
      /\ \A k \in 1..B : g.buffer[k] = f.buffer[k]
  BY <1>1, AppendProperties
<1>3. EntriesRead(g, T)
  <2>1. Cardinality(g.unread) + g.read <= Buffered
    <3>1. Cardinality(f.unread) \in Nat /\ Cardinality(g.unread) = Cardinality(f.unread) - 1
      BY FS_RemoveElement, FS_CardinalityType
    <3>2. Cardinality(f.unread) + f.read <= Buffered /\ Buffered \in Nat
      BY WalkAssumption DEF FrameOK, EntriesRead
    <3> QED BY <1>1, <3>1, <3>2
  <2>2. g.unread \subseteq NamesIn(g.dir, T) /\ g.read = Len(g.buffer)
    BY <1>1, <1>2 DEF FrameOK, EntriesRead
  <2>3. ASSUME NEW m \in NamesIn(g.dir, T)
        PROVE  m \in g.unread \/ \E k \in 1..Len(g.buffer) : g.buffer[k] = m
    <3>1. m \in f.unread \/ \E k \in 1..B : f.buffer[k] = m
      BY DEF FrameOK, EntriesRead
    <3>2. B + 1 \in 1..Len(g.buffer) /\ 1..B \subseteq 1..Len(g.buffer)
      BY <1>1, <1>2
    <3> QED BY <1>2, <3>1, <3>2
  <2>4. ASSUME NEW k \in 1..Len(g.buffer) PROVE g.buffer[k] \notin g.unread
    <3>1. k = B + 1 \/ k \in 1..B
      BY <1>1, <1>2
    <3> QED BY <1>2, <3>1 DEF FrameOK, EntriesRead
  <2> QED BY <2>1, <2>2, <2>3, <2>4 DEF EntriesRead
<1>4. Once(g)
  <2>1. \A k \in 1..B : f.buffer[k] # n
    BY DEF FrameOK, EntriesRead
  <2>2. \A k, l \in 1..B : f.buffer[k] = f.buffer[l] => k = l
    BY DEF FrameOK, Once
  <2> QED BY <1>1, <2>1, <2>2, Distinct_Append DEF Once
<1>5. \A m : IsSub(g, m, D) <=> IsSub(f, m, D)
  BY DEF IsSub
<1>6. SubsFound(g, D) /\ FoundOnce(g) /\ g.dirName \in Seq(Nat)
  <2>1. \A k \in 1..B : k \in 1..Len(g.buffer)
    BY <1>1, <1>2
  <2>2. \A k \in 1..Len(g.buffer) : k = B + 1 \/ k \in 1..B
    BY <1>1, <1>2
  <2>3. /\ \A j \in 1..M : f.dirName[j] \in 1..B /\ IsSub(f, f.buffer[f.dirName[j]], D)
        /\ \A k \in 1..B : IsSub(f, f.buffer[k], D) => \E j \in 1..M : f.dirName[j] = k
        /\ \A j, l \in 1..M : f.dirName[j] = f.dirName[l] => j = l
    BY DEF FrameOK, SubsFound, Sub, FoundOnce
  <2>4. CASE IsSub(f, n, D)
    <3>1. /\ g.dirName \in Seq(Nat) /\ Len(g.dirName) = M + 1 /\ g.dirName[M + 1] = B + 1
          /\ \A j \in 1..M : g.dirName[j] = f.dirName[j]
      BY <1>1, <2>4, AppendProperties
    <3>2. B + 1 \in 1..Len(g.buffer) /\ M + 1 \in 1..Len(g.dirName) /\ 1..M \subseteq 1..Len(g.dirName)
      BY <1>1, <1>2, <3>1
    <3>3. ASSUME NEW j \in 1..Len(g.dirName)
          PROVE  g.dirName[j] \in 1..Len(g.buffer) /\ IsSub(g, g.buffer[g.dirName[j]], D)
      <4>1. CASE j = M + 1
        BY <1>2, <1>5, <2>4, <3>1, <3>2, <4>1
      <4>2. CASE j \in 1..M
        BY <1>2, <1>5, <2>1, <2>3, <3>1, <4>2
      <4> QED BY <1>1, <3>1, <4>1, <4>2
    <3>4. ASSUME NEW k \in 1..Len(g.buffer), IsSub(g, g.buffer[k], D)
          PROVE  \E j \in 1..Len(g.dirName) : g.dirName[j] = k
      <4>1. CASE k = B + 1
        BY <3>1, <3>2, <4>1
      <4>2. CASE k \in 1..B
        BY <1>2, <1>5, <2>3, <3>1, <3>2, <3>4, <4>2
      <4> QED BY <2>2, <4>1, <4>2
    <3>5. \A j, l \in 1..Len(g.dirName) : g.dirName[j] = g.dirName[l] => j = l
      <4>1. B + 1 \notin 1..B /\ B + 1 \in Nat
        BY <1>1
      <4>2. \A j \in 1..Len(f.dirName) : f.dirName[j] # B + 1
        BY <2>3, <4>1
      <4>3. g.dirName = Append(f.dirName, B + 1)
        BY <1>1, <2>4
      <4> QED BY <1>1, <2>3, <4>1, <4>2, <4>3, Distinct_Append
    <3> QED BY <3>1, <3>3, <3>4, <3>5 DEF SubsFound, FoundOnce, Sub
  <2>5. CASE ~IsSub(f, n, D)
    <3>1. g.dirName = f.dirName
      BY <2>5
    <3>2. ASSUME NEW j \in 1..M
          PROVE  g.dirName[j] \in 1..Len(g.buffer) /\ IsSub(g, g.buffer[g.dirName[j]], D)
      BY <1>2, <1>5, <2>1, <2>3, <3>1
    <3>3. ASSUME NEW k \in 1..Len(g.buffer), IsSub(g, g.buffer[k], D)
          PROVE  \E j \in 1..M : g.dirName[j] = k
      BY <1>2, <1>5, <2>2, <2>3, <2>5, <3>1, <3>3
    <3> QED BY <1>1, <2>3, <3>1, <3>2, <3>3 DEF SubsFound, FoundOnce, Sub
  <2> QED BY <2>4, <2>5
<1> QED BY <1>2, <1>3, <1>4, <1>6 DEF FrameOK

LEMMA Mod_Small ==
  ASSUME NEW a \in Nat, NEW b \in Nat \ {0}, a < b
  PROVE  a % b = a
OBVIOUS

LEMMA Walk_ReadDir ==
  ASSUME TreeInv, CallsInv, Walkable, NEW n \in PathName, ReadDir(n)
  PROVE  CallsInv'
<1> DEFINE L == Len(frames)
           f == frames[L]
           slot == (f.read % Buffered) + 1
           g == [f EXCEPT !.unread = @ \ {n}, !.read = @ + 1,
                          !.buffer = IF slot > Len(@) THEN Append(@, n) ELSE [@ EXCEPT ![slot] = n],
                          !.dirName = IF Stat(n) = "dir" /\ n # "." THEN Append(@, slot) ELSE @]
<1>1. /\ walk.at = "read" /\ walk' = [walk EXCEPT !.at = "read"] /\ n \in f.unread
      /\ frames' = [frames EXCEPT ![L] = g]
      /\ UNCHANGED <<dirs, files, mode, cwd, listed>>
  BY DEF ReadDir, WalkGoes, TopFrame, Last, WithTop
<1>2. frames # <<>> /\ f.i = 1 /\ cwd = f.dir
  BY <1>1 DEF CallsInv, PlaceInv
<1>3. /\ L \in 1..L /\ L \in Nat \ {0} /\ frames \in Seq(ListCall)
      /\ f \in ListCall /\ FrameOK(f, dirs, dirs \cup files)
  <2>1. frames \in Seq(ListCall) /\ L \in 1..L
    BY <1>2, EmptySeq, LenProperties DEF CallsInv, FramesInv, FramesOK
  <2>2. f \in ListCall
    BY <2>1, ElementOfSeq
  <2>3. FrameOK(f, dirs, dirs \cup files)
    BY <2>1 DEF CallsInv, FramesInv, FramesOK
  <2> QED BY <2>1, <2>2, <2>3
<1> HIDE DEF f
<1>4. IsFiniteSet(f.unread) /\ Cardinality(f.unread) \in Nat /\ Cardinality(f.unread) # 0
  <2>1. f.dir \in dirs /\ f.unread \subseteq NamesIn(f.dir, dirs \cup files)
    BY <1>3 DEF FrameOK, EntriesRead
  <2>2. IsFiniteSet(f.unread)
    BY <2>1, Names_Finite, FS_Subset
  <2> QED BY <1>1, <2>2, FS_CardinalityType, FS_EmptySet
\* the buffer has room for the entry
<1>5. slot = f.read + 1 /\ f.read = Len(f.buffer) /\ slot > Len(f.buffer) /\ slot \in Nat
  <2>1. /\ f.read = Len(f.buffer) /\ f.read \in Nat /\ Buffered \in Nat \ {0}
        /\ Cardinality(f.unread) + f.read <= Buffered
    BY <1>3, WalkAssumption DEF FrameOK, EntriesRead, ListCall
  <2>2. f.read < Buffered
    BY <1>4, <2>1
  <2>3. f.read % Buffered = f.read
    BY <2>1, <2>2, Mod_Small
  <2>4. slot = f.read + 1
    BY <2>3
  <2> HIDE DEF slot
  <2> QED BY <2>1, <2>4
\* and lstat() finds it
<1>6. Stat(n) = "dir" /\ n # "." <=> IsSub(f, n, dirs)
  <2>1. CASE n = "."
    BY <2>1 DEF IsSub
  <2>2. CASE n # "."
    <3>1. n \in NamesIn(f.dir, dirs \cup files)
      BY <1>1, <1>3 DEF FrameOK, EntriesRead
    <3>2. Append(cwd, n) \in dirs \cup files /\ Below(cwd, n) = Append(cwd, n)
      BY <1>2, <2>2, <3>1 DEF NamesIn, Below
    <3> QED BY <1>2, <2>2, <3>2 DEF Stat, IsSub, TreeInv
  <2> QED BY <2>1, <2>2
<1> HIDE DEF slot
<1>7. /\ g \in ListCall /\ g.dir = f.dir /\ g.i = f.i /\ g.unread = f.unread \ {n}
      /\ g.read = f.read + 1 /\ g.buffer = Append(f.buffer, n)
      /\ g.dirName = IF IsSub(f, n, dirs) THEN Append(f.dirName, f.read + 1) ELSE f.dirName
  <2>1. /\ f.buffer \in Seq(PathName) /\ f.dirName \in Seq(Nat) /\ f.read \in Nat
        /\ f.unread \in SUBSET PathName /\ f.dir \in Seq(PathName) /\ f.i \in Nat
    BY <1>3 DEF ListCall
  <2>2. /\ f.unread \ {n} \in SUBSET PathName /\ f.read + 1 \in Nat
        /\ Append(f.buffer, n) \in Seq(PathName) /\ Append(f.dirName, f.read + 1) \in Seq(Nat)
    BY <2>1, AppendProperties
  <2>3. g = [f EXCEPT !.unread = f.unread \ {n}, !.read = f.read + 1, !.buffer = Append(f.buffer, n),
               !.dirName = IF IsSub(f, n, dirs) THEN Append(f.dirName, f.read + 1) ELSE f.dirName]
    BY <1>5, <1>6
  <2> HIDE DEF g
  <2> QED BY <1>3, <2>1, <2>2, <2>3 DEF ListCall
<1> HIDE DEF g
<1>8. FrameOK(g, dirs, dirs \cup files)
  BY <1>1, <1>3, <1>4, <1>7, Frame_Read
<1>9. /\ frames' \in Seq(ListCall) /\ frames' # <<>> /\ Len(frames') = L /\ frames'[L] = g
      /\ \A k \in 1..(L - 1) : frames'[k] = frames[k]
  BY <1>1, <1>2, <1>3, <1>7, Seq_Top
<1>10. FramesOK(frames, dirs, dirs \cup files) /\ ListedOK(listed, frames, dirs)
  BY DEF CallsInv, FramesInv, ListedInv
<1>11. frames'[L].dir = frames[L].dir /\ frames[L].i = 1 /\ frames'[L].i = 1
  BY <1>2, <1>7, <1>9 DEF f
<1>12. FramesOK(frames', dirs, dirs \cup files)
  BY <1>2, <1>8, <1>9, <1>10, <1>11, Frames_Top
<1>13. ListedOK(listed, frames', dirs)
  <2>1. \A m \in Name : Reached(frames[L], m, frames[L].i) => Reached(frames'[L], m, frames'[L].i)
    BY <1>11 DEF Reached
  <2> QED BY <1>2, <1>9, <1>10, <1>11, <2>1, Listed_Top
<1>14. /\ walk'.at = "read" /\ walk'.arg = walk.arg
       /\ walk' \in [at : {"call", "read", "loop", "fail", "over", "crashed"}, arg : PathName]
  BY <1>1 DEF CallsInv, PlaceInv
<1>15. PlaceInv'
  BY <1>1, <1>2, <1>9, <1>11, <1>14 DEF PlaceInv, f
<1>16. DoneInv'
  <2> SUFFICES ASSUME Openable' PROVE DoneOK(listed, frames', dirs)
    BY <1>1, <1>14 DEF DoneInv
  <2>1. DoneOK(listed, frames, dirs)
    BY <1>1 DEF CallsInv, DoneInv, Openable, AllMay
  <2>2. ASSUME NEW k \in 1..L PROVE SubsListed(listed, frames'[k]) /\ frames'[k].dir = frames[k].dir
    <3>1. CASE k = L
      BY <1>11, <3>1 DEF SubsListed
    <3>2. CASE k # L
      BY <1>3, <1>9, <2>1, <3>2 DEF DoneOK
    <3> QED BY <3>1, <3>2
  <2> QED BY <1>9, <2>1, <2>2 DEF DoneOK
<1>17. FramesInv' /\ ListedInv'
  BY <1>1, <1>12, <1>13 DEF FramesInv, ListedInv
<1> QED BY <1>15, <1>16, <1>17 DEF CallsInv

LEMMA Front_Append ==
  ASSUME NEW S, NEW p \in Seq(S), NEW n \in S
  PROVE  Front(Append(p, n)) = p
<1> DEFINE q == Append(p, n)
<1>1. q \in Seq(S) /\ Len(q) = Len(p) + 1 /\ Len(p) \in Nat /\ \A i \in 1..Len(p) : q[i] = p[i]
  BY AppendProperties, LenProperties
<1> HIDE DEF q
<1>2. Front(q) = SubSeq(q, 1, Len(p))
  BY <1>1 DEF Front
<1>3. /\ SubSeq(q, 1, Len(p)) \in Seq(S) /\ Len(SubSeq(q, 1, Len(p))) = Len(p)
      /\ \A i \in 1..Len(p) : SubSeq(q, 1, Len(p))[i] = p[i]
  <2>1. \A i \in 1..Len(p) : q[i] \in S
    BY <1>1, ElementOfSeq
  <2>2. /\ SubSeq(q, 1, Len(p)) \in Seq(S)
        /\ Len(SubSeq(q, 1, Len(p))) = IF 1 <= Len(p) THEN Len(p) - 1 + 1 ELSE 0
        /\ \A i \in 1..(Len(p) - 1 + 1) : SubSeq(q, 1, Len(p))[i] = q[1 + i - 1]
    BY <1>1, <2>1, SubSeqProperties
  <2> QED BY <1>1, <2>2
<1> QED BY <1>2, <1>3, SeqEqual DEF q

\* A sequence without its last element, and with another one before that
LEMMA Seq_Pop ==
  ASSUME NEW S, NEW q \in Seq(S), Len(q) > 1, NEW x \in S
  PROVE  LET r == [Front(q) EXCEPT ![Len(q) - 1] = x]
         IN  /\ r \in Seq(S) /\ Len(r) = Len(q) - 1 /\ r[Len(q) - 1] = x
             /\ \A k \in 1..(Len(q) - 2) : r[k] = q[k]
<1> DEFINE p == Front(q)
           M == Len(q) - 1
           r == [p EXCEPT ![M] = x]
<1>1. M \in Nat \ {0} /\ M \in 1..M /\ Len(q) = M + 1
  <2>1. PICK m \in Nat : m = Len(q)
    BY LenProperties
  <2>2. m - 1 \in Nat \ {0} /\ m - 1 \in 1..(m - 1) /\ m = m - 1 + 1
    BY <2>1
  <2> QED BY <2>1, <2>2
<1>2. p \in Seq(S) /\ Len(p) = M /\ \A k \in 1..M : p[k] = q[k]
  <2>1. \A k \in 1..M : q[k] \in S
    BY <1>1, ElementOfSeq
  <2>2. /\ SubSeq(q, 1, M) \in Seq(S) /\ Len(SubSeq(q, 1, M)) = IF 1 <= M THEN M - 1 + 1 ELSE 0
        /\ \A k \in 1..(M - 1 + 1) : SubSeq(q, 1, M)[k] = q[1 + k - 1]
    BY <1>1, <2>1, SubSeqProperties
  <2>3. p = SubSeq(q, 1, M)
    BY DEF Front
  <2> HIDE DEF p, M
  <2>4. \A k \in 1..M : k \in 1..(M - 1 + 1) /\ 1 + k - 1 = k
    BY <1>1
  <2>5. Len(p) = M /\ \A k \in 1..M : p[k] = q[k]
    BY <1>1, <2>2, <2>3, <2>4
  <2> QED BY <2>2, <2>3, <2>5
<1> HIDE DEF p, M
<1>3. r \in Seq(S) /\ Len(r) = M /\ \A k \in 1..M : r[k] = IF k = M THEN x ELSE p[k]
  BY <1>1, <1>2, ExceptSeq
<1> HIDE DEF r
<1>4. r[M] = x /\ \A k \in 1..(M - 1) : r[k] = q[k]
  BY <1>1, <1>2, <1>3
<1>5. Len(q) - 2 = M - 1
  BY <1>1
<1> QED BY <1>3, <1>4, <1>5 DEF r, p, M

\* When a call has gone through its subdirectories, all that there are have been listed
LEMMA Subs_All ==
  ASSUME NEW D, NEW T, D \subseteq T, NEW f, FrameOK(f, D, T), f.unread = {}, f.i > Len(f.dirName),
         NEW l, SubsListed(l, f), NEW n \in Name, Append(f.dir, n) \in D
  PROVE  IsIn(Append(f.dir, n), l)
<1>1. n # "." /\ IsSub(f, n, D) /\ n \in NamesIn(f.dir, T)
  BY WalkAssumption DEF IsSub, NamesIn
<1>2. PICK k \in 1..Len(f.buffer) : f.buffer[k] = n
  BY <1>1 DEF FrameOK, EntriesRead
<1>3. PICK j \in 1..Len(f.dirName) : f.dirName[j] = k
  BY <1>1, <1>2 DEF FrameOK, SubsFound
<1>4. j < f.i
  BY LenProperties DEF FrameOK
<1> QED BY <1>2, <1>3, <1>4 DEF SubsListed, Sub

\* The innermost call has returned, and the one before goes on with its next name
LEMMA Frames_Pop ==
  ASSUME NEW D, NEW T, NEW fs, FramesOK(fs, D, T), Len(fs) > 1,
         NEW gs \in Seq(ListCall), Len(gs) = Len(fs) - 1, \A k \in 1..(Len(fs) - 2) : gs[k] = fs[k],
         FrameOK(gs[Len(fs) - 1], D, T), gs[Len(fs) - 1].dir = fs[Len(fs) - 1].dir
  PROVE  FramesOK(gs, D, T)
<1>1. PICK M \in Nat : M = Len(fs) - 1 /\ M # 0 /\ Len(fs) = M + 1 /\ Len(fs) - 2 = M - 1
  <2>1. PICK m \in Nat : m = Len(fs)
    BY LenProperties DEF FramesOK
  <2>2. m > 1 /\ m - 1 \in Nat /\ m - 1 # 0 /\ m = m - 1 + 1 /\ m - 2 = m - 1 - 1
    BY <2>1
  <2> QED BY <2>1, <2>2
<1>2. Len(gs) = M /\ FrameOK(gs[M], D, T) /\ gs[M].dir = fs[M].dir /\ \A k \in 1..(M - 1) : gs[k] = fs[k]
  BY <1>1
<1>3. ASSUME NEW k \in 1..M PROVE FrameOK(gs[k], D, T) /\ Len(gs[k].dir) = k /\ gs[k].dir = fs[k].dir
  <2>1. FrameOK(fs[k], D, T) /\ Len(fs[k].dir) = k
    BY <1>1 DEF FramesOK
  <2>2. CASE k = M
    BY <1>2, <2>1, <2>2
  <2>3. CASE k # M
    BY <1>1, <1>2, <2>1, <2>3
  <2> QED BY <2>2, <2>3
<1>4. ASSUME NEW k \in 1..(M - 1) PROVE Nested(gs[k], gs[k + 1])
  <2>1. Nested(fs[k], fs[k + 1]) /\ gs[k] = fs[k]
    BY <1>1, <1>2 DEF FramesOK
  <2>2. gs[k + 1].dir = fs[k + 1].dir
    BY <1>1, <1>3
  <2> QED BY <2>1, <2>2 DEF Nested
<1> QED BY <1>2, <1>3, <1>4 DEF FramesOK

LEMMA Walk_CloseLast ==
  ASSUME TreeInv, CallsInv, CloseDir, Len(frames) = 1
  PROVE  CallsInv'
<1> DEFINE f == frames[1]
<1>1. /\ walk.at = "loop" /\ walk' = [walk EXCEPT !.at = "over"] /\ frames # <<>> /\ frames' = <<>>
      /\ cwd' = DirectoryUp /\ f.i > Len(f.dirName) /\ UNCHANGED <<dirs, files, mode, listed>>
  BY DEF CloseDir, WalkGoes, TopFrame, Last
<1>2. /\ FrameOK(f, dirs, dirs \cup files) /\ f.dir \in dirs \ {<<>>} /\ Len(f.dir) = 1
      /\ f.unread = {} /\ cwd = f.dir /\ IsIn(f.dir, listed)
  <2>1. /\ FrameOK(f, dirs, dirs \cup files) /\ Len(f.dir) = 1 /\ IsIn(f.dir, listed)
    BY DEF CallsInv, FramesInv, FramesOK, ListedInv, ListedOK
  <2>2. f.unread = {} /\ cwd = f.dir
    BY <1>1 DEF CallsInv, PlaceInv
  <2> QED BY <2>1, <2>2 DEF FrameOK
<1> HIDE DEF f
<1>3. f.dir = <<Start>>
  <2>1. ASSUME NEW p \in dirs \ {<<>>}, NEW n \in Name, f.dir = Append(p, n) PROVE FALSE
    <3>1. p \in Seq(PathName) /\ p # <<>> /\ n \in PathName
      BY DEF TreeInv, PathName
    <3>2. Len(Append(p, n)) = Len(p) + 1 /\ Len(p) \in Nat \ {0}
      BY <3>1, Path_Longer, EmptySeq
    <3> QED BY <1>2, <2>1, <3>2
  <2> QED BY <1>2, <2>1 DEF TreeInv
<1>4. cwd' = <<>>
  <2>1. Front(<<Start>>) = SubSeq(<<Start>>, 1, 0) /\ <<Start>> # <<>>
    BY DEF Front
  <2>2. SubSeq(<<Start>>, 1, 0) = <<>>
    BY SubSeqEmpty
  <2> QED BY <1>1, <1>2, <1>3, <2>1, <2>2 DEF DirectoryUp
<1>5. FramesInv' /\ ListedInv'
  <2>1. <<>> \in Seq(ListCall) /\ Len(<<>>) = 0 /\ 1..0 = {} /\ 1..(0 - 1) = {}
    BY EmptySeq
  <2>2. FramesOK(<<>>, dirs, dirs \cup files)
    BY <2>1 DEF FramesOK
  <2>3. ListedOK(listed, <<>>, dirs)
    BY <2>1 DEF CallsInv, ListedInv, ListedOK
  <2> QED BY <1>1, <2>2, <2>3 DEF FramesInv, ListedInv
<1>6. walk'.at = "over" /\ walk' \in [at : {"call", "read", "loop", "fail", "over", "crashed"}, arg : PathName]
  BY <1>1 DEF CallsInv, PlaceInv
<1>7. PlaceInv'
  BY <1>1, <1>4, <1>6 DEF PlaceInv
<1>8. DoneInv'
  <2> SUFFICES ASSUME Openable' PROVE DoneOK(listed, <<>>, dirs)
    BY <1>1, <1>2, <1>3, <1>6 DEF DoneInv
  <2>1. DoneOK(listed, frames, dirs)
    BY <1>1 DEF CallsInv, DoneInv, Openable, AllMay
  <2>2. SubsListed(listed, f)
    BY <2>1 DEF DoneOK, f
  <2>3. ASSUME NEW p \in dirs \ {<<>>}, NEW n \in Name, IsIn(p, listed), Append(p, n) \in dirs
        PROVE  IsIn(Append(p, n), listed)
    <3>1. CASE p = f.dir
      BY <1>1, <1>2, <2>2, <2>3, <3>1, Subs_All DEF f
    <3>2. CASE p # f.dir
      BY <2>1, <2>3, <3>2 DEF DoneOK, f
    <3> QED BY <3>1, <3>2
  <2>4. Len(<<>>) = 0 /\ 1..0 = {}
    OBVIOUS
  <2> QED BY <2>3, <2>4 DEF DoneOK
<1> QED BY <1>5, <1>7, <1>8 DEF CallsInv

LEMMA Walk_CloseOne ==
  ASSUME TreeInv, CallsInv, CloseDir, Len(frames) # 1
  PROVE  CallsInv'
<1>1. PICK M \in Nat : /\ M = Len(frames) - 1 /\ M # 0 /\ Len(frames) = M + 1 /\ Len(frames) - 2 = M - 1
                       /\ Len(frames) > 1
  <2>1. PICK m \in Nat : m = Len(frames) /\ m # 0 /\ m # 1
    BY EmptySeq, LenProperties DEF CloseDir, CallsInv, FramesInv, FramesOK
  <2>2. m > 1 /\ m - 1 \in Nat /\ m - 1 # 0 /\ m = m - 1 + 1 /\ m - 2 = m - 1 - 1
    BY <2>1
  <2> QED BY <2>1, <2>2
<1> DEFINE f == frames[M + 1]
           h == frames[M]
           g == [h EXCEPT !.i = h.i + 1]
<1>2. /\ walk.at = "loop" /\ walk' = [walk EXCEPT !.at = "loop"] /\ frames # <<>>
      /\ cwd' = DirectoryUp /\ f.i > Len(f.dirName) /\ UNCHANGED <<dirs, files, mode, listed>>
  BY <1>1 DEF CloseDir, WalkGoes, TopFrame, Last
<1>3. /\ FramesOK(frames, dirs, dirs \cup files) /\ ListedOK(listed, frames, dirs) /\ frames \in Seq(ListCall)
      /\ M \in 1..Len(frames) /\ M + 1 \in 1..Len(frames) /\ M \in 1..(Len(frames) - 1)
  <2>1. FramesOK(frames, dirs, dirs \cup files) /\ ListedOK(listed, frames, dirs) /\ frames \in Seq(ListCall)
    BY DEF CallsInv, FramesInv, FramesOK, ListedInv
  <2>2. M \in 1..(M + 1) /\ M + 1 \in 1..(M + 1) /\ M \in 1..M
    BY <1>1
  <2> QED BY <1>1, <2>1, <2>2
<1>4. /\ FrameOK(f, dirs, dirs \cup files) /\ FrameOK(h, dirs, dirs \cup files) /\ h \in ListCall
      /\ Nested(h, f) /\ f.unread = {} /\ cwd = f.dir /\ IsIn(f.dir, listed)
  <2>1. /\ FrameOK(f, dirs, dirs \cup files) /\ FrameOK(h, dirs, dirs \cup files)
        /\ Nested(h, f) /\ IsIn(f.dir, listed)
    BY <1>3 DEF FramesOK, ListedOK
  <2>2. h \in ListCall
    BY <1>3, ElementOfSeq
  <2>3. f.unread = {} /\ cwd = f.dir
    BY <1>1, <1>2 DEF CallsInv, PlaceInv
  <2> QED BY <2>1, <2>2, <2>3
<1>5. frames' = [Front(frames) EXCEPT ![Len(frames) - 1] = g]
  <2>1. frames' = [Front(frames) EXCEPT ![Len(frames) - 1].i = @ + 1]
    BY DEF CloseDir
  <2>2. Front(frames)[Len(frames) - 1] = h
    <3>1. \A k \in 1..M : frames[k] \in ListCall
      BY <1>1, <1>3, ElementOfSeq
    <3>2. \A k \in 1..(M - 1 + 1) : SubSeq(frames, 1, M)[k] = frames[1 + k - 1]
      BY <3>1, SubSeqProperties
    <3>3. M \in 1..(M - 1 + 1) /\ 1 + M - 1 = M
      BY <1>1
    <3>4. SubSeq(frames, 1, M)[M] = frames[M]
      BY <3>2, <3>3
    <3> QED BY <1>1, <3>4 DEF Front
  <2> QED BY <2>1, <2>2
<1> HIDE DEF f, h
<1>6. /\ g \in ListCall /\ FrameOK(g, dirs, dirs \cup files) /\ g.i = h.i + 1
      /\ g.dir = h.dir /\ g.unread = h.unread /\ g.dirName = h.dirName
      /\ \A j : Sub(g, j) = Sub(h, j)
  <2>1. h.i + 1 \in Nat \ {0}
    BY <1>4 DEF FrameOK
  <2> QED BY <1>4, <2>1, Frame_Next
<1> HIDE DEF g
<1>7. /\ frames' \in Seq(ListCall) /\ Len(frames') = M /\ frames'[M] = g
      /\ \A k \in 1..(M - 1) : frames'[k] = frames[k]
  BY <1>1, <1>3, <1>5, <1>6, Seq_Pop
<1>8. FramesOK(frames', dirs, dirs \cup files)
  <2>1. frames'[M].dir = frames[M].dir
    BY <1>6, <1>7 DEF h
  <2> QED BY <1>1, <1>3, <1>6, <1>7, <2>1, Frames_Pop
<1>9. ASSUME NEW k \in 1..M
      PROVE  /\ frames'[k].dir = frames[k].dir /\ frames'[k].dirName = frames[k].dirName
             /\ \A j : Sub(frames'[k], j) = Sub(frames[k], j)
             /\ frames'[k].i = IF k < M THEN frames[k].i ELSE frames[k].i + 1
  <2>1. CASE k = M
    BY <1>6, <1>7, <2>1 DEF h
  <2>2. CASE k # M
    <3>1. k \in 1..(M - 1) /\ k < M
      BY <2>2
    <3>2. frames'[k] = frames[k]
      BY <1>7, <3>1
    <3> QED BY <3>1, <3>2
  <2> QED BY <2>1, <2>2
<1>10. ListedOK(listed, frames', dirs)
  <2>1. ASSUME NEW k \in 1..M PROVE IsIn(frames'[k].dir, listed)
    BY <1>1, <1>3, <1>9 DEF ListedOK
  <2>2. ASSUME NEW k \in 1..M, NEW n \in Name, IsIn(Append(frames'[k].dir, n), listed)
        PROVE  Reached(frames'[k], n, IF k < M THEN frames'[k].i + 1 ELSE frames'[k].i)
    <3>1. k \in 1..Len(frames) /\ k < Len(frames)
      BY <1>1
    <3>2. Reached(frames[k], n, frames[k].i + 1)
      BY <1>3, <1>9, <2>2, <3>1 DEF ListedOK
    <3>3. Reached(frames'[k], n, frames[k].i + 1)
      BY <1>9, <3>2 DEF Reached
    <3> QED BY <1>9, <3>3
  <2> QED BY <1>3, <1>7, <2>1, <2>2 DEF ListedOK
<1>11. cwd' = h.dir
  <2>1. f.dir = Append(h.dir, Sub(h, h.i)) /\ h.dir \in dirs \ {<<>>}
    BY <1>4 DEF Nested, FrameOK
  <2>2. h.dir \in Seq(PathName) /\ Sub(h, h.i) \in PathName
    <3>1. h.dir \in Seq(PathName) /\ h.buffer \in Seq(PathName)
      BY <1>4 DEF ListCall
    <3>2. h.i \in 1..Len(h.dirName)
      BY <1>4, LenProperties DEF FrameOK, Nested
    <3>3. h.dirName[h.i] \in 1..Len(h.buffer)
      BY <1>4, <3>2 DEF FrameOK, SubsFound
    <3> QED BY <3>1, <3>3, ElementOfSeq DEF Sub
  <2>3. Front(f.dir) = h.dir /\ f.dir # <<>>
    BY <2>1, <2>2, Front_Append, Path_Longer
  <2> QED BY <1>2, <1>4, <2>3 DEF DirectoryUp
<1>12. walk'.at = "loop" /\ walk' \in [at : {"call", "read", "loop", "fail", "over", "crashed"}, arg : PathName]
  BY <1>2 DEF CallsInv, PlaceInv
<1>13. PlaceInv'
  <2>1. frames' # <<>> /\ frames'[Len(frames')].unread = {} /\ cwd' = frames'[Len(frames')].dir
    <3>1. frames' # <<>>
      BY <1>1, <1>7, EmptySeq
    <3> QED BY <1>4, <1>6, <1>7, <1>11, <3>1 DEF Nested
  <2> QED BY <1>12, <2>1 DEF PlaceInv
<1>14. DoneInv'
  <2> SUFFICES ASSUME Openable' PROVE DoneOK(listed, frames', dirs)
    BY <1>2, <1>12 DEF DoneInv
  <2>1. DoneOK(listed, frames, dirs)
    BY <1>2 DEF CallsInv, DoneInv, Openable, AllMay
  <2>2. SubsListed(listed, f) /\ SubsListed(listed, h)
    BY <1>3, <2>1 DEF DoneOK, f, h
  <2>3. ASSUME NEW k \in 1..M PROVE SubsListed(listed, frames'[k])
    <3>1. CASE k = M
      <4>1. f.dir = Append(h.dir, Sub(h, h.i)) /\ h.i \in Nat \ {0}
        BY <1>4 DEF Nested, FrameOK
      <4>2. ASSUME NEW j \in 1..Len(g.dirName), j < g.i PROVE IsIn(Append(g.dir, Sub(g, j)), listed)
        <5>1. j \in 1..Len(h.dirName) /\ (j < h.i \/ j = h.i)
          BY <1>6, <4>1, <4>2
        <5> QED BY <1>4, <1>6, <2>2, <4>1, <5>1 DEF SubsListed
      <4> QED BY <1>7, <3>1, <4>2 DEF SubsListed
    <3>2. CASE k # M
      <4>1. frames'[k] = frames[k] /\ k \in 1..Len(frames)
        BY <1>1, <1>7, <3>2
      <4> QED BY <2>1, <4>1 DEF DoneOK
    <3> QED BY <3>1, <3>2
  <2>4. ASSUME NEW p \in dirs \ {<<>>}, NEW n \in Name, IsIn(p, listed), Append(p, n) \in dirs
        PROVE  IsIn(Append(p, n), listed) \/ \E k \in 1..M : frames'[k].dir = p
    <3>1. CASE p = f.dir
      BY <1>2, <1>4, <2>2, <2>4, <3>1, Subs_All DEF f
    <3>2. CASE p # f.dir
      <4>1. IsIn(Append(p, n), listed) \/ \E k \in 1..Len(frames) : frames[k].dir = p
        BY <2>1, <2>4 DEF DoneOK
      <4>2. \A k \in 1..Len(frames) : k \in 1..M \/ k = M + 1
        BY <1>1
      <4> QED BY <1>9, <3>2, <4>1, <4>2 DEF f
    <3> QED BY <3>1, <3>2
  <2> QED BY <1>7, <2>3, <2>4 DEF DoneOK
<1>15. FramesInv' /\ ListedInv'
  BY <1>2, <1>8, <1>10 DEF FramesInv, ListedInv
<1> QED BY <1>13, <1>14, <1>15 DEF CallsInv

\* A set of numbers that is not empty has a least one
LEMMA Least ==
  ASSUME NEW N \in SUBSET Nat, N # {}
  PROVE  \E x \in N : \A y \in N : x <= y
<1>1. IsWellFoundedOn(OpToRel(<, Nat), Nat)
  BY NatLessThanWellFounded
<1>2. PICK x \in N : \A y \in N : ~(<<y, x>> \in OpToRel(<, Nat))
  BY <1>1, WFMin
<1>3. \A y \in N : ~(y < x)
  BY <1>2 DEF OpToRel
<1> QED BY <1>3

LEMMA Walk_Next == WalkInv /\ [WalkNext]_walkvars => WalkInv'
<1> SUFFICES ASSUME WalkInv, [WalkNext]_walkvars PROVE WalkInv' OBVIOUS
<1>1. UNCHANGED <<dirs, files, mode>>
  BY DEF WalkNext, OpenFails, OpenDir, NoSuchOwner, EndOfDir, Recurse, BreakLoop, CloseDir,
         ReadDir, walkvars
<1>2. TreeInv /\ TreeInv'
  BY <1>1 DEF WalkInv, TreeInv
<1> SUFFICES ASSUME Walkable' PROVE CallsInv'
  BY <1>2 DEF WalkInv
<1>3. Walkable /\ CallsInv
  BY <1>1 DEF WalkInv, Walkable, AllMay, Small, Entries
<1>4. CASE OpenFails
  BY <1>2, <1>3, <1>4, Walk_OpenFails
<1>5. CASE OpenDir
  BY <1>2, <1>3, <1>5, Walk_OpenDir
<1>6. CASE EndOfDir
  BY <1>2, <1>3, <1>6, Walk_EndOfDir
<1>7. CASE Recurse
  BY <1>2, <1>3, <1>7, Walk_Recurse
<1>8. CASE BreakLoop
  BY <1>2, <1>3, <1>8, Walk_BreakLoop
<1>9. CASE CloseDir
  BY <1>2, <1>3, <1>9, Walk_CloseLast, Walk_CloseOne
<1>10. ASSUME NEW n \in PathName, ReadDir(n) PROVE CallsInv'
  BY <1>2, <1>3, <1>10, Walk_ReadDir
<1>12. CASE NoSuchOwner
  BY <1>2, <1>3, <1>12, Walk_NoSuchOwner
<1>11. CASE UNCHANGED walkvars
  <2>1. FramesInv' /\ ListedInv'
    BY <1>3, <1>11 DEF CallsInv, FramesInv, ListedInv, walkvars
  <2>2. PlaceInv'
    BY <1>3, <1>11 DEF CallsInv, PlaceInv, walkvars
  <2>3. DoneInv'
    BY <1>3, <1>11 DEF CallsInv, DoneInv, Openable, AllMay, walkvars
  <2> QED BY <2>1, <2>2, <2>3 DEF CallsInv
<1> QED BY <1>4, <1>5, <1>6, <1>7, <1>8, <1>9, <1>10, <1>11, <1>12 DEF WalkNext

\* A set of directories that has Start, and with a directory those below it, has all
LEMMA Walk_All ==
  ASSUME TreeInv, IsIn(<<Start>>, listed),
         \A p \in dirs \ {<<>>}, n \in Name :
           IsIn(p, listed) /\ Append(p, n) \in dirs => IsIn(Append(p, n), listed)
  PROVE  \A d \in dirs \ {<<>>} : IsIn(d, listed)
<1> DEFINE N == {Len(d) : d \in {e \in dirs \ {<<>>} : ~IsIn(e, listed)}}
<1> SUFFICES ASSUME N # {} PROVE FALSE OBVIOUS
<1>1. \A d \in dirs : d \in Seq(Name \cup {Start}) /\ Len(d) \in Nat
  BY LenProperties DEF TreeInv
<1>2. N \in SUBSET Nat
  BY <1>1
<1>3. PICK m \in N : \A y \in N : m <= y
  <2> HIDE DEF N
  <2> QED BY <1>2, Least
<1>4. PICK d \in dirs \ {<<>>} : ~IsIn(d, listed) /\ m = Len(d)
  BY <1>3
<1>5. PICK p \in dirs \ {<<>>}, n \in Name : d = Append(p, n)
  BY <1>4 DEF TreeInv
<1>6. Len(d) = Len(p) + 1 /\ Len(p) \in Nat
  <2>1. p \in Seq(Name \cup {Start}) /\ n \in Name \cup {Start}
    BY <1>1
  <2> QED BY <1>1, <1>5, <2>1, Path_Longer
<1>7. ~IsIn(p, listed)
  BY <1>4, <1>5
<1>8. Len(p) \in N
  BY <1>7
<1> QED BY <1>3, <1>4, <1>6, <1>8

\* What the invariant is for
LEMMA Walk_Shows == WalkInv => WalksTheTree
<1> SUFFICES ASSUME WalkInv, AllMay("x"), Small
             PROVE  /\ walk.at \in {"read", "loop"} => cwd = TopFrame.dir
                    /\ IsInjective(listed)
                    /\ walk.at = "over" /\ AllMay("r") /\ (\A d \in dirs : Len(d) <= MaxOpen)
                         => ToSet(listed) = dirs \ {<<>>}
  BY DEF WalksTheTree
<1>1. TreeInv /\ CallsInv
  BY DEF WalkInv, Walkable
<1>2. walk.at \in {"read", "loop"} => cwd = TopFrame.dir
  BY <1>1 DEF CallsInv, PlaceInv, TopFrame, Last
<1>3. listed \in Seq(dirs \ {<<>>}) /\ DOMAIN listed = 1..Len(listed)
  BY <1>1, LenProperties DEF CallsInv, ListedInv, ListedOK
<1>4. IsInjective(listed)
  BY <1>1, <1>3 DEF CallsInv, ListedInv, ListedOK, IsInjective
<1>5. ASSUME walk.at = "over", Openable PROVE ToSet(listed) = dirs \ {<<>>}
  <2>1. IsIn(<<Start>>, listed) /\ DoneOK(listed, frames, dirs) /\ frames = <<>>
    BY <1>1, <1>5 DEF CallsInv, DoneInv, PlaceInv
  <2>2. Len(<<>>) = 0 /\ 1..0 = {}
    OBVIOUS
  <2>3. \A p \in dirs \ {<<>>}, n \in Name :
           IsIn(p, listed) /\ Append(p, n) \in dirs => IsIn(Append(p, n), listed)
    BY <2>1, <2>2 DEF DoneOK
  <2>4. \A d \in dirs \ {<<>>} : IsIn(d, listed)
    BY <1>1, <2>1, <2>3, Walk_All
  <2>5. ToSet(listed) = {listed[k] : k \in 1..Len(listed)}
    BY <1>3 DEF ToSet
  <2>6. \A d : d \in ToSet(listed) <=> IsIn(d, listed)
    BY <2>5 DEF IsIn
  <2>7. \A k \in 1..Len(listed) : listed[k] \in dirs \ {<<>>}
    BY <1>3, ElementOfSeq
  <2> QED BY <2>4, <2>6, <2>7 DEF IsIn
<1> QED BY <1>2, <1>4, <1>5 DEF Openable

\* listDir() goes through the tree by the names it has kept and chdir(".."): it lists
\* no directory twice, is always in the one it lists, and, if all can be opened, leaves
\* none out, for every tree, however deep, whose directories that can be read can be
\* entered and have no more entries than the buffer of readdir() (list.c 28-102)
THEOREM WalkListsTheTree == WalkSpec => []WalksTheTree
<1>1. WalkInit => WalkInv
  BY Walk_Init
<1>2. WalkInv /\ [WalkNext]_walkvars => WalkInv'
  BY Walk_Next
<1>3. WalkInv => WalksTheTree
  BY Walk_Shows
<1> QED BY <1>1, <1>2, <1>3, PTL DEF WalkSpec

\* A call of any listDir(), in whatever tree: its buffer is as full as it can be, and
\* its names point into it
BufferedCall(D) ==
  {f \in [dir : D, unread : SUBSET PathName, read : Nat, buffer : Seq(PathName),
          dirName : Seq(1..Buffered), i : Nat] :
     /\ f.i # 0 /\ Len(f.buffer) = (IF f.read < Buffered THEN f.read ELSE Buffered)
     /\ \A j \in 1..Len(f.dirName) : f.dirName[j] \in 1..Len(f.buffer)}
WalkTypeInv ==
  /\ TreeInv /\ cwd \in dirs /\ stat \in {"dir", "file"} /\ listed \in Seq(dirs)
  /\ frames \in Seq(BufferedCall(dirs)) /\ Len(frames) <= MaxOpen
  /\ walk \in [at : {"call", "read", "loop", "fail", "over", "crashed"}, arg : PathName]
  /\ walk.at = "read" => frames # <<>>

LEMMA Seq_Subset ==
  ASSUME NEW S, NEW T, S \subseteq T, NEW q \in Seq(S)
  PROVE  q \in Seq(T)
<1>1. q \in [1..Len(q) -> S] /\ Len(q) \in Nat
  BY LenProperties
<1>2. q \in [1..Len(q) -> T]
  BY <1>1
<1> QED BY <1>1, <1>2, SeqDef

LEMMA Walk_Type == WalkTypeInv => WalkTypeOK
<1> SUFFICES ASSUME WalkTypeInv PROVE WalkTypeOK OBVIOUS
<1>1. BufferedCall(dirs) \subseteq Frame
  BY DEF BufferedCall, Frame
<1>2. frames \in Seq(Frame)
  BY <1>1, Seq_Subset DEF WalkTypeInv
<1> QED BY <1>2 DEF WalkTypeInv, WalkTypeOK

LEMMA Walk_TypeInit == WalkInit => WalkTypeInv
<1> SUFFICES ASSUME WalkInit PROVE WalkTypeInv OBVIOUS
<1>1. TreeInv
  BY Walk_Init DEF WalkInv
<1>2. <<>> \in dirs /\ <<>> \in Seq(dirs) /\ <<>> \in Seq(BufferedCall(dirs)) /\ Len(<<>>) <= MaxOpen
  BY <1>1, EmptySeq, WalkAssumption DEF TreeInv
<1>3. walk \in [at : {"call", "read", "loop", "fail", "over", "crashed"}, arg : PathName] /\ walk.at # "read"
  BY DEF WalkInit, PathName
<1> QED BY <1>1, <1>2, <1>3 DEF WalkTypeInv, WalkInit

\* The parent of a directory is a directory
LEMMA Walk_Up ==
  ASSUME TreeInv, NEW d \in dirs, d # <<>>
  PROVE  Front(d) \in dirs
<1>1. CASE d = <<Start>>
  <2>1. <<Start>> = Append(<<>>, Start)
    OBVIOUS
  <2>2. <<>> \in Seq({Start})
    BY EmptySeq
  <2>3. Front(Append(<<>>, Start)) = <<>>
    BY <2>2, Front_Append
  <2>4. Front(d) = <<>>
    BY <1>1, <2>1, <2>3
  <2> QED BY <2>4 DEF TreeInv
<1>2. CASE d # <<Start>>
  <2>1. PICK p \in dirs \ {<<>>}, n \in Name : d = Append(p, n)
    BY <1>2 DEF TreeInv
  <2>2. p \in Seq(Name \cup {Start}) /\ n \in Name \cup {Start}
    BY <2>1 DEF TreeInv
  <2> QED BY <2>1, <2>2, Front_Append
<1> QED BY <1>1, <1>2

\* The innermost call, and what it may become
LEMMA Walk_Top ==
  ASSUME WalkTypeInv, frames # <<>>
  PROVE  /\ TopFrame = frames[Len(frames)] /\ TopFrame \in BufferedCall(dirs) /\ Len(frames) \in 1..Len(frames)
         /\ \A g \in BufferedCall(dirs) : WithTop(g) =>
              frames' \in Seq(BufferedCall(dirs)) /\ Len(frames') = Len(frames) /\ frames' # <<>>
<1>1. frames \in Seq(BufferedCall(dirs)) /\ Len(frames) \in 1..Len(frames)
  BY EmptySeq, LenProperties DEF WalkTypeInv
<1>2. TopFrame = frames[Len(frames)] /\ TopFrame \in BufferedCall(dirs)
  BY <1>1, ElementOfSeq DEF TopFrame, Last
<1>3. ASSUME NEW g \in BufferedCall(dirs), WithTop(g)
      PROVE  frames' \in Seq(BufferedCall(dirs)) /\ Len(frames') = Len(frames) /\ frames' # <<>>
  BY <1>1, <1>3, Seq_Top DEF WithTop
<1> QED BY <1>1, <1>2, <1>3

LEMMA Walk_TypeOpen ==
  ASSUME WalkTypeInv, OpenDir
  PROVE  WalkTypeInv'
<1> DEFINE g == [dir |-> Called, unread |-> Entries(Called), read |-> 0,
                 buffer |-> <<>>, dirName |-> <<>>, i |-> 1]
<1>1. /\ Called \in dirs /\ Len(frames) < MaxOpen /\ frames' = Append(frames, g)
      /\ cwd' \in {Called, cwd} /\ stat' = "file" /\ listed' = Append(listed, Called)
      /\ walk' = [walk EXCEPT !.at = "read"] /\ UNCHANGED <<dirs, files, mode>>
  BY DEF OpenDir, WalkGoes
<1>2. g \in BufferedCall(dirs)
  <2>1. Entries(Called) \subseteq PathName
    BY DEF Entries, PathName
  <2>2. <<>> \in Seq(PathName) /\ <<>> \in Seq(1..Buffered) /\ Len(<<>>) = 0
    BY EmptySeq
  <2>3. Buffered \in Nat \ {0}
    BY WalkAssumption
  <2> QED BY <1>1, <2>1, <2>2, <2>3 DEF BufferedCall
<1> HIDE DEF g
<1>3. frames' \in Seq(BufferedCall(dirs)) /\ Len(frames') = Len(frames) + 1 /\ frames' # <<>>
  BY <1>1, <1>2, AppendProperties DEF WalkTypeInv
<1>4. Len(frames') <= MaxOpen
  <2>1. Len(frames) \in Nat /\ MaxOpen \in Nat
    BY WalkAssumption, LenProperties DEF WalkTypeInv
  <2> QED BY <1>1, <1>3, <2>1
<1>5. listed' \in Seq(dirs)
  BY <1>1, AppendProperties DEF WalkTypeInv
<1>6. walk' \in [at : {"call", "read", "loop", "fail", "over", "crashed"}, arg : PathName]
  BY <1>1 DEF WalkTypeInv
<1>7. TreeInv' /\ cwd' \in dirs /\ stat' \in {"dir", "file"}
  BY <1>1 DEF WalkTypeInv, TreeInv
<1> QED BY <1>1, <1>3, <1>4, <1>5, <1>6, <1>7 DEF WalkTypeInv

\* The buffer, when an entry has been put where it is its turn
LEMMA Buffer_Put ==
  ASSUME NEW f \in BufferedCall(dirs), NEW n \in PathName, NEW slot, slot = (f.read % Buffered) + 1,
         NEW b, b = IF slot > Len(f.buffer) THEN Append(f.buffer, n) ELSE [f.buffer EXCEPT ![slot] = n]
  PROVE  /\ b \in Seq(PathName) /\ slot \in 1..Buffered /\ slot \in 1..Len(b) /\ Len(f.buffer) <= Len(b)
         /\ Len(b) = (IF f.read + 1 < Buffered THEN f.read + 1 ELSE Buffered)
<1>1. /\ f.buffer \in Seq(PathName) /\ f.read \in Nat /\ Buffered \in Nat \ {0}
      /\ Len(f.buffer) = (IF f.read < Buffered THEN f.read ELSE Buffered)
  BY WalkAssumption DEF BufferedCall
<1>2. CASE f.read < Buffered
  <2>1. slot = f.read + 1 /\ Len(f.buffer) = f.read
    BY <1>1, <1>2, Mod_Small
  <2>2. b = Append(f.buffer, n)
    BY <1>1, <2>1
  <2>3. b \in Seq(PathName) /\ Len(b) = f.read + 1
    BY <1>1, <2>1, <2>2, AppendProperties
  <2> QED BY <1>1, <1>2, <2>1, <2>3
<1>3. CASE ~(f.read < Buffered)
  <2>1. Len(f.buffer) = Buffered
    BY <1>1, <1>3
  <2>2. f.read % Buffered \in 0..(Buffered - 1)
    BY <1>1
  <2>3. slot \in 1..Buffered
    BY <1>1, <2>2
  <2>4. b = [f.buffer EXCEPT ![slot] = n]
    BY <1>1, <2>1, <2>3
  <2>5. b \in Seq(PathName) /\ Len(b) = Buffered
    BY <1>1, <2>1, <2>3, <2>4, ExceptSeq
  <2>6. ~(f.read + 1 < Buffered)
    BY <1>1, <1>3
  <2> QED BY <1>1, <2>1, <2>3, <2>5, <2>6
<1> QED BY <1>2, <1>3

LEMMA Walk_TypeRead ==
  ASSUME WalkTypeInv, NEW n \in PathName, ReadDir(n)
  PROVE  WalkTypeInv'
<1> DEFINE f == TopFrame
           slot == (f.read % Buffered) + 1
           b == IF slot > Len(f.buffer) THEN Append(f.buffer, n) ELSE [f.buffer EXCEPT ![slot] = n]
           s == IF Stat(n) = "dir" /\ n # "." THEN Append(f.dirName, slot) ELSE f.dirName
           g == [f EXCEPT !.unread = f.unread \ {n}, !.read = f.read + 1, !.buffer = b, !.dirName = s]
<1>1. /\ walk.at = "read" /\ walk' = [walk EXCEPT !.at = "read"] /\ stat' = Stat(n)
      /\ WithTop(g) /\ UNCHANGED <<dirs, files, mode, cwd, listed>>
  BY DEF ReadDir, WalkGoes
<1>2. f \in BufferedCall(dirs) /\ frames # <<>>
  BY <1>1, Walk_Top DEF WalkTypeInv
<1> HIDE DEF f
<1>3. /\ b \in Seq(PathName) /\ slot \in 1..Buffered /\ slot \in 1..Len(b) /\ Len(f.buffer) <= Len(b)
      /\ Len(b) = (IF f.read + 1 < Buffered THEN f.read + 1 ELSE Buffered)
  BY <1>2, Buffer_Put
<1> HIDE DEF slot, b
<1>4. /\ f.dirName \in Seq(1..Buffered) /\ Len(f.buffer) \in Nat /\ Len(b) \in Nat
      /\ \A j \in 1..Len(f.dirName) : f.dirName[j] \in 1..Len(f.buffer)
  BY <1>2, <1>3, LenProperties DEF BufferedCall
<1>10. s \in {f.dirName, Append(f.dirName, slot)}
  OBVIOUS
<1> HIDE DEF s
<1>5. s \in Seq(1..Buffered) /\ \A j \in 1..Len(s) : s[j] \in 1..Len(b)
  <2>1. \A j \in 1..Len(f.dirName) : f.dirName[j] \in 1..Len(b)
    BY <1>3, <1>4
  <2>2. CASE s = f.dirName
    BY <1>4, <2>1, <2>2
  <2>3. CASE s = Append(f.dirName, slot)
    <3>1. /\ s \in Seq(1..Buffered) /\ Len(s) = Len(f.dirName) + 1 /\ Len(f.dirName) \in Nat
          /\ s[Len(f.dirName) + 1] = slot /\ \A j \in 1..Len(f.dirName) : s[j] = f.dirName[j]
      BY <1>3, <1>4, <2>3, AppendProperties, LenProperties
    <3>2. \A j \in 1..Len(s) : j = Len(f.dirName) + 1 \/ j \in 1..Len(f.dirName)
      BY <3>1
    <3> QED BY <1>3, <2>1, <3>1, <3>2
  <2> QED BY <1>10, <2>2, <2>3
<1>6. g \in BufferedCall(dirs)
  <2>1. /\ f \in [dir : dirs, unread : SUBSET PathName, read : Nat, buffer : Seq(PathName),
                  dirName : Seq(1..Buffered), i : Nat]
        /\ f.i # 0 /\ f.unread \ {n} \in SUBSET PathName /\ f.read + 1 \in Nat
    BY <1>2 DEF BufferedCall
  <2>2. /\ g \in [dir : dirs, unread : SUBSET PathName, read : Nat, buffer : Seq(PathName),
                  dirName : Seq(1..Buffered), i : Nat]
        /\ g.i = f.i /\ g.buffer = b /\ g.dirName = s /\ g.read = f.read + 1
    BY <1>3, <1>5, <2>1
  <2> HIDE DEF g
  <2> QED BY <1>3, <1>5, <2>1, <2>2 DEF BufferedCall
<1> HIDE DEF g
<1>7. frames' \in Seq(BufferedCall(dirs)) /\ Len(frames') = Len(frames) /\ frames' # <<>>
  BY <1>1, <1>2, <1>6, Walk_Top
<1>8. stat' \in {"dir", "file"} /\ walk' \in [at : {"call", "read", "loop", "fail", "over", "crashed"}, arg : PathName]
  BY <1>1 DEF WalkTypeInv, Stat
<1>9. TreeInv' /\ cwd' \in dirs /\ listed' \in Seq(dirs)
  BY <1>1 DEF WalkTypeInv, TreeInv
<1> QED BY <1>1, <1>7, <1>8, <1>9 DEF WalkTypeInv

\* A call goes on to another place of dirName
LEMMA Call_Next ==
  ASSUME NEW D, NEW f \in BufferedCall(D), NEW m \in Nat \ {0}
  PROVE  [f EXCEPT !.i = m] \in BufferedCall(D)
<1> DEFINE g == [f EXCEPT !.i = m]
<1>1. /\ g \in [dir : D, unread : SUBSET PathName, read : Nat, buffer : Seq(PathName),
                dirName : Seq(1..Buffered), i : Nat]
      /\ g.i = m /\ g.buffer = f.buffer /\ g.dirName = f.dirName /\ g.read = f.read
  BY DEF BufferedCall
<1> HIDE DEF g
<1>2. g \in BufferedCall(D)
  BY <1>1 DEF BufferedCall
<1> QED BY <1>2 DEF g

LEMMA Walk_TypeBreak ==
  ASSUME WalkTypeInv, BreakLoop
  PROVE  WalkTypeInv'
<1>1. /\ walk' = [walk EXCEPT !.at = IF frames = <<>> THEN "over" ELSE "loop"]
      /\ UNCHANGED <<dirs, files, mode, cwd, stat, listed>>
  BY DEF BreakLoop, WalkGoes
<1>2. frames' \in Seq(BufferedCall(dirs)) /\ Len(frames') = Len(frames)
  <2>1. CASE frames = <<>>
    BY <2>1 DEF BreakLoop, WalkTypeInv
  <2>2. CASE frames # <<>>
    <3> DEFINE m == Len(TopFrame.dirName) + 1
    <3>1. WithTop([TopFrame EXCEPT !.i = m]) /\ TopFrame \in BufferedCall(dirs)
      BY <2>2, Walk_Top DEF BreakLoop
    <3>2. m \in Nat \ {0}
      <4>1. Len(TopFrame.dirName) \in Nat
        BY <3>1, LenProperties DEF BufferedCall
      <4> QED BY <4>1
    <3> HIDE DEF m
    <3>3. [TopFrame EXCEPT !.i = m] \in BufferedCall(dirs)
      BY <3>1, <3>2, Call_Next
    <3> QED BY <2>2, <3>1, <3>3, Walk_Top
  <2> QED BY <2>1, <2>2
<1>3. walk' \in [at : {"call", "read", "loop", "fail", "over", "crashed"}, arg : PathName] /\ walk'.at # "read"
  BY <1>1 DEF WalkTypeInv
<1> QED BY <1>1, <1>2, <1>3 DEF WalkTypeInv, TreeInv

LEMMA Front_Type ==
  ASSUME NEW S, NEW q \in Seq(S), NEW m \in Nat, m = Len(q), m > 1
  PROVE  Front(q) \in Seq(S) /\ Len(Front(q)) = m - 1
<1>1. \A k \in 1..(m - 1) : q[k] \in S
  BY ElementOfSeq
<1>2. /\ SubSeq(q, 1, m - 1) \in Seq(S)
      /\ Len(SubSeq(q, 1, m - 1)) = IF 1 <= m - 1 THEN m - 1 - 1 + 1 ELSE 0
  BY <1>1, SubSeqProperties
<1>3. Len(SubSeq(q, 1, m - 1)) = m - 1
  BY <1>2
<1> QED BY <1>2, <1>3 DEF Front

LEMMA Walk_TypeClose ==
  ASSUME WalkTypeInv, CloseDir
  PROVE  WalkTypeInv'
<1>1. /\ walk' = [walk EXCEPT !.at = IF Len(frames) = 1 THEN "over" ELSE "loop"]
      /\ frames # <<>> /\ cwd' = DirectoryUp
      /\ frames' = IF Len(frames) = 1 THEN <<>> ELSE [Front(frames) EXCEPT ![Len(frames) - 1].i = @ + 1]
      /\ UNCHANGED <<dirs, files, mode, stat, listed>>
  BY DEF CloseDir, WalkGoes
<1>2. cwd' \in dirs
  BY <1>1, Walk_Up DEF DirectoryUp, WalkTypeInv
<1>3. PICK m \in Nat : m = Len(frames) /\ m # 0 /\ frames \in Seq(BufferedCall(dirs)) /\ m <= MaxOpen
  BY <1>1, EmptySeq, LenProperties DEF WalkTypeInv
<1>4. frames' \in Seq(BufferedCall(dirs)) /\ Len(frames') <= MaxOpen
  <2>1. CASE m = 1
    <3>1. frames' = <<>> /\ Len(<<>>) = 0 /\ MaxOpen \in Nat
      BY <1>1, <1>3, <2>1, WalkAssumption
    <3> QED BY <3>1, EmptySeq
  <2>2. CASE m # 1
    <3> DEFINE p == Front(frames)
    <3>1. m - 1 \in 1..(m - 1) /\ m > 1 /\ m - 1 <= MaxOpen
      BY <1>3, <2>2, WalkAssumption
    <3>2. p \in Seq(BufferedCall(dirs)) /\ Len(p) = m - 1
      BY <1>3, <3>1, Front_Type
    <3> HIDE DEF p
    <3>3. p[m - 1] \in BufferedCall(dirs)
      BY <3>1, <3>2, ElementOfSeq
    <3>4. p[m - 1].i + 1 \in Nat \ {0}
      BY <3>3 DEF BufferedCall
    <3>5. [p[m - 1] EXCEPT !.i = p[m - 1].i + 1] \in BufferedCall(dirs)
      BY <3>3, <3>4, Call_Next
    <3>6. frames' = [p EXCEPT ![m - 1] = [p[m - 1] EXCEPT !.i = p[m - 1].i + 1]]
      BY <1>1, <1>3, <2>2 DEF p
    <3> QED BY <3>1, <3>2, <3>5, <3>6, ExceptSeq
  <2> QED BY <2>1, <2>2
<1>5. walk' \in [at : {"call", "read", "loop", "fail", "over", "crashed"}, arg : PathName] /\ walk'.at # "read"
  BY <1>1 DEF WalkTypeInv
<1> QED BY <1>1, <1>2, <1>4, <1>5 DEF WalkTypeInv, TreeInv

\* The steps that leave the calls as they are
LEMMA Walk_TypeOther ==
  ASSUME WalkTypeInv, OpenFails \/ NoSuchOwner \/ EndOfDir \/ Recurse
  PROVE  WalkTypeInv'
<1>1. UNCHANGED <<dirs, files, mode, frames, cwd, stat, listed>>
  BY DEF OpenFails, NoSuchOwner, EndOfDir, Recurse
<1>2. walk' \in [at : {"call", "read", "loop", "fail", "over", "crashed"}, arg : PathName] /\ walk'.at # "read"
  <2>1. CASE OpenFails \/ NoSuchOwner \/ EndOfDir
    BY <2>1 DEF OpenFails, NoSuchOwner, EndOfDir, WalkGoes, WalkTypeInv
  <2>2. CASE Recurse
    <3>1. /\ frames # <<>> /\ TopFrame.i <= Len(TopFrame.dirName)
          /\ walk' = [at |-> "call", arg |-> TopFrame.buffer[TopFrame.dirName[TopFrame.i]]]
      BY <2>2 DEF Recurse
    <3>2. TopFrame \in BufferedCall(dirs)
      BY <3>1, Walk_Top
    <3>3. TopFrame.i \in 1..Len(TopFrame.dirName)
      BY <3>1, <3>2, LenProperties DEF BufferedCall
    <3>4. TopFrame.buffer[TopFrame.dirName[TopFrame.i]] \in PathName
      BY <3>2, <3>3, ElementOfSeq DEF BufferedCall
    <3> QED BY <3>1, <3>4
  <2> QED BY <2>1, <2>2
<1> QED BY <1>1, <1>2 DEF WalkTypeInv, TreeInv

LEMMA Walk_TypeNext == WalkTypeInv /\ [WalkNext]_walkvars => WalkTypeInv'
<1>1. ASSUME WalkTypeInv, WalkNext PROVE WalkTypeInv'
  BY <1>1, Walk_TypeOpen, Walk_TypeRead, Walk_TypeBreak, Walk_TypeClose, Walk_TypeOther DEF WalkNext
<1>2. ASSUME WalkTypeInv, UNCHANGED walkvars PROVE WalkTypeInv'
  BY <1>2 DEF walkvars, WalkTypeInv, TreeInv
<1> QED BY <1>1, <1>2

-----------------------------------------------------------------------------
(* The threads around a named semaphore.                                   *)

\* Every semaphore that a launch uses or that has the name was made by the launch that
\* it is called after
MadeBefore ==
  /\ \A l \in Run : thread[l] = "start" <=> uses[l] = 0
  /\ \A m \in Run : named = m => uses[m] = m
  /\ \A l, m \in Run : uses[l] = m => uses[m] = m
NamedInv == NamedTypeOK /\ MadeBefore /\ PermitsKept

LEMMA Named_Init == NamedInit => NamedInv
  BY NamedAssumption DEF NamedInit, NamedInv, NamedTypeOK, MadeBefore, PermitsKept, Run

\* The holders of any semaphore are finitely many
LEMMA Holders_Finite ==
  ASSUME NEW m
  PROVE  IsFiniteSet(Holders(m)) /\ Cardinality(Holders(m)) \in Nat
<1>1. IsFiniteSet(Run)
  BY NamedAssumption, FS_Interval DEF Run
<1>2. Holders(m) \subseteq Run
  BY DEF Holders
<1> QED BY <1>1, <1>2, FS_Subset, FS_CardinalityType

LEMMA Named_SemOpen ==
  ASSUME NamedInv, NEW l \in Run, SemOpen(l)
  PROVE  NamedInv'
<1>1. /\ thread[l] = "start" /\ thread' = [thread EXCEPT ![l] = "outside"]
      /\ named' = IF named = 0 THEN l ELSE named
      /\ uses' = [uses EXCEPT ![l] = named']
      /\ value' = IF named = 0 THEN [value EXCEPT ![l] = Permits] ELSE value
      /\ entered' = entered
  BY DEF SemOpen, ThreadAt, SetIfNew
<1>2. Run \subseteq 0..Runs /\ 0 \notin Run /\ \A m \in 0..Runs : m = 0 \/ m \in Run
  BY NamedAssumption DEF Run
<1>3. uses[l] = 0 /\ \A k \in Run : uses[k] # l
  BY <1>1, <1>2 DEF NamedInv, MadeBefore
<1>4. NamedTypeOK' /\ named' \in Run
  <2>1. Permits \in 0..Permits
    BY NamedAssumption
  <2> QED BY <1>1, <1>2, <2>1 DEF NamedInv, NamedTypeOK
<1>5. /\ thread'[l] = "outside" /\ uses'[l] = named'
      /\ \A k \in Run : k # l => thread'[k] = thread[k] /\ uses'[k] = uses[k]
  BY <1>1 DEF NamedInv, NamedTypeOK
<1>6. uses'[named'] = named'
  BY <1>1, <1>2, <1>4, <1>5 DEF NamedInv, MadeBefore
<1>7. MadeBefore'
  <2>1. ASSUME NEW k \in Run PROVE thread'[k] = "start" <=> uses'[k] = 0
    BY <1>2, <1>4, <1>5 DEF NamedInv, MadeBefore
  <2>2. ASSUME NEW k \in Run, NEW m \in Run, uses'[k] = m PROVE uses'[m] = m
    <3>1. CASE k = l
      BY <1>5, <1>6, <2>2, <3>1
    <3>2. CASE k # l
      BY <1>3, <1>5, <2>2, <3>2 DEF NamedInv, MadeBefore
    <3> QED BY <3>1, <3>2
  <2> QED BY <1>6, <2>1, <2>2 DEF MadeBefore
\* the newcomer has no permit yet
<1>8. ASSUME NEW m \in Run PROVE Holders(m)' = Holders(m)
  <2>1. ASSUME NEW k \in Run
        PROVE  (thread'[k] \in {"inside", "died"} /\ uses'[k] = m) <=> (thread[k] \in {"inside", "died"} /\ uses[k] = m)
    BY <1>1, <1>5
  <2> QED BY <2>1 DEF Holders
<1>9. ASSUME NEW k \in Run, NEW m \in Run, uses'[k] = m
      PROVE  value'[m] + Cardinality(Holders(m)) = Permits
  <2>1. CASE m = l
    <3>1. named = 0
      <4>1. uses'[l] = l
        BY <1>7, <1>9, <2>1 DEF MadeBefore
      <4>2. named # l
        BY <1>3 DEF NamedInv, MadeBefore
      <4> QED BY <1>1, <1>5, <4>1, <4>2
    <3>2. Cardinality(Holders(l)) = 0
      BY <1>3, FS_EmptySet DEF Holders
    <3> QED BY <1>1, <2>1, <3>1, <3>2, NamedAssumption DEF NamedInv, NamedTypeOK
  <2>2. CASE m # l
    <3>1. value'[m] = value[m]
      BY <1>1, <2>2 DEF NamedInv, NamedTypeOK
    <3>2. uses'[m] = m
      BY <1>7, <1>9 DEF MadeBefore
    <3> QED BY <1>5, <2>2, <3>1, <3>2 DEF NamedInv, PermitsKept
  <2> QED BY <2>1, <2>2
<1>10. PermitsKept'
  BY <1>8, <1>9 DEF PermitsKept
<1> QED BY <1>4, <1>7, <1>10 DEF NamedInv

\* What a step of a launch that goes on with its semaphore keeps
LEMMA Named_Goes ==
  ASSUME NamedInv, NEW l \in Run, thread[l] # "start", NEW to \in {"outside", "inside", "over", "done", "killed", "died"},
         thread' = [thread EXCEPT ![l] = to], uses' = uses, named' \in {named, 0}
  PROVE  /\ MadeBefore' /\ thread'[l] = to /\ \A k \in Run : k # l => thread'[k] = thread[k]
         /\ uses[l] \in Run /\ value[uses[l]] + Cardinality(Holders(uses[l])) = Permits
<1>1. thread'[l] = to /\ \A k \in Run : k # l => thread'[k] = thread[k]
  BY DEF NamedInv, NamedTypeOK
<1>2. \A k \in Run : thread'[k] = "start" <=> thread[k] = "start"
  BY <1>1
<1>3. MadeBefore'
  <2>1. 0 \notin Run
    BY NamedAssumption DEF Run
  <2> QED BY <1>2, <2>1 DEF NamedInv, MadeBefore
<1>4. uses[l] \in Run
  BY NamedAssumption DEF NamedInv, NamedTypeOK, MadeBefore, Run
<1> QED BY <1>1, <1>3, <1>4 DEF NamedInv, PermitsKept

LEMMA Named_Enter ==
  ASSUME NamedInv, NEW l \in Run, EnterSection(l)
  PROVE  NamedInv'
<1>0. PICK m \in Run : m = uses[l]
  <2>1. thread[l] # "start"
    BY DEF EnterSection, LeaveSection, ThreadAt
  <2> QED BY <2>1, NamedAssumption DEF NamedInv, NamedTypeOK, MadeBefore, Run
<1>1. /\ thread[l] = "outside" /\ thread' = [thread EXCEPT ![l] = "inside"]
      /\ entered[l] < Rounds /\ value[m] > 0 /\ value' = [value EXCEPT ![m] = @ - 1]
      /\ entered' = [entered EXCEPT ![l] = @ + 1] /\ named' = named /\ uses' = uses
  BY <1>0 DEF EnterSection, ThreadAt
<1>2. /\ MadeBefore' /\ thread'[l] = "inside" /\ \A k \in Run : k # l => thread'[k] = thread[k]
      /\ m \in Run /\ value[m] + Cardinality(Holders(m)) = Permits
  BY <1>0, <1>1, Named_Goes
<1>3. NamedTypeOK'
  <2>1. value[m] \in 0..Permits /\ entered[l] \in 0..Rounds /\ Permits \in Nat /\ Rounds \in Nat
    BY <1>2, NamedAssumption DEF NamedInv, NamedTypeOK
  <2>2. value[m] - 1 \in 0..Permits /\ entered[l] + 1 \in 0..Rounds
    BY <1>1, <2>1
  <2> QED BY <1>1, <1>2, <2>2 DEF NamedInv, NamedTypeOK
<1>4. Holders(m)' = Holders(m) \cup {l} /\ l \notin Holders(m)
  BY <1>0, <1>1, <1>2 DEF Holders
<1>5. Cardinality(Holders(m)') = Cardinality(Holders(m)) + 1 /\ Cardinality(Holders(m)) \in Nat
  BY <1>4, Holders_Finite, FS_AddElement
<1>6. value'[m] = value[m] - 1 /\ value[m] \in Nat
  BY <1>1, <1>2 DEF NamedInv, NamedTypeOK
<1>7. PermitsKept'
  <2>1. ASSUME NEW k \in Run, NEW n \in Run, uses[k] = n, n # m
        PROVE  value'[n] + Cardinality(Holders(n)') = Permits
    <3>1. Holders(n)' = Holders(n)
      BY <1>0, <1>1, <1>2, <2>1 DEF Holders
    <3>2. value'[n] = value[n]
      BY <1>1, <2>1 DEF NamedInv, NamedTypeOK
    <3> QED BY <2>1, <3>1, <3>2 DEF NamedInv, PermitsKept
  <2>2. value'[m] + Cardinality(Holders(m)') = Permits
    <3>1. PICK h \in Nat : h = Cardinality(Holders(m))
      BY <1>5
    <3> QED BY <1>2, <1>5, <1>6, <3>1
  <2> QED BY <1>1, <2>1, <2>2 DEF PermitsKept
<1> QED BY <1>2, <1>3, <1>7 DEF NamedInv

LEMMA Named_Leave ==
  ASSUME NamedInv, NEW l \in Run, LeaveSection(l)
  PROVE  NamedInv'
<1>0. PICK m \in Run : m = uses[l]
  <2>1. thread[l] # "start"
    BY DEF EnterSection, LeaveSection, ThreadAt
  <2> QED BY <2>1, NamedAssumption DEF NamedInv, NamedTypeOK, MadeBefore, Run
<1>1. /\ thread[l] = "inside" /\ thread' = [thread EXCEPT ![l] = "outside"]
      /\ value' = [value EXCEPT ![m] = @ + 1]
      /\ entered' = entered /\ named' = named /\ uses' = uses
  BY <1>0 DEF LeaveSection, ThreadAt, ReturnPermit
<1>2. /\ MadeBefore' /\ thread'[l] = "outside" /\ \A k \in Run : k # l => thread'[k] = thread[k]
      /\ m \in Run /\ value[m] + Cardinality(Holders(m)) = Permits
  BY <1>0, <1>1, Named_Goes
<1>4. Holders(m)' = Holders(m) \ {l} /\ l \in Holders(m)
  BY <1>0, <1>1, <1>2 DEF Holders
<1>5. Cardinality(Holders(m)') = Cardinality(Holders(m)) - 1 /\ Cardinality(Holders(m)) \in Nat
      /\ Cardinality(Holders(m)) # 0
  BY <1>4, Holders_Finite, FS_RemoveElement, FS_EmptySet
<1>6. value'[m] = value[m] + 1 /\ value[m] \in Nat
  BY <1>1, <1>2 DEF NamedInv, NamedTypeOK
\* the permit that comes back is one of those that were there at first
<1>3. NamedTypeOK'
  <2>1. Permits \in Nat
    BY NamedAssumption
  <2>2. value[m] + 1 \in 0..Permits
    <3>1. PICK h \in Nat : h = Cardinality(Holders(m))
      BY <1>5
    <3> QED BY <1>2, <1>5, <1>6, <2>1, <3>1
  <2> QED BY <1>1, <1>2, <2>2 DEF NamedInv, NamedTypeOK
<1>7. PermitsKept'
  <2>1. ASSUME NEW k \in Run, NEW n \in Run, uses[k] = n, n # m
        PROVE  value'[n] + Cardinality(Holders(n)') = Permits
    <3>1. Holders(n)' = Holders(n)
      BY <1>0, <1>1, <1>2, <2>1 DEF Holders
    <3>2. value'[n] = value[n]
      BY <1>1, <2>1 DEF NamedInv, NamedTypeOK
    <3> QED BY <2>1, <3>1, <3>2 DEF NamedInv, PermitsKept
  <2>2. value'[m] + Cardinality(Holders(m)') = Permits
    <3>1. PICK h \in Nat : h = Cardinality(Holders(m))
      BY <1>5
    <3> QED BY <1>2, <1>5, <1>6, <3>1
  <2> QED BY <1>1, <2>1, <2>2 DEF PermitsKept
<1> QED BY <1>2, <1>3, <1>7 DEF NamedInv

\* The steps that touch no permit: who had one has it still, be it dead
LEMMA Named_Other ==
  ASSUME NamedInv, NEW l \in Run, EndThread(l) \/ UnlinkName(l) \/ KillLaunch(l)
  PROVE  NamedInv'
<1>1. PICK to \in {"over", "done", "killed", "died"} :
        /\ thread[l] # "start" /\ thread' = [thread EXCEPT ![l] = to]
        /\ to = "died" <=> thread[l] = "inside"
        /\ thread[l] # "died"
        /\ named' \in {named, 0} /\ uses' = uses /\ value' = value /\ entered' = entered
  BY DEF EndThread, UnlinkName, KillLaunch, ThreadAt
<1>2. MadeBefore' /\ thread'[l] = to /\ \A k \in Run : k # l => thread'[k] = thread[k]
  BY <1>1, Named_Goes
<1>3. NamedTypeOK'
  BY <1>1, NamedAssumption DEF NamedInv, NamedTypeOK
<1>4. \A m : Holders(m)' = Holders(m)
  <2>1. ASSUME NEW k \in Run
        PROVE  thread'[k] \in {"inside", "died"} <=> thread[k] \in {"inside", "died"}
    BY <1>1, <1>2
  <2> QED BY <1>1, <2>1 DEF Holders
<1> QED BY <1>1, <1>2, <1>3, <1>4 DEF NamedInv, PermitsKept

LEMMA Named_Next == NamedInv /\ [NamedNext]_namedvars => NamedInv'
<1>1. ASSUME NamedInv, NamedNext PROVE NamedInv'
  BY <1>1, Named_SemOpen, Named_Enter, Named_Leave, Named_Other DEF NamedNext, RunStep
<1>2. ASSUME NamedInv, UNCHANGED namedvars PROVE NamedInv'
  BY <1>2 DEF namedvars, NamedInv, NamedTypeOK, MadeBefore, PermitsKept, Holders
<1> QED BY <1>1, <1>2

\* No permit of the named semaphore is made or lost but with a launch that dies inside,
\* for any number of launches, permits and rounds (0616/thread.c:24-28, 41, 61).
THEOREM NamedPermitsKept == NamedSpec => []PermitsKept
<1>1. NamedInv => PermitsKept
  BY DEF NamedInv
<1> QED BY <1>1, Named_Init, Named_Next, PTL DEF NamedSpec

\* Who finds the semaphore at 0 waits for a launch that is inside and will give its
\* permit back (24-28), as long as fewer than Permits launches have died with one: what
\* ThreadEnds rests on.
Dead(m) == {k \in Run : thread[k] = "died" /\ uses[k] = m}
SomeoneInside ==
  \A l, m \in Run : uses[l] = m /\ value[m] = 0 /\ Cardinality(Dead(m)) < Permits =>
    \E k \in Run : thread[k] = "inside" /\ uses[k] = m
THEOREM NamedSomeoneInside == NamedSpec => []SomeoneInside
<1>1. NamedInv => SomeoneInside
  <2> SUFFICES ASSUME NamedInv, NEW l \in Run, NEW m \in Run, uses[l] = m, value[m] = 0,
                      Cardinality(Dead(m)) < Permits,
                      \A k \in Run : ~(thread[k] = "inside" /\ uses[k] = m)
               PROVE  FALSE
    BY DEF SomeoneInside
  <2>1. Holders(m) = Dead(m)
    BY DEF Holders, Dead
  <2>2. value[m] + Cardinality(Holders(m)) = Permits /\ Cardinality(Holders(m)) \in Nat
    BY Holders_Finite DEF NamedInv, PermitsKept
  <2> QED BY <2>1, <2>2
<1> QED BY <1>1, Named_Init, Named_Next, PTL DEF NamedSpec

-----------------------------------------------------------------------------
(* Who waits has somebody to wait for.                                     *)

\* Of the two ends of a fifo never both wait in open(), and none waits while the other
\* end is open: whoever comes second wakes the first (fifo_client.c:12,
\* fifo_server.c:20), though names are taken away and processes killed meanwhile.
NoLostWakeUp ==
  /\ \A c \in Writers : writer[c] = "opening" => ~HasReader(writes[c])
  /\ \A s \in Fifo : reader[s] = "opening" => ~HasWriter(reads[s])
THEOREM PipeNoLostWakeUp == PipeSpec => []NoLostWakeUp
<1>1. PipeInit => PipeTypeOK /\ NoLostWakeUp
  BY Pipe_Init DEF PipeInv, PipeInit, NoLostWakeUp
<1>2. PipeTypeOK /\ NoLostWakeUp /\ [PipeNext]_pipevars => (PipeTypeOK /\ NoLostWakeUp)'
  <2> SUFFICES ASSUME PipeTypeOK, NoLostWakeUp, [PipeNext]_pipevars PROVE NoLostWakeUp'
    BY Pipe_Type
  <2>1. ASSUME NEW s \in Fifo, UnlinkFifo(s) \/ MakeFifo(s) \/ ReadPipe(s) \/ ReadZero(s) \/ CloseReader(s) \/ KillReader(s)
        PROVE  NoLostWakeUp'
    BY <2>1 DEF UnlinkFifo, MakeFifo, ReadPipe, ReadZero, CloseReader, KillReader, ReaderAt, PipeTypeOK,
                NoLostWakeUp, HasReader, HasWriter
  <2>2. ASSUME NEW s \in Fifo, OpenToRead(s) PROVE NoLostWakeUp'
    BY <2>2 DEF OpenToRead, ReaderAt, PipeTypeOK, NoLostWakeUp, HasReader, HasWriter
  <2>3. ASSUME NEW c \in Writers, OpenToWrite(c) PROVE NoLostWakeUp'
    BY <2>3 DEF OpenToWrite, WriterAt, PipeTypeOK, NoLostWakeUp, HasReader, HasWriter
  <2>4. ASSUME NEW c \in Writers, CopyChunk(c) \/ EndOfCopy(c) \/ KillWriter(c) PROVE NoLostWakeUp'
    BY <2>4 DEF CopyChunk, EndOfCopy, KillWriter, WriterAt, PipeTypeOK, NoLostWakeUp, HasReader, HasWriter
  <2>5. ASSUME UNCHANGED pipevars PROVE NoLostWakeUp'
    BY <2>5 DEF pipevars, NoLostWakeUp, HasReader, HasWriter
  <2> QED BY <2>1, <2>2, <2>3, <2>4, <2>5 DEF PipeNext, ReaderStep
<1> QED BY <1>1, <1>2, PTL DEF PipeSpec

\* A client that waits for room in a queue (msg_client.c:36, 46) has a server that is at it
\* still, or was killed: no server leaves a queue behind that others wait in.
QueueHasServer ==
  \A c \in Senders : sender[c] \in {"line", "stop"} /\ msqid[c] = queue =>
    queue \in 1..Servers /\ server[queue] \in {"receive", "remove", "killed"}
ServersQueue ==
  /\ \A s \in 1..Servers : server[s] \in {"receive", "remove"} => queue = s
  /\ \A s \in 1..Servers : queue = s => server[s] \in {"receive", "remove", "killed"}
LEMMA Queue_Servers ==
  ASSUME QueueInv, ServersQueue, [QueueNext]_queuevars
  PROVE  ServersQueue'
<1>1. ASSUME NEW s \in 1..Servers, CreateQueue(s) PROVE ServersQueue'
  BY <1>1 DEF CreateQueue, ServerAt, ServersQueue, QueueInv, QueueTypeOK, NoQueue
<1>2. ASSUME NEW s \in 1..Servers, QueueExists(s) \/ ReceiveLine(s) \/ ReceiveStop(s) \/ KillServer(s) PROVE ServersQueue'
  BY <1>2 DEF QueueExists, ReceiveLine, ReceiveStop, KillServer, ServerAt, ServersQueue, QueueInv, QueueTypeOK, QueueEnd
<1>3. ASSUME NEW s \in 1..Servers, RemoveQueue(s) PROVE ServersQueue'
  BY <1>3 DEF RemoveQueue, DropQueue, ServerAt, ServersQueue, QueueInv, QueueTypeOK, NoQueue
<1>4. ASSUME NEW c \in Senders, FindQueue(c) \/ SendFirst(c) \/ SendSecond(c) \/ QueueIsGone(c) \/ KillSender(c) PROVE ServersQueue'
  BY <1>4 DEF FindQueue, SendFirst, SendSecond, SendMessage, QueueIsGone, KillSender, ServersQueue
<1>5. ASSUME UNCHANGED queuevars PROVE ServersQueue'
  BY <1>5 DEF queuevars, ServersQueue
<1> QED BY <1>1, <1>2, <1>3, <1>4, <1>5 DEF QueueNext, QueueServerStep, QueueSenderStep

THEOREM QueueWaitsForServer == QueueSpec => []QueueHasServer
<1>1. QueueInit => QueueInv /\ ServersQueue
  BY Queue_Init DEF QueueInit, ServersQueue, NoQueue
<1>2. QueueInv /\ ServersQueue /\ [QueueNext]_queuevars => (QueueInv /\ ServersQueue)'
  BY Queue_Next, Queue_Servers
<1>3. QueueInv /\ ServersQueue => QueueHasServer
  BY DEF QueueInv, QueueTypeOK, QueueNames, ServersQueue, QueueHasServer, NoQueue
<1> QED BY <1>1, <1>2, <1>3, PTL DEF QueueSpec

\* As long as no parent is killed, a child whose semop() waits (shm_sem.c:26, 112) has
\* a parent that has turns left and will let it go on: never do both wait, the one in
\* semop() and the other in waitpid().
NotBothWait ==
  NoOrphans =>
    \A n \in Launch : pc[Child(n)] = "op" /\ semid[n] = sem /\ val = 0 =>
      pc[Parent(n)] \in {"attach", "op"}
AllTurns == \A n \in Launch : pc[Parent(n)] = "wait" => turn[Parent(n)] = Turns

LEMMA Shm_AllTurns ==
  ASSUME ShmInv, AllTurns, [ShmNext]_shmsemvars
  PROVE  AllTurns'
<1>1. /\ turn \in [Process -> 0..Turns] /\ pc \in [Process -> Stage] /\ Turns \in Nat
      /\ \A n \in Launch : Parent(n) \in Process /\ Child(n) \in Process
      /\ \A n, m \in Launch : Parent(n) # Child(m) /\ (Parent(n) = Parent(m) => n = m)
  BY Shm_Process DEF ShmInv, ShmTypeOK, Turns
<1>2. ASSUME NEW n \in Launch, V(n) PROVE AllTurns'
  <2>1. /\ pc[Parent(n)] = "op" /\ turn' = [turn EXCEPT ![Parent(n)] = @ + 1]
        /\ pc' = [pc EXCEPT ![Parent(n)] = IF turn[Parent(n)] + 1 < Turns THEN "op" ELSE "wait"]
    BY <1>2 DEF V, Goto, SemOp, ParentTurns
  <2>2. turn[Parent(n)] \in Nat /\ turn[Parent(n)] < Turns
    BY <1>1, <2>1 DEF ShmInv, LaunchTurnInv, TurnsOf
  <2>3. pc'[Parent(n)] = "wait" => turn'[Parent(n)] = Turns
    BY <1>1, <2>1, <2>2
  <2>4. \A m \in Launch : m # n => pc'[Parent(m)] = pc[Parent(m)] /\ turn'[Parent(m)] = turn[Parent(m)]
    BY <1>1, <2>1
  <2> QED BY <2>3, <2>4 DEF AllTurns
<1>3. ASSUME NEW n \in Launch, P(n) PROVE AllTurns'
  <2>1. /\ turn' = [turn EXCEPT ![Child(n)] = @ + 1]
        /\ \E to : pc' = [pc EXCEPT ![Child(n)] = to]
    BY <1>3 DEF P, Goto, SemOp
  <2>2. \A m \in Launch : pc'[Parent(m)] = pc[Parent(m)] /\ turn'[Parent(m)] = turn[Parent(m)]
    BY <1>1, <2>1
  <2> QED BY <2>2 DEF AllTurns
\* no other step makes a turn, or lets a parent wait
<1>4. ASSUME turn' = turn, \A p \in Process : pc'[p] = pc[p] \/ pc'[p] # "wait" PROVE AllTurns'
  BY <1>1, <1>4 DEF AllTurns
<1>5. ASSUME NEW n \in Launch,
             \/ SemGet(n) \/ SetVal(n) \/ ForkFails(n) \/ SetValFails(n) \/ CreateSegment(n)
             \/ ParentAttaches(n) \/ WaitPid(n) \/ GetSegment(n) \/ NoSegment(n)
             \/ ChildAttaches(n) \/ Add(n)
      PROVE  AllTurns'
  <2>1. turn' = turn
    BY <1>5 DEF SemGet, SetVal, ForkFails, SetValFails, CreateSegment, ParentAttaches, WaitPid,
                GetSegment, NoSegment, ChildAttaches, Add
  <2>2. \A p \in Process : pc'[p] = pc[p] \/ pc'[p] # "wait"
    BY <1>1, <1>5 DEF SemGet, SetVal, ForkFails, SetValFails, CreateSegment, ParentAttaches, WaitPid,
                      GetSegment, NoSegment, ChildAttaches, Add, Goto
  <2> QED BY <1>4, <2>1, <2>2
<1>6. ASSUME NEW q \in Process, AttachFails(q) \/ ShmRmid(q) \/ SemRmid(q) \/ Kill(q) PROVE AllTurns'
  <2>1. turn' = turn
    BY <1>6 DEF AttachFails, ShmRmid, SemRmid, Kill
  <2>2. \A p \in Process : pc'[p] = pc[p] \/ pc'[p] # "wait"
    BY <1>1, <1>6 DEF AttachFails, ShmRmid, SemRmid, Kill, Goto
  <2> QED BY <1>4, <2>1, <2>2
<1>7. ASSUME UNCHANGED shmsemvars PROVE AllTurns'
  BY <1>7 DEF shmsemvars, AllTurns
<1> QED BY <1>1, <1>2, <1>3, <1>5, <1>6, <1>7 DEF ShmNext, ParentStep, ChildStep

THEOREM ShmNotBothWait == ShmSpec => []NotBothWait
<1>1. ShmInit => ShmInv /\ AllTurns
  BY Shm_Init, Shm_Process DEF ShmInit, AllTurns
<1>2. ShmInv /\ AllTurns /\ [ShmNext]_shmsemvars => (ShmInv /\ AllTurns)'
  BY Shm_Next, Shm_AllTurns
<1>3. ASSUME ShmInv, AllTurns, NoOrphans, NEW n \in Launch, pc[Child(n)] = "op", val = 0
      PROVE  pc[Parent(n)] \in {"attach", "op"}
  <2>1. ChildInv(n) /\ TurnsOf(n)
    BY <1>3 DEF ShmInv, AloneInv, LaunchTurnInv
  <2>2. /\ val = turn[Parent(n)] - turn[Child(n)] /\ turn[Child(n)] < Turns
        /\ pc[Parent(n)] \in {"attach", "op", "wait"}
    BY <1>3, <2>1 DEF ChildInv, TurnsOf
  <2>3. turn[Parent(n)] \in Nat /\ turn[Child(n)] \in Nat /\ Turns \in Nat
    BY <1>3, Shm_Process DEF ShmInv, ShmTypeOK, Turns
  <2>4. pc[Parent(n)] # "wait"
    BY <1>3, <2>2, <2>3 DEF AllTurns
  <2> QED BY <2>2, <2>4
<1>4. ShmInv /\ AllTurns => NotBothWait
  BY <1>3 DEF NotBothWait
<1> QED BY <1>1, <1>2, <1>4, PTL DEF ShmSpec

-----------------------------------------------------------------------------
(* The programs in one instance.                                           *)

\* What each of the programs keeps, with its types
EachInv ==
  /\ QueueInv /\ SignalInv /\ LineInv /\ UdpInv
  /\ WalkTypeInv /\ ConsoleInv /\ PipeInv /\ NamedInv /\ ShmInv

\* A step is one of one program, in which the others' variables stay as they are
LEMMA Programs_Step ==
  ASSUME [Next]_vars
  PROVE  /\ [QueueNext]_queuevars /\ [SignalNext]_sigvars /\ [LineNext]_linevars
         /\ [UdpNext]_udpvars /\ [WalkNext]_walkvars /\ [ConsoleNext]_sensorvars
         /\ [PipeNext]_pipevars /\ [NamedNext]_namedvars /\ [ShmNext]_shmsemvars
  BY DEF Next, Only, vars

LEMMA Programs_Next == EachInv /\ [Next]_vars => EachInv'
<1> SUFFICES ASSUME EachInv, [Next]_vars PROVE EachInv' OBVIOUS
<1>1. /\ [QueueNext]_queuevars /\ [SignalNext]_sigvars /\ [LineNext]_linevars
      /\ [UdpNext]_udpvars /\ [WalkNext]_walkvars /\ [ConsoleNext]_sensorvars
      /\ [PipeNext]_pipevars /\ [NamedNext]_namedvars /\ [ShmNext]_shmsemvars
  BY Programs_Step
<1>2. /\ QueueInv /\ SignalInv /\ LineInv /\ UdpInv
      /\ WalkTypeInv /\ ConsoleInv /\ PipeInv /\ NamedInv /\ ShmInv
  BY DEF EachInv
<1>3. QueueInv' /\ SignalInv' /\ LineInv'
  BY <1>1, <1>2, Queue_Next, Signal_Next, Line_Next
<1>4. UdpInv' /\ WalkTypeInv' /\ ConsoleInv'
  BY <1>1, <1>2, Udp_Next, Walk_TypeNext, Console_Next
<1>5. PipeInv' /\ NamedInv' /\ ShmInv'
  BY <1>1, <1>2, Pipe_Next, Named_Next, Shm_Next
<1> QED BY <1>3, <1>4, <1>5 DEF EachInv

\* The variables of all nine programs have their types, for any number of clients,
\* servers, launches and signals and any values, trees, samples and calibrations: what
\* TLC explores in MCPrograms, for every value of the constants.
THEOREM ProgramsTypeOK == Spec => []TypeOK
<1>1. Init => EachInv
  BY Queue_Init, Signal_Init, Line_Init, Udp_Init, Walk_TypeInit, Console_Init,
     Pipe_Init, Named_Init, Shm_Init DEF Init, EachInv
<1>2. EachInv => TypeOK
  <2> SUFFICES ASSUME EachInv PROVE TypeOK OBVIOUS
  <2>1. QueueTypeOK /\ SignalTypeOK /\ LineTypeOK /\ UdpTypeOK
    BY DEF EachInv, QueueInv, SignalInv, LineInv, UdpInv
  <2>2. WalkTypeOK /\ ConsoleTypeOK /\ PipeTypeOK /\ NamedTypeOK /\ ShmTypeOK
    BY Walk_Type DEF EachInv, ConsoleInv, PipeInv, NamedInv, ShmInv
  <2> QED BY <2>1, <2>2 DEF TypeOK
<1> QED BY <1>1, <1>2, Programs_Next, PTL DEF Spec
=============================================================================
