-------------------------- MODULE SignalSemaphore --------------------------
(***************************************************************************)
(* src/0616/sem.c: main() takes a semaphore once and waits for cnt to be 0 *)
(* again; SIGTSTP takes it once more, SIGINT gives it back.  The handlers  *)
(* interrupt main(), and each other, between any two instructions, in      *)
(* semop() too, and cnt is changed by a load and a store.                  *)
(***************************************************************************)
EXTENDS Integers, Sequences

CONSTANTS
  Value,       \* what SETVAL sets (8 in the code)
  MaxSignals   \* bound: how many signals are sent
ASSUME SemaphoreAssumption == Value \in Nat \ {0} /\ MaxSignals \in Nat

VARIABLES
  main,        \* where main() is; inside p() it is "p"
  calls,       \* the calls of p() and v() that are active, the innermost last
  semval,      \* the semaphore's value, NoSet when there is no set
  cnt,         \* the counter
  pending,     \* signals sent and not delivered
  signals,     \* how many have been sent
  torn         \* a handler has come between a load and its store, or before SETVAL

sigvars == <<main, calls, semval, cnt, pending, signals, torn>>

NoSet   == -1
Signal  == {"SIGINT", "SIGTSTP"}
(***************************************************************************)
(* A call: which operation; the signal whose handler made it, or main(); at *)
(* which instruction it is; and the register that cnt was loaded into.      *)
(***************************************************************************)
Operation == {"p", "v"}
Caller    == Signal \cup {"main"}
At        == {"semop", "waits", "interrupted", "load", "store"}
Call      == [op : Operation, by : Caller, at : At, register : Int]

SignalInit ==
  /\ main = "semget" /\ calls = <<>> /\ semval = NoSet /\ cnt = 0
  /\ pending = {} /\ signals = 0 /\ torn = FALSE

SignalTypeOK ==
  /\ main \in {"semget", "setval", "p", "loop", "rmid", "done"}
  /\ calls \in Seq(Call) /\ Len(calls) <= 3
  /\ semval \in Int /\ cnt \in Int /\ pending \subseteq Signal /\ signals \in 0..MaxSignals
  /\ torn \in BOOLEAN

Top    == calls[Len(calls)]
Return == calls' = SubSeq(calls, 1, Len(calls) - 1)
NewCall(op, by) == [op |-> op, by |-> by, at |-> "semop", register |-> 0]
Reach(at) == calls' = [calls EXCEPT ![Len(calls)].at = at]

-----------------------------------------------------------------------------
(* p() and v(), whoever has called them.                                   *)

Running(at) == calls # <<>> /\ Top.at = at

\* semop() fails while there is no set, and is done at once or waits otherwise
SemFails ==
  /\ Running("semop") /\ semval = NoSet
  /\ Return
  /\ UNCHANGED <<main, semval, cnt, pending, signals, torn>>
SemDone ==
  /\ Running("semop") /\ semval # NoSet
  /\ IF Top.op = "p" THEN semval > 0 /\ semval' = semval - 1 ELSE semval' = semval + 1
  /\ Reach("load")
  /\ UNCHANGED <<main, cnt, pending, signals, torn>>
SemWaits ==
  /\ Running("semop") /\ semval = 0 /\ Top.op = "p"
  /\ Reach("waits")
  /\ UNCHANGED <<main, semval, cnt, pending, signals, torn>>

\* (mutant: the result of semop() is not tested)
CountAnyway == Reach("load")
\* a handler has run: semop() fails with EINTR, SA_RESTART or not
GiveUp      == Return
SemInterrupted ==
  /\ Running("interrupted") /\ GiveUp
  /\ UNCHANGED <<main, semval, cnt, pending, signals, torn>>

\* ++cnt and --cnt
Load ==
  /\ Running("load")
  /\ calls' = [calls EXCEPT ![Len(calls)].at = "store", ![Len(calls)].register = cnt]
  /\ UNCHANGED <<main, semval, cnt, pending, signals, torn>>
Store ==
  /\ Running("store")
  /\ cnt' = IF Top.op = "p" THEN Top.register + 1 ELSE Top.register - 1
  /\ Return
  /\ UNCHANGED <<main, semval, pending, signals, torn>>

-----------------------------------------------------------------------------
(* main(), while no call is active.                                        *)

MainAt(from, to) == calls = <<>> /\ main = from /\ main' = to

SemGetPrivate ==
  /\ MainAt("semget", "setval") /\ semval' = 0
  /\ UNCHANGED <<calls, cnt, pending, signals, torn>>
SetValue ==
  /\ MainAt("setval", "p") /\ semval' = Value /\ calls' = <<NewCall("p", "main")>>
  /\ UNCHANGED <<cnt, pending, signals, torn>>
\* p() has returned, with or without success
ReturnFromP ==
  /\ MainAt("p", "loop")
  /\ UNCHANGED <<calls, semval, cnt, pending, signals, torn>>
LeaveLoop ==
  /\ MainAt("loop", "rmid") /\ cnt = 0
  /\ UNCHANGED <<calls, semval, cnt, pending, signals, torn>>
RemoveSet ==
  /\ MainAt("rmid", "done") /\ semval' = NoSet
  /\ UNCHANGED <<calls, cnt, pending, signals, torn>>

MainStep == SemGetPrivate \/ SetValue \/ ReturnFromP \/ LeaveLoop \/ RemoveSet
CallStep == SemFails \/ SemDone \/ SemWaits \/ SemInterrupted \/ Load \/ Store

-----------------------------------------------------------------------------
(* The signals.                                                            *)

\* a second one of the same kind is not kept
SendSignal(sig) ==
  /\ main # "done" /\ signals < MaxSignals
  /\ pending' = pending \cup {sig} /\ signals' = signals + 1
  /\ UNCHANGED <<main, calls, semval, cnt, torn>>

\* signal() blocks a signal while its own handler runs
Masked(sig) == \E k \in 1..Len(calls) : calls[k].by = sig

Deliver(sig) ==
  /\ main # "done" /\ sig \in pending /\ ~Masked(sig)
  /\ pending' = pending \ {sig}
  /\ calls' = Append(
       [k \in 1..Len(calls) |->
          IF calls[k].at = "waits" THEN [calls[k] EXCEPT !.at = "interrupted"] ELSE calls[k]],
       NewCall(IF sig = "SIGINT" THEN "v" ELSE "p", sig))
  /\ torn' = (torn \/ main \in {"semget", "setval"} \/ \E k \in 1..Len(calls) : calls[k].at = "store")
  /\ UNCHANGED <<main, semval, cnt, signals>>

SignalNext ==
  \/ MainStep \/ CallStep
  \/ \E sig \in Signal : SendSignal(sig) \/ Deliver(sig)

SignalSpec == SignalInit /\ [][SignalNext]_sigvars

-----------------------------------------------------------------------------
(* What must hold.                                                         *)

\* The loop that waits for cnt = 0 (76-78) waits for the semaphore to be back at
\* its value: whenever main() tests cnt the two agree, although handlers have
\* interrupted p() and v() before, in and after semop(), and calls of p() that
\* waited have given up; unless a handler came between a load of cnt and its
\* store (22, 35), or before SETVAL (70), where nothing protects them.
CountIsValue ==
  main = "loop" /\ calls = <<>> /\ ~torn => cnt = Value - semval
=============================================================================
