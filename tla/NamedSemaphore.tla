--------------------------- MODULE NamedSemaphore ---------------------------
(***************************************************************************)
(* src/0616/thread.c: a thread that enters a section guarded by a named    *)
(* POSIX semaphore Rounds times, and main(), which joins it and removes    *)
(* the name.  The semaphore and its value outlive a process that is        *)
(* killed, and O_CREAT without O_EXCL takes what is there; several         *)
(* launches of the program share it while they run.                        *)
(***************************************************************************)
EXTENDS Naturals, FiniteSets

CONSTANTS
  Runs,          \* bound: how often the program is started
  Permits,       \* what the semaphore is created with (7)
  Rounds         \* how often the thread enters (10)
ASSUME NamedAssumption == Runs \in Nat /\ Permits \in Nat \ {0} /\ Rounds \in Nat \ {0}

VARIABLES
  thread,        \* thread[l]: where pthreadV() of launch l is
  named,         \* the semaphore that has the name, called after its maker; 0: none has
  uses,          \* uses[l]: the semaphore that sem_open() gave to l
  value,         \* value[m]: the value of semaphore m
  entered        \* entered[l]: how often the thread of l has entered

namedvars == <<thread, named, uses, value, entered>>

Run == 1..Runs

NamedInit ==
  /\ thread = [l \in Run |-> "start"] /\ named = 0
  /\ uses = [l \in Run |-> 0] /\ value = [l \in Run |-> 0]
  /\ entered = [l \in Run |-> 0]

NamedTypeOK ==
  /\ thread \in [Run -> {"start", "outside", "inside", "over", "done", "killed", "died"}]
  /\ named \in 0..Runs /\ uses \in [Run -> 0..Runs]
  /\ value \in [Run -> 0..Permits] /\ entered \in [Run -> 0..Rounds]

ThreadAt(l, from, to) == thread[l] = from /\ thread' = [thread EXCEPT ![l] = to]

\* O_CREAT: the value is that of a new semaphore (mutant: it is set each time)
SetAgain(m) == value' = [value EXCEPT ![m] = Permits]
SetIfNew(m) == value' = IF named = 0 THEN [value EXCEPT ![m] = Permits] ELSE value
\* sem_open() and pthread_create()
SemOpen(l) ==
  /\ ThreadAt(l, "start", "outside") /\ \A k \in 1..(l - 1) : thread[k] # "start"
  /\ named' = IF named = 0 THEN l ELSE named
  /\ uses' = [uses EXCEPT ![l] = named']
  /\ SetIfNew(named')
  /\ UNCHANGED entered

\* p(); cnt++ is of this process only, and no other thread of it touches it
EnterSection(l) ==
  /\ ThreadAt(l, "outside", "inside") /\ entered[l] < Rounds /\ value[uses[l]] > 0
  /\ value' = [value EXCEPT ![uses[l]] = @ - 1]
  /\ entered' = [entered EXCEPT ![l] = @ + 1]
  /\ UNCHANGED <<named, uses>>
\* (mutant: no v())
KeepPermit(m)   == UNCHANGED value
ReturnPermit(m) == value' = [value EXCEPT ![m] = @ + 1]
LeaveSection(l) ==
  /\ ThreadAt(l, "inside", "outside") /\ ReturnPermit(uses[l])
  /\ UNCHANGED <<named, uses, entered>>
EndThread(l) ==
  /\ ThreadAt(l, "outside", "over") /\ entered[l] = Rounds
  /\ UNCHANGED <<named, uses, value, entered>>

\* main(): pthread_join(), sem_close(), and sem_unlink() of whatever has the name now
UnlinkName(l) ==
  /\ ThreadAt(l, "over", "done") /\ named' = 0
  /\ UNCHANGED <<uses, value, entered>>

\* the process is killed, inside the section or not: the semaphore stays as it is
KillLaunch(l) ==
  /\ thread[l] \in {"outside", "inside", "over"}
  /\ thread' = [thread EXCEPT ![l] = IF @ = "inside" THEN "died" ELSE "killed"]
  /\ UNCHANGED <<named, uses, value, entered>>

RunStep(l) == EnterSection(l) \/ LeaveSection(l) \/ EndThread(l) \/ UnlinkName(l)

NamedNext == \E l \in Run : SemOpen(l) \/ RunStep(l) \/ KillLaunch(l)

NamedFairness == \A l \in Run : WF_namedvars(RunStep(l))

NamedSpec == NamedInit /\ [][NamedNext]_namedvars /\ NamedFairness

-----------------------------------------------------------------------------
(* What must hold.                                                         *)

\* The launches that have a permit of semaphore m, the ones that died with it too
Holders(m) == {k \in Run : thread[k] \in {"inside", "died"} /\ uses[k] = m}
\* A permit of a semaphore that a launch uses is at the semaphore or with one launch
\* (24-28), whoever made the semaphore (41), took its name away (61) or was killed:
\* none is made, so that never more than Permits launches are inside at once, and none
\* is lost but with a launch.
PermitsKept == \A l, m \in Run : uses[l] = m => value[m] + Cardinality(Holders(m)) = Permits

\* The thread of every launch ends, and with it the launch (57), whatever was killed
\* before it and whoever has removed the name under it (61), as long as fewer than
\* Permits launches have died between p() and v() of its semaphore (24-28).
ThreadWaits(l)  == thread[l] = "outside"
ThreadServed(l) ==
  \/ thread[l] \in {"done", "killed", "died"}
  \/ Cardinality({k \in Run : thread[k] = "died" /\ uses[k] = uses[l]}) >= Permits
ThreadEnds      == \A l \in Run : ThreadWaits(l) ~> ThreadServed(l)
=============================================================================
