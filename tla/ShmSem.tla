------------------------------- MODULE ShmSem -------------------------------
(***************************************************************************)
(* src/0616/shm_sem.c: a parent and its child share an integer and a       *)
(* semaphore by which the parent lets the child go on, three times.  Both  *)
(* remove the segment and the semaphore at their end.  The program may be  *)
(* launched again when its parent has ended or was killed; the child of an *)
(* earlier launch and what it has not removed may be still there then,     *)
(* since the keys (8-9) are the same in every launch.                      *)
(***************************************************************************)
EXTENDS Integers

CONSTANT Launches     \* bound: how often the program is launched
ASSUME LaunchesAssumption == Launches \in Nat

Launch    == 1..Launches
Process   == Launch \X {"parent", "child"}
Parent(n) == <<n, "parent">>
Child(n)  == <<n, "child">>
None      == 0        \* no segment or set; one that exists is named by the launch that made it
Turns     == 3

VARIABLES
  pc,                 \* pc[p]: where process p is, see Stage
  turn,               \* turn[p]: how many turns of its loop p has made
  semid, shmid,       \* semid[n], shmid[p]: the set of launch n, the segment of process p
  sem, val,           \* the set there is now under SEM_KEY, and its semaphore's value
  undo,               \* undo[p]: what the end of process p adds to that value (SEM_UNDO)
  seg, cVal           \* the segment there is now under SHM_KEY; cVal[m]: what is in segment m

semvars == <<semid, sem, val, undo>>
shmvars == <<shmid, seg, cVal>>
shmsemvars    == <<pc, turn, semvars, shmvars>>

Over  == {"done", "failed", "killed"}
Stage == {"none", "set", "get", "attach", "add", "op", "wait", "removeseg", "removesem"} \cup Over

ShmInit ==
  /\ pc = [p \in Process |-> "none"] /\ turn = [p \in Process |-> 0]
  /\ semid = [n \in Launch |-> None] /\ sem = None /\ val = 0
  /\ undo = [p \in Process |-> 0]
  /\ shmid = [p \in Process |-> None] /\ seg = None /\ cVal = [m \in Launch |-> 0]

ShmTypeOK ==
  /\ pc \in [Process -> Stage] /\ turn \in [Process -> 0..Turns]
  /\ semid \in [Launch -> {None} \cup Launch] /\ sem \in {None} \cup Launch
  /\ val \in Nat /\ undo \in [Process -> (-Turns)..Turns]
  /\ shmid \in [Process -> {None} \cup Launch] /\ seg \in {None} \cup Launch
  /\ cVal \in [Launch -> Nat]

Goto(p, from, to) == pc[p] = from /\ pc' = [pc EXCEPT ![p] = to]

-----------------------------------------------------------------------------
(* What comes before the fork().                                           *)

SemGet(n) ==
  /\ \A m \in 1..(n - 1) : pc[Parent(m)] \in Over
  /\ Goto(Parent(n), "none", "set")
  /\ sem' = IF sem = None THEN n ELSE sem
  /\ semid' = [semid EXCEPT ![n] = sem']
  /\ UNCHANGED <<turn, val, undo, shmvars>>

\* (mutant: the value the comment in line 56 tells)
One     == 1
Initial == 0

\* SETVAL, which also forgets what processes would undo, and fork()
SetVal(n) ==
  /\ pc[Parent(n)] = "set" /\ semid[n] = sem
  /\ val' = Initial /\ undo' = [p \in Process |-> 0]
  /\ pc' = [pc EXCEPT ![Parent(n)] = "get", ![Child(n)] = "get"]
  /\ UNCHANGED <<turn, semid, sem, shmvars>>

\* fork() fails: the parent goes on to 115 with a shmid that it has not assigned, and
\* that may by chance name the segment there is
ForkFails(n) ==
  /\ semid[n] = sem /\ Goto(Parent(n), "set", "removeseg")
  /\ val' = Initial /\ undo' = [p \in Process |-> 0]
  /\ \E m \in {None, seg} : shmid' = [shmid EXCEPT ![Parent(n)] = m]
  /\ UNCHANGED <<turn, semid, sem, seg, cVal>>

\* the child of an earlier launch has removed the set in between
SetValFails(n) ==
  /\ semid[n] # sem /\ Goto(Parent(n), "set", "failed")
  /\ UNCHANGED <<turn, semvars, shmvars>>

-----------------------------------------------------------------------------
(* The two loops.                                                          *)

\* the parent's shmget(), with IPC_CREAT
CreateSegment(n) ==
  /\ Goto(Parent(n), "get", "attach")
  /\ seg' = IF seg = None THEN n ELSE seg
  /\ shmid' = [shmid EXCEPT ![Parent(n)] = seg']
  /\ UNCHANGED <<turn, semvars, cVal>>

\* the child's, without
GetSegment(n) ==
  /\ seg # None /\ Goto(Child(n), "get", "attach")
  /\ shmid' = [shmid EXCEPT ![Child(n)] = seg]
  /\ UNCHANGED <<turn, semvars, seg, cVal>>
NoSegment(n) ==
  /\ seg = None /\ Goto(Child(n), "get", "failed")
  /\ UNCHANGED <<turn, semvars, shmvars>>

\* shmat(), and the child's *cVal = 1
ParentAttaches(n) ==
  /\ seg = shmid[Parent(n)] /\ Goto(Parent(n), "attach", "op")
  /\ UNCHANGED <<turn, semvars, shmvars>>
ChildAttaches(n) ==
  /\ seg = shmid[Child(n)] /\ Goto(Child(n), "attach", "add")
  /\ cVal' = [cVal EXCEPT ![seg] = 1]
  /\ UNCHANGED <<turn, semvars, shmid, seg>>
\* the child of an earlier launch has removed the segment in between
AttachFails(p) ==
  /\ seg # shmid[p] /\ Goto(p, "attach", "failed")
  /\ UNCHANGED <<turn, semvars, shmvars>>

\* in one step: only the children of two launches could get in between
Add(n) ==
  /\ Goto(Child(n), "add", "op")
  /\ cVal' = [cVal EXCEPT ![shmid[Child(n)]] = @ + 1]
  /\ UNCHANGED <<turn, semvars, shmid, seg>>

\* semop() with SEM_UNDO waits for a value to take, or for the set's removal; on
\* a set that is gone it fails, which is reported and has no consequence
SemOp(p, delta) ==
  /\ turn' = [turn EXCEPT ![p] = @ + 1]
  /\ IF semid[p[1]] # sem
       THEN UNCHANGED <<val, undo>>
       ELSE val + delta >= 0 /\ val' = val + delta /\ undo' = [undo EXCEPT ![p] = @ - delta]
  /\ UNCHANGED <<semid, sem, shmvars>>

\* (mutants: the parent's loop is one turn shorter, or longer)
OneLess     == Turns - 1
OneMore     == Turns + 1
ParentTurns == Turns

V(n) ==
  /\ Goto(Parent(n), "op", IF turn[Parent(n)] + 1 < ParentTurns THEN "op" ELSE "wait")
  /\ SemOp(Parent(n), 1)
P(n) ==
  /\ Goto(Child(n), "op", IF turn[Child(n)] + 1 < Turns THEN "add" ELSE "removeseg")
  /\ SemOp(Child(n), -1)

WaitPid(n) ==
  /\ pc[Child(n)] \in Over /\ Goto(Parent(n), "wait", "removeseg")
  /\ UNCHANGED <<turn, semvars, shmvars>>

-----------------------------------------------------------------------------
(* The end of either.  To remove what is gone fails, and has no consequence.*)

\* (mutant: the segment stays)
KeepSegment(p)   == seg
RemoveSegment(p) == IF seg = shmid[p] THEN None ELSE seg

ShmRmid(p) ==
  /\ Goto(p, "removeseg", "removesem") /\ seg' = RemoveSegment(p)
  /\ UNCHANGED <<turn, semvars, shmid, cVal>>

SemRmid(p) ==
  /\ Goto(p, "removesem", "done")
  /\ IF semid[p[1]] # sem
       THEN UNCHANGED <<sem, val, undo>>
       ELSE sem' = None /\ val' = 0 /\ undo' = [q \in Process |-> 0]
  /\ UNCHANGED <<turn, semid, shmvars>>

\* what the process has done to the semaphore is undone, down to 0
Kill(p) ==
  /\ pc[p] \notin Over \cup {"none"}
  /\ pc' = [pc EXCEPT ![p] = "killed"]
  /\ val' = IF val + undo[p] < 0 THEN 0 ELSE val + undo[p]
  /\ undo' = [undo EXCEPT ![p] = 0]
  /\ UNCHANGED <<turn, semid, sem, shmvars>>

ParentStep(n) ==
  \/ SetVal(n) \/ SetValFails(n) \/ CreateSegment(n) \/ ParentAttaches(n) \/ AttachFails(Parent(n))
  \/ V(n) \/ WaitPid(n) \/ ShmRmid(Parent(n)) \/ SemRmid(Parent(n))
ChildStep(n) ==
  \/ GetSegment(n) \/ NoSegment(n) \/ ChildAttaches(n) \/ AttachFails(Child(n)) \/ Add(n) \/ P(n)
  \/ ShmRmid(Child(n)) \/ SemRmid(Child(n))

ShmNext ==
  \/ \E n \in Launch : SemGet(n) \/ ForkFails(n) \/ ParentStep(n) \/ ChildStep(n)
  \/ \E p \in Process : Kill(p)

\* the operating system runs every process that does not wait
ShmFairness ==
  \A n \in Launch : WF_shmsemvars(ParentStep(n)) /\ WF_shmsemvars(ChildStep(n))

ShmSpec == ShmInit /\ [][ShmNext]_shmsemvars /\ ShmFairness

-----------------------------------------------------------------------------
(* What must hold.                                                         *)

NoOrphans == \A n \in Launch : pc[Parent(n)] # "killed"

\* The child is never more than one addition ahead of the parent's turns, in what
\* the parent prints (80-83, 106-107), whatever the order of the two, of the failed
\* shmget() (65-69) and of killed children; a killed parent leaves a child behind
\* that the next launch has to share its semaphore with, and is excepted.
InStep ==
  NoOrphans =>
    \A n \in Launch :
      pc[Parent(n)] \in {"op", "wait"} => cVal[shmid[Parent(n)]] <= turn[Parent(n)] + 2

\* A launch that comes to its end leaves nothing behind under the two keys (115-116):
\* not when the child removed it first, not when it failed, and not what an earlier,
\* killed launch had left or what an orphan removed and the parent made anew.  One
\* whose fork() failed does not know the segment, and is excepted.
NothingLeft ==
  \A n \in Launch :
    pc[Parent(n)] = "done" /\ pc[Child(n)] # "none" /\ (\A m \in Launch : m > n => pc[Parent(m)] = "none") =>
      seg = None /\ sem = None

\* Parent and child both end (104-112): neither a child that failed or was killed
\* nor SEM_UNDO (26, 37) leaves the other waiting, as long as no parent is killed.
LaunchWaits(n)  == pc[Child(n)] = "get"
LaunchServed(n) == (pc[Parent(n)] = "done" /\ pc[Child(n)] \in Over) \/ ~NoOrphans
BothEnd         == \A n \in Launch : LaunchWaits(n) ~> LaunchServed(n)
=============================================================================
