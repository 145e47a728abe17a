------------------------- MODULE SensorThreadsProofs -------------------------
(***************************************************************************)
(* What holds of src/0616/rpi5.c and r.c however many events the joystick  *)
(* reports.                                                                *)
(***************************************************************************)
EXTENDS SensorThreads, SequenceTheorems, TLAPS

(***************************************************************************)
(* main() goes through its places in this order.  What is open and what    *)
(* has ended can be told from where it is.                                 *)
(***************************************************************************)
Started == main \notin {"start", "create", "failed"}
HasJoined(s) ==
  main \in {"join joystick", "off pressure", "off temperature", "end"}
    \/ (s = "pressure" /\ main = "join temperature")
HasSwitchedOff(s) == main = "end" \/ (s = "pressure" /\ main = "off temperature")

\* No thread before main() has made them, and none any more behind its pthread_join()
ThreadsInv ==
  \A s \in Sensor :
    /\ pc[s] = "none" <=> ~Started
    /\ HasJoined(s) => pc[s] = "done"

\* A sensor's descriptor is open from main()'s first step until it is switched off
DevicesInv ==
  \A s \in Sensor :
    /\ s \in open <=> main \notin {"start", "failed"} /\ ~HasSwitchedOff(s)
    /\ HasSwitchedOff(s) => reg[s] = 0

\* The mutex is held exactly while the registers are used, and the sensor is on when
\* it is measured
LocksInv ==
  \A s \in Sensor :
    /\ owner[s] = "thread" <=> pc[s] \in {"init", "measure", "unlock"}
    /\ pc[s] = "measure" => reg[s] = 132

SensorInv == TypeOK /\ ThreadsInv /\ DevicesInv /\ LocksInv

-----------------------------------------------------------------------------
\* Before the first step nothing runs and nothing is open
LEMMA Sensor_Init ==
  ASSUME Init
  PROVE  SensorInv
<1>1. TypeOK
  BY EmptySeq, MaxEventsAssumption DEF Init, TypeOK, Stage, Before, Event
<1>2. ThreadsInv /\ DevicesInv /\ LocksInv
  BY DEF Init, ThreadsInv, DevicesInv, LocksInv, Started, HasJoined, HasSwitchedOff
<1> QED BY <1>1, <1>2 DEF SensorInv

\* A step of pressureFunction() or temperatureFunction() (rpi5.c:43-85)
LEMMA Sensor_Thread ==
  ASSUME SensorInv, NEW s \in Sensor, SensorStep(s)
  PROVE  SensorInv'
<1>1. /\ pc[s] \in {"test", "lock", "init", "measure", "unlock"}
      /\ pc' = [pc EXCEPT ![s] = pc'[s]]
      /\ pc'[s] \in Stage \ {"none"}
      /\ UNCHANGED <<program, is_run, joystick, main, open, events, left>>
  BY DEF SensorStep, Test, TryLock, SwitchOn, Measure, Unlock, Step, Stage, SensorInv, TypeOK
<1>2. /\ owner' \in [Sensor -> {"nobody", "thread"}] /\ reg' \in [Sensor -> {0, 132}]
      /\ \A r \in Sensor : r # s => owner'[r] = owner[r] /\ reg'[r] = reg[r]
      /\ owner'[s] = "thread" <=> pc'[s] \in {"init", "measure", "unlock"}
      /\ pc'[s] = "measure" => reg'[s] = 132
      /\ reg'[s] # reg[s] => pc[s] = "init"
  <2>1. CASE Test(s)
    BY <2>1 DEF Test, SensorInv, TypeOK, LocksInv, Step
  <2>2. CASE TryLock(s)
    BY <2>2 DEF TryLock, SensorInv, TypeOK, LocksInv, Step
  <2>3. CASE SwitchOn(s)
    BY <2>3 DEF SwitchOn, SensorInv, TypeOK, LocksInv, Step
  <2>4. CASE Measure(s)
    BY <2>4 DEF Measure, SensorInv, TypeOK, LocksInv, Step
  <2>5. CASE Unlock(s)
    BY <2>5 DEF Unlock, SensorInv, TypeOK, LocksInv, Step
  <2> QED BY <2>1, <2>2, <2>3, <2>4, <2>5 DEF SensorStep
<1>3. TypeOK'
  <2>1. pc' \in [Sensor -> Stage]
    BY <1>1 DEF SensorInv, TypeOK
  <2> QED BY <1>1, <1>2, <2>1 DEF SensorInv, TypeOK
<1>4. ThreadsInv'
  BY <1>1 DEF SensorInv, TypeOK, ThreadsInv, Started, HasJoined
<1>5. DevicesInv'
  BY <1>1, <1>2 DEF SensorInv, DevicesInv, ThreadsInv, HasSwitchedOff, HasJoined
<1>6. LocksInv'
  BY <1>1, <1>2 DEF SensorInv, TypeOK, LocksInv
<1> QED BY <1>3, <1>4, <1>5, <1>6 DEF SensorInv

\* A step of joystickFunction(), or a new event for it (88-118)
LEMMA Sensor_Joystick ==
  ASSUME SensorInv, JoystickStep \/ Report
  PROVE  SensorInv'
<1>1. UNCHANGED <<program, pc, main, owner, reg, open>>
  BY DEF JoystickStep, OpenJoystick, TestJoystick, ReadEvent, Report
<1>2. /\ is_run' \in {0, 1} /\ (is_run = 0 => is_run' = 0)
      /\ joystick' \in Stage /\ left' \in 0..MaxEvents
  BY MaxEventsAssumption
     DEF JoystickStep, OpenJoystick, TestJoystick, ReadEvent, Report, SensorInv, TypeOK, Stage
<1>3. events' \in Seq(Event)
  <2>1. CASE ReadEvent
    BY <2>1, HeadTailProperties DEF ReadEvent, SensorInv, TypeOK
  <2>2. CASE Report
    BY <2>2, AppendProperties DEF Report, SensorInv, TypeOK
  <2> QED BY <2>1, <2>2 DEF JoystickStep, OpenJoystick, TestJoystick, SensorInv, TypeOK
<1>4. TypeOK'
  BY <1>1, <1>2, <1>3 DEF SensorInv, TypeOK
<1>5. ThreadsInv' /\ DevicesInv' /\ LocksInv'
  BY <1>1 DEF SensorInv, ThreadsInv, DevicesInv, LocksInv, Started, HasJoined, HasSwitchedOff
<1> QED BY <1>4, <1>5 DEF SensorInv

\* main() opens the devices, makes the threads and waits (121-151)
LEMMA Sensor_Main ==
  ASSUME SensorInv, OpenDevices \/ Create \/ Loop \/ JoinAll
  PROVE  SensorInv'
<1>1. /\ UNCHANGED <<program, is_run, owner, reg, events, left>>
      /\ main' \in Before \/ (main' \in After /\ is_run = 0)
  BY DEF OpenDevices, Create, Loop, JoinAll, Join, Stopped, Before, After, SensorInv, TypeOK
<1>2. /\ pc' \in [Sensor -> Stage] /\ joystick' \in Stage /\ open' \subseteq Sensor
      /\ pc' = pc \/ (main = "create" /\ pc' = [s \in Sensor |-> "test"])
  BY DEF OpenDevices, Create, Loop, JoinAll, Join, Stage, SensorInv, TypeOK
<1>3. TypeOK'
  BY <1>1, <1>2 DEF SensorInv, TypeOK
<1>4. ThreadsInv'
  BY DEF SensorInv, ThreadsInv, Started, HasJoined, OpenDevices, Create, Loop, JoinAll, Join,
         Joined, Sensor
<1>5. DevicesInv'
  BY DEF SensorInv, DevicesInv, HasSwitchedOff, OpenDevices, Create, Loop, JoinAll, Join, Sensor
<1>6. LocksInv'
  BY <1>1, <1>2 DEF SensorInv, ThreadsInv, Started, LocksInv
<1> QED BY <1>3, <1>4, <1>5, <1>6 DEF SensorInv

\* main() switches the sensors off behind all threads (153-158)
LEMMA Sensor_Off ==
  ASSUME SensorInv, SwitchAllOff
  PROVE  SensorInv'
<1>1. /\ UNCHANGED <<program, is_run, pc, joystick, owner, events, left>>
      /\ \A s \in Sensor : pc[s] = "done"
      /\ main \in {"off pressure", "off temperature"} /\ main' \in {"off temperature", "end"}
  BY DEF SwitchAllOff, SwitchOff, SensorInv, ThreadsInv, HasJoined
<1>2. TypeOK'
  BY <1>1 DEF SwitchAllOff, SwitchOff, SensorInv, TypeOK, Before, After
<1>3. ThreadsInv'
  BY <1>1 DEF SensorInv, ThreadsInv, Started, HasJoined
<1>4. DevicesInv'
  BY DEF SwitchAllOff, SwitchOff, SensorInv, TypeOK, DevicesInv, HasSwitchedOff, Sensor
<1>5. LocksInv'
  BY <1>1 DEF SensorInv, LocksInv
<1> QED BY <1>2, <1>3, <1>4, <1>5 DEF SensorInv

\* Every step of the threads, of main() and of the joystick preserves the invariant
LEMMA Sensor_Next ==
  ASSUME SensorInv, [Next]_vars
  PROVE  SensorInv'
<1>1. CASE Next
  BY <1>1, Sensor_Thread, Sensor_Joystick, Sensor_Main, Sensor_Off DEF Next, MainStep
<1>2. CASE UNCHANGED vars
  BY <1>2 DEF vars, SensorInv, TypeOK, ThreadsInv, DevicesInv, LocksInv, Started, HasJoined,
              HasSwitchedOff
<1> QED BY <1>1, <1>2

-----------------------------------------------------------------------------
(* The theorems.                                                           *)

\* In every state the variables have their types: main() is behind its loop only when
\* is_run has been cleared (146-151).
THEOREM SensorsTypeOK == Spec => []TypeOK
<1>1. SensorInv => TypeOK
  BY DEF SensorInv
<1> QED BY <1>1, Sensor_Init, Sensor_Next, PTL DEF Spec

\* No sensor is measured that is off or whose descriptor is closed, whenever the
\* joystick clears is_run and however many events come (47-85, 153-158).
THEOREM SensorsMeasureWhenOn == Spec => []MeasuresWhenOn
<1>1. SensorInv => MeasuresWhenOn
  BY DEF SensorInv, MeasuresWhenOn, LocksInv, ThreadsInv, DevicesInv, Started, HasJoined,
         HasSwitchedOff
<1> QED BY <1>1, Sensor_Init, Sensor_Next, PTL DEF Spec

\* At the end of main() both sensors are off, both descriptors closed, and neither of
\* the mutexes it destroys is held (154-161).
THEOREM SensorsEndClean == Spec => []EndsClean
<1>1. SensorInv => EndsClean
  BY DEF SensorInv, TypeOK, EndsClean, LocksInv, ThreadsInv, DevicesInv, HasJoined, HasSwitchedOff
<1> QED BY <1>1, Sensor_Init, Sensor_Next, PTL DEF Spec
=============================================================================
