---------------------------- MODULE SensorThreads ----------------------------
(***************************************************************************)
(* src/0616/rpi5.c and r.c: a thread per sensor, a thread for the joystick *)
(* and main(), which wait for each other through the flag is_run.  The two *)
(* programs differ in which events of the joystick count.  Lines are those *)
(* of rpi5.c, in brackets those of r.c.                                    *)
(***************************************************************************)
EXTENDS Naturals, Sequences

Sensor == {"pressure", "temperature"}

CONSTANT MaxEvents     \* bound: events of the joystick
ASSUME MaxEventsAssumption == MaxEvents \in Nat

VARIABLES
  program,    \* which of the two programs runs
  is_run,     \* the flag
  pc,         \* pc[s]: where the sensor's thread is, see Stage
  joystick,   \* where the joystick's thread is, see Stage
  main,       \* where main() is, see Place
  owner,      \* owner[s]: who holds the sensor's mutex
  reg,        \* reg[s]: what CTRL_REG1 of the sensor was last set to (the write itself is a stub)
  open,       \* the open ones of pressure_fd and temperature_fd
  events,     \* what the joystick has reported and its thread has not read
  left        \* how many more events come

vars == <<program, is_run, pc, joystick, main, owner, reg, open, events, left>>

Stage == {"none", "test", "lock", "init", "measure", "unlock", "open", "read", "done"}
\* the places of main() before and after its loop
Before == {"start", "create", "loop", "failed"}
After  == {"join pressure", "join temperature", "join joystick",
           "off pressure", "off temperature", "end"}

\* type and value of an event: a key pressed or released, the end of a report
Event == {"enter down", "enter up", "other down", "other up", "syn"}

Init ==
  /\ program \in {"rpi5", "r"}
  /\ is_run = 1 /\ pc = [s \in Sensor |-> "none"] /\ joystick = "none" /\ main = "start"
  /\ owner = [s \in Sensor |-> "nobody"] /\ reg = [s \in Sensor |-> 0]
  /\ open = {} /\ events = <<>> /\ left = MaxEvents

TypeOK ==
  /\ program \in {"rpi5", "r"} /\ is_run \in {0, 1}
  /\ pc \in [Sensor -> Stage] /\ joystick \in Stage
  /\ main \in Before \/ (main \in After /\ is_run = 0)
  /\ owner \in [Sensor -> {"nobody", "thread"}]
  /\ reg \in [Sensor -> {0, 132}] /\ open \subseteq Sensor
  /\ events \in Seq(Event) /\ left \in 0..MaxEvents

-----------------------------------------------------------------------------
(* pressureFunction() and temperatureFunction().                           *)

Step(s, from, to) == pc[s] = from /\ pc' = [pc EXCEPT ![s] = to]

\* (mutant: the loop has no end)
Forever  == TRUE
Running  == is_run = 1

Test(s) ==
  /\ Step(s, "test", IF Running THEN "lock" ELSE "done")
  /\ UNCHANGED <<program, is_run, joystick, main, owner, reg, open, events, left>>

\* pthread_mutex_trylock(), and whether it says EBUSY
TryLock(s) ==
  /\ IF owner[s] = "nobody"
       THEN Step(s, "lock", "init") /\ owner' = [owner EXCEPT ![s] = "thread"]
       ELSE Step(s, "lock", "test") /\ UNCHANGED owner
  /\ UNCHANGED <<program, is_run, joystick, main, reg, open, events, left>>

\* the three register writes that switch the sensor on (0x84)
SwitchOn(s) ==
  /\ Step(s, "init", "measure")
  /\ reg' = [reg EXCEPT ![s] = 132]
  /\ UNCHANGED <<program, is_run, joystick, main, owner, open, events, left>>

Measure(s) ==
  /\ Step(s, "measure", "unlock")
  /\ UNCHANGED <<program, is_run, joystick, main, owner, reg, open, events, left>>

Unlock(s) ==
  /\ Step(s, "unlock", "test")
  /\ owner' = [owner EXCEPT ![s] = "nobody"]
  /\ UNCHANGED <<program, is_run, joystick, main, reg, open, events, left>>

SensorStep(s) == Test(s) \/ TryLock(s) \/ SwitchOn(s) \/ Measure(s) \/ Unlock(s)

-----------------------------------------------------------------------------
(* joystickFunction().                                                     *)

\* the device is there or not; if not, the thread ends and nobody clears is_run
OpenJoystick ==
  /\ joystick = "open" /\ joystick' \in {"test", "done"}
  /\ UNCHANGED <<program, is_run, pc, main, owner, reg, open, events, left>>

TestJoystick ==
  /\ joystick = "test" /\ joystick' = IF is_run = 1 THEN "read" ELSE "done"
  /\ UNCHANGED <<program, is_run, pc, main, owner, reg, open, events, left>>

\* which events end the program: in rpi5.c any that has a type and the key's code
Ends(event) == event = "enter down" \/ (program = "rpi5" /\ event = "enter up")

\* read() blocks until there is an event
ReadEvent ==
  /\ joystick = "read" /\ events # <<>>
  /\ is_run' = IF Ends(Head(events)) THEN 0 ELSE is_run
  /\ events' = Tail(events) /\ joystick' = "test"
  /\ UNCHANGED <<program, pc, main, owner, reg, open, left>>

JoystickStep == OpenJoystick \/ TestJoystick \/ ReadEvent

-----------------------------------------------------------------------------
(* main().                                                                 *)

OpenDevices ==
  /\ main = "start"
  /\ \/ main' = "create" /\ open' = Sensor
     \/ main' = "failed" /\ UNCHANGED open
  /\ UNCHANGED <<program, is_run, pc, joystick, owner, reg, events, left>>

Create ==
  /\ main = "create" /\ main' = "loop"
  /\ pc' = [s \in Sensor |-> "test"] /\ joystick' = "open"
  /\ UNCHANGED <<program, is_run, owner, reg, open, events, left>>

\* (mutant: the loop is not waited for)
AnyTime == TRUE
Stopped == is_run = 0

Loop ==
  /\ main = "loop" /\ Stopped /\ main' = "join pressure"
  /\ UNCHANGED <<program, is_run, pc, joystick, owner, reg, open, events, left>>

\* (mutant: no pthread_join())
NoJoin(t)  == TRUE
Joined(t)  == IF t = "joystick" THEN joystick = "done" ELSE pc[t] = "done"

Join(t, here, there) ==
  /\ main = here /\ Joined(t) /\ main' = there
  /\ UNCHANGED <<program, is_run, pc, joystick, owner, reg, open, events, left>>

JoinAll ==
  \/ Join("pressure", "join pressure", "join temperature")
  \/ Join("temperature", "join temperature", "join joystick")
  \/ Join("joystick", "join joystick", "off pressure")

\* the sensor is switched off and its descriptor closed
SwitchOff(s, here, there) ==
  /\ main = here /\ main' = there
  /\ reg' = [reg EXCEPT ![s] = 0] /\ open' = open \ {s}
  /\ UNCHANGED <<program, is_run, pc, joystick, owner, events, left>>

SwitchAllOff ==
  \/ SwitchOff("pressure", "off pressure", "off temperature")
  \/ SwitchOff("temperature", "off temperature", "end")

MainStep == OpenDevices \/ Create \/ Loop \/ JoinAll \/ SwitchAllOff

-----------------------------------------------------------------------------
\* the joystick is moved and pressed
Report ==
  /\ left > 0 /\ left' = left - 1
  /\ \E event \in Event : events' = Append(events, event)
  /\ UNCHANGED <<program, is_run, pc, joystick, main, owner, reg, open>>

\* the end of main() is the end of the process
Next ==
  /\ main \notin {"end", "failed"}
  /\ (\E s \in Sensor : SensorStep(s)) \/ JoystickStep \/ MainStep \/ Report

\* every thread that does not block runs again
Spec == Init /\ [][Next]_vars /\ \A s \in Sensor : WF_vars(Next /\ SensorStep(s))
          /\ WF_vars(Next /\ JoystickStep) /\ WF_vars(Next /\ MainStep)

-----------------------------------------------------------------------------
(* What must hold.                                                         *)

\* A measurement is of a sensor that is on and whose descriptor is open: main()
\* switches off and closes (154-158 [164-168]) only behind every thread's last
\* pass, wherever in it is_run was cleared.
MeasuresWhenOn == \A s \in Sensor : pc[s] = "measure" => reg[s] = 132 /\ s \in open

\* At the end both sensors are off, their descriptors closed and no mutex that is
\* destroyed (160-161 [170-171]) is held.
EndsClean ==
  main = "end" => open = {} /\ \A s \in Sensor : reg[s] = 0 /\ owner[s] = "nobody"

\* Enter ends the program whenever it is pressed, if the joystick could be opened
\* (98-116 [97-128]): no event before it makes the thread miss it, and once it has
\* cleared is_run nobody is left waiting for a lock, for one more event or in a
\* join (149-151 [160-162]).
EnterEnds ==
  (\E k \in 1..Len(events) : events[k] = "enter down") /\ joystick \in {"test", "read"}
    ~> main = "end"
=============================================================================
