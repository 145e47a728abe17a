----------------------------- MODULE MCPrograms -----------------------------
(***************************************************************************)
(* The small programs of 0612, 0613, 0616 and 0617, each with its own      *)
(* processes and sharing nothing with the others, in one instance for TLC:   *)
(* program says which of them a behaviour is about, and never changes.     *)
(***************************************************************************)
EXTENDS MessageQueue, SignalSemaphore, LineServer, UdpEcho, DirectoryWalk, SensorConsole,
        NamedPipe, NamedSemaphore, ShmSem

CONSTANTS c1, c2, c3, f1, f2, f3
VARIABLE program

MCTrees ==
  LET S == <<Start>>
  IN  { [dirs |-> {S, S \o <<f1>>, S \o <<f2>>, S \o <<f1, f1>>}, files |-> {S \o <<f1, f2>>}],
        [dirs |-> {S, S \o <<f1>>, S \o <<f2>>}, files |-> {S \o <<f3>>}] }

\* signs differ, all three bytes of a pressure, the calibration has both of its tenth
\* bits, and a negative slope
MCSamples == { [temp |-> 300, press |-> 4145219, humid |-> -4095],
               [temp |-> -2, press |-> 16777215, humid |-> 16384],
               [temp |-> -32768, press |-> 255, humid |-> -1] }
MCChips == { [t0 |-> 150, t1 |-> 600, t0out |-> -10, t1out |-> 700,
              h0 |-> 60, h1 |-> 150, h0out |-> 5000, h1out |-> -9000] }

vars == <<program, queuevars, sigvars, linevars, udpvars, walkvars, sensorvars, pipevars,
          namedvars, shmsemvars>>

\* what is chosen in the initial states of the other programs does not matter
Init ==
  /\ program \in {"queue", "signal", "line", "udp", "walk", "console", "pipe", "named", "shm"}
  /\ QueueInit /\ SignalInit /\ LineInit /\ UdpInit /\ WalkInit /\ ConsoleInit /\ PipeInit
  /\ NamedInit /\ ShmInit
  /\ program # "line" => kind = [d \in Clients |-> "tcp_client"]
  /\ program # "walk" => files = (CHOOSE t \in Trees : TRUE).files /\ \A d \in dirs : mode[d] = {"r", "x"}
  /\ program # "console" => \A d \in Sensor : sample[d] = CHOOSE s \in Samples : TRUE

Only(p) ==
  /\ program = p /\ program' = p
  /\ p # "queue"   => UNCHANGED queuevars
  /\ p # "signal"  => UNCHANGED sigvars
  /\ p # "line"    => UNCHANGED linevars
  /\ p # "udp"     => UNCHANGED udpvars
  /\ p # "walk"    => UNCHANGED walkvars
  /\ p # "console" => UNCHANGED sensorvars
  /\ p # "pipe"    => UNCHANGED pipevars
  /\ p # "named"   => UNCHANGED namedvars
  /\ p # "shm"     => UNCHANGED shmsemvars

Next ==
  \/ Only("queue")   /\ QueueNext
  \/ Only("signal")  /\ SignalNext
  \/ Only("line")    /\ LineNext
  \/ Only("udp")     /\ UdpNext
  \/ Only("walk")    /\ WalkNext
  \/ Only("console") /\ ConsoleNext
  \/ Only("pipe")    /\ PipeNext
  \/ Only("named")   /\ NamedNext
  \/ Only("shm")     /\ ShmNext

\* the fairness of each program, as its own module states it
Fairness ==
  /\ \A s \in 1..Servers : WF_queuevars(program = "queue" /\ QueueServerStep(s))
  /\ \A q \in Senders : WF_queuevars(program = "queue" /\ QueueSenderStep(q))
  /\ WF_linevars(program = "line" /\ TcpdStep)
  /\ \A q \in Clients : WF_linevars(program = "line" /\ TcpStep(q))
  /\ \A q \in UdpClients : /\ WF_udpvars(program = "udp" /\ UdpClientStep(q))
                           /\ WF_udpvars(program = "udp" /\ UdpAnswer(q))
  /\ WF_sensorvars(program = "console" /\ MeasureStep)
  /\ \A d \in Sensor : WF_sensorvars(program = "console" /\ TakeSample(d))
  /\ \A s \in Fifo : WF_pipevars(program = "pipe" /\ ReaderStep(s))
  /\ \A l \in Run : WF_namedvars(program = "named" /\ RunStep(l))
  /\ \A n \in Launch : /\ WF_shmsemvars(program = "shm" /\ ParentStep(n))
                       /\ WF_shmsemvars(program = "shm" /\ ChildStep(n))

Spec == Init /\ [][Next]_vars /\ Fairness

-----------------------------------------------------------------------------
\* Every program's variables have their types.
TypeOK ==
  /\ QueueTypeOK /\ SignalTypeOK /\ LineTypeOK /\ UdpTypeOK
  /\ WalkTypeOK /\ ConsoleTypeOK /\ PipeTypeOK /\ NamedTypeOK /\ ShmTypeOK

ClientNo == <<c1, c2, c3>>
Is(k, S)  == k \in 1..3 /\ ClientNo[k] \in S
Waits(k) ==
  \/ program = "queue" /\ Is(k, Senders)    /\ SenderWaits(ClientNo[k])
  \/ program = "line"  /\ Is(k, Clients)    /\ TcpWaits(ClientNo[k])
  \/ program = "udp"   /\ Is(k, UdpClients) /\ UdpWaits(ClientNo[k])
  \/ program = "pipe"  /\ Is(k, Writers)    /\ OpenWaits(ClientNo[k])
  \/ program = "named" /\ k \in Run         /\ ThreadWaits(k)
  \/ program = "console" /\ k = 1           /\ KeyWaits
  \/ program = "shm"   /\ k \in Launch      /\ LaunchWaits(k)
Served(k) ==
  \/ program = "queue" /\ Is(k, Senders)    /\ SenderServed(ClientNo[k])
  \/ program = "line"  /\ Is(k, Clients)    /\ TcpServed(ClientNo[k])
  \/ program = "udp"   /\ Is(k, UdpClients) /\ UdpServed(ClientNo[k])
  \/ program = "pipe"  /\ Is(k, Writers)    /\ OpenServed(ClientNo[k])
  \/ program = "named" /\ k \in Run         /\ ThreadServed(k)
  \/ program = "console" /\ k = 1           /\ KeyServed
  \/ program = "shm"   /\ k \in Launch      /\ LaunchServed(k)

\* Nobody waits for ever for another process, a sensor or a semaphore, but where the
\* module of the program says why (msg_client.c:45, tcp_client.c:52, udp_client.c:39,
\* rpi4.c:183, fifo_client.c:12, thread.c:24, shm_sem.c:104-112): the k-th client,
\* thread or launch of the program that runs, so that SendersEnd, AnsweredUnlessBusy,
\* AnsweredUnlessLost, OpenReturns, ThreadEnds, KeyAnswered and BothEnd are checked in one.
NobodyWaitsForEver == \A k \in 1..4 : Waits(k) ~> Served(k)
=============================================================================
