------------------------------- MODULE DemoApp -------------------------------
(***************************************************************************)
(* The demo program of main.cpp: main constructs the four actors, sends    *)
(* the LEDs their first commands and takes readings; the threads of the    *)
(* actors run beside it.                                                   *)
(***************************************************************************)
EXTENDS ProcessorOne, Simulator, FiniteSets, Functions

CONSTANT Main    \* the thread of main()
ASSUME MainAssumption == Main \in Clients
ASSUME RolesAssumption == Sensor \notin Leds \cup {Processor}

VARIABLE overridden    \* how many actors have their own members and processMsg

vars == <<vinciVars, on, listener, simulatorVars, overridden>>

\* The order of the declarations in main.
Declared == <<Sensor, Green, Red, Processor>>

\* The calls of main before its loop: the one in the body of ProcessorOne's
\* constructor and, when that has returned, the two of the initial setup.
Setup == <<registerListener(Processor), start(Green, 100), start(Red, 400)>>

\* The calls a thread can have to make.
Calls == {Call(a, d) : a \in Actors, d \in Data(Actors, Pressures)}

TypeOK ==
    /\ VinciTypeOK
    /\ SimulatorTypeOK
    /\ pc \in [Threads -> {"none", "wait", "process", "finish",
                           "base", "derived", "body", "run"}]
    /\ todo \in [Threads -> Seq(Calls)]
    /\ on \in [Leds -> BOOLEAN]
    /\ listener \in Actors \cup {NoListener}
    /\ overridden \in 0 .. Len(Declared)

Init ==
    /\ VinciInit /\ LedInit /\ SensorInit /\ SimulatorInit
    /\ pc = [t \in Threads |-> IF t = Main THEN "base"
                               ELSE IF t \in Clients THEN "run" ELSE "none"]
    /\ todo = [t \in Threads |-> <<>>]
    /\ overridden = 0

-----------------------------------------------------------------------------
\* The base class ActorCmsis creates the queue and the thread of an actor.
StartThread ==
    /\ pc[Main] = "base"
    /\ pc' = [pc EXCEPT ![Main] = "derived", ![Declared[overridden + 1]] = "wait"]
    /\ UNCHANGED <<queue, data, msg, draft, todo, waitDelay, crashed>>
    /\ UNCHANGED <<on, listener, simulatorVars, overridden>>

\* The constructor of the derived class sets the members of the actor and its
\* own processMsg.  ProcessorOne's alone has a body; the others return.
Override ==
    /\ pc[Main] = "derived"
    /\ overridden' = overridden + 1
    /\ IF overridden' < Len(Declared)
       THEN Goto(Main, "base") /\ UNCHANGED todo
       ELSE Goto(Main, "body") /\ todo' = [todo EXCEPT ![Main] = Setup]
    /\ UNCHANGED <<queue, data, msg, draft, waitDelay, crashed>>
    /\ UNCHANGED <<on, listener, simulatorVars>>

\* ProcessorOne's constructor returns when its body has registered the
\* processor.
Return ==
    /\ pc[Main] = "body" /\ todo[Main] # Setup
    /\ Goto(Main, "run")
    /\ UNCHANGED <<queue, data, msg, draft, todo, waitDelay, crashed>>
    /\ UNCHANGED <<on, listener, simulatorVars, overridden>>

\* Readings are taken in main's loop; those of an interrupt routine from the
\* construction of the simulator on, after the sensor.
TakeReading ==
    /\ IF Source = Main THEN pc[Main] = "run" ELSE overridden >= 1
    /\ Display
    /\ UNCHANGED <<on, listener, overridden>>

\* A thread makes the next of its calls; main makes those of the setup after
\* the last constructor has returned.
CallStep(t) ==
    /\ t = Main /\ pc[Main] = "body" => todo[Main] = Setup
    /\ Build(t) \/ BuildFromEmptyPool(t) \/ Send(t) \/ SendFails(t)
    /\ UNCHANGED <<on, listener, simulatorVars, overridden>>

ReceiveStep(a) ==
    /\ Receive(a)
    /\ UNCHANGED <<on, listener, simulatorVars, overridden>>

LedStep(l) ==
    /\ LedProcess(l) \/ LedToggle(l)
    /\ UNCHANGED <<listener, simulatorVars, overridden>>

SensorStep ==
    /\ SensorRegister \/ SensorForward \/ SensorDrop
    /\ UNCHANGED <<on, simulatorVars, overridden>>

ProcessorStep ==
    /\ ProcessorDecide \/ ProcessorRelease
    /\ UNCHANGED <<on, listener, simulatorVars, overridden>>

\* One step of the thread of an actor, and of a thread of the clients.
ActorThread(a) ==
    /\ ~crashed
    /\ \/ ReceiveStep(a) \/ CallStep(a)
       \/ a \in Leds /\ LedStep(a)
       \/ a = Sensor /\ SensorStep
       \/ a = Processor /\ ProcessorStep

ClientThread(t) ==
    /\ ~crashed
    /\ \/ CallStep(t)
       \/ t = Main /\ (StartThread \/ Override \/ Return)

Next == \/ \E a \in Actors : ActorThread(a)
        \/ \E t \in Clients : ClientThread(t)
        \/ ~crashed /\ TakeReading

Spec == Init /\ [][Next]_vars

\* The operating system runs every thread that can run; whoever enters
\* pressures may stop.
Fairness == /\ \A a \in Actors : WF_vars(ActorThread(a))
            /\ \A t \in Clients : WF_vars(ClientThread(t))

FairSpec == Spec /\ Fairness

-----------------------------------------------------------------------------
(* Ownership of messages. *)

\* The messages a thread holds: the one its actor processes and the one it
\* has built and not sent yet.
Held(t) == ({draft[t]} \cup (IF t \in Actors THEN {msg[t]} ELSE {})) \ {nullptr}

Ownership == INSTANCE MessageOwnership WITH held <- [t \in Threads |-> Held(t)]

\* The handlers keep the ownership protocol: each message an actor is given
\* is released or sent on, exactly once, before the actor takes the next one.
KeepsOwnership == Ownership!Spec

\* The part of that protocol that survives a message left without an owner: no
\* message ever has two.
SoleOwner == /\ Ownership!SoleOwner
             /\ \A a \in Actors : msg[a] # nullptr => msg[a] # draft[a]

\* Only two steps lose a message, leaving it in no queue and no hands: the
\* sensor without a listener, and a put that fails in an interrupt routine.
\* However readings and the setup of main interleave, every other path of a
\* handler releases its message or sends it on.
Lost == {m \in Message : /\ \A q \in Queues : m \notin Range(queue[q])
                         /\ \A t \in Threads : m \notin Held(t)}
KnownLosses ==
    [][Lost' \subseteq Lost \/ SensorDrop \/ \E t \in Interrupts : SendFails(t)]_vars

\* MessageBuilder::build never finds the pool empty: acquire always has "the
\* newly acquired message" that MessagePool.h promises.
NoNullDereference == ~crashed

\* Actor a begins or ends a call of processMsg, on a message or on a timeout.
Dispatches(a) == msg'[a] # msg[a] \/ (a \in Leds /\ on'[a] # on[a])
Overridden(a) == \E i \in 1 .. overridden : Declared[i] = a

\* No call of processMsg meets the pure virtual one, or members not set yet:
\* none is made before the derived class has put its own in place, although
\* the thread is started by the constructor of the base class.
NoPureVirtualCall ==
    [][\A a \in Actors : Dispatches(a) => Overridden(a)]_vars

\* When main takes the readings, no actor runs processMsg before its
\* constructor has returned, although ProcessorOne's registers the object
\* while it still runs.
DispatchAfterConstruction ==
    [][\A a \in Actors :
         Dispatches(a) => /\ Overridden(a)
                          /\ a = Processor => pc[Main] = "run"]_vars

-----------------------------------------------------------------------------
(* Regulation of the LEDs. *)

\* How many of the calls a thread still has to make, or of the messages in a
\* queue, satisfy a condition.
CallsLeft(t, P(_)) == Cardinality({i \in DOMAIN todo[t] : P(todo[t][i])})
Queued(q, P(_)) == Cardinality({i \in DOMAIN queue[q] : P(data[queue[q][i]])})
Count(b) == IF b THEN 1 ELSE 0

\* The readings entered that the processor has not turned into commands yet.
ReadingsLeft ==
      CallsLeft(Source, LAMBDA c : IsPressureSensorData(c.data))
    + Queued(Sensor, IsPressureSensorData)
    + Queued(Processor, IsPressureSensorData)
    + Count(msg[Sensor] # nullptr /\ IsPressureSensorData(data[msg[Sensor]]))
    + Count(pc[Processor] = "process")

\* The commands LED l has still to take: those readings will give one each,
\* and the others are not sent yet, in its mailbox or in its hands.
CommandsLeft(l) ==
      ReadingsLeft
    + Count(pc[Main] \in {"base", "derived"})
    + CallsLeft(Main, LAMBDA c : c.to = l)
    + CallsLeft(Processor, LAMBDA c : c.to = l)
    + Len(queue[l])
    + Count(msg[l] # nullptr)

Applied == [l \in Leds |-> 1 + Len(entered) - CommandsLeft(l)]

\* The rate of a LED under a command, 0 when it is stopped.
RateIn(calls, l) ==
    LET i == CHOOSE j \in DOMAIN calls : calls[j].to = l
    IN  IF calls[i].data.cmd = "START" THEN calls[i].data.rate ELSE 0

\* The table at the head of main.cpp: the rates of the green and of the red
\* LED for a pressure between 0 and 50, between 50 and 100, above 100.  At 50,
\* which is in two of its rows, the second is meant, as in the code.
Table(p) == IF p < 50 THEN <<0, 1000>>
            ELSE IF p <= 100 THEN <<1000, 0>>
            ELSE <<4000, 2000>>
Documented(p, l) == Table(p)[IF l = Green THEN 1 ELSE 2]

Regulator == INSTANCE Regulation
    WITH Inputs <- Pressures \ {0},
         First <- [l \in Leds |-> RateIn(Setup, l)],
         Wanted <- [p \in Pressures |-> [l \in Leds |-> Documented(p, l)]],
         applied <- Applied,
         rate <- [l \in Leds |-> waitDelay[l]]

\* The LEDs take the rates of the pressures entered, all and in their order,
\* whatever way the threads of main and of the four actors are scheduled.
RegulatesLeds == Regulator!Spec

\* The panel shows what the LEDs do: once a pressure has been regulated and
\* nothing is under way, each LED has the rate main.cpp documents for the
\* pressure displayed.
LedsFollowPanel ==
    (/\ entered # <<>> /\ stdin = "good"
     /\ \A l \in Leds : CommandsLeft(l) = 0)
       => \A l \in Leds : waitDelay[l] = Documented(panel, l)

\* The LEDs agree: with readings taken by an interrupt routine the initial
\* start(100) and start(400) of main may come after the commands of a reading
\* and undo them for one LED or both, but nothing else sets the LEDs apart.
\* Once nothing is under way, those not at their first rate have the rates of
\* one and the same reading.
LedsAgree ==
    (entered # <<>> /\ \A l \in Leds : CommandsLeft(l) = 0)
      => \E p \in Range(entered) : \A l \in Leds :
           waitDelay[l] \in {RateIn(Setup, l), RateIn(Commands(p), l)}

\* Every pressure entered reaches both LEDs.
EveryReadingApplied ==
    \A n \in 1 .. MaxReadings, l \in Leds :
        (Len(entered) >= n) ~> (Applied[l] > n)

\* Every message comes back to the pool once the readings stop.
PoolRefills == <>[](Len(queue[Pool]) = PoolSize)
=============================================================================
