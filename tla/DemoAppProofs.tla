---------------------------- MODULE DemoAppProofs ----------------------------
(***************************************************************************)
(* Proofs that the demo program is type correct, that no message of its    *)
(* pool ever has two owners and that a pool as large as the work of n      *)
(* readings is never found empty, for every set of actors, every pool and  *)
(* every set of pressures, with readings taken by main or by an interrupt, *)
(* in a build with optimisation or without.                                *)
(***************************************************************************)
EXTENDS DemoApp, OwnershipLemmas, TLAPS

-----------------------------------------------------------------------------
(* The inductive invariant. *)

\* An actor holds the message of its processMsg exactly while it runs it.
MsgInHand ==
    \A a \in Actors : msg[a] # nullptr <=> pc[a] \in {"process", "finish"}

\* A message built and not sent belongs to the next call of its thread.
DraftForCall == \A t \in Threads : draft[t] # nullptr => todo[t] # <<>>

\* An actor has calls to make only between its decision and the release.
CallsInHandler == \A a \in Actors : todo[a] # <<>> => pc[a] = "finish"

\* While main constructs an actor, the later ones have no thread yet.
Construction ==
    /\ pc[Main] = "base" =>
         /\ overridden < Len(Declared)
         /\ \A i \in 1 .. Len(Declared) : i > overridden => pc[Declared[i]] = "none"
    /\ pc[Main] = "derived" =>
         /\ overridden < Len(Declared)
         /\ \A i \in 1 .. Len(Declared) :
              i > overridden + 1 => pc[Declared[i]] = "none"

Handling == MsgInHand /\ DraftForCall /\ CallsInHandler /\ Construction

IInv == TypeOK /\ Handling

-----------------------------------------------------------------------------
(* Types of the data, the calls and the actors. *)

\* What a handler takes from a payload after it has tested the type.
LEMMA DataLemma ==
    ASSUME NEW d \in Data(Actors, Pressures)
    PROVE  /\ IsLedCmd(d) => d.rate \in Rates
           /\ IsPressureSensorCmd(d) => d.listener \in Actors
           /\ IsPressureSensorData(d) => d.pressure \in Pressures
  BY DEF Data, IsLedCmd, IsPressureSensorCmd, IsPressureSensorData,
         LedCmd, PressureSensorCmd, PressureSensorData

\* Whatever the build makes of msg->data(), it is a payload.
LEMMA ReadLemma ==
    ASSUME TypeOK, NEW m \in Message, NEW d \in Read(m)
    PROVE  d \in Data(Actors, Pressures)
  BY DEF TypeOK, VinciTypeOK, Read

\* The four actors are different.
LEMMA DeclaredLemma ==
    /\ Len(Declared) = 4
    /\ \A i \in 1 .. 4 : Declared[i] \in Actors
    /\ \A i, j \in 1 .. 4 : Declared[i] = Declared[j] => i = j
<1>1. /\ Declared[1] = Sensor /\ Declared[2] = Green
      /\ Declared[3] = Red /\ Declared[4] = Processor /\ Len(Declared) = 4
  BY DEF Declared
<1>2. /\ Sensor \in Actors /\ Green \in Actors /\ Red \in Actors /\ Processor \in Actors
      /\ Sensor # Green /\ Sensor # Red /\ Sensor # Processor
      /\ Green # Red /\ Green # Processor /\ Red # Processor
  BY SensorAssumption, LedsAssumption, ProcessorAssumption, RolesAssumption
<1>3. \A i \in 1 .. 4 : i = 1 \/ i = 2 \/ i = 3 \/ i = 4
  OBVIOUS
<1> QED
  BY <1>1, <1>2, <1>3

\* Every call of the program is a call of an actor with a payload.
LEMMA CallsLemma ==
    /\ \A a \in Actors : registerListener(a) \in Calls
    /\ \A l \in Leds, r \in Rates : start(l, r) \in Calls /\ stop(l) \in Calls
    /\ \A p \in Pressures : Call(Sensor, PressureSensorData(p)) \in Calls
<1>1. Sensor \in Actors /\ Leds \subseteq Actors
  BY SensorAssumption, LedsAssumption
<1>2. \A a \in Actors : PressureSensorCmd(a) \in Data(Actors, Pressures)
  BY DEF Data
<1>3. \A r \in Rates : /\ LedCmd("START", r) \in Data(Actors, Pressures)
                       /\ LedCmd("STOP", 0) \in Data(Actors, Pressures)
  BY DEF Data, Rates
<1>4. \A p \in Pressures : PressureSensorData(p) \in Data(Actors, Pressures)
  BY DEF Data
<1> QED
  BY <1>1, <1>2, <1>3, <1>4 DEF Calls, registerListener, start, stop

\* The calls of main and those of the processor, whatever the pressure.
LEMMA CommandsLemma ==
    /\ Setup \in Seq(Calls) /\ Setup # <<>>
    /\ \A p : Commands(p) \in Seq(Calls)
<1>1. Green \in Leds /\ Red \in Leds /\ Processor \in Actors
  BY ProcessorAssumption
<1>2. {0, 100, 400, 1000, 2000, 4000} = Rates
  BY DEF Rates
<1>3. /\ registerListener(Processor) \in Calls
      /\ start(Green, 100) \in Calls /\ start(Red, 400) \in Calls
      /\ stop(Green) \in Calls /\ start(Red, 1000) \in Calls
      /\ start(Green, 1000) \in Calls /\ stop(Red) \in Calls
      /\ start(Green, 4000) \in Calls /\ start(Red, 2000) \in Calls
  BY <1>1, <1>2, CallsLemma
<1> QED
  BY <1>3 DEF Setup, Commands

\* The target of a call is an actor, and its payload a payload.
LEMMA NextCallLemma ==
    ASSUME NEW s \in Seq(Calls), s # <<>>
    PROVE  /\ Head(s) \in Calls /\ Tail(s) \in Seq(Calls)
           /\ Head(s).to \in Actors /\ Head(s).data \in Data(Actors, Pressures)
<1>1. Head(s) \in Calls /\ Tail(s) \in Seq(Calls)
  BY HeadTailProperties
<1> QED
  BY <1>1 DEF Calls, Call

-----------------------------------------------------------------------------
(* The steps keep the invariant. *)

\* A build takes the oldest free message and stores the payload in it.
LEMMA BuildKeepsInv ==
    ASSUME IInv, NEW t \in Threads, Build(t) \/ BuildFromEmptyPool(t),
           UNCHANGED <<on, listener, simulatorVars, overridden>>
    PROVE  IInv'
<1>1. CASE Build(t)
  <2>1. Head(queue[Pool]) \in Message /\ Tail(queue[Pool]) \in Seq(Message)
    BY <1>1, HeadTailProperties DEF IInv, TypeOK, VinciTypeOK, Build, Queues
  <2>2. Head(todo[t]).data \in Data(Actors, Pressures)
    BY <1>1, NextCallLemma DEF IInv, TypeOK, Build
  <2>3. TypeOK'
    BY <1>1, <2>1, <2>2
    DEF IInv, TypeOK, VinciTypeOK, SimulatorTypeOK, Build, Queues, simulatorVars
  <2>4. Handling'
    BY <1>1 DEF IInv, TypeOK, VinciTypeOK, Handling, MsgInHand, DraftForCall,
                CallsInHandler, Construction, Build
  <2> QED
    BY <2>3, <2>4 DEF IInv
<1>2. CASE BuildFromEmptyPool(t)
  BY <1>2 DEF IInv, TypeOK, VinciTypeOK, SimulatorTypeOK, Handling, MsgInHand,
              DraftForCall, CallsInHandler, Construction, BuildFromEmptyPool,
              simulatorVars
<1> QED
  BY <1>1, <1>2

\* A send moves the message built to the mailbox of the actor called.
LEMMA SendKeepsInv ==
    ASSUME IInv, NEW t \in Threads, Send(t),
           UNCHANGED <<on, listener, simulatorVars, overridden>>
    PROVE  IInv'
<1> DEFINE a == Head(todo[t]).to
<1>1. draft[t] \in Message /\ todo[t] # <<>>
  BY DEF IInv, TypeOK, VinciTypeOK, Handling, DraftForCall, Send
<1>2. a \in Actors /\ Tail(todo[t]) \in Seq(Calls)
  BY <1>1, NextCallLemma DEF IInv, TypeOK
<1>3. Append(queue[a], draft[t]) \in Seq(Message)
  BY <1>1, <1>2, AppendProperties DEF IInv, TypeOK, VinciTypeOK, Queues
<1>4. queue' \in [Queues -> Seq(Message)]
  BY <1>2, <1>3 DEF IInv, TypeOK, VinciTypeOK, Queues, Send, Push
<1>5. TypeOK'
  BY <1>2, <1>4 DEF IInv, TypeOK, VinciTypeOK, SimulatorTypeOK, Send, simulatorVars
<1>6. Handling'
  BY DEF IInv, TypeOK, VinciTypeOK, Handling, MsgInHand, DraftForCall,
         CallsInHandler, Construction, Send
<1> QED
  BY <1>5, <1>6 DEF IInv

\* A put that fails loses the message built.
LEMMA SendFailsKeepsInv ==
    ASSUME IInv, NEW t \in Threads, SendFails(t),
           UNCHANGED <<on, listener, simulatorVars, overridden>>
    PROVE  IInv'
<1>1. todo[t] # <<>>
  BY DEF IInv, TypeOK, VinciTypeOK, Handling, DraftForCall, SendFails
<1>2. Tail(todo[t]) \in Seq(Calls)
  BY <1>1, NextCallLemma DEF IInv, TypeOK
<1>3. TypeOK'
  BY <1>2 DEF IInv, TypeOK, VinciTypeOK, SimulatorTypeOK, SendFails, simulatorVars
<1>4. Handling'
  BY DEF IInv, TypeOK, VinciTypeOK, Handling, MsgInHand, DraftForCall,
         CallsInHandler, Construction, SendFails
<1> QED
  BY <1>3, <1>4 DEF IInv

\* An actor takes the oldest message of its mailbox.
LEMMA ReceiveKeepsInv ==
    ASSUME IInv, NEW a \in Actors, Receive(a),
           UNCHANGED <<on, listener, simulatorVars, overridden>>
    PROVE  IInv'
<1>1. Head(queue[a]) \in Message /\ Tail(queue[a]) \in Seq(Message)
  BY HeadTailProperties DEF IInv, TypeOK, VinciTypeOK, Receive, Queues
<1>2. TypeOK'
  BY <1>1 DEF IInv, TypeOK, VinciTypeOK, SimulatorTypeOK, Receive, Goto, Queues,
              Threads, simulatorVars
<1>3. a # Main
  BY MainAssumption, ActorsAssumption
<1>4. MsgInHand' /\ DraftForCall' /\ CallsInHandler'
  BY <1>1, PoolSizeAssumption
  DEF IInv, TypeOK, VinciTypeOK, Handling, MsgInHand, DraftForCall, CallsInHandler,
      Receive, Goto, Threads, Message, nullptr
<1>5. Construction'
  BY <1>3, DeclaredLemma
  DEF IInv, TypeOK, Handling, Construction, Receive, Goto, Threads
<1> QED
  BY <1>2, <1>4, <1>5 DEF IInv, Handling

\* The end of processMsg: the actor gives its message to a queue.
LEMMA DisposeKeepsInv ==
    ASSUME IInv, NEW a \in Actors, NEW q \in Queues, Dispose(a, q),
           pc[a] \in {"process", "finish"}, todo[a] = <<>>,
           waitDelay' \in [Actors -> Rates],
           listener' \in Actors \cup {NoListener},
           UNCHANGED <<on, simulatorVars, overridden>>
    PROVE  IInv'
<1>1. msg[a] \in Message
  BY DEF IInv, TypeOK, VinciTypeOK, Handling, MsgInHand
<1>2. Append(queue[q], msg[a]) \in Seq(Message)
  BY <1>1, AppendProperties DEF IInv, TypeOK, VinciTypeOK
<1>3. TypeOK'
  BY <1>2 DEF IInv, TypeOK, VinciTypeOK, SimulatorTypeOK, Dispose, Push, Goto,
              Threads, simulatorVars
<1>4. a # Main
  BY MainAssumption, ActorsAssumption
<1>5. MsgInHand' /\ DraftForCall' /\ CallsInHandler'
  BY DEF IInv, TypeOK, VinciTypeOK, Handling, MsgInHand, DraftForCall,
         CallsInHandler, Dispose, Goto, Threads
<1>6. Construction'
  BY <1>4, DeclaredLemma
  DEF IInv, TypeOK, Handling, Construction, Dispose, Goto, Threads
<1> QED
  BY <1>3, <1>5, <1>6 DEF IInv, Handling

\* A handler without a listener leaves its message where no queue has it.
LEMMA SensorDropKeepsInv ==
    ASSUME IInv, SensorDrop, UNCHANGED <<on, simulatorVars, overridden>>
    PROVE  IInv'
<1>1. Sensor \in Actors /\ Sensor # Main
  BY SensorAssumption, MainAssumption, ActorsAssumption
<1>2. TypeOK'
  BY <1>1 DEF IInv, TypeOK, VinciTypeOK, SimulatorTypeOK, SensorDrop, Goto, Threads,
              simulatorVars
<1>3. MsgInHand' /\ DraftForCall' /\ CallsInHandler'
  BY <1>1 DEF IInv, TypeOK, VinciTypeOK, Handling, MsgInHand, DraftForCall,
              CallsInHandler, SensorDrop, Goto, Threads
<1>4. Construction'
  BY <1>1, DeclaredLemma
  DEF IInv, TypeOK, Handling, Construction, SensorDrop, Goto, Threads
<1> QED
  BY <1>2, <1>3, <1>4 DEF IInv, Handling

\* The processor's decision gives it calls to make before the release.
LEMMA DecideKeepsInv ==
    ASSUME IInv, ProcessorDecide,
           UNCHANGED <<on, listener, simulatorVars, overridden>>
    PROVE  IInv'
<1>1. Processor \in Actors /\ Processor # Main
  BY ProcessorAssumption, MainAssumption, ActorsAssumption
<1>2. PICK d \in Read(msg[Processor]) :
         todo' = [todo EXCEPT
                    ![Processor] = IF IsPressureSensorData(d)
                                   THEN Commands(d.pressure) ELSE <<>>]
  BY DEF ProcessorDecide
<1>3. (IF IsPressureSensorData(d) THEN Commands(d.pressure) ELSE <<>>) \in Seq(Calls)
  BY CommandsLemma
<1>4. TypeOK'
  BY <1>1, <1>2, <1>3
  DEF IInv, TypeOK, VinciTypeOK, SimulatorTypeOK, ProcessorDecide, Goto, Threads,
      simulatorVars
<1>5. draft[Processor] = nullptr
  BY <1>1 DEF IInv, Handling, DraftForCall, CallsInHandler, ProcessorDecide, Threads
<1>6. MsgInHand' /\ DraftForCall' /\ CallsInHandler'
  BY <1>1, <1>2, <1>5
  DEF IInv, TypeOK, VinciTypeOK, Handling, MsgInHand, DraftForCall, CallsInHandler,
      ProcessorDecide, Goto, Threads
<1>7. Construction'
  BY <1>1, DeclaredLemma
  DEF IInv, TypeOK, Handling, Construction, ProcessorDecide, Goto, Threads
<1> QED
  BY <1>4, <1>6, <1>7 DEF IInv, Handling

\* main starts the thread of the next actor, which has none.
LEMMA StartThreadKeepsInv ==
    ASSUME IInv, StartThread
    PROVE  IInv'
<1> DEFINE a == Declared[overridden + 1]
<1>1. /\ overridden \in 0 .. 3 /\ overridden + 1 \in 1 .. 4
      /\ \A i \in 1 .. 4 : i > overridden => pc[Declared[i]] = "none"
  BY DeclaredLemma DEF IInv, TypeOK, Handling, Construction, StartThread
<1>2. a \in Actors /\ pc[a] = "none" /\ a # Main /\ Main \in Threads
  BY <1>1, DeclaredLemma, MainAssumption, ActorsAssumption DEF Threads
<1>3. pc' = [pc EXCEPT ![Main] = "derived", ![a] = "wait"]
  BY DEF StartThread
<1>4. TypeOK'
  BY <1>2, <1>3
  DEF IInv, TypeOK, VinciTypeOK, SimulatorTypeOK, StartThread, Threads, simulatorVars
<1>5. MsgInHand' /\ DraftForCall' /\ CallsInHandler'
  BY <1>2, <1>3, MainAssumption, ActorsAssumption
  DEF IInv, TypeOK, VinciTypeOK, Handling, MsgInHand, DraftForCall, CallsInHandler,
      StartThread, Threads
<1>6. \A i \in 1 .. 4 : i > overridden + 1 => pc'[Declared[i]] = "none"
  <2> SUFFICES ASSUME NEW i \in 1 .. 4, i > overridden + 1
               PROVE  pc'[Declared[i]] = "none"
    OBVIOUS
  <2>1. Declared[i] \in Actors /\ Declared[i] # a /\ Declared[i] # Main
    BY <1>1, DeclaredLemma, MainAssumption, ActorsAssumption
  <2> QED
    BY <1>1, <1>2, <1>3, <2>1 DEF IInv, TypeOK, Threads
<1>7. Construction'
  BY <1>1, <1>2, <1>3, <1>6, DeclaredLemma
  DEF IInv, TypeOK, Construction, StartThread, Threads
<1> QED
  BY <1>4, <1>5, <1>7 DEF IInv, Handling

\* An actor has its own processMsg; after the last one main has its calls to
\* make.
LEMMA OverrideKeepsInv ==
    ASSUME IInv, Override
    PROVE  IInv'
<1>1. /\ overridden \in 0 .. 3 /\ overridden' = overridden + 1
      /\ \A i \in 1 .. 4 : i > overridden + 1 => pc[Declared[i]] = "none"
  BY DeclaredLemma DEF IInv, TypeOK, Handling, Construction, Override
<1>2. Main \in Threads /\ Main \notin Actors
  BY MainAssumption, ActorsAssumption DEF Threads
<1>3. /\ todo' \in [Threads -> Seq(Calls)]
      /\ \A t \in Threads : todo[t] # <<>> => todo'[t] # <<>>
  BY <1>2, CommandsLemma DEF IInv, TypeOK, Override
<1>4. \A a \in Actors : todo'[a] = todo[a] /\ pc'[a] = pc[a]
  BY <1>2 DEF IInv, TypeOK, Override, Goto, Threads
<1>5. TypeOK'
  <2>1. overridden' \in 0 .. Len(Declared)
    BY <1>1, DeclaredLemma
  <2>2. pc' \in [Threads -> {"none", "wait", "process", "finish",
                            "base", "derived", "body", "run"}]
    BY <1>2 DEF IInv, TypeOK, Override, Goto
  <2> QED
    BY <1>3, <2>1, <2>2
    DEF IInv, TypeOK, VinciTypeOK, SimulatorTypeOK, Override, simulatorVars
<1>6. MsgInHand' /\ DraftForCall' /\ CallsInHandler'
  BY <1>3, <1>4 DEF IInv, Handling, MsgInHand, DraftForCall, CallsInHandler, Override
<1>7. Construction'
  <2>1. pc'[Main] \in {"base", "body"} /\ (pc'[Main] = "base" => overridden' < 4)
    BY <1>1, <1>2, DeclaredLemma DEF IInv, TypeOK, Override, Goto
  <2>2. \A i \in 1 .. 4 : i > overridden' => pc'[Declared[i]] = "none"
    BY <1>1, <1>4, DeclaredLemma
  <2> QED
    BY <2>1, <2>2, DeclaredLemma DEF Construction
<1> QED
  BY <1>5, <1>6, <1>7 DEF IInv, Handling

\* The last constructor returns: main goes on, and nothing else changes.
LEMMA ReturnLemma ==
    ASSUME IInv, Return
    PROVE  /\ pc[Main] = "body" /\ pc'[Main] = "run" /\ todo[Main] # Setup
           /\ pc' \in [Threads -> {"none", "wait", "process", "finish",
                                  "base", "derived", "body", "run"}]
           /\ \A t \in Threads : t # Main => pc'[t] = pc[t]
           /\ \A a \in Actors : pc'[a] = pc[a]
           /\ UNCHANGED <<queue, data, msg, draft, todo, waitDelay, crashed>>
           /\ UNCHANGED <<on, listener, panel, stdin, entered, overridden>>
<1>1. Main \in Threads /\ Main \notin Actors
  BY MainAssumption, ActorsAssumption DEF Threads
<1> QED
  BY <1>1 DEF IInv, TypeOK, Return, Goto, Threads, simulatorVars

LEMMA ReturnKeepsInv ==
    ASSUME IInv, Return
    PROVE  IInv'
<1>1. TypeOK'
  BY ReturnLemma DEF IInv, TypeOK, VinciTypeOK, SimulatorTypeOK
<1>2. Handling'
  BY ReturnLemma
  DEF IInv, Handling, MsgInHand, DraftForCall, CallsInHandler, Construction
<1> QED
  BY <1>1, <1>2 DEF IInv

\* A reading gives its thread a call of setPressureSensor to make.
LEMMA TakeReadingKeepsInv ==
    ASSUME IInv, TakeReading
    PROVE  IInv'
<1>1. Source \in Threads /\ Source \notin Actors
  BY SourceAssumption, ActorsAssumption DEF Threads
<1>2. panel' \in Pressures \cup {0} /\ stdin' \in {"good", "failed"}
  BY DEF IInv, TypeOK, SimulatorTypeOK, TakeReading, Display, ReadNumber, ReadGarbage,
         ReadNothing
<1>3. /\ todo' \in [Threads -> Seq(Calls)]
      /\ entered' \in Seq(Pressures \ {0})
      /\ \A t \in Threads : todo[t] # <<>> => todo'[t] # <<>>
      /\ \A a \in Actors : todo'[a] = todo[a]
  <2>1. CASE panel' > 0
    <3>1. panel' \in Pressures \ {0}
      BY <1>2, <2>1
    <3>2. Call(Sensor, PressureSensorData(panel')) \in Calls
      BY <3>1, CallsLemma
    <3>3. entered' = Append(entered, panel')
      BY <2>1 DEF TakeReading, Display
    <3> DEFINE P == Pressures \ {0}
    <3>4. entered \in Seq(P) /\ panel' \in P
      BY <3>1 DEF IInv, TypeOK, SimulatorTypeOK
    <3> HIDE DEF P
    <3>5. entered' \in Seq(P)
      BY <3>3, <3>4, AppendProperties
    <3>6. todo' = [todo EXCEPT
                     ![Source] = <<Call(Sensor, PressureSensorData(panel'))>>]
      BY <2>1 DEF TakeReading, Display
    <3> QED
      BY <1>1, <3>2, <3>5, <3>6 DEF P, IInv, TypeOK, Threads
  <2>2. CASE ~(panel' > 0)
    BY <2>2 DEF IInv, TypeOK, SimulatorTypeOK, TakeReading, Display
  <2> QED
    BY <2>1, <2>2
<1>4. TypeOK'
  BY <1>2, <1>3
  DEF IInv, TypeOK, VinciTypeOK, SimulatorTypeOK, TakeReading, Display
<1>5. Handling'
  BY <1>3 DEF IInv, Handling, MsgInHand, DraftForCall, CallsInHandler, Construction,
              TakeReading, Display
<1> QED
  BY <1>4, <1>5 DEF IInv

\* The inductive step: every step of the program keeps the invariant.
LEMMA StepKeepsInv == IInv /\ [Next]_vars => IInv'
<1> SUFFICES ASSUME IInv, [Next]_vars PROVE IInv'
  OBVIOUS
<1>1. ASSUME NEW t \in Threads, CallStep(t) PROVE IInv'
  BY <1>1, BuildKeepsInv, SendKeepsInv, SendFailsKeepsInv DEF CallStep
<1>2. ASSUME NEW a \in Actors, ReceiveStep(a) PROVE IInv'
  BY <1>2, ReceiveKeepsInv DEF ReceiveStep
<1>3. ASSUME NEW l \in Actors, l \in Leds, LedStep(l) PROVE IInv'
  <2>1. CASE LedProcess(l)
    <3>1. todo[l] = <<>> /\ pc[l] = "process" /\ msg[l] \in Message
      BY <2>1 DEF IInv, TypeOK, VinciTypeOK, Handling, MsgInHand, CallsInHandler, LedProcess
    <3>2. \A d \in Read(msg[l]) : IsLedCmd(d) => d.rate \in Rates
      BY <3>1, ReadLemma, DataLemma DEF IInv
    <3>3. waitDelay' \in [Actors -> Rates]
      BY <2>1, <3>2 DEF IInv, TypeOK, VinciTypeOK, LedProcess, Rates
    <3> QED
      BY <1>3, <2>1, <3>1, <3>3, DisposeKeepsInv
      DEF IInv, TypeOK, LedStep, LedProcess, Queues
  <2>2. CASE LedToggle(l)
    BY <1>3, <2>2
    DEF IInv, TypeOK, VinciTypeOK, SimulatorTypeOK, Handling, MsgInHand, DraftForCall,
        CallsInHandler, Construction, LedStep, LedToggle, TimesOut, vinciVars,
        simulatorVars
  <2> QED
    BY <1>3, <2>1, <2>2 DEF LedStep
<1>4. CASE SensorStep
  <2>1. Sensor \in Actors
    BY SensorAssumption
  <2>2. ASSUME pc[Sensor] = "process"
        PROVE  todo[Sensor] = <<>> /\ msg[Sensor] \in Message
    BY <2>1, <2>2 DEF IInv, TypeOK, VinciTypeOK, Handling, MsgInHand, CallsInHandler
  <2>3. CASE SensorRegister
    <3>1. PICK d \in Read(msg[Sensor]) : IsPressureSensorCmd(d) /\ listener' = d.listener
      BY <2>3 DEF SensorRegister
    <3>2. listener' \in Actors
      BY <2>2, <2>3, <3>1, ReadLemma, DataLemma DEF IInv, SensorRegister
    <3> QED
      BY <1>4, <2>1, <2>2, <2>3, <3>2, DisposeKeepsInv
      DEF IInv, TypeOK, VinciTypeOK, SensorStep, SensorRegister, Queues
  <2>4. CASE SensorForward
    BY <1>4, <2>1, <2>2, <2>4, DisposeKeepsInv
    DEF IInv, TypeOK, VinciTypeOK, SensorStep, SensorForward, Queues
  <2>5. CASE SensorDrop
    BY <1>4, <2>5, SensorDropKeepsInv DEF SensorStep
  <2> QED
    BY <1>4, <2>3, <2>4, <2>5 DEF SensorStep
<1>5. CASE ProcessorStep
  <2>1. CASE ProcessorDecide
    BY <1>5, <2>1, DecideKeepsInv DEF ProcessorStep
  <2>2. CASE ProcessorRelease
    BY <1>5, <2>2, ProcessorAssumption, DisposeKeepsInv
    DEF IInv, TypeOK, VinciTypeOK, ProcessorStep, ProcessorRelease, Queues
  <2> QED
    BY <1>5, <2>1, <2>2 DEF ProcessorStep
<1>6. CASE UNCHANGED vars
  BY <1>6 DEF IInv, TypeOK, VinciTypeOK, SimulatorTypeOK, Handling, MsgInHand,
              DraftForCall, CallsInHandler, Construction, vars, vinciVars, simulatorVars
<1>7. ASSUME NEW a \in Actors, ActorThread(a) PROVE IInv'
  BY <1>1, <1>2, <1>3, <1>4, <1>5, <1>7 DEF ActorThread, Threads
<1>8. ASSUME NEW t \in Clients, ClientThread(t) PROVE IInv'
  BY <1>1, <1>8, StartThreadKeepsInv, OverrideKeepsInv, ReturnKeepsInv
  DEF ClientThread, Threads
<1> QED
  BY <1>6, <1>7, <1>8, TakeReadingKeepsInv DEF Next

\* The pool starts as the sequence of all messages.
LEMMA InitialPoolLemma == [m \in Message |-> m] \in Seq(Message)
  BY PoolSizeAssumption DEF Message

\* The program starts in the invariant.
LEMMA InitInv == Init => IInv
<1> SUFFICES ASSUME Init PROVE IInv
  OBVIOUS
<1>1. Main \in Threads /\ Main \in Clients /\ Main \notin Actors
  BY MainAssumption, ActorsAssumption DEF Threads
<1>2. InitialData \in Data(Actors, Pressures)
  BY DEF InitialData, Data, Rates
<1>3. TypeOK
  <2>1. queue \in [Queues -> Seq(Message)]
    BY InitialPoolLemma DEF Init, VinciInit
  <2>2. VinciTypeOK
    <3>1. data \in [Message -> Data(Actors, Pressures)]
      BY <1>2 DEF Init, VinciInit
    <3>2. /\ msg \in [Actors -> Message \cup {nullptr}]
          /\ draft \in [Threads -> Message \cup {nullptr}]
      BY DEF Init, VinciInit
    <3>3. waitDelay \in [Actors -> Rates] /\ crashed \in BOOLEAN
      <4>1. 0 \in Rates
        BY DEF Rates
      <4>2. waitDelay = [a \in Actors |-> 0] /\ crashed = FALSE
        BY DEF Init, VinciInit
      <4> QED
        BY <4>1, <4>2
    <3> QED
      BY <2>1, <3>1, <3>2, <3>3 DEF VinciTypeOK
  <2>3. SimulatorTypeOK
    BY DEF Init, SimulatorInit, SimulatorTypeOK
  <2>4. todo \in [Threads -> Seq(Calls)]
    BY DEF Init
  <2>5. overridden \in 0 .. Len(Declared)
    BY DeclaredLemma DEF Init
  <2> QED
    BY <2>2, <2>3, <2>4, <2>5 DEF Init, LedInit, SensorInit, TypeOK
<1>4. \A a \in Actors : pc[a] = "none" /\ msg[a] = nullptr
  BY <1>1, ActorsAssumption DEF Init, VinciInit, Threads
<1>5. Handling
  BY <1>1, <1>4, DeclaredLemma
  DEF Init, VinciInit, Handling, MsgInHand, DraftForCall, CallsInHandler,
      Construction, Threads
<1> QED
  BY <1>3, <1>5 DEF IInv

\* Every variable of the program keeps its type.
THEOREM DemoTypeCorrect == Spec => []TypeOK
<1>1. IInv => TypeOK
  BY DEF IInv
<1> QED
  BY <1>1, InitInv, StepKeepsInv, PTL DEF Spec

-----------------------------------------------------------------------------
(* Sole ownership. *)

\* The messages in the hands of each thread.
HeldBy == [t \in Threads |-> Held(t)]

\* An actor's message in hand is not the one it has built.
OneOfTwo == \A a \in Actors : msg[a] # nullptr => msg[a] # draft[a]

\* The invariant as the lemmas about queues and sets state it.
LEMMA SoleOwnerIsSole ==
    SoleOwner <=> Sole(Queues, Threads, queue, HeldBy) /\ OneOfTwo
  BY DEF SoleOwner, OneOfTwo, HeldBy, Sole, Queues, Threads, Ownership!SoleOwner,
         Ownership!QueuesDistinct, Ownership!Apart, Ownership!Queues,
         Ownership!Threads, Ownership!Range, Ownership!IsInjective, Range, IsInjective

\* The same after a step.
LEMMA SoleOwnerIsSoleNext ==
    SoleOwner' <=> Sole(Queues, Threads, queue', HeldBy') /\ OneOfTwo'
  BY DEF SoleOwner, OneOfTwo, HeldBy, Sole, Queues, Threads, Ownership!SoleOwner,
         Ownership!QueuesDistinct, Ownership!Apart, Ownership!Queues,
         Ownership!Threads, Ownership!Range, Ownership!IsInjective, Range, IsInjective

\* Nothing is owned differently when queues and pointers stay.
LEMMA StayKeepsSoleOwner ==
    ASSUME SoleOwner, UNCHANGED <<queue, msg, draft>>
    PROVE  SoleOwner'
<1>1. HeldBy' = HeldBy /\ OneOfTwo' = OneOfTwo
  BY DEF HeldBy, Held, OneOfTwo
<1>2. Sole(Queues, Threads, queue', HeldBy')
  BY <1>1, SoleOwnerIsSole
<1> QED
  BY <1>1, <1>2, SoleOwnerIsSole, SoleOwnerIsSoleNext

\* A build takes a message of the pool, which no thread holds.
LEMMA BuildKeepsSoleOwner ==
    ASSUME IInv, SoleOwner, NEW t \in Threads, Build(t)
    PROVE  SoleOwner'
<1> DEFINE m == Head(queue[Pool])
<1>1. /\ queue \in [Queues -> Seq(Message)] /\ Pool \in Queues
      /\ Sole(Queues, Threads, queue, HeldBy) /\ OneOfTwo
  BY SoleOwnerIsSole DEF IInv, TypeOK, VinciTypeOK, Queues
<1>2. /\ draft' = [draft EXCEPT ![t] = m] /\ msg' = msg
      /\ draft \in [Threads -> Message \cup {nullptr}]
  BY DEF Build, IInv, TypeOK, VinciTypeOK
<1>3. /\ HeldBy'[t] \subseteq HeldBy[t] \cup {m}
      /\ \A u \in Threads \ {t} : HeldBy'[u] \subseteq HeldBy[u]
  BY <1>2 DEF HeldBy, Held
<1>4. Takes(Threads, queue, HeldBy, queue', HeldBy', t, Pool)
  BY <1>3 DEF Build, Takes
<1>5. Sole(Queues, Threads, queue', HeldBy')
  BY <1>1, <1>4, TakeLemma, Zenon
<1>6. OneOfTwo'
  <2>1. queue[Pool] \in Seq(Message) /\ queue[Pool] # <<>> /\ IsInjective(queue[Pool])
    BY <1>1 DEF Build, Sole
  <2>2. m \in Range(queue[Pool])
    BY <2>1, TailLemma
  <2>3. \A u \in Threads : m \notin HeldBy[u]
    BY <1>1, <2>2 DEF Sole
  <2>4. \A a \in Actors : msg[a] # nullptr => msg[a] # m
    BY <2>3 DEF HeldBy, Held, Threads
  <2> QED
    BY <1>1, <1>2, <2>4 DEF OneOfTwo, Threads
<1> QED
  BY <1>5, <1>6, SoleOwnerIsSoleNext

\* A send gives up the message built, which is not the one in hand.
LEMMA SendKeepsSoleOwner ==
    ASSUME IInv, SoleOwner, NEW t \in Threads, Send(t)
    PROVE  SoleOwner'
<1> DEFINE m == draft[t]
           a == Head(todo[t]).to
<1>1. /\ queue \in [Queues -> Seq(Message)]
      /\ Sole(Queues, Threads, queue, HeldBy) /\ OneOfTwo
  BY SoleOwnerIsSole DEF IInv, TypeOK, VinciTypeOK
<1>2. m \in Message /\ m # nullptr /\ todo[t] # <<>>
  BY DEF IInv, TypeOK, VinciTypeOK, Handling, DraftForCall, Send
<1>3. a \in Queues
  BY <1>2, NextCallLemma DEF IInv, TypeOK, Queues
<1>4. /\ draft' = [draft EXCEPT ![t] = nullptr] /\ msg' = msg
      /\ draft \in [Threads -> Message \cup {nullptr}]
  BY DEF Send, IInv, TypeOK, VinciTypeOK
<1>5. /\ m \in HeldBy[t] /\ m \notin HeldBy'[t]
      /\ \A u \in Threads : HeldBy'[u] \subseteq HeldBy[u]
  BY <1>1, <1>2, <1>4 DEF HeldBy, Held, OneOfTwo
<1>6. Puts(Threads, queue, HeldBy, queue', HeldBy', t, m, a)
  BY <1>5 DEF Send, Push, Puts
<1> HIDE DEF m, a
<1>7. Sole(Queues, Threads, queue', HeldBy')
  BY <1>1, <1>2, <1>3, <1>6, PutLemma, Zenon
<1>8. OneOfTwo'
  BY <1>1, <1>4 DEF OneOfTwo, Threads
<1> QED
  BY <1>7, <1>8, SoleOwnerIsSoleNext

\* An actor takes a message of its mailbox, which no thread holds.
LEMMA ReceiveKeepsSoleOwner ==
    ASSUME IInv, SoleOwner, NEW a \in Actors, Receive(a)
    PROVE  SoleOwner'
<1> DEFINE m == Head(queue[a])
<1>1. /\ queue \in [Queues -> Seq(Message)] /\ a \in Queues /\ a \in Threads
      /\ Sole(Queues, Threads, queue, HeldBy) /\ OneOfTwo
  BY SoleOwnerIsSole DEF IInv, TypeOK, VinciTypeOK, Queues, Threads
<1>2. /\ msg' = [msg EXCEPT ![a] = m] /\ draft' = draft
      /\ msg \in [Actors -> Message \cup {nullptr}]
  BY DEF Receive, IInv, TypeOK, VinciTypeOK
<1>3. /\ HeldBy'[a] \subseteq HeldBy[a] \cup {m}
      /\ \A u \in Threads \ {a} : HeldBy'[u] \subseteq HeldBy[u]
  BY <1>1, <1>2 DEF HeldBy, Held
<1>4. Takes(Threads, queue, HeldBy, queue', HeldBy', a, a)
  BY <1>3 DEF Receive, Takes
<1>5. Sole(Queues, Threads, queue', HeldBy')
  BY <1>1, <1>4, TakeLemma, Zenon
<1>6. OneOfTwo'
  <2>1. queue[a] \in Seq(Message) /\ queue[a] # <<>> /\ IsInjective(queue[a])
    BY <1>1 DEF Receive, Sole
  <2>2. m \in Range(queue[a])
    BY <2>1, TailLemma
  <2>3. m \notin HeldBy[a]
    BY <1>1, <2>2 DEF Sole
  <2>4. m # nullptr => m # draft[a]
    BY <1>1, <2>3 DEF HeldBy, Held
  <2> QED
    BY <1>1, <1>2, <2>4 DEF OneOfTwo
<1> QED
  BY <1>5, <1>6, SoleOwnerIsSoleNext

\* The end of processMsg gives up the message in hand.
LEMMA DisposeKeepsSoleOwner ==
    ASSUME IInv, SoleOwner, NEW a \in Actors, NEW q \in Queues, Dispose(a, q),
           pc[a] \in {"process", "finish"}
    PROVE  SoleOwner'
<1> DEFINE m == msg[a]
<1>1. /\ queue \in [Queues -> Seq(Message)] /\ a \in Threads
      /\ Sole(Queues, Threads, queue, HeldBy) /\ OneOfTwo
  BY SoleOwnerIsSole DEF IInv, TypeOK, VinciTypeOK, Threads
<1>2. m \in Message /\ m # nullptr
  BY DEF IInv, TypeOK, VinciTypeOK, Handling, MsgInHand
<1>3. /\ msg' = [msg EXCEPT ![a] = nullptr] /\ draft' = draft
      /\ msg \in [Actors -> Message \cup {nullptr}]
  BY DEF Dispose, IInv, TypeOK, VinciTypeOK
<1>4. /\ m \in HeldBy[a] /\ m \notin HeldBy'[a]
      /\ \A u \in Threads : HeldBy'[u] \subseteq HeldBy[u]
  BY <1>1, <1>2, <1>3 DEF HeldBy, Held, OneOfTwo
<1>5. Puts(Threads, queue, HeldBy, queue', HeldBy', a, m, q)
  BY <1>4 DEF Dispose, Push, Puts
<1>6. Sole(Queues, Threads, queue', HeldBy')
  BY <1>1, <1>2, <1>5, PutLemma, Zenon
<1>7. OneOfTwo'
  BY <1>1, <1>3 DEF OneOfTwo
<1> QED
  BY <1>6, <1>7, SoleOwnerIsSoleNext

\* A message the sensor drops is in no other hands for it.
LEMMA DropKeepsSoleOwner ==
    ASSUME IInv, SoleOwner, SensorDrop
    PROVE  SoleOwner'
<1>1. Sole(Queues, Threads, queue, HeldBy) /\ OneOfTwo
  BY SoleOwnerIsSole
<1>2. /\ msg' = [msg EXCEPT ![Sensor] = nullptr] /\ draft' = draft /\ queue' = queue
      /\ msg \in [Actors -> Message \cup {nullptr}]
  BY DEF SensorDrop, IInv, TypeOK, VinciTypeOK
<1>3. \A u \in Threads : HeldBy'[u] \subseteq HeldBy[u]
  BY <1>2 DEF HeldBy, Held
<1>4. Sole(Queues, Threads, queue', HeldBy')
  <2>1. Sole(Queues, Threads, queue, HeldBy')
    BY <1>1, <1>3, DropLemma, Zenon
  <2> QED
    BY <1>2, <2>1
<1>5. OneOfTwo'
  BY <1>1, <1>2 DEF OneOfTwo
<1> QED
  BY <1>4, <1>5, SoleOwnerIsSoleNext

\* A message whose put fails is in no other hands for it.
LEMMA SendFailsKeepsSoleOwner ==
    ASSUME IInv, SoleOwner, NEW t \in Threads, SendFails(t)
    PROVE  SoleOwner'
<1>1. Sole(Queues, Threads, queue, HeldBy) /\ OneOfTwo
  BY SoleOwnerIsSole
<1>2. /\ draft' = [draft EXCEPT ![t] = nullptr] /\ msg' = msg /\ queue' = queue
      /\ draft \in [Threads -> Message \cup {nullptr}]
  BY DEF SendFails, IInv, TypeOK, VinciTypeOK
<1>3. \A u \in Threads : HeldBy'[u] \subseteq HeldBy[u]
  BY <1>2 DEF HeldBy, Held
<1>4. Sole(Queues, Threads, queue', HeldBy')
  <2>1. Sole(Queues, Threads, queue, HeldBy')
    BY <1>1, <1>3, DropLemma, Zenon
  <2> QED
    BY <1>2, <2>1
<1>5. OneOfTwo'
  BY <1>1, <1>2 DEF OneOfTwo, Threads
<1> QED
  BY <1>4, <1>5, SoleOwnerIsSoleNext

\* No message of the demo ever has two owners: no two threads use it, it is in
\* no mailbox while an actor uses it, and it is released at most once.
THEOREM DemoOwnersSole == Spec => []SoleOwner
<1>1. Init => SoleOwner
  <2> SUFFICES ASSUME Init PROVE SoleOwner
    OBVIOUS
  <2>1. \A t \in Threads : HeldBy[t] = {}
    BY DEF Init, VinciInit, HeldBy, Held, Threads
  <2>2. \A q \in Queues : queue[q] = IF q = Pool THEN [m \in Message |-> m] ELSE <<>>
    BY DEF Init, VinciInit
  <2>3. \A q \in Queues \ {Pool} : Range(queue[q]) = {} /\ IsInjective(queue[q])
    <3>1. Range(<<>>) = {} /\ IsInjective(<<>>)
      BY DEF Range, IsInjective
    <3> QED
      BY <2>2, <3>1
  <2>4. IsInjective([m \in Message |-> m])
    BY DEF IsInjective
  <2>5. Sole(Queues, Threads, queue, HeldBy)
    BY <2>1, <2>2, <2>3, <2>4 DEF Sole, Queues
  <2>6. OneOfTwo
    BY DEF Init, VinciInit, OneOfTwo
  <2> QED
    BY <2>5, <2>6, SoleOwnerIsSole
<1>2. IInv /\ SoleOwner /\ [Next]_vars => SoleOwner'
  <2> SUFFICES ASSUME IInv, SoleOwner, [Next]_vars PROVE SoleOwner'
    OBVIOUS
  <2>1. ASSUME NEW t \in Threads, CallStep(t) PROVE SoleOwner'
    <3>1. CASE BuildFromEmptyPool(t)
      BY <3>1, StayKeepsSoleOwner DEF BuildFromEmptyPool
    <3> QED
      BY <2>1, <3>1, BuildKeepsSoleOwner, SendKeepsSoleOwner,
         SendFailsKeepsSoleOwner DEF CallStep
  <2>2. ASSUME NEW a \in Actors, ReceiveStep(a) PROVE SoleOwner'
    BY <2>2, ReceiveKeepsSoleOwner DEF ReceiveStep
  <2>3. ASSUME NEW l \in Actors, LedStep(l) PROVE SoleOwner'
    <3>1. CASE LedProcess(l)
      BY <2>3, <3>1, DisposeKeepsSoleOwner DEF LedProcess, Queues
    <3>2. CASE LedToggle(l)
      BY <3>2, StayKeepsSoleOwner DEF LedToggle, TimesOut, vinciVars
    <3> QED
      BY <2>3, <3>1, <3>2 DEF LedStep
  <2>4. CASE SensorStep
    <3>1. CASE SensorRegister
      BY <3>1, SensorAssumption, DisposeKeepsSoleOwner DEF SensorRegister, Queues
    <3>2. CASE SensorForward
      <4>1. listener \in Queues
        BY <3>2 DEF IInv, TypeOK, SensorForward, Queues
      <4> QED
        BY <3>2, <4>1, SensorAssumption, DisposeKeepsSoleOwner DEF SensorForward
    <3> QED
      BY <2>4, <3>1, <3>2, DropKeepsSoleOwner DEF SensorStep
  <2>5. CASE ProcessorStep
    <3>1. CASE ProcessorDecide
      BY <3>1, StayKeepsSoleOwner DEF ProcessorDecide
    <3>2. CASE ProcessorRelease
      BY <3>2, ProcessorAssumption, DisposeKeepsSoleOwner DEF ProcessorRelease, Queues
    <3> QED
      BY <2>5, <3>1, <3>2 DEF ProcessorStep
  <2>6. ASSUME StartThread \/ Override \/ Return \/ TakeReading \/ UNCHANGED vars
        PROVE  SoleOwner'
    BY <2>6, StayKeepsSoleOwner
    DEF StartThread, Override, Return, TakeReading, Display, vars, vinciVars
  <2>7. ASSUME NEW a \in Actors, ActorThread(a) PROVE SoleOwner'
    BY <2>1, <2>2, <2>3, <2>4, <2>5, <2>7 DEF ActorThread, Threads
  <2>8. ASSUME NEW t \in Clients, ClientThread(t) PROVE SoleOwner'
    BY <2>1, <2>6, <2>8 DEF ClientThread, Threads
  <2> QED
    BY <2>6, <2>7, <2>8 DEF Next
<1> QED
  BY <1>1, <1>2, InitInv, StepKeepsInv, PTL DEF Spec

-----------------------------------------------------------------------------
(* Lost messages. *)

LEMMA StayLosesNone ==
    ASSUME UNCHANGED <<queue, msg, draft>>
    PROVE  Lost' \subseteq Lost
BY DEF Lost, Held

\* A thread that takes the head of a queue holds it.
LEMMA TakeLosesNone ==
    ASSUME IInv, NEW t \in Threads, NEW r \in Queues, queue[r] # <<>>,
           queue' = [queue EXCEPT ![r] = Tail(@)],
           Head(queue[r]) \in Held(t)',
           \A u \in Threads : Held(u) \subseteq Held(u)'
    PROVE  Lost' \subseteq Lost
<1> SUFFICES ASSUME NEW m \in Message, m \in Lost' PROVE m \in Lost
  BY DEF Lost
<1>1. queue \in [Queues -> Seq(Message)]
  BY DEF IInv, TypeOK, VinciTypeOK
<1>2. \A u \in Threads : m \notin Held(u) /\ m \notin Held(u)'
  BY DEF Lost
<1>3. \A q \in Queues \ {r} : m \notin Range(queue[q])
  BY <1>1 DEF Lost
<1>4. m \notin Range(queue[r])
  <2>1. m \notin Range(Tail(queue[r]))
    BY <1>1 DEF Lost
  <2>2. m # Head(queue[r])
    BY <1>2
  <2>3. queue[r] \in Seq(Message)
    BY <1>1
  <2> QED
    BY <2>1, <2>2, <2>3, HeadOrTailLemma
<1> QED
  BY <1>2, <1>3, <1>4 DEF Lost

\* What a thread gives to a queue is in the queue.
LEMMA GiveLosesNone ==
    ASSUME IInv, NEW t \in Threads, NEW r \in Queues, NEW m \in Message,
           queue' = [queue EXCEPT ![r] = Append(@, m)],
           Held(t) \subseteq Held(t)' \cup {m},
           \A u \in Threads \ {t} : Held(u) \subseteq Held(u)'
    PROVE  Lost' \subseteq Lost
<1>1. queue \in [Queues -> Seq(Message)]
  BY DEF IInv, TypeOK, VinciTypeOK
<1>2. \A q \in Queues : Range(queue'[q]) = Range(queue[q]) \cup (IF q = r THEN {m} ELSE {})
  <2>1. Range(Append(queue[r], m)) = Range(queue[r]) \cup {m}
    BY <1>1, AppendLemma
  <2> QED
    BY <1>1, <2>1
<1>3. m \notin Lost'
  BY <1>2 DEF Lost
<1> QED
  BY <1>2, <1>3 DEF Lost

\* The end of processMsg gives the actor's message to a queue.
LEMMA DisposeLosesNone ==
    ASSUME IInv, NEW a \in Actors, NEW q \in Queues, Dispose(a, q),
           pc[a] \in {"process", "finish"}
    PROVE  Lost' \subseteq Lost
<1>1. msg[a] \in Message /\ a \in Threads
  BY DEF IInv, TypeOK, VinciTypeOK, Handling, MsgInHand, Threads
<1>2. /\ queue' = [queue EXCEPT ![q] = Append(@, msg[a])] /\ draft' = draft
      /\ msg' = [msg EXCEPT ![a] = nullptr]
  BY DEF Dispose, Push
<1>3. /\ Held(a) \subseteq Held(a)' \cup {msg[a]}
      /\ \A u \in Threads \ {a} : Held(u) \subseteq Held(u)'
  BY <1>2 DEF Held, IInv, TypeOK, VinciTypeOK
<1> QED
  BY <1>1, <1>2, <1>3, GiveLosesNone

\* Building, sending and receiving lose nothing.
LEMMA BuildLosesNone ==
    ASSUME IInv, NEW t \in Threads, Build(t)
    PROVE  Lost' \subseteq Lost
<1>1. /\ Pool \in Queues /\ queue[Pool] # <<>> /\ draft[t] = nullptr
      /\ queue' = [queue EXCEPT ![Pool] = Tail(@)]
      /\ draft' = [draft EXCEPT ![t] = Head(queue[Pool])] /\ msg' = msg
  BY DEF Build, Queues
<1>2. Head(queue[Pool]) \in Message
  BY <1>1, HeadTailProperties DEF IInv, TypeOK, VinciTypeOK
<1>3. Head(queue[Pool]) # nullptr
  BY <1>2, PoolSizeAssumption DEF Message, nullptr
<1>4. draft'[t] = Head(queue[Pool])
  BY <1>1 DEF IInv, TypeOK, VinciTypeOK
<1>5. /\ Head(queue[Pool]) \in Held(t)'
      /\ \A u \in Threads : Held(u) \subseteq Held(u)'
  BY <1>1, <1>3, <1>4 DEF Held, IInv, TypeOK, VinciTypeOK
<1> QED
  BY <1>1, <1>5, TakeLosesNone

LEMMA SendLosesNone ==
    ASSUME IInv, NEW t \in Threads, Send(t)
    PROVE  Lost' \subseteq Lost
<1> DEFINE a == Head(todo[t]).to
<1>1. /\ draft[t] \in Message /\ todo[t] # <<>>
      /\ queue' = [queue EXCEPT ![a] = Append(@, draft[t])]
      /\ draft' = [draft EXCEPT ![t] = nullptr] /\ msg' = msg
  BY DEF IInv, TypeOK, VinciTypeOK, Handling, DraftForCall, Send, Push
<1>2. a \in Queues
  BY <1>1, NextCallLemma DEF IInv, TypeOK, Queues
<1>3. /\ Held(t) \subseteq Held(t)' \cup {draft[t]}
      /\ \A u \in Threads \ {t} : Held(u) \subseteq Held(u)'
  BY <1>1 DEF Held, IInv, TypeOK, VinciTypeOK
<1> QED
  BY <1>1, <1>2, <1>3, GiveLosesNone

LEMMA ReceiveLosesNone ==
    ASSUME IInv, NEW a \in Actors, Receive(a)
    PROVE  Lost' \subseteq Lost
<1>1. /\ a \in Queues /\ a \in Threads /\ queue[a] # <<>>
      /\ queue' = [queue EXCEPT ![a] = Tail(@)]
      /\ msg' = [msg EXCEPT ![a] = Head(queue[a])] /\ draft' = draft
  BY DEF Receive, Queues, Threads
<1>2. msg[a] = nullptr
  BY DEF IInv, Handling, MsgInHand, Receive
<1>3. Head(queue[a]) \in Message
  BY <1>1, HeadTailProperties DEF IInv, TypeOK, VinciTypeOK
<1>4. Head(queue[a]) # nullptr
  BY <1>3, PoolSizeAssumption DEF Message, nullptr
<1>5. msg'[a] = Head(queue[a])
  BY <1>1 DEF IInv, TypeOK, VinciTypeOK
<1>6. /\ Head(queue[a]) \in Held(a)'
      /\ \A u \in Threads : Held(u) \subseteq Held(u)'
  BY <1>1, <1>2, <1>4, <1>5 DEF Held, IInv, TypeOK, VinciTypeOK
<1> QED
  BY <1>1, <1>6, TakeLosesNone

\* A message is left in no queue and no hands by two steps only: the sensor's
\* handler without a listener, and a put that fails in an interrupt routine.
THEOREM LossesKnown == Spec => KnownLosses
<1>1. IInv /\ [Next]_vars
        => [Lost' \subseteq Lost \/ SensorDrop \/ \E t \in Interrupts : SendFails(t)]_vars
  <2> SUFFICES ASSUME IInv, Next
               PROVE  Lost' \subseteq Lost \/ SensorDrop \/ \E t \in Interrupts : SendFails(t)
    OBVIOUS
  <2>1. ASSUME NEW t \in Threads, CallStep(t)
        PROVE  Lost' \subseteq Lost \/ \E u \in Interrupts : SendFails(u)
    <3>1. CASE BuildFromEmptyPool(t)
      BY <3>1, StayLosesNone DEF BuildFromEmptyPool
    <3>2. CASE SendFails(t)
      BY <3>2 DEF SendFails
    <3> QED
      BY <2>1, <3>1, <3>2, BuildLosesNone, SendLosesNone DEF CallStep
  <2>2. ASSUME NEW a \in Actors, ReceiveStep(a) PROVE Lost' \subseteq Lost
    BY <2>2, ReceiveLosesNone DEF ReceiveStep
  <2>3. ASSUME NEW l \in Actors, LedStep(l) PROVE Lost' \subseteq Lost
    <3>1. CASE LedProcess(l)
      BY <3>1, DisposeLosesNone DEF LedProcess, Queues
    <3>2. CASE LedToggle(l)
      BY <3>2, StayLosesNone DEF LedToggle, TimesOut, vinciVars
    <3> QED
      BY <2>3, <3>1, <3>2 DEF LedStep
  <2>4. CASE SensorStep
    <3>1. CASE SensorRegister
      BY <3>1, SensorAssumption, DisposeLosesNone DEF SensorRegister, Queues
    <3>2. CASE SensorForward
      <4>1. listener \in Queues
        BY <3>2 DEF IInv, TypeOK, SensorForward, Queues
      <4> QED
        BY <3>2, <4>1, SensorAssumption, DisposeLosesNone DEF SensorForward
    <3> QED
      BY <2>4, <3>1, <3>2 DEF SensorStep
  <2>5. CASE ProcessorStep
    <3>1. CASE ProcessorDecide
      BY <3>1, StayLosesNone DEF ProcessorDecide
    <3>2. CASE ProcessorRelease
      BY <3>2, ProcessorAssumption, DisposeLosesNone DEF ProcessorRelease, Queues
    <3> QED
      BY <2>5, <3>1, <3>2 DEF ProcessorStep
  <2>6. ASSUME StartThread \/ Override \/ Return \/ TakeReading PROVE Lost' \subseteq Lost
    BY <2>6, StayLosesNone DEF StartThread, Override, Return, TakeReading, Display
  <2>7. ASSUME NEW a \in Actors, ActorThread(a)
        PROVE  Lost' \subseteq Lost \/ SensorDrop \/ \E t \in Interrupts : SendFails(t)
    BY <2>1, <2>2, <2>3, <2>4, <2>5, <2>7 DEF ActorThread, Threads
  <2>8. ASSUME NEW t \in Clients, ClientThread(t)
        PROVE  Lost' \subseteq Lost \/ \E u \in Interrupts : SendFails(u)
    BY <2>1, <2>6, <2>8 DEF ClientThread, Threads
  <2> QED
    BY <2>6, <2>7, <2>8 DEF Next
<1> QED
  BY <1>1, InitInv, StepKeepsInv, PTL DEF Spec, KnownLosses

-----------------------------------------------------------------------------
(* The budget of messages. *)

\* The threads and actors that take part are what they seem.
LEMMA RolesLemma ==
    /\ Main \in Threads /\ Source \in Threads /\ Processor \in Threads
    /\ Main \notin Actors /\ Source \notin Actors
    /\ Sensor \in Actors /\ Processor \in Actors /\ Processor # Sensor
    /\ Processor # Main /\ Processor # Source
    /\ Leds \subseteq Actors /\ Sensor \notin Leds /\ Processor \notin Leds
    /\ Pool \notin Actors /\ Pool \in Queues /\ Actors \subseteq Queues
    /\ Sensor \in Queues /\ Processor \in Queues
    /\ Pool # Sensor /\ Pool # Processor
    /\ Green \in Leds /\ Red \in Leds /\ Green # Red
BY MainAssumption, SourceAssumption, ActorsAssumption, SensorAssumption,
   ProcessorAssumption, RolesAssumption, LedsAssumption DEF Threads, Queues

\* The calls a thread has still to build a message for.
Unbuilt(t) == Len(todo[t]) - Count(draft[t] # nullptr)
CallsUnbuilt == Unbuilt(Main) + Unbuilt(Processor)
                + (IF Source = Main THEN 0 ELSE Unbuilt(Source))

\* The calls of an actor that is no LED: only the next one of a thread can be.
CallsSensor(t) == Count(todo[t] # <<>> /\ Head(todo[t]).to \notin Leds)
CallsUnheard == CallsSensor(Main)
                + (IF Source = Main THEN 0 ELSE CallsSensor(Source))

\* The messages with the sensor and with the processor, until it decides.
Size(q) == Len(queue[q])
Handled == Count(msg[Sensor] # nullptr)
Undecided == Count(pc[Processor] = "process")
Deciding == Count(pc[Processor] = "finish")

Entries == Len(entered)
InUse == PoolSize - Size(Pool)

Constructing == pc[Main] \in {"base", "derived"}
Deaf == listener = NoListener

Unconstructed == Count(Constructing)
Unregistered == Count(Deaf)

\* Who calls whom.
Callers ==
    /\ \A t \in Threads : todo[t] # <<>> => t \in {Main, Source, Processor}
    /\ \A t \in Threads : \A i \in DOMAIN todo[t] :
         /\ todo[t][i].to \in Leds \cup {Sensor}
         /\ i > 1 \/ t = Processor => todo[t][i].to \in Leds
    /\ Constructing => todo[Main] = <<>>
    /\ queue[Processor] # <<>> \/ msg[Processor] # nullptr => ~Deaf
    /\ Entries <= MaxReadings

\* What is in use, to be built or to be expected beyond what the readings and
\* the setup of main account for: a message not decided yet stands for the two
\* of its decision.
Base == InUse + CallsUnbuilt + 3 * Unconstructed - Entries
Load == Base + Unconstructed + CallsUnheard + Size(Sensor) + Handled
        + Size(Processor) + Undecided - Deciding - 2 * Unregistered - Entries

Budget == Load <= 2 /\ (Deaf => Base <= 3)
BInv == Callers /\ Budget

\* The sizes the budget adds up.
Sizes ==
    /\ CallsUnbuilt \in Nat /\ CallsUnheard \in Nat
    /\ Size(Sensor) \in Nat /\ Size(Processor) \in Nat /\ InUse \in Int
    /\ Handled \in Nat /\ Undecided \in Nat
    /\ Unconstructed \in Nat /\ Unregistered \in Nat /\ Deciding \in Nat
    /\ Entries \in Nat

ThreadSizes ==
    \A t \in Threads : /\ Unbuilt(t) \in Nat /\ CallsSensor(t) \in Nat
                       /\ Len(todo[t]) \in Nat

QueueSizes ==
    \A q \in Queues : Size(q) \in Nat

\* They are natural numbers: a message is built for a call only.
LEMMA ThreadSizesLemma == IInv => ThreadSizes
<1> SUFFICES ASSUME IInv, NEW t \in Threads
             PROVE  Unbuilt(t) \in Nat /\ CallsSensor(t) \in Nat /\ Len(todo[t]) \in Nat
  BY DEF ThreadSizes
<1>1. todo[t] \in Seq(Calls)
  BY DEF IInv, TypeOK
<1>2. Len(todo[t]) \in Nat /\ (todo[t] # <<>> => Len(todo[t]) > 0)
  BY <1>1, EmptySeq, LenProperties
<1>3. draft[t] # nullptr => todo[t] # <<>>
  BY DEF IInv, Handling, DraftForCall
<1> QED
  BY <1>2, <1>3 DEF Unbuilt, CallsSensor, Count

LEMMA QueueSizesLemma == IInv => QueueSizes
BY LenProperties DEF IInv, TypeOK, VinciTypeOK, QueueSizes, Size

\* The sums are of natural numbers.
LEMMA SizesLemma == IInv => Sizes
<1> SUFFICES ASSUME IInv PROVE Sizes
  OBVIOUS
<1>1. CallsUnbuilt \in Nat /\ CallsUnheard \in Nat
  BY ThreadSizesLemma, RolesLemma DEF ThreadSizes, CallsUnbuilt, CallsUnheard
<1>2. /\ Size(Sensor) \in Nat /\ Size(Processor) \in Nat
      /\ Size(Pool) \in Nat
  BY QueueSizesLemma, RolesLemma DEF QueueSizes
<1>3. Handled \in Nat /\ Undecided \in Nat
  BY DEF Handled, Undecided, Count
<1>4. InUse \in Int
  BY <1>2, PoolSizeAssumption DEF InUse
<1>5. Unconstructed \in Nat /\ Unregistered \in Nat /\ Deciding \in Nat
  BY DEF Unconstructed, Unregistered, Deciding, Count
<1>6. Entries \in Nat
  BY LenProperties DEF Entries, IInv, TypeOK, SimulatorTypeOK
<1> QED
  BY <1>1, <1>2, <1>3, <1>4, <1>5, <1>6 DEF Sizes

LEMMA ThreadSizesNext == IInv' => ThreadSizes'
BY ThreadSizesLemma, PTL
LEMMA SizesNext == IInv' => Sizes'
BY SizesLemma, PTL

\* A step that changes what one of the callers has to do changes the sums by
\* as much.
LEMMA CallerLemma ==
    ASSUME IInv, IInv', NEW t \in {Main, Source, Processor},
           \A u \in Threads \ {t} : todo'[u] = todo[u] /\ draft'[u] = draft[u]
    PROVE  /\ CallsUnbuilt' = CallsUnbuilt + Unbuilt(t)' - Unbuilt(t)
           /\ t # Processor =>
                CallsUnheard' = CallsUnheard + CallsSensor(t)' - CallsSensor(t)
           /\ t = Processor => CallsUnheard' = CallsUnheard
<1>1. \A u \in Threads : u # t => /\ Unbuilt(u)' = Unbuilt(u)
                                  /\ CallsSensor(u)' = CallsSensor(u)
  BY DEF Unbuilt, CallsSensor
<1>2. \A u \in Threads : /\ Unbuilt(u) \in Nat /\ CallsSensor(u) \in Nat
                         /\ Unbuilt(u)' \in Nat /\ CallsSensor(u)' \in Nat
  BY ThreadSizesLemma, ThreadSizesNext DEF ThreadSizes
<1> QED
  BY <1>1, <1>2, RolesLemma DEF CallsUnbuilt, CallsUnheard

\* The parts of the budget that depend on what a step leaves alone.
LEMMA SameCalls ==
    UNCHANGED <<todo, draft>> => /\ CallsUnbuilt' = CallsUnbuilt
                                 /\ CallsUnheard' = CallsUnheard
BY DEF CallsUnbuilt, CallsUnheard, Unbuilt, CallsSensor

Sums == Load \in Int /\ Base \in Int
\* The two sums are numbers.
LEMMA LoadLemma == IInv => Sums
<1> SUFFICES ASSUME IInv PROVE Sums
  OBVIOUS
<1>1. Sizes
  BY SizesLemma
<1>2. Base \in Int
  BY <1>1 DEF Sizes, Base
<1> QED
  BY <1>1, <1>2 DEF Sizes, Load, Sums

LEMMA LoadNext == IInv' => Sums'
BY LoadLemma, PTL

\* The budget is kept by a step that adds nothing to the two sums.
LEMMA BudgetStep ==
    ASSUME IInv, IInv', BInv, Load' <= Load, Deaf' => Deaf /\ Base' <= Base
    PROVE  Budget'
<1>1. Load \in Int /\ Base \in Int /\ Load' \in Int /\ Base' \in Int
  BY LoadLemma, LoadNext DEF Sums
<1>2. Load <= 2 /\ (Deaf => Base <= 3)
  BY DEF BInv, Budget
<1> QED
  BY <1>1, <1>2 DEF Budget

\* What the parts are counted from.
LEMMA CountedLemma ==
    /\ queue'[Sensor] = queue[Sensor] => Size(Sensor)' = Size(Sensor)
    /\ queue'[Processor] = queue[Processor] => Size(Processor)' = Size(Processor)
    /\ queue'[Pool] = queue[Pool] => InUse' = InUse
    /\ msg'[Sensor] = msg[Sensor] => Handled' = Handled
    /\ pc'[Processor] = pc[Processor] => Undecided' = Undecided /\ Deciding' = Deciding
    /\ pc'[Main] = pc[Main] => /\ Unconstructed' = Unconstructed
                              /\ (Constructing' <=> Constructing)
    /\ listener' = listener => Unregistered' = Unregistered /\ (Deaf' <=> Deaf)
    /\ entered' = entered => Entries' = Entries
BY DEF Size, InUse, Handled, Undecided, Deciding, Unconstructed, Constructing,
       Unregistered, Deaf, Entries

\* A build turns a call without a message into a message in use.
LEMMA BuildKeepsBudget ==
    ASSUME IInv, IInv', BInv, NEW t \in Threads, Build(t),
           UNCHANGED <<on, listener, simulatorVars, overridden>>
    PROVE  BInv' /\ Load' <= Load
<1>1. t \in {Main, Source, Processor}
  BY DEF BInv, Callers, Build
<1>2. /\ queue' = [queue EXCEPT ![Pool] = Tail(@)]
      /\ draft' = [draft EXCEPT ![t] = Head(queue[Pool])]
      /\ queue \in [Queues -> Seq(Message)] /\ queue[Pool] \in Seq(Message)
      /\ draft \in [Threads -> Message \cup {nullptr}]
      /\ queue[Pool] # <<>> /\ draft[t] = nullptr
      /\ UNCHANGED <<todo, pc, msg, listener, entered, overridden>>
  BY RolesLemma DEF Build, IInv, TypeOK, VinciTypeOK, simulatorVars
<1>3. /\ Head(queue[Pool]) \in Message /\ Head(queue[Pool]) # nullptr
      /\ Len(queue'[Pool]) = Len(queue[Pool]) - 1 /\ Len(queue[Pool]) \in Nat
  <2>1. /\ Head(queue[Pool]) \in Message
        /\ Len(Tail(queue[Pool])) = Len(queue[Pool]) - 1 /\ Len(queue[Pool]) \in Nat
    BY <1>2, HeadTailProperties, LenProperties
  <2> QED
    BY <1>2, <2>1, RolesLemma, PoolSizeAssumption DEF Message, nullptr
<1>4. /\ \A u \in Threads \ {t} : todo'[u] = todo[u] /\ draft'[u] = draft[u]
      /\ \A q \in Queues \ {Pool} : queue'[q] = queue[q]
      /\ draft'[t] # nullptr
  BY <1>2, <1>3
<1>5. Unbuilt(t)' = Unbuilt(t) - 1 /\ CallsSensor(t)' = CallsSensor(t)
  BY <1>2, <1>4, ThreadSizesLemma DEF ThreadSizes, Unbuilt, CallsSensor, Count
<1>6. CallsUnbuilt' = CallsUnbuilt - 1 /\ CallsUnheard' = CallsUnheard
  <2>1. /\ Unbuilt(t) \in Nat /\ CallsSensor(t) \in Nat
        /\ CallsUnbuilt \in Nat /\ CallsUnbuilt' \in Nat
        /\ CallsUnheard \in Nat /\ CallsUnheard' \in Nat
    BY SizesLemma, SizesNext, ThreadSizesLemma DEF ThreadSizes, Sizes
  <2>2. /\ CallsUnbuilt' = CallsUnbuilt + Unbuilt(t)' - Unbuilt(t)
        /\ \/ CallsUnheard' = CallsUnheard + CallsSensor(t)' - CallsSensor(t)
           \/ CallsUnheard' = CallsUnheard
    BY <1>1, <1>4, CallerLemma
  <2> QED
    BY <1>5, <2>1, <2>2
<1>7. InUse' = InUse + 1
  BY <1>3, PoolSizeAssumption DEF InUse, Size
<1>8. /\ Size(Sensor)' = Size(Sensor) /\ Size(Processor)' = Size(Processor)
      /\ Handled' = Handled /\ Undecided' = Undecided
      /\ Unconstructed' = Unconstructed /\ Unregistered' = Unregistered
      /\ Deciding' = Deciding /\ (Deaf' <=> Deaf) /\ Entries' = Entries
  <2>1. queue'[Sensor] = queue[Sensor] /\ queue'[Processor] = queue[Processor]
    BY <1>4, RolesLemma
  <2> QED
    BY <1>2, <2>1, CountedLemma
<1>9. Callers'
  BY <1>2, <1>4, RolesLemma DEF BInv, Callers, Constructing, Deaf, Entries
<1>10. Base' = Base /\ Load' = Load
  <2>1. Sizes
    BY SizesLemma
  <2>2. Base' = Base /\ Base \in Int
    BY <1>6, <1>7, <1>8, <2>1 DEF Sizes, Base
  <2> QED
    BY <1>6, <1>8, <2>1, <2>2 DEF Sizes, Load
<1> QED
  BY <1>8, <1>9, <1>10, LoadLemma, BudgetStep DEF BInv, Sums

\* A call made: its thread has one call less, and none of an actor that is no
\* LED left.
LEMMA CallMade ==
    ASSUME IInv, IInv', BInv, NEW t \in Threads, draft[t] # nullptr,
           draft' = [draft EXCEPT ![t] = nullptr],
           todo' = [todo EXCEPT ![t] = Tail(@)]
    PROVE  /\ CallsUnbuilt' = CallsUnbuilt
           /\ Head(todo[t]).to \in Leds \cup {Sensor}
           /\ Head(todo[t]).to \in Leds => CallsUnheard' = CallsUnheard
           /\ Head(todo[t]).to = Sensor => CallsUnheard' = CallsUnheard - 1
           /\ todo[t] # <<>>
           /\ \A u \in Threads : todo'[u] # <<>> => todo[u] # <<>>
           /\ \A u \in Threads : \A i \in DOMAIN todo'[u] :
                /\ todo'[u][i].to \in Leds \cup {Sensor}
                /\ i > 1 \/ u = Processor => todo'[u][i].to \in Leds
<1>1. /\ todo[t] # <<>> /\ todo[t] \in Seq(Calls)
      /\ todo \in [Threads -> Seq(Calls)]
      /\ draft \in [Threads -> Message \cup {nullptr}]
  BY DEF IInv, TypeOK, VinciTypeOK, Handling, DraftForCall
<1>2. t \in {Main, Source, Processor}
  BY <1>1 DEF BInv, Callers
<1>3. /\ \A u \in Threads \ {t} : todo'[u] = todo[u] /\ draft'[u] = draft[u]
      /\ todo'[t] = Tail(todo[t]) /\ draft'[t] = nullptr
  BY <1>1
<1> DEFINE tl == Tail(todo[t])
<1>4. /\ Len(todo[t]) \in Nat /\ Len(tl) = Len(todo[t]) - 1
      /\ Head(todo[t]) = todo[t][1]
      /\ DOMAIN tl = 1 .. Len(tl) /\ DOMAIN todo[t] = 1 .. Len(todo[t])
      /\ \A i \in 1 .. Len(tl) : tl[i] = todo[t][i + 1]
      /\ tl \in Seq(Calls)
  BY <1>1, HeadTailProperties, LenProperties
<1>5. /\ 1 \in DOMAIN todo[t] /\ \A i \in DOMAIN tl : i + 1 \in DOMAIN todo[t] /\ i + 1 > 1
  BY <1>1, <1>4, EmptySeq
<1>6. Head(todo[t]).to \in Leds \cup {Sensor}
  BY <1>4, <1>5 DEF BInv, Callers
<1>7. \A i \in DOMAIN tl : tl[i].to \in Leds
  <2> SUFFICES ASSUME NEW i \in DOMAIN tl PROVE tl[i].to \in Leds
    OBVIOUS
  <2>1. tl[i] = todo[t][i + 1] /\ i + 1 \in DOMAIN todo[t] /\ i + 1 > 1
    BY <1>4, <1>5
  <2> QED
    BY <2>1 DEF BInv, Callers
<1>8. Unbuilt(t)' = Unbuilt(t)
  <2>1. Len(todo'[t]) = Len(todo[t]) - 1 /\ Len(todo[t]) \in Nat /\ draft'[t] = nullptr
    BY <1>3, <1>4
  <2>2. Count(draft[t] # nullptr) = 1 /\ Count(draft[t] # nullptr)' = 0
    BY <2>1 DEF Count
  <2>3. Unbuilt(t) = Len(todo[t]) - 1 /\ Unbuilt(t)' = Len(todo'[t]) - 0
    BY <2>2 DEF Unbuilt
  <2> QED
    BY <2>1, <2>3
<1>9. CallsSensor(t)' = 0
  <2>1. tl # <<>> => Head(tl).to \in Leds
    <3> SUFFICES ASSUME tl # <<>> PROVE Head(tl).to \in Leds
      OBVIOUS
    <3>1. Head(tl) = tl[1] /\ 1 \in DOMAIN tl
      BY <1>4, HeadTailProperties, EmptySeq
    <3> QED
      BY <1>7, <3>1
  <2> QED
    <3>1. ~(todo'[t] # <<>> /\ Head(todo'[t]).to \notin Leds)
      BY <1>3, <2>1
    <3> QED
      BY <3>1 DEF CallsSensor, Count
<1>10. /\ Head(todo[t]).to \in Leds => CallsSensor(t) = 0
       /\ Head(todo[t]).to = Sensor => CallsSensor(t) = 1
  BY <1>1, RolesLemma DEF CallsSensor, Count
<1>11. Head(todo[t]).to = Sensor => t # Processor
  BY <1>4, <1>5, RolesLemma DEF BInv, Callers
<1>12. /\ CallsUnbuilt' = CallsUnbuilt + Unbuilt(t)' - Unbuilt(t)
       /\ t # Processor =>
            CallsUnheard' = CallsUnheard + CallsSensor(t)' - CallsSensor(t)
       /\ t = Processor => CallsUnheard' = CallsUnheard
  BY <1>2, <1>3, CallerLemma
<1>13. /\ Unbuilt(t) \in Nat
       /\ CallsUnbuilt \in Nat /\ CallsUnbuilt' \in Nat
       /\ CallsUnheard \in Nat /\ CallsUnheard' \in Nat
  BY SizesLemma, SizesNext, ThreadSizesLemma DEF ThreadSizes, Sizes
<1>14. /\ CallsUnbuilt' = CallsUnbuilt
       /\ Head(todo[t]).to \in Leds => CallsUnheard' = CallsUnheard
       /\ Head(todo[t]).to = Sensor => CallsUnheard' = CallsUnheard - 1
  BY <1>8, <1>9, <1>10, <1>11, <1>12, <1>13
<1>15. \A u \in Threads : todo'[u] # <<>> => todo[u] # <<>>
  BY <1>1, <1>3
<1>16. ASSUME NEW u \in Threads, NEW i \in DOMAIN todo'[u]
       PROVE  /\ todo'[u][i].to \in Leds \cup {Sensor}
              /\ i > 1 \/ u = Processor => todo'[u][i].to \in Leds
  BY <1>3, <1>7, <1>16 DEF BInv, Callers
<1> QED
  BY <1>1, <1>6, <1>14, <1>15, <1>16

\* A send turns a call of the sensor into a message with it; one that fails
\* loses the message, which stays in use.
LEMMA SendKeepsBudget ==
    ASSUME IInv, IInv', BInv, NEW t \in Threads, Send(t) \/ SendFails(t),
           UNCHANGED <<on, listener, simulatorVars, overridden>>
    PROVE  BInv' /\ Load' <= Load
<1> DEFINE a == Head(todo[t]).to
<1>1. /\ draft[t] # nullptr /\ draft[t] \in Message
      /\ draft' = [draft EXCEPT ![t] = nullptr]
      /\ todo' = [todo EXCEPT ![t] = Tail(@)]
      /\ UNCHANGED <<pc, msg, listener, entered, overridden>>
  BY DEF Send, SendFails, simulatorVars, IInv, TypeOK, VinciTypeOK
<1>2. /\ CallsUnbuilt' = CallsUnbuilt
      /\ a \in Leds \cup {Sensor}
      /\ a \in Leds => CallsUnheard' = CallsUnheard
      /\ a = Sensor => CallsUnheard' = CallsUnheard - 1
      /\ todo[t] # <<>>
      /\ \A u \in Threads : todo'[u] # <<>> => todo[u] # <<>>
      /\ \A u \in Threads : \A i \in DOMAIN todo'[u] :
            /\ todo'[u][i].to \in Leds \cup {Sensor}
            /\ i > 1 \/ u = Processor => todo'[u][i].to \in Leds
  BY <1>1, CallMade
<1>3. queue' = queue \/ queue' = [queue EXCEPT ![a] = Append(@, draft[t])]
  BY DEF Send, SendFails, Push
<1> HIDE DEF a
<1>4. /\ queue'[Processor] = queue[Processor] /\ queue'[Pool] = queue[Pool]
      /\ a \in Leds => queue'[Sensor] = queue[Sensor]
      /\ \/ queue'[Sensor] = queue[Sensor]
         \/ queue'[Sensor] = Append(queue[Sensor], draft[t])
  <2>1. a # Processor /\ a # Pool /\ (a \in Leds => a # Sensor)
    BY <1>2, RolesLemma
  <2>2. queue \in [Queues -> Seq(Message)]
    BY DEF IInv, TypeOK, VinciTypeOK
  <2>3. /\ Sensor \in Queues /\ Processor \in Queues /\ Pool \in Queues
        /\ Pool # Sensor /\ Pool # Processor
    BY RolesLemma
  <2> QED
    BY <1>3, <2>1, <2>2, <2>3
<1>5. /\ Size(Sensor) \in Nat
      /\ a \in Leds => Size(Sensor)' = Size(Sensor)
      /\ a = Sensor => Size(Sensor)' \in {Size(Sensor), Size(Sensor) + 1}
  <2>1. Size(Sensor) \in Nat
    BY SizesLemma DEF Sizes
  <2>2. a \in Leds => Size(Sensor)' = Size(Sensor)
    BY <1>4 DEF Size
  <2>3. Len(Append(queue[Sensor], draft[t])) = Len(queue[Sensor]) + 1
    <3>1. queue[Sensor] \in Seq(Message)
      BY RolesLemma DEF IInv, TypeOK, VinciTypeOK
    <3> QED
      BY <1>1, <3>1, AppendProperties
  <2>4. a = Sensor => Size(Sensor)' \in {Size(Sensor), Size(Sensor) + 1}
    BY <1>4, <2>3 DEF Size
  <2> QED
    BY <2>1, <2>2, <2>4
<1>6. /\ InUse' = InUse /\ Size(Processor)' = Size(Processor)
      /\ Handled' = Handled /\ Undecided' = Undecided
      /\ Unconstructed' = Unconstructed /\ Unregistered' = Unregistered
      /\ Deciding' = Deciding /\ (Deaf' <=> Deaf) /\ Entries' = Entries
      /\ (Constructing' <=> Constructing)
  BY <1>1, <1>4, CountedLemma
<1>7. Callers'
  <2>1. Constructing' => todo'[Main] = <<>>
    BY <1>2, <1>6, RolesLemma DEF BInv, Callers
  <2>2. Entries' <= MaxReadings
    BY <1>6 DEF BInv, Callers
  <2>3. queue'[Processor] # <<>> \/ msg'[Processor] # nullptr => ~Deaf'
    BY <1>1, <1>4, <1>6 DEF BInv, Callers
  <2>4. \A u \in Threads : todo'[u] # <<>> => u \in {Main, Source, Processor}
    BY <1>2 DEF BInv, Callers
  <2> QED
    BY <1>2, <2>1, <2>2, <2>3, <2>4 DEF Callers
<1>8. Base' = Base /\ Load' <= Load
  <2>1. Sizes
    BY SizesLemma
  <2>2. Base' = Base /\ Base \in Int
    BY <1>2, <1>6, <2>1 DEF Sizes, Base
  <2>3. CASE a \in Leds
    BY <1>2, <1>5, <1>6, <2>1, <2>2, <2>3 DEF Sizes, Load
  <2>4. CASE a = Sensor
    BY <1>2, <1>5, <1>6, <2>1, <2>2, <2>4 DEF Sizes, Load
  <2> QED
    BY <1>2, <2>2, <2>3, <2>4
<1> QED
  BY <1>6, <1>7, <1>8, LoadLemma, BudgetStep DEF BInv, Sums

\* A message received is still one, and with the same actor.
LEMMA ReceiveKeepsBudget ==
    ASSUME IInv, IInv', BInv, NEW a \in Actors, Receive(a),
           UNCHANGED <<on, listener, simulatorVars, overridden>>
    PROVE  BInv' /\ Load' <= Load
<1>1. /\ queue[a] # <<>> /\ queue[a] \in Seq(Message) /\ pc[a] = "wait"
      /\ queue' = [queue EXCEPT ![a] = Tail(@)] /\ queue \in [Queues -> Seq(Message)]
      /\ msg' = [msg EXCEPT ![a] = Head(queue[a])]
      /\ msg \in [Actors -> Message \cup {nullptr}] /\ msg[a] = nullptr
      /\ pc' = [pc EXCEPT ![a] = "process"] /\ a \in DOMAIN pc
      /\ UNCHANGED <<todo, draft, listener, entered, overridden>>
  <2>1. /\ queue[a] # <<>> /\ pc[a] = "wait"
        /\ queue' = [queue EXCEPT ![a] = Tail(@)]
        /\ msg' = [msg EXCEPT ![a] = Head(queue[a])]
        /\ pc' = [pc EXCEPT ![a] = "process"]
        /\ UNCHANGED <<todo, draft, listener, entered, overridden>>
    BY DEF Receive, Goto, simulatorVars
  <2>2. /\ queue \in [Queues -> Seq(Message)]
        /\ msg \in [Actors -> Message \cup {nullptr}]
        /\ a \in DOMAIN pc
    BY DEF IInv, TypeOK, VinciTypeOK, Threads
  <2>3. msg[a] = nullptr
    BY <2>1 DEF IInv, Handling, MsgInHand
  <2> QED
    BY <2>1, <2>2, <2>3, RolesLemma
<1>2. /\ Head(queue[a]) # nullptr
      /\ Len(queue'[a]) = Len(queue[a]) - 1 /\ Len(queue[a]) \in Nat
  <2>1. /\ Head(queue[a]) \in Message
        /\ Len(Tail(queue[a])) = Len(queue[a]) - 1 /\ Len(queue[a]) \in Nat
    BY <1>1, HeadTailProperties, LenProperties
  <2> QED
    BY <1>1, <2>1, RolesLemma, PoolSizeAssumption DEF Message, nullptr
<1>3. /\ CallsUnbuilt' = CallsUnbuilt /\ CallsUnheard' = CallsUnheard
      /\ InUse' = InUse
      /\ Unconstructed' = Unconstructed /\ Unregistered' = Unregistered
      /\ (Deaf' <=> Deaf) /\ (Constructing' <=> Constructing) /\ Entries' = Entries
  <2>1. queue'[Pool] = queue[Pool] /\ pc'[Main] = pc[Main]
    BY <1>1, RolesLemma
  <2> QED
    BY <1>1, <2>1, SameCalls, CountedLemma
<1>4. Size(Sensor)' + Handled' = Size(Sensor) + Handled
  <2>1. Size(Sensor) \in Nat /\ Handled \in Nat
    BY SizesLemma DEF Sizes
  <2>2. CASE a = Sensor
    <3>1. Size(Sensor)' = Size(Sensor) - 1
      BY <1>2, <2>2 DEF Size
    <3>2. msg'[Sensor] # nullptr /\ msg[Sensor] = nullptr
      BY <1>1, <1>2, <2>2
    <3>3. Handled' = 1 /\ Handled = 0
      BY <3>2 DEF Handled, Count
    <3> QED
      BY <2>1, <3>1, <3>3
  <2>3. CASE a # Sensor
    BY <1>1, <2>3, CountedLemma, RolesLemma
  <2> QED
    BY <2>2, <2>3
<1>5. /\ Size(Processor)' + Undecided' = Size(Processor) + Undecided
      /\ Deciding' = Deciding
  <2>1. Size(Processor) \in Nat /\ Undecided \in Nat
    BY SizesLemma DEF Sizes
  <2>2. CASE a = Processor
    <3>1. Size(Processor)' = Size(Processor) - 1
      BY <1>2, <2>2 DEF Size
    <3>2. pc'[Processor] = "process" /\ pc[Processor] = "wait"
      BY <1>1, <2>2
    <3>3. Undecided' = 1 /\ Undecided = 0 /\ Deciding' = 0 /\ Deciding = 0
      BY <3>2 DEF Undecided, Deciding, Count
    <3> QED
      BY <2>1, <3>1, <3>3
  <2>3. CASE a # Processor
    BY <1>1, <2>3, CountedLemma, RolesLemma
  <2> QED
    BY <2>2, <2>3
<1>6. Callers'
  <2>1. queue'[Processor] # <<>> \/ msg'[Processor] # nullptr
          => queue[Processor] # <<>> \/ msg[Processor] # nullptr
    BY <1>1, RolesLemma
  <2> QED
    BY <1>1, <1>3, <2>1 DEF BInv, Callers
<1>7. Base' = Base /\ Load' = Load
  <2>1. Sizes /\ Sizes'
    BY SizesLemma, SizesNext
  <2>2. Base' = Base /\ Base \in Int
    BY <1>3, <2>1 DEF Sizes, Base
  <2> QED
    BY <1>3, <1>4, <1>5, <2>1, <2>2 DEF Sizes, Load
<1> QED
  BY <1>3, <1>6, <1>7, LoadLemma, BudgetStep DEF BInv, Sums

\* A message goes to the pool.
LEMMA PushFree ==
    ASSUME IInv, NEW m \in Message, Push(Pool, m)
    PROVE  /\ InUse' = InUse - 1
           /\ \A a \in Actors : queue'[a] = queue[a]
<1>1. /\ queue' = [queue EXCEPT ![Pool] = Append(@, m)]
      /\ queue \in [Queues -> Seq(Message)] /\ queue[Pool] \in Seq(Message)
  BY RolesLemma DEF Push, IInv, TypeOK, VinciTypeOK
<1>2. /\ Len(queue'[Pool]) = Len(queue[Pool]) + 1 /\ Len(queue[Pool]) \in Nat
  BY <1>1, AppendProperties, LenProperties, RolesLemma
<1> QED
  BY <1>1, <1>2, RolesLemma, PoolSizeAssumption DEF InUse, Size

\* A LED frees its message.
LEMMA LedKeepsBudget ==
    ASSUME IInv, IInv', BInv, NEW l \in Leds, LedProcess(l),
           UNCHANGED <<listener, simulatorVars, overridden>>
    PROVE  BInv' /\ Load' <= Load
<1>1. /\ Push(Pool, msg[l]) /\ msg[l] \in Message
      /\ msg' = [msg EXCEPT ![l] = nullptr]
      /\ pc' = [pc EXCEPT ![l] = "wait"]
      /\ UNCHANGED <<todo, draft, listener, entered, overridden>>
  BY RolesLemma DEF LedProcess, Dispose, Goto, simulatorVars, IInv, TypeOK, VinciTypeOK,
                    Handling, MsgInHand
<1>2. InUse' = InUse - 1 /\ \A a \in Actors : queue'[a] = queue[a]
  BY <1>1, PushFree
<1>3. /\ msg'[Sensor] = msg[Sensor] /\ msg'[Processor] = msg[Processor]
      /\ pc'[Processor] = pc[Processor] /\ pc'[Main] = pc[Main]
      /\ queue'[Sensor] = queue[Sensor] /\ queue'[Processor] = queue[Processor]
  BY <1>1, <1>2, RolesLemma
<1>4. /\ CallsUnbuilt' = CallsUnbuilt /\ CallsUnheard' = CallsUnheard
      /\ Size(Sensor)' = Size(Sensor) /\ Size(Processor)' = Size(Processor)
      /\ Handled' = Handled /\ Undecided' = Undecided
      /\ Unconstructed' = Unconstructed /\ Unregistered' = Unregistered
      /\ Deciding' = Deciding /\ (Deaf' <=> Deaf) /\ Entries' = Entries
      /\ (Constructing' <=> Constructing)
  BY <1>1, <1>3, SameCalls, CountedLemma
<1>5. Callers'
  BY <1>1, <1>3, <1>4 DEF BInv, Callers
<1>6. Base' <= Base /\ Load' <= Load
  <2>1. Sizes
    BY SizesLemma
  <2>2. Base' = Base - 1 /\ Base \in Int
    BY <1>2, <1>4, <2>1 DEF Sizes, Base
  <2> QED
    BY <1>4, <2>1, <2>2 DEF Sizes, Load
<1> QED
  BY <1>4, <1>5, <1>6, BudgetStep DEF BInv

\* The sensor's handler has one message less in hand.
LEMMA SensorHandles ==
    ASSUME IInv, IInv', BInv, pc[Sensor] = "process",
           msg' = [msg EXCEPT ![Sensor] = nullptr],
           pc' = [pc EXCEPT ![Sensor] = "wait"],
           UNCHANGED <<todo, draft, entered, overridden>>
    PROVE  /\ msg[Sensor] \in Message
           /\ Handled = 1 /\ Handled' = 0
           /\ CallsUnbuilt' = CallsUnbuilt /\ CallsUnheard' = CallsUnheard
           /\ Undecided' = Undecided /\ Deciding' = Deciding /\ Entries' = Entries
           /\ Unconstructed' = Unconstructed /\ (Constructing' <=> Constructing)
           /\ msg'[Processor] = msg[Processor]
<1>1. /\ msg'[Sensor] = nullptr /\ msg[Sensor] # nullptr /\ msg[Sensor] \in Message
      /\ msg'[Processor] = msg[Processor]
      /\ pc'[Processor] = pc[Processor] /\ pc'[Main] = pc[Main]
  BY RolesLemma DEF IInv, TypeOK, VinciTypeOK, Handling, MsgInHand
<1>2. Handled = 1 /\ Handled' = 0
  BY <1>1 DEF Handled, Count
<1> QED
  BY <1>1, <1>2, SameCalls, CountedLemma

\* The registration is no reading: its own right to two messages ends.
LEMMA RegisterKeepsBudget ==
    ASSUME IInv, IInv', BInv, SensorRegister, UNCHANGED <<simulatorVars, overridden>>
    PROVE  BInv' /\ Load' <= Load
<1>1. /\ pc[Sensor] = "process" /\ Push(Pool, msg[Sensor])
      /\ msg' = [msg EXCEPT ![Sensor] = nullptr]
      /\ pc' = [pc EXCEPT ![Sensor] = "wait"]
      /\ UNCHANGED <<todo, draft, entered, overridden>>
  BY DEF SensorRegister, Dispose, Goto, simulatorVars
<1>2. ~Deaf'
  <2>1. PICK d \in Read(msg[Sensor]) : IsPressureSensorCmd(d) /\ listener' = d.listener
    BY DEF SensorRegister
  <2>2. msg[Sensor] \in Message
    BY <1>1, SensorHandles
  <2>3. d \in Data(Actors, Pressures)
    BY <2>2, ReadLemma DEF IInv
  <2>4. listener' \in Actors
    BY <2>1, <2>3, DataLemma
  <2> QED
    BY <2>4, ListenerAssumption DEF Deaf
<1>3. /\ Handled = 1 /\ Handled' = 0 /\ msg[Sensor] \in Message
      /\ CallsUnbuilt' = CallsUnbuilt /\ CallsUnheard' = CallsUnheard
      /\ Undecided' = Undecided /\ Deciding' = Deciding /\ Entries' = Entries
      /\ Unconstructed' = Unconstructed /\ (Constructing' <=> Constructing)
      /\ msg'[Processor] = msg[Processor]
  BY <1>1, SensorHandles
<1>4. InUse' = InUse - 1 /\ \A a \in Actors : queue'[a] = queue[a]
  BY <1>1, <1>3, PushFree
<1>5. Size(Sensor)' = Size(Sensor) /\ Size(Processor)' = Size(Processor)
  BY <1>4, RolesLemma, CountedLemma
<1>6. Unregistered \in 0 .. 1 /\ Unregistered' = 0
  BY <1>2 DEF Unregistered, Count
<1>7. Callers'
  BY <1>1, <1>2, <1>3 DEF BInv, Callers
<1>8. Load' <= Load
  <2>1. Sizes
    BY SizesLemma
  <2>2. Base' = Base - 1 /\ Base \in Int
    BY <1>3, <1>4, <2>1 DEF Sizes, Base
  <2> QED
    BY <1>3, <1>5, <1>6, <2>1, <2>2 DEF Sizes, Load
<1> QED
  BY <1>2, <1>7, <1>8, BudgetStep DEF BInv

\* A reading forwarded is undecided still; one without a listener is lost, and
\* its two commands never come.
LEMMA ForwardKeepsBudget ==
    ASSUME IInv, IInv', BInv, SensorForward \/ SensorDrop,
           UNCHANGED <<simulatorVars, overridden>>
    PROVE  BInv' /\ Load' <= Load
<1>1. /\ pc[Sensor] = "process" /\ listener' = listener
      /\ \/ queue' = queue
         \/ ~Deaf /\ Push(listener, msg[Sensor])
      /\ msg' = [msg EXCEPT ![Sensor] = nullptr]
      /\ pc' = [pc EXCEPT ![Sensor] = "wait"]
      /\ UNCHANGED <<todo, draft, entered, overridden>>
  BY DEF SensorForward, SensorDrop, Dispose, Goto, simulatorVars, Deaf
<1>2. /\ Handled = 1 /\ Handled' = 0 /\ msg[Sensor] \in Message
      /\ CallsUnbuilt' = CallsUnbuilt /\ CallsUnheard' = CallsUnheard
      /\ Undecided' = Undecided /\ Deciding' = Deciding /\ Entries' = Entries
      /\ Unconstructed' = Unconstructed /\ (Constructing' <=> Constructing)
      /\ msg'[Processor] = msg[Processor]
  BY <1>1, SensorHandles
<1>3. /\ Unregistered' = Unregistered /\ (Deaf' <=> Deaf)
  BY <1>1, CountedLemma
<1>4. /\ InUse' = InUse
      /\ Size(Sensor)' + Size(Processor)' <= Size(Sensor) + Size(Processor) + 1
      /\ Deaf => queue'[Processor] = queue[Processor]
  <2>1. Size(Sensor) \in Nat /\ Size(Processor) \in Nat
    BY SizesLemma DEF Sizes
  <2>2. CASE queue' = queue
    BY <2>1, <2>2, CountedLemma
  <2>3. CASE ~Deaf /\ Push(listener, msg[Sensor])
    <3>1. /\ listener \in Actors /\ listener \in Queues
          /\ queue \in [Queues -> Seq(Message)]
          /\ queue' = [queue EXCEPT ![listener] = Append(@, msg[Sensor])]
      BY <2>3 DEF Deaf, IInv, TypeOK, VinciTypeOK, Queues, Push
    <3>2. /\ \A q \in Queues : q # listener => queue'[q] = queue[q]
          /\ Len(queue'[listener]) = Len(queue[listener]) + 1
      <4>1. queue[listener] \in Seq(Message)
        BY <3>1
      <4>2. Len(Append(queue[listener], msg[Sensor])) = Len(queue[listener]) + 1
        BY <1>2, <4>1, AppendProperties
      <4> QED
        BY <3>1, <4>2
    <3>3. queue'[Pool] = queue[Pool]
      BY <3>1, <3>2, RolesLemma
    <3>4. /\ listener = Sensor => Size(Sensor)' = Size(Sensor) + 1
          /\ listener = Processor => Size(Processor)' = Size(Processor) + 1
      BY <3>2 DEF Size
    <3>5. /\ listener # Sensor => Size(Sensor)' = Size(Sensor)
          /\ listener # Processor => Size(Processor)' = Size(Processor)
      BY <3>2, RolesLemma, CountedLemma
    <3>6. Size(Sensor)' + Size(Processor)' <= Size(Sensor) + Size(Processor) + 1
      BY <2>1, <3>4, <3>5, RolesLemma
    <3> QED
      BY <2>3, <3>3, <3>6, CountedLemma
  <2> QED
    BY <1>1, <2>2, <2>3
<1>5. Callers'
  <2>1. queue'[Processor] # <<>> \/ msg'[Processor] # nullptr => ~Deaf'
    BY <1>2, <1>3, <1>4 DEF BInv, Callers
  <2> QED
    BY <1>1, <1>2, <2>1 DEF BInv, Callers
<1>6. Base' = Base /\ Load' <= Load
  <2>1. Sizes /\ Sizes'
    BY SizesLemma, SizesNext
  <2>2. Base' = Base /\ Base \in Int
    BY <1>2, <1>4, <2>1 DEF Sizes, Base
  <2> QED
    BY <1>2, <1>3, <1>4, <2>1, <2>2 DEF Sizes, Load
<1> QED
  BY <1>3, <1>5, <1>6, LoadLemma, BudgetStep DEF BInv, Sums

\* The decision makes of a reading the two calls it stands for.
LEMMA DecideKeepsBudget ==
    ASSUME IInv, IInv', BInv, ProcessorDecide,
           UNCHANGED <<on, listener, simulatorVars, overridden>>
    PROVE  BInv' /\ Load' <= Load
<1>1. PICK d \in Read(msg[Processor]) :
         todo' = [todo EXCEPT
                    ![Processor] = IF IsPressureSensorData(d)
                                   THEN Commands(d.pressure) ELSE <<>>]
  BY DEF ProcessorDecide
<1> DEFINE cs == IF IsPressureSensorData(d) THEN Commands(d.pressure) ELSE <<>>
<1>2. /\ pc[Processor] = "process" /\ pc' = [pc EXCEPT ![Processor] = "finish"]
      /\ UNCHANGED <<queue, data, msg, draft, listener, entered, overridden>>
      /\ todo \in [Threads -> Seq(Calls)]
      /\ pc \in [Threads -> {"none", "wait", "process", "finish",
                             "base", "derived", "body", "run"}]
      /\ todo[Processor] = <<>> /\ draft[Processor] = nullptr
      /\ msg[Processor] # nullptr
  BY RolesLemma
  DEF ProcessorDecide, Goto, simulatorVars, IInv, TypeOK, Handling, CallsInHandler,
      DraftForCall, MsgInHand
<1>3. /\ Len(cs) \in 0 .. 2
      /\ \A i \in DOMAIN cs : cs[i].to \in Leds
  BY RolesLemma DEF Commands, start, stop, Call
<1>4. /\ todo'[Processor] = cs /\ \A u \in Threads \ {Processor} : todo'[u] = todo[u]
      /\ pc'[Processor] = "finish" /\ pc'[Main] = pc[Main]
  BY <1>1, <1>2, RolesLemma
<1> HIDE DEF cs
<1>5. Unbuilt(Processor)' <= 2 /\ Unbuilt(Processor) = 0
  <2>1. /\ Count(draft[Processor] # nullptr) = 0
        /\ Count(draft[Processor] # nullptr)' = 0
    BY <1>2 DEF Count
  <2>2. Len(todo'[Processor]) \in 0 .. 2 /\ Len(todo[Processor]) = 0
    <3>1. todo'[Processor] = cs /\ todo[Processor] = <<>>
      BY <1>2, <1>4
    <3> QED
      BY <1>3, <3>1
  <2>3. /\ Unbuilt(Processor) = Len(todo[Processor]) - 0
        /\ Unbuilt(Processor)' = Len(todo'[Processor]) - 0
    BY <2>1 DEF Unbuilt
  <2> DEFINE n == Len(todo'[Processor])
  <2>4. n \in 0 .. 2 /\ Unbuilt(Processor)' = n - 0
    BY <2>2, <2>3
  <2>5. Unbuilt(Processor) = 0
    BY <2>2, <2>3
  <2> HIDE DEF n
  <2> QED
    BY <2>4, <2>5
<1>6. (\E k \in 0 .. 2 : CallsUnbuilt' = CallsUnbuilt + k) /\ CallsUnheard' = CallsUnheard
  <2>1. /\ CallsUnbuilt' = CallsUnbuilt + Unbuilt(Processor)' - Unbuilt(Processor)
        /\ CallsUnheard' = CallsUnheard
    <3>1. \A u \in Threads \ {Processor} : todo'[u] = todo[u] /\ draft'[u] = draft[u]
      BY <1>2, <1>4
    <3> QED
      BY <3>1, CallerLemma
  <2>2. /\ Unbuilt(Processor)' \in Nat /\ CallsUnbuilt \in Nat /\ CallsUnbuilt' \in Nat
    BY SizesLemma, SizesNext, ThreadSizesNext, RolesLemma DEF ThreadSizes, Sizes
  <2> QED
    BY <1>5, <2>1, <2>2
<1>7. Undecided = 1 /\ Undecided' = 0 /\ Deciding = 0 /\ Deciding' = 1
  BY <1>2, <1>4 DEF Undecided, Deciding, Count
<1>8. /\ Size(Sensor)' = Size(Sensor) /\ Size(Processor)' = Size(Processor)
      /\ InUse' = InUse /\ Handled' = Handled
      /\ Unconstructed' = Unconstructed /\ Unregistered' = Unregistered
      /\ (Deaf' <=> Deaf) /\ Entries' = Entries /\ (Constructing' <=> Constructing)
  BY <1>2, <1>4, CountedLemma
<1>9. Callers'
  <2>1. \A u \in Threads : todo'[u] # <<>> => u \in {Main, Source, Processor}
    BY <1>4 DEF BInv, Callers
  <2>2. ASSUME NEW u \in Threads, NEW i \in DOMAIN todo'[u]
        PROVE  /\ todo'[u][i].to \in Leds \cup {Sensor}
               /\ i > 1 \/ u = Processor => todo'[u][i].to \in Leds
    BY <1>3, <1>4, <2>2 DEF BInv, Callers
  <2>3. Constructing' => todo'[Main] = <<>>
    BY <1>4, <1>8, RolesLemma DEF BInv, Callers
  <2> QED
    BY <1>2, <1>8, <2>1, <2>2, <2>3 DEF BInv, Callers
<1>10. Load' <= Load
  <2>1. Sizes /\ Sizes'
    BY SizesLemma, SizesNext
  <2>2. PICK k \in 0 .. 2 : CallsUnbuilt' = CallsUnbuilt + k
    BY <1>6
  <2>3. Base' = Base + k /\ Base \in Int
    BY <1>8, <2>1, <2>2 DEF Sizes, Base
  <2> QED
    BY <1>6, <1>7, <1>8, <2>1, <2>2, <2>3 DEF Sizes, Load
<1>11. ~Deaf'
  BY <1>2, <1>8 DEF BInv, Callers
<1> QED
  BY <1>9, <1>10, <1>11, BudgetStep DEF BInv

\* The end of the processor's handler.
LEMMA ReleaseKeepsBudget ==
    ASSUME IInv, IInv', BInv, ProcessorRelease,
           UNCHANGED <<on, listener, simulatorVars, overridden>>
    PROVE  BInv' /\ Load' <= Load
<1>1. /\ Push(Pool, msg[Processor]) /\ msg[Processor] \in Message
      /\ msg' = [msg EXCEPT ![Processor] = nullptr]
      /\ pc[Processor] = "finish" /\ pc' = [pc EXCEPT ![Processor] = "wait"]
      /\ UNCHANGED <<todo, draft, listener, entered, overridden>>
  BY RolesLemma
  DEF ProcessorRelease, Dispose, Goto, simulatorVars, IInv, TypeOK, VinciTypeOK,
      Handling, MsgInHand
<1>2. InUse' = InUse - 1 /\ \A a \in Actors : queue'[a] = queue[a]
  BY <1>1, PushFree
<1>3. /\ msg'[Sensor] = msg[Sensor] /\ msg'[Processor] = nullptr
      /\ pc'[Processor] = "wait" /\ pc'[Main] = pc[Main]
      /\ queue'[Sensor] = queue[Sensor] /\ queue'[Processor] = queue[Processor]
  BY <1>1, <1>2, RolesLemma DEF IInv, TypeOK, VinciTypeOK
<1>4. /\ CallsUnbuilt' = CallsUnbuilt /\ CallsUnheard' = CallsUnheard
      /\ Size(Sensor)' = Size(Sensor) /\ Size(Processor)' = Size(Processor)
      /\ Handled' = Handled
      /\ Unconstructed' = Unconstructed /\ Unregistered' = Unregistered
      /\ (Deaf' <=> Deaf) /\ Entries' = Entries /\ (Constructing' <=> Constructing)
  BY <1>1, <1>3, SameCalls, CountedLemma
<1>5. Undecided = 0 /\ Undecided' = 0 /\ Deciding = 1 /\ Deciding' = 0
  BY <1>1, <1>3 DEF Undecided, Deciding, Count
<1>6. Callers'
  BY <1>1, <1>3, <1>4 DEF BInv, Callers
<1>7. Base' <= Base /\ Load' <= Load
  <2>1. Sizes
    BY SizesLemma
  <2>2. Base' = Base - 1 /\ Base \in Int
    BY <1>2, <1>4, <2>1 DEF Sizes, Base
  <2> QED
    BY <1>4, <1>5, <2>1, <2>2 DEF Sizes, Load
<1> QED
  BY <1>4, <1>6, <1>7, BudgetStep DEF BInv

\* main constructs the next actor.
LEMMA StartThreadKeepsBudget ==
    ASSUME IInv, IInv', BInv, StartThread
    PROVE  BInv' /\ Load' <= Load
<1> DEFINE a == Declared[overridden + 1]
<1>1. a \in Actors /\ pc[a] = "none" /\ a # Main
  <2>1. /\ overridden \in 0 .. 3 /\ overridden + 1 \in 1 .. 4
        /\ \A i \in 1 .. 4 : i > overridden => pc[Declared[i]] = "none"
    BY DeclaredLemma DEF IInv, TypeOK, Handling, Construction, StartThread
  <2> QED
    BY <2>1, DeclaredLemma, RolesLemma
<1>2. /\ pc' = [pc EXCEPT ![Main] = "derived", ![a] = "wait"]
      /\ pc \in [Threads -> {"none", "wait", "process", "finish",
                             "base", "derived", "body", "run"}]
      /\ pc[Main] = "base"
      /\ UNCHANGED <<queue, msg, todo, draft, listener, entered, overridden>>
  BY DEF StartThread, simulatorVars, IInv, TypeOK
<1>3. /\ pc'[Main] = "derived"
      /\ \/ pc'[Processor] = pc[Processor]
         \/ pc[Processor] = "none" /\ pc'[Processor] = "wait"
  <2> HIDE DEF a
  <2>1. a \in Threads /\ Main \in Threads /\ Processor \in Threads
    BY <1>1, RolesLemma DEF Threads
  <2>2. pc'[Main] = "derived"
    BY <1>1, <1>2, <2>1
  <2>3. ASSUME a = Processor
        PROVE  pc[Processor] = "none" /\ pc'[Processor] = "wait"
    BY <1>1, <1>2, <2>1, <2>3
  <2>4. ASSUME a # Processor PROVE pc'[Processor] = pc[Processor]
    BY <1>2, <2>1, <2>4, RolesLemma
  <2> QED
    BY <2>2, <2>3, <2>4
<1>4. /\ CallsUnbuilt' = CallsUnbuilt /\ CallsUnheard' = CallsUnheard
      /\ Size(Sensor)' = Size(Sensor) /\ Size(Processor)' = Size(Processor)
      /\ InUse' = InUse /\ Handled' = Handled /\ Entries' = Entries
      /\ Unregistered' = Unregistered /\ (Deaf' <=> Deaf)
  BY <1>2, SameCalls, CountedLemma
<1>5. Undecided' = Undecided /\ Deciding' = Deciding
  BY <1>3 DEF Undecided, Deciding, Count
<1>6. Unconstructed' = Unconstructed /\ (Constructing' <=> Constructing)
  BY <1>2, <1>3 DEF Unconstructed, Constructing, Count
<1>7. Callers'
  BY <1>2, <1>4, <1>6 DEF BInv, Callers
<1>8. Base' = Base /\ Load' = Load
  <2>1. Sizes
    BY SizesLemma
  <2>2. Base' = Base /\ Base \in Int
    BY <1>4, <1>6, <2>1 DEF Sizes, Base
  <2> QED
    BY <1>4, <1>5, <1>6, <2>1, <2>2 DEF Sizes, Load
<1> QED
  BY <1>4, <1>7, <1>8, LoadLemma, BudgetStep DEF BInv, Sums

\* An actor has its own processMsg; after the last one main has its three calls.
LEMMA OverrideKeepsBudget ==
    ASSUME IInv, IInv', BInv, Override
    PROVE  BInv' /\ Load' <= Load
<1>1. /\ pc[Main] = "derived" /\ Constructing /\ todo[Main] = <<>>
      /\ draft[Main] = nullptr /\ Main \in Threads
      /\ pc \in [Threads -> {"none", "wait", "process", "finish",
                             "base", "derived", "body", "run"}]
      /\ todo \in [Threads -> Seq(Calls)]
      /\ \/ pc' = [pc EXCEPT ![Main] = "base"] /\ todo' = todo
         \/ pc' = [pc EXCEPT ![Main] = "body"] /\ todo' = [todo EXCEPT ![Main] = Setup]
      /\ UNCHANGED <<queue, msg, draft, listener, entered>>
  BY RolesLemma
  DEF Override, Goto, Constructing, BInv, Callers, IInv, TypeOK, Handling, DraftForCall,
      simulatorVars
<1>2. pc'[Processor] = pc[Processor]
  BY <1>1, RolesLemma
<1>3. /\ Size(Sensor)' = Size(Sensor) /\ Size(Processor)' = Size(Processor)
      /\ InUse' = InUse /\ Handled' = Handled /\ Entries' = Entries
      /\ Undecided' = Undecided /\ Deciding' = Deciding
      /\ Unregistered' = Unregistered /\ (Deaf' <=> Deaf)
  BY <1>1, <1>2, CountedLemma
<1>4. Sizes /\ Sizes'
  BY SizesLemma, SizesNext
<1>5. CASE pc' = [pc EXCEPT ![Main] = "base"] /\ todo' = todo
  <2>1. pc'[Main] = "base"
    BY <1>1, <1>5
  <2>2. Unconstructed' = Unconstructed /\ Constructing'
    BY <1>1, <2>1 DEF Unconstructed, Constructing, Count
  <2>3. CallsUnbuilt' = CallsUnbuilt /\ CallsUnheard' = CallsUnheard
    BY <1>1, <1>5, SameCalls
  <2>4. Callers'
    BY <1>1, <1>3, <1>5, <2>2 DEF BInv, Callers
  <2>5. Base' = Base /\ Base \in Int
    BY <1>3, <1>4, <2>2, <2>3 DEF Sizes, Base
  <2>6. Load' = Load
    BY <1>3, <1>4, <2>2, <2>3, <2>5 DEF Sizes, Load
  <2> QED
    BY <1>3, <2>4, <2>5, <2>6, LoadLemma, BudgetStep DEF BInv, Sums
<1>6. CASE pc' = [pc EXCEPT ![Main] = "body"] /\ todo' = [todo EXCEPT ![Main] = Setup]
  <2>1. /\ pc'[Main] = "body" /\ todo'[Main] = Setup
        /\ \A u \in Threads \ {Main} : todo'[u] = todo[u] /\ draft'[u] = draft[u]
    BY <1>1, <1>6
  <2>2. Unconstructed = 1 /\ Unconstructed' = 0 /\ ~Constructing'
    BY <1>1, <2>1 DEF Unconstructed, Constructing, Count
  <2>3. /\ Len(Setup) = 3 /\ Setup # <<>>
        /\ Head(Setup).to = Sensor
        /\ \A i \in DOMAIN Setup : /\ Setup[i].to \in Leds \cup {Sensor}
                                   /\ i > 1 => Setup[i].to \in Leds
    BY RolesLemma DEF Setup, registerListener, start, Call
  <2>4. Unbuilt(Main) = 0 /\ Unbuilt(Main)' = 3
    <3>1. Count(draft[Main] # nullptr) = 0 /\ Count(draft[Main] # nullptr)' = 0
      BY <1>1 DEF Count
    <3>2. Len(todo[Main]) = 0 /\ Len(todo'[Main]) = 3
      BY <1>1, <2>1, <2>3
    <3>3. Unbuilt(Main) = 0 - 0 /\ Unbuilt(Main)' = 3 - 0
      BY <3>1, <3>2 DEF Unbuilt
    <3> QED
      BY <3>3
  <2>5. CallsSensor(Main) = 0 /\ CallsSensor(Main)' = 1
    <3>1. ~(todo[Main] # <<>> /\ Head(todo[Main]).to \notin Leds)
      BY <1>1
    <3>2. todo'[Main] # <<>> /\ Head(todo'[Main]).to \notin Leds
      BY <2>1, <2>3, RolesLemma
    <3> QED
      BY <3>1, <3>2 DEF CallsSensor, Count
  <2>6. CallsUnbuilt' = CallsUnbuilt + 3 /\ CallsUnheard' = CallsUnheard + 1
    <3>1. /\ CallsUnbuilt' = CallsUnbuilt + 3 - 0
          /\ CallsUnheard' = CallsUnheard + 1 - 0
      <4>1. /\ CallsUnbuilt' = CallsUnbuilt + Unbuilt(Main)' - Unbuilt(Main)
            /\ CallsUnheard' = CallsUnheard + CallsSensor(Main)' - CallsSensor(Main)
        BY <2>1, CallerLemma, RolesLemma
      <4> QED
        BY <2>4, <2>5, <4>1
    <3>2. /\ CallsUnbuilt \in Nat /\ CallsUnbuilt' \in Nat
          /\ CallsUnheard \in Nat /\ CallsUnheard' \in Nat
      BY <1>4 DEF Sizes
    <3> QED
      BY <3>1, <3>2
  <2>7. Callers'
    <3>1. ASSUME NEW u \in Threads, NEW i \in DOMAIN todo'[u]
          PROVE  /\ todo'[u][i].to \in Leds \cup {Sensor}
                 /\ i > 1 \/ u = Processor => todo'[u][i].to \in Leds
      BY <2>1, <2>3, <3>1, RolesLemma DEF BInv, Callers
    <3>2. \A u \in Threads : todo'[u] # <<>> => u \in {Main, Source, Processor}
      BY <2>1 DEF BInv, Callers
    <3> QED
      BY <1>1, <1>3, <2>2, <3>1, <3>2 DEF BInv, Callers
  <2>8. Base' = Base /\ Base \in Int
    BY <1>3, <1>4, <2>2, <2>6 DEF Sizes, Base
  <2>9. Load' = Load
    BY <1>3, <1>4, <2>2, <2>6, <2>8 DEF Sizes, Load
  <2> QED
    BY <1>3, <2>7, <2>8, <2>9, LoadLemma, BudgetStep DEF BInv, Sums
<1> QED
  BY <1>1, <1>5, <1>6

\* After the body of the last constructor main goes on.
LEMMA ReturnKeepsBudget ==
    ASSUME IInv, IInv', BInv, Return
    PROVE  BInv' /\ Load' <= Load
<1>1. /\ pc[Main] = "body" /\ pc'[Main] = "run" /\ pc'[Processor] = pc[Processor]
      /\ UNCHANGED <<queue, msg, todo, draft, listener, entered>>
  BY ReturnLemma, RolesLemma
<1>2. Unconstructed' = Unconstructed /\ ~Constructing /\ ~Constructing'
  BY <1>1 DEF Unconstructed, Constructing, Count
<1>3. /\ CallsUnbuilt' = CallsUnbuilt /\ CallsUnheard' = CallsUnheard
      /\ Size(Sensor)' = Size(Sensor) /\ Size(Processor)' = Size(Processor)
      /\ InUse' = InUse /\ Handled' = Handled /\ Entries' = Entries
      /\ Undecided' = Undecided /\ Deciding' = Deciding
      /\ Unregistered' = Unregistered /\ (Deaf' <=> Deaf)
  BY <1>1, SameCalls, CountedLemma
<1>4. Callers'
  BY <1>1, <1>2, <1>3 DEF BInv, Callers
<1>5. Base' = Base /\ Load' = Load
  <2>1. Sizes
    BY SizesLemma
  <2>2. Base' = Base /\ Base \in Int
    BY <1>2, <1>3, <2>1 DEF Sizes, Base
  <2> QED
    BY <1>2, <1>3, <2>1, <2>2 DEF Sizes, Load
<1> QED
  BY <1>3, <1>4, <1>5, LoadLemma, BudgetStep DEF BInv, Sums

\* A reading brings one call with it, and a right to two messages.
LEMMA TakeReadingKeepsBudget ==
    ASSUME IInv, IInv', BInv, TakeReading
    PROVE  BInv' /\ Load' <= Load
<1>1. /\ todo[Source] = <<>> /\ draft[Source] = nullptr /\ Source \in Threads
      /\ todo \in [Threads -> Seq(Calls)] /\ entered \in Seq(Pressures \ {0})
      /\ Source = Main => ~Constructing
      /\ Entries < MaxReadings
      /\ UNCHANGED <<queue, msg, draft, pc, listener>>
  BY RolesLemma
  DEF TakeReading, Display, Constructing, IInv, TypeOK, SimulatorTypeOK, Handling,
      DraftForCall, Entries
<1>2. /\ Size(Sensor)' = Size(Sensor) /\ Size(Processor)' = Size(Processor)
      /\ InUse' = InUse /\ Handled' = Handled
      /\ Undecided' = Undecided /\ Deciding' = Deciding
      /\ Unregistered' = Unregistered /\ (Deaf' <=> Deaf)
      /\ Unconstructed' = Unconstructed /\ (Constructing' <=> Constructing)
  BY <1>1, CountedLemma
<1>3. Sizes /\ Sizes'
  BY SizesLemma, SizesNext
<1>4. CASE todo' = todo /\ entered' = entered
  <2>1. /\ CallsUnbuilt' = CallsUnbuilt /\ CallsUnheard' = CallsUnheard
        /\ Entries' = Entries
    BY <1>1, <1>4, SameCalls, CountedLemma
  <2>2. Callers'
    BY <1>1, <1>2, <1>4, <2>1 DEF BInv, Callers
  <2>3. Base' = Base /\ Base \in Int
    BY <1>2, <1>3, <2>1 DEF Sizes, Base
  <2>4. Load' = Load
    BY <1>2, <1>3, <2>1, <2>3 DEF Sizes, Load
  <2> QED
    BY <1>2, <2>2, <2>3, <2>4, LoadLemma, BudgetStep DEF BInv, Sums
<1>5. CASE panel' > 0
  <2> DEFINE c == Call(Sensor, PressureSensorData(panel'))
  <2>1. /\ todo' = [todo EXCEPT ![Source] = <<c>>]
        /\ entered' = Append(entered, panel')
    BY <1>5 DEF TakeReading, Display
  <2>2. c.to = Sensor
    BY DEF Call
  <2> HIDE DEF c
  <2>3. /\ todo'[Source] = <<c>>
        /\ \A u \in Threads \ {Source} : todo'[u] = todo[u] /\ draft'[u] = draft[u]
    BY <1>1, <2>1
  <2>4. Entries' = Entries + 1
    <3>1. panel' \in Pressures \ {0}
      BY <1>5 DEF IInv, TypeOK, SimulatorTypeOK
    <3>2. Len(Append(entered, panel')) = Len(entered) + 1
      BY <1>1, <3>1, AppendProperties
    <3> QED
      BY <2>1, <3>2 DEF Entries
  <2>5. Unbuilt(Source) = 0 /\ Unbuilt(Source)' = 1
    <3>1. Count(draft[Source] # nullptr) = 0 /\ Count(draft[Source] # nullptr)' = 0
      BY <1>1 DEF Count
    <3>2. Len(todo[Source]) = 0 /\ Len(todo'[Source]) = 1
      BY <1>1, <2>3
    <3>3. Unbuilt(Source) = 0 - 0 /\ Unbuilt(Source)' = 1 - 0
      BY <3>1, <3>2 DEF Unbuilt
    <3> QED
      BY <3>3
  <2>6. CallsSensor(Source) = 0 /\ CallsSensor(Source)' = 1
    <3>1. ~(todo[Source] # <<>> /\ Head(todo[Source]).to \notin Leds)
      BY <1>1
    <3>2. todo'[Source] # <<>> /\ Head(todo'[Source]).to \notin Leds
      BY <2>2, <2>3, RolesLemma
    <3> QED
      BY <3>1, <3>2 DEF CallsSensor, Count
  <2>7. CallsUnbuilt' = CallsUnbuilt + 1 /\ CallsUnheard' = CallsUnheard + 1
    <3>1. /\ CallsUnbuilt' = CallsUnbuilt + 1 - 0
          /\ CallsUnheard' = CallsUnheard + 1 - 0
      <4>1. /\ CallsUnbuilt' = CallsUnbuilt + Unbuilt(Source)' - Unbuilt(Source)
            /\ CallsUnheard' = CallsUnheard + CallsSensor(Source)' - CallsSensor(Source)
        BY <2>3, CallerLemma, RolesLemma
      <4> QED
        BY <2>5, <2>6, <4>1
    <3>2. /\ CallsUnbuilt \in Nat /\ CallsUnbuilt' \in Nat
          /\ CallsUnheard \in Nat /\ CallsUnheard' \in Nat
      BY <1>3 DEF Sizes
    <3> QED
      BY <3>1, <3>2
  <2>8. Callers'
    <3>1. ASSUME NEW u \in Threads, NEW i \in DOMAIN todo'[u]
          PROVE  /\ todo'[u][i].to \in Leds \cup {Sensor}
                 /\ i > 1 \/ u = Processor => todo'[u][i].to \in Leds
      <4>1. CASE u = Source
        <5>1. i = 1 /\ todo'[u][i] = c
          BY <2>3, <3>1, <4>1
        <5> QED
          BY <2>2, <4>1, <5>1, RolesLemma
      <4>2. CASE u # Source
        BY <2>3, <3>1, <4>2 DEF BInv, Callers
      <4> QED
        BY <4>1, <4>2
    <3>2. \A u \in Threads : todo'[u] # <<>> => u \in {Main, Source, Processor}
      BY <2>3 DEF BInv, Callers
    <3>3. Entries' <= MaxReadings
      BY <1>1, <1>3, <2>4, MaxReadingsAssumption DEF Sizes
    <3>4. Constructing' => todo'[Main] = <<>>
      BY <1>1, <1>2, <2>3, RolesLemma DEF BInv, Callers
    <3> QED
      BY <1>1, <1>2, <3>1, <3>2, <3>3, <3>4 DEF BInv, Callers
  <2>9. Base' = Base /\ Base \in Int
    BY <1>2, <1>3, <2>4, <2>7 DEF Sizes, Base
  <2>10. Load' = Load
    BY <1>2, <1>3, <2>4, <2>7, <2>9 DEF Sizes, Load
  <2> QED
    BY <1>2, <2>8, <2>9, <2>10, LoadLemma, BudgetStep DEF BInv, Sums
<1> QED
  BY <1>4, <1>5 DEF TakeReading, Display

\* What leaves alone the variables the budget counts from keeps it.
LEMMA StayKeepsBudget ==
    ASSUME IInv, IInv', BInv,
           UNCHANGED <<queue, msg, draft, todo, pc, listener, entered>>
    PROVE  BInv' /\ Load' <= Load
<1>1. /\ Size(Sensor)' = Size(Sensor) /\ Size(Processor)' = Size(Processor)
      /\ InUse' = InUse /\ Handled' = Handled /\ Entries' = Entries
      /\ Undecided' = Undecided /\ Deciding' = Deciding
      /\ Unregistered' = Unregistered /\ (Deaf' <=> Deaf)
      /\ Unconstructed' = Unconstructed /\ (Constructing' <=> Constructing)
      /\ CallsUnbuilt' = CallsUnbuilt /\ CallsUnheard' = CallsUnheard
  BY SameCalls, CountedLemma
<1>2. Callers'
  BY <1>1 DEF BInv, Callers
<1>3. Base' = Base /\ Load' = Load
  BY <1>1 DEF Base, Load
<1> QED
  BY <1>1, <1>2, <1>3, LoadLemma, BudgetStep DEF BInv, Sums

\* The inductive step of the budget: no step adds to the load, since a reading
\* brings what it may use.
LEMMA StepKeepsBudget == IInv /\ IInv' /\ BInv /\ [Next]_vars => BInv' /\ Load' <= Load
<1> SUFFICES ASSUME IInv, IInv', BInv, [Next]_vars PROVE BInv' /\ Load' <= Load
  OBVIOUS
<1>1. ASSUME NEW t \in Threads, CallStep(t) PROVE BInv' /\ Load' <= Load
  <2>1. CASE BuildFromEmptyPool(t)
    BY <1>1, <2>1, StayKeepsBudget DEF CallStep, BuildFromEmptyPool, simulatorVars
  <2> QED
    BY <1>1, <2>1, BuildKeepsBudget, SendKeepsBudget DEF CallStep
<1>2. ASSUME NEW a \in Actors, ReceiveStep(a) PROVE BInv' /\ Load' <= Load
  BY <1>2, ReceiveKeepsBudget DEF ReceiveStep
<1>3. ASSUME NEW l \in Leds, LedStep(l) PROVE BInv' /\ Load' <= Load
  <2>1. CASE LedToggle(l)
    BY <1>3, <2>1, StayKeepsBudget DEF LedStep, LedToggle, TimesOut, vinciVars, simulatorVars
  <2> QED
    BY <1>3, <2>1, LedKeepsBudget DEF LedStep
<1>4. CASE SensorStep
  BY <1>4, RegisterKeepsBudget, ForwardKeepsBudget DEF SensorStep
<1>5. CASE ProcessorStep
  BY <1>5, DecideKeepsBudget, ReleaseKeepsBudget DEF ProcessorStep
<1>6. CASE UNCHANGED vars
  BY <1>6, StayKeepsBudget DEF vars, vinciVars, simulatorVars
<1>7. ASSUME NEW a \in Actors, ActorThread(a) PROVE BInv' /\ Load' <= Load
  BY <1>1, <1>2, <1>3, <1>4, <1>5, <1>7 DEF ActorThread, Threads
<1>8. ASSUME NEW t \in Clients, ClientThread(t) PROVE BInv' /\ Load' <= Load
  BY <1>1, <1>8, StartThreadKeepsBudget, OverrideKeepsBudget, ReturnKeepsBudget
  DEF ClientThread, Threads
<1> QED
  BY <1>6, <1>7, <1>8, TakeReadingKeepsBudget DEF Next

\* The first three of main are what the budget starts with.
LEMMA InitBudget == Init => BInv
<1> SUFFICES ASSUME Init PROVE BInv
  OBVIOUS
<1>1. /\ \A t \in Threads : todo[t] = <<>> /\ draft[t] = nullptr
      /\ \A a \in Actors : queue[a] = <<>> /\ msg[a] = nullptr /\ a # Main
      /\ queue[Pool] = [m \in Message |-> m]
      /\ pc[Main] = "base" /\ pc[Processor] = "none"
      /\ Deaf /\ entered = <<>>
  BY RolesLemma, ActorsAssumption
  DEF Init, VinciInit, SensorInit, SimulatorInit, Deaf, Queues, Threads
<1>2. Callers
  <2>1. Entries <= MaxReadings
    BY <1>1, MaxReadingsAssumption DEF Entries
  <2> QED
    BY <1>1, <2>1, RolesLemma DEF Callers
<1>3. CallsUnbuilt = 0 /\ CallsUnheard = 0
  <2>1. ASSUME NEW t \in Threads PROVE Unbuilt(t) = 0 /\ CallsSensor(t) = 0
    <3>1. Count(draft[t] # nullptr) = 0 /\ Len(todo[t]) = 0 /\ todo[t] = <<>>
      BY <1>1 DEF Count
    <3>2. Unbuilt(t) = 0 - 0
      BY <3>1 DEF Unbuilt
    <3>3. CallsSensor(t) = 0
      BY <3>1 DEF CallsSensor, Count
    <3> QED
      BY <3>2, <3>3
  <2> QED
    BY <2>1, RolesLemma DEF CallsUnbuilt, CallsUnheard
<1>4. Size(Sensor) = 0 /\ Size(Processor) = 0
  BY <1>1, RolesLemma DEF Size
<1>5. InUse = 0
  <2>1. Len([m \in Message |-> m]) = PoolSize
    BY PoolSizeAssumption DEF Message
  <2> QED
    BY <1>1, <2>1, PoolSizeAssumption DEF InUse, Size
<1>6. /\ Handled = 0 /\ Undecided = 0 /\ Deciding = 0
      /\ Unconstructed = 1 /\ Unregistered = 1 /\ Entries = 0
  BY <1>1, RolesLemma
  DEF Handled, Undecided, Deciding, Unconstructed, Constructing, Unregistered, Entries, Count
<1>7. Base = 3 /\ Load = 2
  BY <1>3, <1>4, <1>5, <1>6 DEF Base, Load
<1> QED
  BY <1>2, <1>7 DEF BInv, Budget

\* A build that finds no message free is not the last.
LEMMA BuildUsesAll ==
    ASSUME IInv, BInv, NEW t \in Threads, BuildFromEmptyPool(t)
    PROVE  InUse = PoolSize /\ CallsUnbuilt \in Nat \ {0}
<1>1. t \in {Main, Source, Processor} /\ todo[t] # <<>> /\ draft[t] = nullptr
  BY DEF BInv, Callers, BuildFromEmptyPool
<1>2. InUse = PoolSize
  BY PoolSizeAssumption DEF BuildFromEmptyPool, InUse, Size
<1>3. Unbuilt(t) \in Nat \ {0}
  <2>1. Len(todo[t]) \in Nat \ {0}
    <3>1. todo[t] \in Seq(Calls)
      BY DEF IInv, TypeOK
    <3> QED
      BY <1>1, <3>1, EmptySeq, LenProperties
  <2>2. Count(draft[t] # nullptr) = 0
    BY <1>1 DEF Count
  <2>3. Unbuilt(t) = Len(todo[t]) - 0
    BY <2>2 DEF Unbuilt
  <2> QED
    BY <2>1, <2>3
<1>4. CallsUnbuilt \in Nat \ {0}
  BY <1>1, <1>3, ThreadSizesLemma, RolesLemma DEF ThreadSizes, CallsUnbuilt
<1> QED
  BY <1>2, <1>4

\* Nothing but such a build dereferences a null pointer.
LEMMA OnlyBuildsCrash ==
    ASSUME [Next]_vars, \A t \in Threads : ~BuildFromEmptyPool(t)
    PROVE  crashed' = crashed
<1>1. ASSUME NEW t \in Threads, CallStep(t) PROVE crashed' = crashed
  BY <1>1 DEF CallStep, Build, Send, SendFails
<1>2. ASSUME NEW a \in Actors, ReceiveStep(a) \/ LedStep(a) PROVE crashed' = crashed
  BY <1>2 DEF ReceiveStep, Receive, LedStep, LedProcess, LedToggle, TimesOut, Dispose,
              vinciVars
<1>3. ASSUME \/ SensorStep \/ ProcessorStep \/ StartThread \/ Override
             \/ Return \/ TakeReading \/ UNCHANGED vars
      PROVE  crashed' = crashed
  BY <1>3 DEF SensorStep, SensorRegister, SensorForward, SensorDrop, ProcessorStep,
              ProcessorDecide, ProcessorRelease, Dispose, StartThread, Override,
              Return, TakeReading, Display, vars, vinciVars
<1> QED
  BY <1>1, <1>2, <1>3 DEF Next, ActorThread, ClientThread, Threads

\* A build finds a free message while the budget holds.
LEMMA BuildFindsFree ==
    ASSUME IInv, BInv, PoolSize >= 2 * MaxReadings + 3, NEW t \in Threads
    PROVE  ~BuildFromEmptyPool(t)
<1> SUFFICES ASSUME BuildFromEmptyPool(t) PROVE FALSE
  OBVIOUS
<1>1. InUse = PoolSize /\ CallsUnbuilt \in Nat \ {0}
  BY BuildUsesAll
<1>2. Sizes
  BY SizesLemma
<1>3. Deciding \in 0 .. 1 /\ Entries \in 0 .. MaxReadings
  BY <1>2, MaxReadingsAssumption DEF Deciding, Count, Sizes, BInv, Callers
<1>4. Base = PoolSize + CallsUnbuilt + 3 * Unconstructed - Entries
  BY <1>1 DEF Base
<1>5. CASE Deaf
  <2>1. Base <= 3
    BY <1>5 DEF BInv, Budget
  <2> QED
    BY <1>1, <1>2, <1>3, <1>4, <2>1, MaxReadingsAssumption, PoolSizeAssumption DEF Sizes
<1>6. CASE ~Deaf
  <2>1. Load <= 2 /\ Unregistered = 0
    BY <1>6 DEF BInv, Budget, Unregistered, Count
  <2> QED
    BY <1>1, <1>2, <1>3, <1>4, <2>1, MaxReadingsAssumption, PoolSizeAssumption DEF Sizes, Load
<1> QED
  BY <1>5, <1>6

\* The pool has a message for every build when it has two for each reading and
\* three for the setup of main: with the ten of the program three readings can
\* never exhaust it, whoever takes them, in whatever order the threads run and
\* whatever a build with optimisation reads.
THEOREM PoolSuffices ==
    ASSUME PoolSize >= 2 * MaxReadings + 3
    PROVE  Spec => []NoNullDereference
<1>1. Init => NoNullDereference
  BY DEF Init, VinciInit, NoNullDereference
<1>2. IInv /\ BInv /\ NoNullDereference /\ [Next]_vars => NoNullDereference'
  BY BuildFindsFree, OnlyBuildsCrash DEF NoNullDereference
<1> QED
  BY <1>1, <1>2, InitInv, StepKeepsInv, InitBudget, StepKeepsBudget, PTL DEF Spec
=============================================================================
