--------------------------- MODULE TimedDemoProofs ---------------------------
(***************************************************************************)
(* Proofs about the demo program with its clock: it is a behaviour of the  *)
(* program without one, so that all that is proved of that holds under the *)
(* clock; a wait never has more time left than its LED's rate; a reading   *)
(* finds the program calm, so that every LED is late by one reading at     *)
(* most and five messages are enough for any number of readings.           *)
(***************************************************************************)
EXTENDS TimedDemo, DemoRegulationProofs

LEMMA TimedStepLemma == TimedNext => [Next]_vars
BY DEF TimedNext, Compute, TakeReadingAndSleep, Tick, Next

\* The clock takes away behaviours of the program and adds none: with it the
\* program runs its threads in some of the orders it has without it.
THEOREM TimedImplementsDemo == TimedSpec => Spec
<1>1. TimedInit => Init
  BY DEF TimedInit
<1>2. [TimedNext]_timedVars => [Next]_vars
  BY TimedStepLemma DEF timedVars
<1> QED
  BY <1>1, <1>2, PTL DEF TimedSpec, Spec

\* Under the clock no message has two owners.
THEOREM TimedOwnersSole == TimedSpec => []SoleOwner
BY TimedImplementsDemo, DemoOwnersSole, PTL

-----------------------------------------------------------------------------
(* The time left of a wait. *)

LEMMA TimedInv == TimedSpec => []IInv
<1>1. Spec => []IInv
  BY InitInv, StepKeepsInv, PTL DEF Spec
<1> QED
  BY <1>1, TimedImplementsDemo, PTL

\* A LED's delay is changed by its own processMsg only, never in a wait.
LEMMA DelayLemma ==
    ASSUME IInv, [Next]_vars, NEW l \in Leds, pc[l] = "wait"
    PROVE  waitDelay'[l] = waitDelay[l]
<1> USE LedsAssumption DEF IInv, TypeOK, VinciTypeOK
<1>1. ASSUME NEW t \in Threads, CallStep(t) PROVE waitDelay' = waitDelay
  BY <1>1 DEF CallStep, Build, BuildFromEmptyPool, Send, SendFails
<1>2. ASSUME NEW k \in Leds, LedStep(k) PROVE waitDelay'[l] = waitDelay[l]
  BY <1>2 DEF LedStep, LedProcess, LedToggle, TimesOut, vinciVars
<1>3. ASSUME \/ SensorStep \/ ProcessorStep \/ TakeReading \/ StartThread \/ Override
             \/ Return
      PROVE  waitDelay' = waitDelay
  BY <1>3 DEF SensorStep, SensorRegister, SensorForward, SensorDrop, ProcessorStep,
              ProcessorDecide, ProcessorRelease, TakeReading, Display, StartThread,
              Override, Return
<1>4. ASSUME NEW a \in Actors, ReceiveStep(a) PROVE waitDelay' = waitDelay
  BY <1>4 DEF ReceiveStep, Receive
<1> QED
  BY <1>1, <1>2, <1>3, <1>4 DEF Next, ActorThread, ClientThread, vars, vinciVars, Threads

\* Delays are natural numbers.
LEMMA DelayTypeLemma ==
    ASSUME IInv
    PROVE  \A l \in Leds : l \in Actors /\ waitDelay[l] \in Nat
<1>1. Rates \subseteq Nat
  BY DEF Rates
<1>2. waitDelay \in [Actors -> Rates]
  BY DEF IInv, TypeOK, VinciTypeOK
<1> QED
  BY <1>1, <1>2, LedsAssumption

\* A step of a thread gives each LED that begins a wait the time of its delay.
LEMMA StartWaitsLemma ==
    ASSUME IInv, IInv', [Next]_vars, ClockTypeOK, StartWaits, Record,
           nap' \in 0 .. 1
    PROVE  ClockTypeOK'
<1>1. \A l \in Leds : waitDelay'[l] \in Nat
  <2>1. Rates \subseteq Nat
    BY DEF Rates
  <2>2. waitDelay' \in [Actors -> Rates]
    BY DEF IInv, TypeOK, VinciTypeOK
  <2> QED
    BY <2>1, <2>2, LedsAssumption
<1>2. \A n \in Nat : n \div Unit \in Nat /\ (n \div Unit) * Unit <= n
  BY DEF Unit
<1>3. left' \in [Leds -> Nat]
  BY <1>1, <1>2 DEF ClockTypeOK, StartWaits, NextDelay
<1>4. ASSUME NEW l \in Leds, waitDelay'[l] > 0, pc'[l] = "wait"
      PROVE  left'[l] * Unit <= waitDelay'[l]
  <2>1. CASE pc[l] # "wait" \/ on'[l] # on[l]
    BY <1>1, <1>2, <1>4, <2>1 DEF StartWaits, NextDelay
  <2>2. CASE pc[l] = "wait" /\ on'[l] = on[l]
    BY <1>4, <2>2, DelayLemma DEF StartWaits, ClockTypeOK
  <2> QED
    BY <2>1, <2>2
<1>5. since' \in [Leds -> 0 .. Horizon] /\ idle' \in 0 .. Horizon
  BY HorizonAssumption DEF ClockTypeOK, Record
<1> QED
  BY <1>3, <1>4, <1>5 DEF ClockTypeOK

\* Time passes only when no wait is over: none has less than no time left.
LEMMA TickLemma ==
    ASSUME IInv, ClockTypeOK, Tick
    PROVE  ClockTypeOK'
<1>1. \A l \in Leds : /\ waitDelay[l] \in Nat /\ left[l] \in Nat
                      /\ pc[l] = "wait"
                      /\ (waitDelay[l] > 0 => left[l] # 0)
  BY DelayTypeLemma DEF ClockTypeOK, Tick, Quiet, Due
<1>2. left' \in [Leds -> Nat]
  BY <1>1 DEF Tick
<1>3. \A l \in Leds : waitDelay'[l] > 0 /\ pc'[l] = "wait"
                        => left'[l] * Unit <= waitDelay'[l]
  BY <1>1 DEF ClockTypeOK, Tick, vars, vinciVars, Unit
<1>4. since' \in [Leds -> 0 .. Horizon] /\ idle' \in 0 .. Horizon
  BY HorizonAssumption DEF ClockTypeOK, Tick, Later
<1> QED
  BY <1>2, <1>3, <1>4 DEF ClockTypeOK, Tick

\* No LED waits longer than its rate: what is left of a wait is at most the
\* delay, also after a command has changed the delay, and never negative.
THEOREM ClockTypeCorrect == TimedSpec => []ClockTypeOK
<1>1. TimedInit => ClockTypeOK
  <2> SUFFICES ASSUME TimedInit PROVE ClockTypeOK
    OBVIOUS
  <2>1. \A l \in Leds : waitDelay[l] = 0
    BY LedsAssumption DEF TimedInit, Init, VinciInit
  <2> QED
    BY <2>1, HorizonAssumption DEF TimedInit, ClockTypeOK
<1>2. IInv /\ IInv' /\ ClockTypeOK /\ [TimedNext]_timedVars => ClockTypeOK'
  <2> SUFFICES ASSUME IInv, IInv', ClockTypeOK, [TimedNext]_timedVars
               PROVE  ClockTypeOK'
    OBVIOUS
  <2>1. CASE Compute
    BY <2>1, TimedStepLemma, StartWaitsLemma DEF Compute, TimedNext, ClockTypeOK
  <2>2. CASE TakeReadingAndSleep
    BY <2>2, TimedStepLemma, StartWaitsLemma DEF TakeReadingAndSleep, TimedNext
  <2>3. CASE Tick
    BY <2>3, TickLemma
  <2>4. CASE UNCHANGED timedVars
    BY <2>4 DEF timedVars, clockVars, vars, vinciVars, ClockTypeOK
  <2> QED
    BY <2>1, <2>2, <2>3, <2>4 DEF TimedNext
<1> QED
  BY <1>1, <1>2, TimedInv, PTL DEF TimedSpec

-----------------------------------------------------------------------------
(* Between two readings. *)

\* Nothing is under way.
Calm == /\ pc[Main] = "run"
        /\ \A t \in Threads : todo[t] = <<>>
        /\ \A a \in Actors : pc[a] = "wait" /\ queue[a] = <<>>

\* All is calm after main's sleep, and since the last reading some time ago.
CalmOK == /\ entered # <<>> /\ nap = 0 => Calm
          /\ idle > 0 => Calm

\* While all is calm the only step of a thread is the toggle of a LED.
LEMMA CalmStep ==
    ASSUME IInv, Calm,
           \/ \E a \in Actors : ActorThread(a)
           \/ \E t \in Clients : ClientThread(t)
    PROVE  Calm' /\ entered' = entered
<1>1. ASSUME NEW t \in Threads, CallStep(t) PROVE FALSE
  BY <1>1 DEF Calm, CallStep, Build, BuildFromEmptyPool, Send, SendFails, IInv, Handling,
              DraftForCall
<1>2. ASSUME NEW a \in Actors, ReceiveStep(a) PROVE FALSE
  BY <1>2 DEF Calm, ReceiveStep, Receive
<1>3. ASSUME SensorStep \/ ProcessorStep \/ StartThread \/ Override \/ Return PROVE FALSE
  BY <1>3, RolesLemma
  DEF Calm, SensorStep, SensorRegister, SensorForward, SensorDrop, ProcessorStep,
      ProcessorDecide, ProcessorRelease, StartThread, Override, Return
<1>4. ASSUME NEW l \in Leds, LedStep(l) PROVE Calm' /\ entered' = entered
  BY <1>4, LedsAssumption
  DEF Calm, LedStep, LedProcess, LedToggle, TimesOut, vinciVars, simulatorVars
<1> QED
  BY <1>1, <1>2, <1>3, <1>4 DEF ActorThread, ClientThread, Threads

\* A turn of main's loop that passes nothing on leaves all calm.
LEMMA CalmTurn ==
    ASSUME IInv, Calm, TakeReading, entered' = entered
    PROVE  Calm'
<1>1. entered \in Seq(Pressures \ {0}) /\ panel' \in Pressures \cup {0}
  BY DEF TakeReading, Display, ReadNumber, ReadGarbage, ReadNothing, IInv, TypeOK,
         SimulatorTypeOK
<1>2. ~(panel' > 0)
  <2> SUFFICES ASSUME panel' > 0 PROVE FALSE
    OBVIOUS
  <2>1. panel' \in Pressures \ {0}
    BY <1>1
  <2>2. Len(Append(entered, panel')) = Len(entered) + 1 /\ Len(entered) \in Nat
    BY <1>1, <2>1, AppendProperties, LenProperties
  <2>3. entered' = Append(entered, panel')
    BY DEF TakeReading, Display
  <2> QED
    BY <2>2, <2>3
<1> QED
  BY <1>2 DEF TakeReading, Display, Calm

\* Only main's loop enters readings.
LEMMA ComputeEnters == Compute => entered' = entered
<1>1. ASSUME NEW t \in Threads, CallStep(t) PROVE entered' = entered
  BY <1>1 DEF CallStep, simulatorVars
<1>2. ASSUME NEW a \in Actors, ActorThread(a) PROVE entered' = entered
  BY <1>1, <1>2 DEF ActorThread, ReceiveStep, LedStep, SensorStep, ProcessorStep,
                    simulatorVars, Threads
<1>3. ASSUME NEW t \in Clients, ClientThread(t) PROVE entered' = entered
  BY <1>1, <1>3 DEF ClientThread, StartThread, Override, Return, simulatorVars, Threads
<1> QED
  BY <1>2, <1>3 DEF Compute

\* Calm comes with time and goes with a reading.
LEMMA StepKeepsCalm ==
    IInv /\ ClockTypeOK /\ CalmOK /\ [TimedNext]_timedVars => CalmOK'
<1> SUFFICES ASSUME IInv, ClockTypeOK, CalmOK, [TimedNext]_timedVars PROVE CalmOK'
  OBVIOUS
<1>1. CASE Compute
  <2>1. CASE Calm
    BY <1>1, <2>1, CalmStep DEF Compute, CalmOK
  <2>2. CASE ~Calm
    <3>1. entered' = entered
      BY <1>1, ComputeEnters
    <3> QED
      BY <1>1, <2>2, <3>1 DEF CalmOK, Compute, Record
  <2> QED
    BY <2>1, <2>2
<1>2. CASE TakeReadingAndSleep
  <2>1. entered' # entered => idle' = 0
    BY <1>2 DEF TakeReadingAndSleep, Record
  <2>2. entered' = entered => idle' = idle /\ (Calm => Calm')
    BY <1>2, CalmTurn DEF TakeReadingAndSleep, Record
  <2> QED
    BY <1>2, <2>1, <2>2 DEF CalmOK, TakeReadingAndSleep
<1>3. CASE Tick
  BY <1>3 DEF Tick, Quiet, Calm, CalmOK, vars, vinciVars
<1>4. CASE UNCHANGED timedVars
  BY <1>4 DEF timedVars, clockVars, vars, vinciVars, simulatorVars, CalmOK, Calm
<1> QED
  BY <1>1, <1>2, <1>3, <1>4 DEF TimedNext

\* The program starts before its first reading.
LEMMA InitCalm == TimedInit => CalmOK
BY DEF TimedInit, Init, SimulatorInit, CalmOK

-----------------------------------------------------------------------------
(* The periods of the LEDs. *)

\* The wait of a LED ends in the period after its last toggle or change of
\* rate, or in the one after the last reading.
OnTime ==
    \A l \in Leds : pc[l] = "wait" /\ waitDelay[l] > 0 =>
        \/ (since[l] + left[l]) * Unit <= waitDelay[l]
        \/ (idle + left[l]) * Unit <= waitDelay[l]

\* A wait begins with a toggle, or with a command while a reading is applied.
LEMMA ComputeOnTime ==
    ASSUME IInv, IInv', [Next]_vars, ClockTypeOK, ClockTypeOK', CalmOK, OnTime,
           StartWaits, Record
    PROVE  OnTime'
<1> SUFFICES ASSUME NEW l \in Leds, pc'[l] = "wait", waitDelay'[l] > 0
             PROVE  \/ (since'[l] + left'[l]) * Unit <= waitDelay'[l]
                    \/ (idle' + left'[l]) * Unit <= waitDelay'[l]
  BY DEF OnTime
<1>1. /\ left'[l] \in Nat /\ since'[l] \in Nat /\ idle' \in Nat /\ idle \in Nat
      /\ left'[l] * Unit <= waitDelay'[l]
      /\ l \in Actors
  BY LedsAssumption, HorizonAssumption DEF ClockTypeOK
<1>2. CASE on'[l] # on[l]
  <2>1. since'[l] = 0
    BY <1>2 DEF Record
  <2> QED
    BY <1>1, <2>1
<1>3. CASE pc[l] # "wait"
  <2>1. idle = 0 /\ idle' = 0
    BY <1>1, <1>3 DEF CalmOK, Calm, Record
  <2> QED
    BY <1>1, <2>1
<1>4. CASE pc[l] = "wait" /\ on'[l] = on[l]
  <2>1. waitDelay'[l] = waitDelay[l]
    BY <1>4, DelayLemma
  <2>2. left'[l] = left[l] /\ since'[l] = since[l] /\ idle' \in {0, idle}
    BY <1>4, <2>1 DEF StartWaits, Record
  <2>3. \/ (since[l] + left[l]) * Unit <= waitDelay[l]
        \/ (idle + left[l]) * Unit <= waitDelay[l]
    BY <1>4, <2>1 DEF OnTime
  <2>4. CASE idle' = 0
    BY <1>1, <2>4
  <2>5. CASE idle' = idle
    BY <2>1, <2>2, <2>3, <2>5
  <2> QED
    BY <2>2, <2>4, <2>5
<1> QED
  BY <1>2, <1>3, <1>4

\* Time that passes is taken from the waits.
LEMMA TickOnTime ==
    ASSUME IInv, ClockTypeOK, OnTime, Tick
    PROVE  OnTime'
<1> SUFFICES ASSUME NEW l \in Leds, pc'[l] = "wait", waitDelay'[l] > 0
             PROVE  \/ (since'[l] + left'[l]) * Unit <= waitDelay'[l]
                    \/ (idle' + left'[l]) * Unit <= waitDelay'[l]
  BY DEF OnTime
<1>1. /\ pc[l] = "wait" /\ waitDelay'[l] = waitDelay[l] /\ waitDelay[l] > 0
      /\ left[l] \in Nat /\ left[l] # 0
      /\ since[l] \in Nat /\ idle \in Nat /\ waitDelay[l] \in Nat
  BY DelayTypeLemma, HorizonAssumption
  DEF ClockTypeOK, Tick, Quiet, Due, vars, vinciVars
<1>2. left'[l] = left[l] - 1
  BY <1>1 DEF Tick
<1>3. since'[l] \in {since[l], since[l] + 1} /\ idle' \in {idle, idle + 1}
  BY DEF Tick, Later
<1>4. \/ (since[l] + left[l]) * Unit <= waitDelay[l]
      \/ (idle + left[l]) * Unit <= waitDelay[l]
  BY <1>1 DEF OnTime
<1>5. ASSUME NEW n \in Nat, NEW k \in {n, n + 1}, (n + left[l]) * Unit <= waitDelay[l]
      PROVE  (k + (left[l] - 1)) * Unit <= waitDelay[l]
  <2>1. k + (left[l] - 1) \in {n + left[l], n + left[l] - 1}
    BY <1>1, <1>5
  <2> QED
    BY <1>1, <1>5, <2>1 DEF Unit
<1> QED
  BY <1>1, <1>2, <1>3, <1>4, <1>5

\* A LED is late for a toggle only when a reading has started its wait again:
\* then the reading is not older than the LED's rate.
THEOREM LateByReadingsOnly == TimedSpec => []LateOnlyByReading
<1>1. TimedInit => OnTime
  BY LedsAssumption DEF TimedInit, Init, VinciInit, OnTime
<1>2. IInv /\ IInv' /\ ClockTypeOK /\ ClockTypeOK' /\ CalmOK /\ OnTime
        /\ [TimedNext]_timedVars => OnTime'
  <2> SUFFICES ASSUME IInv, IInv', ClockTypeOK, ClockTypeOK', CalmOK, OnTime,
                      [TimedNext]_timedVars
               PROVE  OnTime'
    OBVIOUS
  <2>1. CASE Compute
    BY <2>1, TimedStepLemma, ComputeOnTime DEF Compute, TimedNext
  <2>2. CASE TakeReadingAndSleep
    BY <2>2, TimedStepLemma, ComputeOnTime DEF TakeReadingAndSleep, TimedNext
  <2>3. CASE Tick
    BY <2>3, TickOnTime
  <2>4. CASE UNCHANGED timedVars
    BY <2>4 DEF timedVars, clockVars, vars, vinciVars, OnTime
  <2> QED
    BY <2>1, <2>2, <2>3, <2>4 DEF TimedNext
<1>3. IInv /\ ClockTypeOK /\ CalmOK /\ OnTime => LateOnlyByReading
  <2> SUFFICES ASSUME IInv, ClockTypeOK, CalmOK, OnTime, NEW l \in Leds,
                      waitDelay[l] \in 1 .. since[l] * Unit - 1
               PROVE  idle * Unit <= waitDelay[l]
    BY DEF LateOnlyByReading
  <2>1. /\ l \in Actors /\ waitDelay[l] \in Nat /\ waitDelay[l] > 0
        /\ since[l] \in Nat /\ idle \in Nat /\ left[l] \in Nat
        /\ since[l] * 100 > waitDelay[l]
    BY DelayTypeLemma, HorizonAssumption DEF ClockTypeOK, Unit
  <2>2. CASE pc[l] = "wait"
    <3>1. \/ (since[l] + left[l]) * 100 <= waitDelay[l]
          \/ (idle + left[l]) * 100 <= waitDelay[l]
      BY <2>1, <2>2 DEF OnTime, Unit
    <3> QED
      BY <2>1, <3>1 DEF Unit
  <2>3. CASE pc[l] # "wait"
    <3>1. idle = 0
      BY <2>1, <2>3 DEF CalmOK, Calm
    <3> QED
      BY <2>1, <3>1 DEF Unit
  <2> QED
    BY <2>2, <2>3
<1> QED
  BY <1>1, <1>2, <1>3, InitCalm, StepKeepsCalm, ClockTypeCorrect, TimedInv, PTL
  DEF TimedSpec

-----------------------------------------------------------------------------
(* The pool under the clock. *)

\* After the first reading the load stays what one reading brings.
Surplus == Entries >= 2 => ~Deaf /\ Load + 2 * Entries <= 4

\* When all is calm every message is in the pool.
LEMMA CalmPoolFull ==
    ASSUME IInv, Calm, Lost = {}
    PROVE  InUse <= 0
<1> USE RolesLemma
<1>1. \A t \in Threads : Held(t) = {}
  BY DEF Calm, Held, IInv, Handling, DraftForCall, MsgInHand, Threads
<1>2. \A m \in Message : m \in Range(queue[Pool])
  <2> SUFFICES ASSUME NEW m \in Message PROVE m \in Range(queue[Pool])
    OBVIOUS
  <2>1. PICK q \in Queues : m \in Range(queue[q])
    BY <1>1 DEF Lost
  <2>2. q \in Actors => queue[q] = <<>>
    BY DEF Calm
  <2>3. Range(<<>>) = {}
    BY DEF Range
  <2> QED
    BY <2>1, <2>2, <2>3 DEF Queues
<1>3. PICK s : s = queue[Pool]
  OBVIOUS
<1>4. s \in Seq(Message) /\ Len(s) \in Nat /\ DOMAIN s = 1 .. Len(s)
  <2>1. s \in Seq(Message)
    BY <1>3 DEF IInv, TypeOK, VinciTypeOK
  <2> QED
    BY <2>1, LenProperties
<1>5. s \in Surjection(1 .. Len(s), Message)
  <2>1. s \in [1 .. Len(s) -> Message]
    BY <1>4
  <2>2. \A m \in Message : \E i \in 1 .. Len(s) : s[i] = m
    BY <1>2, <1>3, <1>4 DEF Range
  <2> QED
    BY <2>1, <2>2 DEF Surjection
<1>6. /\ IsFiniteSet(1 .. Len(s)) /\ Cardinality(1 .. Len(s)) = Len(s)
      /\ Cardinality(Message) = PoolSize
  <2>1. \A n \in Nat : IsFiniteSet(1 .. n) /\ Cardinality(1 .. n) = n
    BY FS_Interval
  <2> QED
    BY <1>4, <2>1, PoolSizeAssumption DEF Message
<1>7. PoolSize <= Len(s)
  BY <1>5, <1>6, FS_Surjection
<1> QED
  BY <1>3, <1>4, <1>7, PoolSizeAssumption DEF InUse, Size

\* Then the registration is over, and nothing is left of the load.
LEMMA CalmLoad ==
    ASSUME IInv, Calm, Lost = {}, Registration
    PROVE  ~Deaf /\ Load + 2 * Entries <= 0
<1> USE RolesLemma
<1>1. /\ queue[Sensor] = <<>> /\ queue[Processor] = <<>>
      /\ msg[Sensor] = nullptr /\ pc[Processor] = "wait" /\ ~Constructing
      /\ \A t \in Threads : todo[t] = <<>> /\ draft[t] = nullptr
  BY DEF Calm, IInv, Handling, MsgInHand, DraftForCall, Constructing
<1>2. ~Deaf
  BY <1>1 DEF Registration
<1>3. /\ Size(Sensor) = 0 /\ Size(Processor) = 0 /\ Handled = 0 /\ Undecided = 0
      /\ Deciding = 0 /\ Unconstructed = 0 /\ Unregistered = 0
  BY <1>1, <1>2
  DEF Size, Handled, Undecided, Deciding, Unconstructed, Unregistered, Count
<1>4. \A t \in Threads : Unbuilt(t) = 0 /\ CallsSensor(t) = 0
  <2>1. \A t \in Threads : Len(todo[t]) = 0 /\ Count(draft[t] # nullptr) = 0
    BY <1>1 DEF Count
  <2> QED
    BY <1>1, <2>1 DEF Unbuilt, CallsSensor, Count
<1>5. CallsUnbuilt = 0 /\ CallsUnheard = 0
  BY <1>4 DEF CallsUnbuilt, CallsUnheard
<1>6. InUse <= 0 /\ InUse \in Int /\ Entries \in Nat
  BY CalmPoolFull, SizesLemma DEF Sizes
<1>7. Base = InUse - Entries
  BY <1>3, <1>5, <1>6 DEF Base
<1>8. Load = InUse - Entries - Entries
  BY <1>3, <1>5, <1>6, <1>7 DEF Load
<1> QED
  BY <1>2, <1>6, <1>8

\* A listener once registered stays.
LEMMA ListenerStays ==
    ASSUME IInv, [Next]_vars, ~Deaf
    PROVE  ~Deaf'
<1>1. ASSUME SensorRegister PROVE listener' \in Actors
  <2>1. PICK d \in Read(msg[Sensor]) : IsPressureSensorCmd(d) /\ listener' = d.listener
    BY <1>1 DEF SensorRegister
  <2>2. msg[Sensor] \in Message
    BY <1>1, RolesLemma DEF SensorRegister, IInv, TypeOK, VinciTypeOK, Handling, MsgInHand
  <2> QED
    BY <2>1, <2>2, ReadLemma, DataLemma DEF IInv
<1>2. ASSUME ~SensorRegister PROVE listener' = listener
  <2>1. ASSUME NEW t \in Threads, CallStep(t) PROVE listener' = listener
    BY <2>1 DEF CallStep
  <2>2. ASSUME NEW a \in Actors, ActorThread(a) PROVE listener' = listener
    BY <1>2, <2>1, <2>2
    DEF ActorThread, ReceiveStep, LedStep, SensorStep, SensorForward, SensorDrop,
        ProcessorStep, Threads
  <2>3. ASSUME NEW t \in Clients, ClientThread(t) PROVE listener' = listener
    BY <2>1, <2>3 DEF ClientThread, StartThread, Override, Return, Threads
  <2> QED
    BY <2>2, <2>3 DEF Next, TakeReading, vars
<1> QED
  BY <1>1, <1>2, ListenerAssumption DEF Deaf

\* The load never rises, and starts from nothing again with each reading but
\* the first.
LEMMA StepKeepsSurplus ==
    IInv /\ IInv' /\ BInv /\ BInv' /\ Load' <= Load /\ CalmOK /\ Registration /\ Lost = {}
      /\ Surplus /\ [TimedNext]_timedVars => Surplus'
<1> SUFFICES ASSUME IInv, IInv', BInv, BInv', Load' <= Load, CalmOK, Registration,
                    Lost = {}, Surplus, [TimedNext]_timedVars
             PROVE  Surplus'
  OBVIOUS
<1>1. Load \in Int /\ Load' \in Int /\ Entries \in Nat /\ Entries' \in Nat
  BY LoadLemma, LoadNext, SizesLemma, SizesNext DEF Sums, Sizes
<1>2. [Next]_vars
  BY TimedStepLemma DEF timedVars
<1>p. PICK k \in Int, l \in Int, m \in Nat, n \in Nat :
      k = Load /\ l = Load' /\ m = Entries /\ n = Entries'
  BY <1>1
<1>3. CASE entered' = entered
  <2>1. Entries' = Entries /\ (~Deaf => ~Deaf')
    BY <1>2, <1>3, ListenerStays DEF Entries
  <2>2. Entries' >= 2 => ~Deaf' /\ Load + 2 * Entries <= 4
    BY <2>1 DEF Surplus
  <2>3. m = n /\ l <= k
    BY <1>p, <2>1
  <2>4. k + 2 * m <= 4 => l + 2 * n <= 4
    BY <2>3
  <2>5. Load + 2 * Entries <= 4 => Load' + 2 * Entries' <= 4
    BY <1>p, <2>4
  <2> QED
    BY <2>2, <2>5 DEF Surplus
<1>4. CASE entered' # entered
  <2>1. TakeReadingAndSleep
    BY <1>4, ComputeEnters DEF TimedNext, Tick, timedVars, vars, simulatorVars
  <2>2. /\ entered' = Append(entered, panel') /\ panel' > 0 /\ nap = 0
        /\ listener' = listener
    BY <1>4, <2>1 DEF TakeReadingAndSleep, TakeReading, Display
  <2>3. Entries' = Entries + 1
    <3>1. panel' \in Pressures \ {0} /\ entered \in Seq(Pressures \ {0})
      BY <2>2 DEF IInv, TypeOK, SimulatorTypeOK
    <3>2. Len(Append(entered, panel')) = Len(entered) + 1
      BY <3>1, AppendProperties
    <3> QED
      BY <2>2, <3>2 DEF Entries
  <2>4. CASE entered = <<>>
    BY <1>1, <2>3, <2>4 DEF Surplus, Entries
  <2>5. CASE entered # <<>>
    <3>1. ~Deaf /\ Load + 2 * Entries <= 0
      BY <2>2, <2>5, CalmLoad DEF CalmOK
    <3>2. ~Deaf'
      BY <2>2, <3>1 DEF Deaf
    <3>3. n = m + 1 /\ l <= k /\ k + 2 * m <= 0
      BY <1>p, <2>3, <3>1
    <3>4. l + 2 * n <= 4
      BY <3>3
    <3>5. Load' + 2 * Entries' <= 4
      BY <1>p, <3>4
    <3> QED
      BY <3>2, <3>5 DEF Surplus
  <2> QED
    BY <2>4, <2>5
<1> QED
  BY <1>3, <1>4

\* With five messages a build finds a free one.
LEMMA TimedBuildFindsFree ==
    ASSUME IInv, BInv, Surplus, PoolSize >= 5, NEW t \in Threads
    PROVE  ~BuildFromEmptyPool(t)
<1> SUFFICES ASSUME BuildFromEmptyPool(t) PROVE FALSE
  OBVIOUS
<1>1. InUse = PoolSize /\ CallsUnbuilt \in Nat \ {0}
  BY BuildUsesAll
<1>2. Sizes /\ Deciding \in 0 .. 1 /\ Base \in Int /\ Load \in Int
  BY SizesLemma, LoadLemma DEF Deciding, Count, Sums
<1>3. Base = PoolSize + CallsUnbuilt + 3 * Unconstructed - Entries
  BY <1>1 DEF Base
<1>4. CASE Deaf
  <2>1. Base <= 3 /\ Entries <= 1
    BY <1>2, <1>4 DEF BInv, Budget, Surplus, Sizes
  <2> QED
    BY <1>1, <1>2, <1>3, <2>1, PoolSizeAssumption DEF Sizes
<1>5. CASE ~Deaf
  <2>1. Load + 2 * Entries <= 4 /\ Unregistered = 0
    BY <1>2, <1>5 DEF BInv, Budget, Surplus, Unregistered, Count, Sizes
  <2> QED
    BY <1>1, <1>2, <1>3, <2>1, PoolSizeAssumption DEF Sizes, Load
<1> QED
  BY <1>4, <1>5

\* With the clock five messages are enough for any number of readings: when
\* main takes a reading the pool is full again.
THEOREM TimedPoolSuffices ==
    ASSUME ~OptimisedBuild, Main \notin Interrupts, PoolSize >= 5
    PROVE  TimedSpec => []NoNullDereference
<1> USE TimedSourceAssumption
<1>1. TimedInit => Surplus /\ NoNullDereference
  <2> SUFFICES ASSUME TimedInit PROVE Surplus /\ NoNullDereference
    OBVIOUS
  <2>1. Entries = 0
    BY DEF TimedInit, Init, SimulatorInit, Entries
  <2> QED
    BY <2>1 DEF TimedInit, Init, VinciInit, NoNullDereference, Surplus
<1>2. TimedSpec => [](IInv /\ BInv /\ Lost = {} /\ Registration)
                    /\ [][Load' <= Load]_vars
  <2>1. Spec => [](IInv /\ BInv) /\ [][Load' <= Load]_vars
    BY InitInv, StepKeepsInv, InitBudget, StepKeepsBudget, PTL DEF Spec
  <2> QED
    BY <2>1, NothingLost, TimedImplementsDemo, PTL
<1>3. [Load' <= Load]_vars /\ IInv => Load' <= Load
  <2>1. UNCHANGED vars => Load' = Load
    BY DEF vars, vinciVars, simulatorVars, Load, Base, InUse, Size, CallsUnbuilt, Unbuilt,
           CallsUnheard, CallsSensor, Handled, Undecided, Deciding, Unconstructed,
           Constructing, Unregistered, Deaf, Entries
  <2> QED
    BY <2>1, LoadLemma DEF Sums
<1>4. TimedSpec => []CalmOK
  BY InitCalm, StepKeepsCalm, ClockTypeCorrect, TimedInv, PTL DEF TimedSpec
<1>5. IInv /\ BInv /\ Surplus /\ NoNullDereference /\ [TimedNext]_timedVars
        => NoNullDereference'
  <2> SUFFICES ASSUME IInv, BInv, Surplus, NoNullDereference, [TimedNext]_timedVars
               PROVE  NoNullDereference'
    OBVIOUS
  <2>1. [Next]_vars
    BY TimedStepLemma DEF timedVars
  <2> QED
    BY <2>1, TimedBuildFindsFree, OnlyBuildsCrash DEF NoNullDereference
<1> QED
  BY <1>1, <1>2, <1>3, <1>4, <1>5, StepKeepsSurplus, PTL DEF TimedSpec
=============================================================================
