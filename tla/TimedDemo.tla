------------------------------ MODULE TimedDemo ------------------------------
(***************************************************************************)
(* The demo program with a clock: the timeouts of the LEDs' waits for a    *)
(* message and the sleep of main between two readings.  All the times of   *)
(* main.cpp are multiples of Unit.  The threads are fast: time passes only *)
(* when each of them waits for a message, for a timeout, in the sleep or   *)
(* for someone to enter a pressure.                                        *)
(***************************************************************************)
EXTENDS DemoApp

CONSTANT Horizon    \* bound: how far the histories count, in units
ASSUME HorizonAssumption == Horizon \in Nat
ASSUME TimedSourceAssumption == Source = Main

Unit == 100    \* ticks, and milliseconds of main's sleep

VARIABLES
    left,     \* the time each LED's wait has left, in units, when it has a timeout
    nap,      \* the time main's sleep has left, in units
    since,    \* history: the time since each LED last toggled or changed its rate
    idle      \* history: the time since the last reading was passed on

clockVars == <<left, nap, since, idle>>
timedVars == <<vars, clockVars>>

\* A wait has at most its delay left.
ClockTypeOK == /\ left \in [Leds -> Nat]
               /\ \A l \in Leds : waitDelay[l] > 0 /\ pc[l] = "wait"
                                   => left[l] * Unit <= waitDelay[l]
               /\ nap \in 0 .. 1
               /\ since \in [Leds -> 0 .. Horizon]
               /\ idle \in 0 .. Horizon

TimedInit ==
    /\ Init
    /\ left = [l \in Leds |-> 0] /\ nap = 0
    /\ since = [l \in Leds |-> 0] /\ idle = 0

Due(l) == pc[l] = "wait" /\ waitDelay[l] > 0 /\ left[l] = 0

\* Seeded bug: the delay of the next wait is read before processMsg runs.
StaleDelay(l) == waitDelay[l]

\* The delay of the next wait is read at the start of the loop's turn, after
\* processMsg has set it.
NextDelay(l) == waitDelay'[l]

\* Each turn of a LED's loop starts a new wait, after a command as after a
\* toggle; what was left of the old one is forgotten.
StartWaits ==
    left' = [l \in Leds |->
               IF pc'[l] = "wait" /\ (pc[l] # "wait" \/ on'[l] # on[l])
               THEN NextDelay(l) \div Unit ELSE left[l]]

Record ==
    /\ since' = [l \in Leds |->
                   IF on'[l] # on[l] \/ waitDelay'[l] # waitDelay[l] THEN 0 ELSE since[l]]
    /\ idle' = IF entered' # entered THEN 0 ELSE idle

\* A step of a thread, which takes no time; a LED toggles when its wait is over.
Compute ==
    /\ \/ \E a \in Actors : ActorThread(a)
       \/ \E t \in Clients : ClientThread(t)
    /\ \A l \in Leds : on'[l] # on[l] => Due(l)
    /\ StartWaits /\ Record
    /\ UNCHANGED nap

\* Seeded bug: main does not sleep.
TakeReadingAwake ==
    /\ nap = 0 /\ ~crashed
    /\ TakeReading
    /\ StartWaits /\ Record
    /\ UNCHANGED nap

\* A turn of main's loop: a reading, after which main sleeps.
TakeReadingAndSleep ==
    /\ nap = 0 /\ ~crashed
    /\ TakeReading
    /\ nap' = 1
    /\ StartWaits /\ Record

\* Every thread waits: main for the end of its sleep or for someone to enter a
\* pressure, which after the end of the input takes no time.
Quiet ==
    /\ pc[Main] = "run"
    /\ \A t \in Threads : todo[t] = <<>>
    /\ \A a \in Actors : pc[a] = "wait" /\ queue[a] = <<>>
    /\ \A l \in Leds : ~Due(l)
    /\ nap = 0 => stdin = "good" \/ Len(entered) = MaxReadings

Later(n) == IF n < Horizon THEN n + 1 ELSE n

\* One unit of time passes.
Tick ==
    /\ Quiet
    /\ left' = [l \in Leds |-> IF waitDelay[l] > 0 THEN left[l] - 1 ELSE left[l]]
    /\ nap' = 0
    /\ since' = [l \in Leds |-> Later(since[l])]
    /\ idle' = Later(idle)
    /\ UNCHANGED vars

TimedNext == Compute \/ TakeReadingAndSleep \/ Tick

TimedSpec == TimedInit /\ [][TimedNext]_timedVars

-----------------------------------------------------------------------------
\* A LED toggles in every period of its rate, but for one reason: a command
\* that repeats its rate starts its wait again.
LateOnlyByReading ==
    \A l \in Leds : waitDelay[l] \in 1 .. since[l] * Unit - 1
                      => idle * Unit <= waitDelay[l]

\* A LED toggles at least once in two periods of its rate.
KeepsBlinking ==
    \A l \in Leds : waitDelay[l] > 0 => since[l] * Unit <= 2 * waitDelay[l]
=============================================================================
