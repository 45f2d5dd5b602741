------------------------------ MODULE Simulator ------------------------------
(***************************************************************************)
(* The hardware simulator (vinci-cmsis-simulation/inc/Simulator.h): each   *)
(* turn of display() reads a pressure from standard input into the panel   *)
(* and sends it to the sensor when it is positive.  The turns are taken by *)
(* thread Source: main, or a thread of its own for the interrupt routine   *)
(* that main.cpp says the simulator is equivalent to.                      *)
(***************************************************************************)
EXTENDS PressureSensor

CONSTANTS
    Source,        \* the thread that takes readings
    MaxReadings    \* bound: the readings passed on in a behaviour

ASSUME SourceAssumption == Source \in Clients
ASSUME MaxReadingsAssumption == MaxReadings \in Nat

VARIABLES
    panel,     \* hardware._pressureSensorOne
    stdin,     \* "good", or "failed" once an extraction has failed
    entered    \* history: the pressures display has passed on, in order

simulatorVars == <<panel, stdin, entered>>

SimulatorTypeOK ==
    /\ panel \in Pressures \cup {0}
    /\ stdin \in {"good", "failed"}
    /\ entered \in Seq(Pressures \ {0})

SimulatorInit == panel = 0 /\ stdin = "good" /\ entered = <<>>

\* cin >> panel: a number is stored; anything else stores zero; at the end of
\* the input, and in every turn after a failure, panel keeps its value.
ReadNumber == stdin = "good" /\ panel' \in Pressures /\ UNCHANGED stdin
ReadGarbage == stdin = "good" /\ panel' = 0 /\ stdin' = "failed"
ReadNothing == stdin' = "failed" /\ UNCHANGED panel

\* A turn of display up to the call of setPressureSensor.
Display ==
    /\ todo[Source] = <<>>
    /\ Len(entered) < MaxReadings
    /\ ReadNumber \/ ReadGarbage \/ ReadNothing
    /\ IF panel' > 0
       THEN /\ todo' = [todo EXCEPT
                          ![Source] = <<Call(Sensor, PressureSensorData(panel'))>>]
            /\ entered' = Append(entered, panel')
       ELSE UNCHANGED <<todo, entered>>
    /\ UNCHANGED <<queue, data, pc, msg, draft, waitDelay, crashed>>
=============================================================================
