------------------------------ MODULE Messages ------------------------------
(***************************************************************************)
(* The data a pool message carries (sal-cmsis/inc/Messages.h): a variant   *)
(* of three command and data records.  The accessors ledCmd(),             *)
(* pressureSensorCmd() and pressureSensorData(), which return nullptr when *)
(* another alternative is held, become tests on the type field.            *)
(***************************************************************************)
EXTENDS Integers

\* The commands of a LED, the command and the data of a pressure sensor.
LedCmd(cmd, rate) == [type |-> "LedCmd", cmd |-> cmd, rate |-> rate]
PressureSensorCmd(listener) ==
    [type |-> "PressureSensorCmd", cmd |-> "REGISTER", listener |-> listener]
PressureSensorData(pressure) ==
    [type |-> "PressureSensorData", pressure |-> pressure]

\* What a message built over the alternative of that name holds.
IsLedCmd(d) == d.type = "LedCmd"
IsPressureSensorCmd(d) == d.type = "PressureSensorCmd"
IsPressureSensorData(d) == d.type = "PressureSensorData"

\* A message of the pool before its first use: a default constructed variant
\* holds its first alternative, value-initialised.
InitialData == LedCmd("START", 0)

\* The blink periods, in ticks, that the program passes to a LED.
Rates == {0, 100, 400, 1000, 2000, 4000}

\* Every value a message can hold, for the given actors and pressures.
Data(listeners, pressures) ==
         {LedCmd(c, r) : c \in {"START", "STOP"}, r \in Rates}
    \cup {PressureSensorCmd(a) : a \in listeners}
    \cup {PressureSensorData(p) : p \in pressures}
=============================================================================
