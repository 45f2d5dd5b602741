----------------------------- MODULE Regulation -----------------------------
(***************************************************************************)
(* What main.cpp promises about the LEDs: each LED starts at its first     *)
(* rate and then takes, for every pressure entered and in the order they   *)
(* were entered, the rate that pressure asks for; none is skipped, taken   *)
(* twice or taken out of order.  The LEDs need not keep step.              *)
(***************************************************************************)
EXTENDS Integers, Sequences

CONSTANTS
    Leds,
    Inputs,    \* the pressures that can be entered
    First,     \* the first rate of each LED
    Wanted     \* the rate of each LED for each pressure, 0 when stopped

VARIABLES
    entered,   \* the pressures entered so far
    applied,   \* how many rates each LED has taken
    rate       \* the rate each LED has

vars == <<entered, applied, rate>>

Init == /\ entered = <<>>
        /\ applied = [l \in Leds |-> 0]
        /\ rate = [l \in Leds |-> 0]

Enter(p) == entered' = Append(entered, p) /\ UNCHANGED <<applied, rate>>

Apply(l) ==
    /\ applied[l] <= Len(entered)
    /\ applied' = [applied EXCEPT ![l] = @ + 1]
    /\ rate' = [rate EXCEPT ![l] = IF applied[l] = 0 THEN First[l]
                                   ELSE Wanted[entered[applied[l]]][l]]
    /\ UNCHANGED entered

Next == (\E p \in Inputs : Enter(p)) \/ (\E l \in Leds : Apply(l))

Spec == Init /\ [][Next]_vars
=============================================================================
