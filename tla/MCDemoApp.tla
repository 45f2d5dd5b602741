------------------------------ MODULE MCDemoApp ------------------------------
(***************************************************************************)
(* Instances of DemoApp for TLC: the actors and threads of main.cpp under  *)
(* their names, and pressures of different rows of main.cpp's table.       *)
(***************************************************************************)
EXTENDS DemoApp

MCActors == {"sensor", "green", "red", "processor"}
MCLeds == {"green", "red"}
LowAndHigh == {49, 101}
High == {101}
ZeroAndMiddle == {0, 75}

\* Behaviours of Spec in which the threads of the LEDs are not scheduled.
StalledLeds == Init /\ [][Next /\ \A l \in Leds : pc'[l] # "process"]_vars
=============================================================================
