----------------------------- MODULE MCTimedDemo -----------------------------
(***************************************************************************)
(* Instances of TimedDemo for TLC, with the names of MCDemoApp.            *)
(***************************************************************************)
EXTENDS TimedDemo

MCActors == {"sensor", "green", "red", "processor"}
MCLeds == {"green", "red"}
MiddleAndHigh == {75, 101}
Low == {49}

\* Behaviours in which a pressure is entered every 900 ms, and nothing else.
Every900ms ==
    TimedInit /\ [][/\ TimedNext
                    /\ stdin' = "good"
                    /\ entered' # entered /\ entered # <<>> => idle * Unit = 900]_timedVars
=============================================================================
