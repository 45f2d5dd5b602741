---------------------------- MODULE ProcessorOne ----------------------------
(***************************************************************************)
(* The actor of main.cpp that turns a pressure into commands for the two   *)
(* LEDs.                                                                   *)
(***************************************************************************)
EXTENDS BlinkingLed

CONSTANTS Processor, Green, Red
ASSUME ProcessorAssumption ==
    /\ Processor \in Actors \ Leds
    /\ Leds = {Green, Red} /\ Green # Red

\* The commands for a pressure, a uint32_t, in the order the branches give them.
Commands(pressure) ==
    IF pressure \in 0 .. 49 THEN <<stop(Green), start(Red, 1000)>>
    ELSE IF pressure \in 50 .. 99 THEN <<start(Green, 1000), stop(Red)>>
    ELSE <<start(Green, 4000), start(Red, 2000)>>

\* processMsg reads the message and takes the branch of its pressure, or none.
ProcessorDecide ==
    /\ pc[Processor] = "process"
    /\ \E d \in Read(msg[Processor]) :
         todo' = [todo EXCEPT
                    ![Processor] = IF IsPressureSensorData(d)
                                   THEN Commands(d.pressure) ELSE <<>>]
    /\ Goto(Processor, "finish")
    /\ UNCHANGED <<queue, data, msg, draft, waitDelay, crashed>>

\* Seeded bug: the branches return without the release at the end.
ProcessorForget ==
    /\ pc[Processor] = "finish"
    /\ todo[Processor] = <<>>
    /\ msg' = [msg EXCEPT ![Processor] = nullptr]
    /\ Goto(Processor, "wait")
    /\ UNCHANGED <<queue, data, draft, todo, waitDelay, crashed>>

\* Both commands sent, processMsg releases the message.
ProcessorRelease ==
    /\ pc[Processor] = "finish"
    /\ todo[Processor] = <<>>
    /\ Dispose(Processor, Pool)
    /\ UNCHANGED waitDelay
=============================================================================
