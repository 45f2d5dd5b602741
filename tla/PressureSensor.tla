--------------------------- MODULE PressureSensor ---------------------------
(***************************************************************************)
(* The pressure sensor actor (sal-cmsis/inc/PressureSensor.h).             *)
(***************************************************************************)
EXTENDS Vinci

CONSTANT Sensor
ASSUME SensorAssumption == Sensor \in Actors

VARIABLE listener    \* _listener, NoListener for the null pointer

NoListener == "none"
ASSUME ListenerAssumption == NoListener \notin Actors

registerListener(a) == Call(Sensor, PressureSensorCmd(a))

SensorInit == listener = NoListener

\* processMsg on a REGISTER command: keep the listener, release the message.
SensorRegister ==
    /\ pc[Sensor] = "process"
    /\ \E d \in Read(msg[Sensor]) : /\ IsPressureSensorCmd(d)
                                    /\ listener' = d.listener
    /\ Dispose(Sensor, Pool)
    /\ UNCHANGED waitDelay

\* Seeded bug: the message is sent on and released as well.
SensorForwardAndRelease ==
    /\ pc[Sensor] = "process"
    /\ \E d \in Read(msg[Sensor]) : ~IsPressureSensorCmd(d)
    /\ listener # NoListener
    /\ queue' = [queue EXCEPT ![listener] = Append(@, msg[Sensor]),
                              ![Pool] = Append(@, msg[Sensor])]
    /\ msg' = [msg EXCEPT ![Sensor] = nullptr]
    /\ Goto(Sensor, "wait")
    /\ UNCHANGED <<data, draft, todo, waitDelay, crashed, listener>>

\* processMsg on anything else: the listener gets the message itself.
SensorForward ==
    /\ pc[Sensor] = "process"
    /\ \E d \in Read(msg[Sensor]) : ~IsPressureSensorCmd(d)
    /\ listener # NoListener
    /\ Dispose(Sensor, listener)
    /\ UNCHANGED <<waitDelay, listener>>

\* Without a listener processMsg returns and the message is in no queue.
SensorDrop ==
    /\ pc[Sensor] = "process"
    /\ \E d \in Read(msg[Sensor]) : ~IsPressureSensorCmd(d)
    /\ listener = NoListener
    /\ msg' = [msg EXCEPT ![Sensor] = nullptr]
    /\ Goto(Sensor, "wait")
    /\ UNCHANGED <<queue, data, draft, todo, waitDelay, crashed, listener>>
=============================================================================
