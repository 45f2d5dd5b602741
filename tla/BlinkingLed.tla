----------------------------- MODULE BlinkingLed -----------------------------
(***************************************************************************)
(* The LED actors (sal-cmsis/inc/BlinkingLed.h).  start(rate) and stop()   *)
(* run in the caller's thread and are the calls below; processMsg runs in  *)
(* the LED's own.                                                          *)
(***************************************************************************)
EXTENDS Vinci

CONSTANT Leds
ASSUME LedsAssumption == Leds \subseteq Actors

VARIABLE on    \* _on of each LED, copied to the hardware by toggle

start(l, rate) == Call(l, LedCmd("START", rate))
stop(l) == Call(l, LedCmd("STOP", 0))

LedInit == on = [l \in Leds |-> FALSE]

\* processMsg on a message: a command sets the delay of the next wait, START
\* to its rate and STOP to none; the message is released.
LedProcess(l) ==
    /\ pc[l] = "process"
    /\ \E d \in Read(msg[l]) :
         waitDelay' = IF IsLedCmd(d)
                      THEN [waitDelay EXCEPT
                              ![l] = IF d.cmd = "START" THEN d.rate ELSE 0]
                      ELSE waitDelay
    /\ Dispose(l, Pool)
    /\ UNCHANGED on

\* processMsg(nullptr): toggle.
LedToggle(l) ==
    /\ TimesOut(l)
    /\ on' = [on EXCEPT ![l] = ~@]
=============================================================================
