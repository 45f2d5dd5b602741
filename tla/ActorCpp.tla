------------------------------- MODULE ActorCpp -------------------------------
(***************************************************************************)
(* The life of the actors of the std port: construction, the loop of the   *)
(* thread, the end of the loop, join and destruction.  processMsg is the   *)
(* handler of any actor that keeps the ownership protocol; one thread, the *)
(* owner, constructs the actors, sends them messages, asks each of them to *)
(* end, joins them all and destroys them.  The CMSIS port differs in the   *)
(* names of the calls only.                                                *)
(***************************************************************************)
EXTENDS MessageOwnership

CONSTANTS
    Owner,      \* the thread that owns the actors
    SendBound   \* bound: how many messages a call of processMsg acquires

ASSUME OwnerAssumption == Owner \in Clients
ASSUME SendAssumption == SendBound \in Nat

VARIABLES
    phase,      \* how far the life of each actor object is
    run,        \* where each actor's thread is
    timed,      \* whether its waitDelay is positive
    acquired,   \* how many messages its call of processMsg has acquired
    continues,  \* the local variable of its runBody
    stop,       \* the messages that ask an actor to end
    late        \* history: the messages last sent to an actor already asked to end

lifeVars == <<phase, run, timed, acquired, continues, stop, late>>
allVars == <<vars, lifeVars>>

Phases == {"raw", "members", "base", "derived", "alive", "stopping", "joined", "destroyed"}

LifeTypeOK ==
    /\ TypeOK
    /\ phase \in [Actors -> Phases]
    /\ run \in [Actors -> {"none", "loop", "wait", "timedWait",
                           "process", "ended"}]
    /\ timed \in [Actors -> BOOLEAN]
    /\ acquired \in [Actors -> 0 .. SendBound]
    /\ continues \in [Actors -> BOOLEAN]
    /\ stop \in SUBSET Message
    /\ late \in SUBSET Message

LifeInit ==
    /\ Init
    /\ phase = [a \in Actors |-> "raw"] /\ run = [a \in Actors |-> "none"]
    /\ timed = [a \in Actors |-> FALSE] /\ continues = [a \in Actors |-> TRUE]
    /\ acquired = [a \in Actors |-> 0]
    /\ stop = {} /\ late = {}

All(phases) == \A a \in Actors : phase[a] \in phases
Becomes(a, p) == phase' = [phase EXCEPT ![a] = p]
Goto(a, label) == run' = [run EXCEPT ![a] = label]

\* The actors somebody can have a reference to: the body of a constructor may
\* already hand out the object.
Known == {a \in Actors : phase[a] \notin {"raw", "members", "base"}}

\* Actor::send to a: its receive pushes m in the mailbox.
Send(t, m, a) ==
    /\ Put(t, m, a)
    /\ late' = IF phase[a] \in {"derived", "alive"} THEN late \ {m} ELSE late \cup {m}

\* MsgPoolCpp::release.
Release(t, m) == Put(t, m, Pool) /\ late' = late \ {m}

-----------------------------------------------------------------------------
(* The owner. *)

\* It takes the messages for the end of the actors while the pool is full.
Reserve ==
    /\ All({"raw"}) /\ Cardinality(stop) < Cardinality(Actors)
    /\ Acquire(Owner)
    /\ stop' = held'[Owner]
    /\ UNCHANGED <<phase, run, timed, acquired, continues, late>>

\* Seeded bug: the delay is not initialised.
ConstructRaw(a) ==
    /\ phase[a] = "raw" /\ Cardinality(stop) = Cardinality(Actors)
    /\ Becomes(a, "members")
    /\ timed' = [timed EXCEPT ![a] = TRUE]
    /\ UNCHANGED <<vars, run, acquired, continues, stop, late>>

\* The members of an actor before its thread: no delay, an empty mailbox.
Construct(a) ==
    /\ phase[a] = "raw" /\ Cardinality(stop) = Cardinality(Actors)
    /\ Becomes(a, "members")
    /\ timed' = [timed EXCEPT ![a] = FALSE]
    /\ UNCHANGED <<vars, run, acquired, continues, stop, late>>

\* The last member: the thread starts before the derived class is constructed.
StartThread(a) ==
    /\ phase[a] = "members"
    /\ Becomes(a, "base") /\ Goto(a, "loop")
    /\ UNCHANGED <<vars, timed, acquired, continues, stop, late>>

\* The constructor of the derived class sets its members and its processMsg,
Override(a) ==
    /\ phase[a] = "base"
    /\ Becomes(a, "derived")
    /\ UNCHANGED <<vars, run, timed, acquired, continues, stop, late>>

\* runs its body, which may set a delay,
SetDelay(a) ==
    /\ phase[a] = "derived"
    /\ timed' = [timed EXCEPT ![a] = ~@]
    /\ UNCHANGED <<vars, phase, run, acquired, continues, stop, late>>

\* and returns.
Return(a) ==
    /\ phase[a] = "derived"
    /\ Becomes(a, "alive")
    /\ UNCHANGED <<vars, run, timed, acquired, continues, stop, late>>

\* The owner's own messages, in the body of a constructor or outside, as long
\* as an actor is not asked to end.
Work ==
    /\ \E a \in Known : phase[a] # "stopping"
    /\ All(Phases \ {"joined", "destroyed"})
    /\ held[Owner] \subseteq stop /\ Acquire(Owner)
    /\ UNCHANGED lifeVars

Tell(a) ==
    /\ a \in Known /\ All(Phases \ {"joined", "destroyed"})
    /\ \E m \in held[Owner] \ stop : Send(Owner, m, a)
    /\ UNCHANGED <<phase, run, timed, acquired, continues, stop>>

\* Actor a is asked to end.
AskToEnd(a) ==
    /\ All({"alive", "stopping"}) /\ phase[a] = "alive"
    /\ \E m \in held[Owner] \cap stop : Send(Owner, m, a)
    /\ Becomes(a, "stopping")
    /\ UNCHANGED <<run, timed, acquired, continues, stop>>

\* Seeded bug: join does not wait for the thread.
JoinAtOnce(a) ==
    /\ All({"stopping", "joined"}) /\ held[Owner] = {}
    /\ phase[a] = "stopping"
    /\ Becomes(a, "joined")
    /\ UNCHANGED <<vars, run, timed, acquired, continues, stop, late>>

\* join returns when the thread has ended.
Join(a) ==
    /\ All({"stopping", "joined"}) /\ held[Owner] = {}
    /\ phase[a] = "stopping" /\ run[a] = "ended"
    /\ Becomes(a, "joined")
    /\ UNCHANGED <<vars, run, timed, acquired, continues, stop, late>>

\* The actors are destroyed, and with them their mailboxes.
Destroy(a) ==
    /\ All({"joined", "destroyed"}) /\ phase[a] = "joined"
    /\ Becomes(a, "destroyed")
    /\ queue' = [queue EXCEPT ![a] = <<>>]
    /\ UNCHANGED <<held, run, timed, acquired, continues, stop, late>>

-----------------------------------------------------------------------------
(* The thread of an actor. *)

\* The loop looks at waitDelay to choose the wait.
Turn(a) ==
    /\ run[a] = "loop"
    /\ Goto(a, IF timed[a] THEN "timedWait" ELSE "wait")
    /\ UNCHANGED <<vars, phase, timed, acquired, continues, stop, late>>

\* A message arrives; processMsg will return false for one that asks to end.
TakeMessage(a) ==
    /\ run[a] \in {"wait", "timedWait"}
    /\ Receive(a)
    /\ Goto(a, "process")
    /\ continues' = [continues EXCEPT ![a] = held'[a] \cap stop = {}]
    /\ stop' = stop \ held'[a]
    /\ UNCHANGED <<phase, timed, acquired, late>>

\* The delay passes: processMsg(nullptr).
TimesOut(a) ==
    /\ run[a] = "timedWait" /\ queue[a] = <<>>
    /\ Goto(a, "process")
    /\ UNCHANGED <<vars, phase, timed, acquired, continues, stop, late>>

\* processMsg acquires messages
HandlerAcquires(a) ==
    /\ run[a] = "process" /\ acquired[a] < SendBound
    /\ Acquire(a)
    /\ acquired' = [acquired EXCEPT ![a] = @ + 1]
    /\ UNCHANGED <<phase, run, timed, continues, stop, late>>

\* and gives up those it holds, in any order,
HandlerGives(a) ==
    /\ run[a] = "process"
    /\ \E m \in held[a] : Release(a, m) \/ \E b \in Known : Send(a, m, b)
    /\ UNCHANGED <<phase, run, timed, acquired, continues, stop>>

\* Seeded bug: the loop ignores what processMsg returns.
HandlerReturnsAnyway(a) ==
    /\ run[a] = "process" /\ held[a] = {}
    /\ Goto(a, "loop")
    /\ acquired' = [acquired EXCEPT ![a] = 0]
    /\ \E b \in BOOLEAN : timed' = [timed EXCEPT ![a] = b]
    /\ UNCHANGED <<vars, phase, continues, stop, late>>

\* and returns, which ends the loop or not; it may have changed the delay.
HandlerReturns(a) ==
    /\ run[a] = "process" /\ held[a] = {}
    /\ acquired' = [acquired EXCEPT ![a] = 0]
    /\ Goto(a, IF continues[a] THEN "loop" ELSE "ended")
    /\ \E b \in BOOLEAN : timed' = [timed EXCEPT ![a] = b]
    /\ UNCHANGED <<vars, phase, continues, stop, late>>

-----------------------------------------------------------------------------
ActorThread(a) == \/ Turn(a) \/ TakeMessage(a) \/ TimesOut(a)
                  \/ HandlerAcquires(a) \/ HandlerGives(a) \/ HandlerReturns(a)

\* A step in the life of an actor object, which its owner takes.
OwnerStep(a) == \/ Construct(a) \/ StartThread(a) \/ Override(a) \/ Return(a)
                \/ AskToEnd(a) \/ Join(a) \/ Destroy(a)

LifeNext == \/ Reserve \/ Work
            \/ \E a \in Actors : OwnerStep(a) \/ SetDelay(a) \/ Tell(a) \/ ActorThread(a)

\* The operating system runs every thread, the owner does not stop half-way,
\* and some day it asks each actor to end.
LifeFairness == /\ WF_allVars(Reserve)
                /\ \A a \in Actors : /\ WF_allVars(OwnerStep(a))
                                     /\ WF_allVars(Tell(a))
                                     /\ WF_allVars(ActorThread(a))

LifeSpec == LifeInit /\ [][LifeNext]_allVars /\ LifeFairness

-----------------------------------------------------------------------------
\* No actor runs processMsg before its class has set its members and its own
\* processMsg: its thread runs earlier, but waits without a timeout, at a
\* mailbox nobody knows.  In the body of its constructor it may already run.
NoEarlyDispatch ==
    [][\A a \in Actors : run'[a] = "process" /\ run[a] # "process"
                           => phase[a] \in {"derived", "alive", "stopping"}]_allVars

\* No thread uses an actor object that is not constructed or already
\* destroyed: not its own thread, and no sender.
UsedWithinLife ==
    [][\A a \in Actors :
         run'[a] # run[a] \/ Len(queue'[a]) > Len(queue[a])
           => phase[a] \in Phases \ {"raw", "destroyed"}]_allVars

\* Only messages sent to an actor after it was asked to end are lost, with the
\* mailbox they wait in; it processes all the earlier ones.
OnlyLateLost == \A m \in Message \ late : Placed(m)

\* join returns: once asked to end, every actor ends.
Shutdown == <>All({"destroyed"})
=============================================================================
