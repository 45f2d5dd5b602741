-------------------------------- MODULE Vinci --------------------------------
(***************************************************************************)
(* The actor library as the demo program uses it: vinci/inc/Actor.h over   *)
(* ActorCmsis, ConcurrentQueueCmsis and MsgPoolCmsis.  The module declares *)
(* the state every actor shares and one operator per step of a thread; the *)
(* modules of the actors say which thread takes which step when.           *)
(*                                                                         *)
(* A mailbox and the pool are the same class of queue in the code and are  *)
(* one function here, queue, with the pool at index Pool.  One push and    *)
(* one pop are atomic: ConcurrentQueueCpp, the queue under both, is shown  *)
(* to implement the atomic queue of module ConcurrentQueue.                *)
(***************************************************************************)
EXTENDS Integers, Sequences, Messages

CONSTANTS
    Actors,          \* the actors, each with a thread and a mailbox
    Clients,         \* threads that send without being an actor
    Interrupts,      \* those of them that are interrupt routines of a real RTOS
    Pool,            \* the index of the pool's queue of free messages
    PoolSize,        \* MSG_POOL_SIZE
    OptimisedBuild,  \* TRUE for a build with optimisation
    Pressures        \* the pressures considered

ASSUME ActorsAssumption == /\ Actors \cap Clients = {}
                           /\ Pool \notin Actors \cup Clients
                           /\ Interrupts \subseteq Clients
ASSUME PoolSizeAssumption == PoolSize \in Nat \ {0}

Threads == Actors \cup Clients
Queues == Actors \cup {Pool}

\* A message is its address in the pool; nullptr is none of them.
Message == 1 .. PoolSize
nullptr == 0

VARIABLES
    queue,      \* the messages in each mailbox and in the pool, oldest first
    data,       \* what each message carries
    pc,         \* where each thread is
    msg,        \* the local pointer msg of each actor's processMsg
    draft,      \* the local pointer returned by MessageBuilder::build
    todo,       \* the calls a thread has left before its next decision
    waitDelay,  \* the actors' timeout for the next message, 0 for none
    crashed     \* the process has dereferenced a null pointer

vinciVars == <<queue, data, pc, msg, draft, todo, waitDelay, crashed>>

\* A call of start, stop, registerListener or setPressureSensor that thread t
\* has still to make: build a message carrying d, put it in a's mailbox.
Call(a, d) == [to |-> a, data |-> d]

VinciTypeOK ==
    /\ queue \in [Queues -> Seq(Message)]
    /\ data \in [Message -> Data(Actors, Pressures)]
    /\ msg \in [Actors -> Message \cup {nullptr}]
    /\ draft \in [Threads -> Message \cup {nullptr}]
    /\ waitDelay \in [Actors -> Rates]
    /\ crashed \in BOOLEAN

\* The pool is a global constructed before main: every message is free, in
\* the order of the array.  No actor exists, so none has a thread.
VinciInit ==
    /\ queue = [q \in Queues |-> IF q = Pool THEN [m \in Message |-> m] ELSE <<>>]
    /\ data = [m \in Message |-> InitialData]
    /\ msg = [a \in Actors |-> nullptr]
    /\ draft = [t \in Threads |-> nullptr]
    /\ waitDelay = [a \in Actors |-> 0]
    /\ crashed = FALSE

Goto(t, label) == pc' = [pc EXCEPT ![t] = label]

Push(q, m) == queue' = [queue EXCEPT ![q] = Append(@, m)]

-----------------------------------------------------------------------------
\* What msg->data() can be read as.  The accessor returns a copy; the handlers
\* test its type while it lives and keep a pointer to its fields after it is
\* dead.  Without optimisation its stack slot still holds the copy; with it
\* the fields can be anything, of which the model takes the well-typed values.
Read(m) ==
    IF OptimisedBuild
    THEN {d \in Data(Actors, Pressures) : d.type = data[m].type}
    ELSE {data[m]}

\* Seeded bug: acquire reads the free message and leaves it in the pool.
BuildShared(t) ==
    /\ todo[t] # <<>> /\ draft[t] = nullptr
    /\ queue[Pool] # <<>>
    /\ draft' = [draft EXCEPT ![t] = Head(queue[Pool])]
    /\ data' = [data EXCEPT ![Head(queue[Pool])] = Head(todo[t]).data]
    /\ UNCHANGED <<queue, pc, msg, todo, waitDelay, crashed>>

\* MessageBuilder::build for the next call of thread t: acquire from the pool,
\* a pop that does not wait, and store the data.
Build(t) ==
    /\ todo[t] # <<>> /\ draft[t] = nullptr
    /\ queue[Pool] # <<>>
    /\ LET m == Head(queue[Pool])
       IN  /\ draft' = [draft EXCEPT ![t] = m]
           /\ data' = [data EXCEPT ![m] = Head(todo[t]).data]
    /\ queue' = [queue EXCEPT ![Pool] = Tail(@)]
    /\ UNCHANGED <<pc, msg, todo, waitDelay, crashed>>

\* The same when no message is free: acquire returns nullptr, which build
\* dereferences.
BuildFromEmptyPool(t) ==
    /\ todo[t] # <<>> /\ draft[t] = nullptr
    /\ queue[Pool] = <<>>
    /\ crashed' = TRUE
    /\ UNCHANGED <<queue, data, pc, msg, draft, todo, waitDelay>>

\* receive of the actor the message is built for: push it in its mailbox.
Send(t) ==
    /\ draft[t] # nullptr
    /\ Push(Head(todo[t]).to, draft[t])
    /\ draft' = [draft EXCEPT ![t] = nullptr]
    /\ todo' = [todo EXCEPT ![t] = Tail(@)]
    /\ UNCHANGED <<data, pc, msg, waitDelay, crashed>>

\* The same on a real RTOS: push waits without limit for room, which an
\* interrupt routine may not; the put can fail, and push ignores its status.
SendFails(t) ==
    /\ t \in Interrupts
    /\ draft[t] # nullptr
    /\ draft' = [draft EXCEPT ![t] = nullptr]
    /\ todo' = [todo EXCEPT ![t] = Tail(@)]
    /\ UNCHANGED <<queue, data, pc, msg, waitDelay, crashed>>

\* Seeded bug: the mailbox gives its newest message first.
ReceiveNewest(a) ==
    /\ pc[a] = "wait"
    /\ queue[a] # <<>>
    /\ msg' = [msg EXCEPT ![a] = queue[a][Len(queue[a])]]
    /\ queue' = [queue EXCEPT ![a] = SubSeq(@, 1, Len(@) - 1)]
    /\ Goto(a, "process")
    /\ UNCHANGED <<data, draft, todo, waitDelay, crashed>>

\* One turn of the loop of runBody: pop the next message and call processMsg.
Receive(a) ==
    /\ pc[a] = "wait"
    /\ queue[a] # <<>>
    /\ msg' = [msg EXCEPT ![a] = Head(queue[a])]
    /\ queue' = [queue EXCEPT ![a] = Tail(@)]
    /\ Goto(a, "process")
    /\ UNCHANGED <<data, draft, todo, waitDelay, crashed>>

\* Seeded bug: a timeout of zero is taken for a timed wait.
TimesOutAtOnce(a) ==
    /\ pc[a] = "wait"
    /\ queue[a] = <<>>
    /\ UNCHANGED vinciVars

\* The other turn: the timeout passed with no message, processMsg(nullptr).
TimesOut(a) ==
    /\ pc[a] = "wait"
    /\ waitDelay[a] > 0
    /\ queue[a] = <<>>
    /\ UNCHANGED vinciVars

\* Seeded bug: the pointer is cleared before the message is given up.
DisposeCleared(a, q) ==
    /\ Push(q, nullptr)
    /\ msg' = [msg EXCEPT ![a] = nullptr]
    /\ Goto(a, "wait")
    /\ UNCHANGED <<data, draft, todo, crashed>>

\* Seeded bug: processMsg returns false and the loop ends.
DisposeAndEnd(a, q) ==
    /\ Push(q, msg[a])
    /\ msg' = [msg EXCEPT ![a] = nullptr]
    /\ Goto(a, "none")
    /\ UNCHANGED <<data, draft, todo, crashed>>

\* The end of processMsg: the message goes to queue q, the pool when it is
\* released and a mailbox when it is sent on, and the loop turns.
Dispose(a, q) ==
    /\ Push(q, msg[a])
    /\ msg' = [msg EXCEPT ![a] = nullptr]
    /\ Goto(a, "wait")
    /\ UNCHANGED <<data, draft, todo, crashed>>
=============================================================================
