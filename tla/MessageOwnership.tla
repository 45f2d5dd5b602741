-------------------------- MODULE MessageOwnership --------------------------
(***************************************************************************)
(* What the actor library promises about messages: the ownership protocol. *)
(* A message of the pool is free, or in the mailbox of one actor, or held  *)
(* by one thread, which is the only one that may use it.  A thread gets a  *)
(* message from the pool or from its mailbox; it gives it up by putting it *)
(* in a queue (send: a mailbox, release: the pool); and an actor takes its *)
(* next message only after it has given up all it held.                    *)
(***************************************************************************)
EXTENDS Integers, Sequences, FiniteSets, Functions

CONSTANTS
    Actors,     \* the threads with a mailbox
    Clients,    \* the other threads
    Pool,       \* the index of the queue of free messages
    PoolSize    \* the number of messages

ASSUME NamesAssumption == /\ Actors \cap Clients = {}
                          /\ Pool \notin Actors \cup Clients
ASSUME PoolAssumption == PoolSize \in Nat

Threads == Actors \cup Clients
Queues == Actors \cup {Pool}
Message == 1 .. PoolSize

VARIABLES
    queue,    \* the messages in each mailbox and in the pool, oldest first
    held      \* the messages each thread holds

vars == <<queue, held>>

Init ==
    /\ queue = [q \in Queues |-> IF q = Pool THEN [m \in Message |-> m] ELSE <<>>]
    /\ held = [t \in Threads |-> {}]

\* Seeded bug: an empty pool's nullptr is taken for a message.
TakeUnchecked(t, q) ==
    /\ held' = [held EXCEPT ![t] = @ \cup {IF queue[q] = <<>> THEN 0 ELSE Head(queue[q])}]
    /\ queue' = [queue EXCEPT ![q] = IF @ = <<>> THEN @ ELSE Tail(@)]

\* Seeded bug: the message is read and not removed.
TakeFront(t, q) ==
    /\ queue[q] # <<>>
    /\ held' = [held EXCEPT ![t] = @ \cup {Head(queue[q])}]
    /\ UNCHANGED queue

\* Seeded bug: the newest message is taken first.
TakeNewest(t, q) ==
    /\ queue[q] # <<>>
    /\ held' = [held EXCEPT ![t] = @ \cup {queue[q][Len(queue[q])]}]
    /\ queue' = [queue EXCEPT ![q] = SubSeq(@, 1, Len(@) - 1)]

\* Thread t takes the oldest message of queue q.
Take(t, q) ==
    /\ queue[q] # <<>>
    /\ held' = [held EXCEPT ![t] = @ \cup {Head(queue[q])}]
    /\ queue' = [queue EXCEPT ![q] = Tail(@)]

\* MessagePool::acquire.
Acquire(t) == Take(t, Pool)

\* Actor::message followed by processMsg: one message at a time.
Receive(a) == held[a] = {} /\ Take(a, a)

\* Seeded bug: the sender goes on using the message it has put.
PutAndKeep(t, m, q) ==
    /\ m \in held[t]
    /\ queue' = [queue EXCEPT ![q] = Append(@, m)]
    /\ UNCHANGED held

\* Actor::send and MessagePool::release: t holds m and puts it in q.
Put(t, m, q) ==
    /\ m \in held[t]
    /\ queue' = [queue EXCEPT ![q] = Append(@, m)]
    /\ held' = [held EXCEPT ![t] = @ \ {m}]

Next == \/ \E t \in Threads : Acquire(t)
        \/ \E a \in Actors : Receive(a)
        \/ \E t \in Threads : \E m \in held[t], q \in Queues : Put(t, m, q)

Spec == Init /\ [][Next]_vars

-----------------------------------------------------------------------------
TypeOK == /\ queue \in [Queues -> Seq(Message)]
          /\ held \in [Threads -> SUBSET Message]

\* A queue holds no message twice.
QueuesDistinct == \A q \in Queues : IsInjective(queue[q])

\* No message is in two queues, in a queue and in a thread's hands, or in the
\* hands of two threads.
Apart ==
    /\ \A q, r \in Queues : q # r => Range(queue[q]) \cap Range(queue[r]) = {}
    /\ \A t, u \in Threads : t # u => held[t] \cap held[u] = {}
    /\ \A t \in Threads, q \in Queues : held[t] \cap Range(queue[q]) = {}

\* The actor is the only owner of the messages in its mailbox, a thread of
\* those it holds, and the pool of those that are free (release must happen
\* once, and nobody may use a message it has sent).
SoleOwner == QueuesDistinct /\ Apart

\* Message m is in a queue or held by a thread.
Placed(m) == \/ \E q \in Queues : m \in Range(queue[q])
             \/ \E t \in Threads : m \in held[t]

\* No message is lost: each has its place.
NoneLost == \A m \in Message : Placed(m)

\* No mailbox holds more messages than there are: with a queue size of at
\* least PoolSize, the put of ActorCmsis::receive never has to wait.
MailboxesFit == \A q \in Queues : Len(queue[q]) <= PoolSize
=============================================================================
