--------------------------- MODULE ConcurrentQueue ---------------------------
(***************************************************************************)
(* What a concurrent queue promises the threads that call it               *)
(* (vinci/inc/ConcurrentQueue.h): each operation takes effect at once, at  *)
(* some moment between its call and its return.  A timed pop gives up with *)
(* nothing only when the queue is empty at that moment.                    *)
(***************************************************************************)
EXTENDS Integers, Sequences

CONSTANTS
    Threads,
    Items,
    Nothing    \* the result of an operation that has none to return

VARIABLES
    items,     \* the content of the queue, oldest first
    call       \* the operation each thread is in

vars == <<items, call>>

\* A thread is in no operation; it has called one that has had no effect yet;
\* or it has one that took effect and will return its result.
Idle == [phase |-> "idle"]
Called(o, i) == [phase |-> "called", op |-> o, arg |-> i]
Done(o, r) == [phase |-> "done", op |-> o, result |-> r]

Calls == {Called("push", i) : i \in Items}
    \cup {Called(o, Nothing) : o \in {"pop", "popTicks", "reset"}}

Init == items = <<>> /\ call = [t \in Threads |-> Idle]

Invoke(t) ==
    /\ call[t] = Idle
    /\ \E c \in Calls : call' = [call EXCEPT ![t] = c]
    /\ UNCHANGED items

\* The operation o of t takes effect, with result r.
Effect(t, o, r) ==
    /\ call[t].phase = "called" /\ call[t].op = o
    /\ call' = [call EXCEPT ![t] = Done(o, r)]

Push(t) == /\ Effect(t, "push", Nothing)
           /\ items' = Append(items, call[t].arg)

Pop(t) == /\ items # <<>>
          /\ \E o \in {"pop", "popTicks"} : Effect(t, o, Head(items))
          /\ items' = Tail(items)

GiveUp(t) == /\ items = <<>>
             /\ Effect(t, "popTicks", Nothing)
             /\ UNCHANGED items

Reset(t) == /\ Effect(t, "reset", Nothing)
            /\ items' = <<>>

Return(t) == /\ call[t].phase = "done"
             /\ call' = [call EXCEPT ![t] = Idle]
             /\ UNCHANGED items

Next == \E t \in Threads :
            Invoke(t) \/ Push(t) \/ Pop(t) \/ GiveUp(t) \/ Reset(t) \/ Return(t)

Spec == Init /\ [][Next]_vars
=============================================================================
