------------------------- MODULE ConcurrentQueueCpp -------------------------
(***************************************************************************)
(* The queue every mailbox and pool is made of                             *)
(* (vinci-cpp/inc/ConcurrentQueueCpp.h): a std::queue under a mutex with a *)
(* condition variable.  A thread calls an operation, locks the mutex, and  *)
(* works with the mutex held or sleeps in the condition without it;        *)
(* count() takes no lock.                                                  *)
(***************************************************************************)
EXTENDS Integers, Sequences, FiniteSets

CONSTANTS
    Threads,     \* the threads that share the queue
    Items,       \* what they push
    Nothing,     \* std::nullopt, and the absence of an argument or result
    Free,        \* the holder of a mutex nobody holds
    CanCall,     \* the operations each thread may call
    CanPush,     \* the items each thread may push
    MaxCalls     \* bound: the operations each thread calls in a behaviour

Operations == {"push", "pop", "popTicks", "reset", "count"}

ASSUME ThreadsAssumption == IsFiniteSet(Threads)
ASSUME NothingIsNoItem == Nothing \notin Items
ASSUME FreeIsNoThread == Free \notin Threads
ASSUME CanCallAssumption == CanCall \in [Threads -> SUBSET Operations]
ASSUME CanPushAssumption == CanPush \in [Threads -> SUBSET Items]
ASSUME MaxCallsAssumption == MaxCalls \in Nat

VARIABLES
    content,    \* _queue, oldest first
    begin,      \* the start position of its std::deque; the end position is
                \* Len(content) further
    mutex,      \* the holder of _mutex, or Free
    waiting,    \* the threads asleep in _condition
    expired,    \* the threads in a timed pop whose deadline has passed
    pc,         \* where each thread is in its operation
    op,         \* the operation it is in, or was in last
    arg,        \* the item of its push
    result,     \* what its pop returns
    calls,      \* how many operations it has called, for the bound
    seen,       \* count(): the position read first, then the answer
    lengths     \* history: the lengths of the queue during a call of count

queueVars == <<content, begin, lengths>>
countVars == <<seen>>
callVars == <<op, arg, calls>>
vars == <<queueVars, mutex, waiting, expired, pc, result, callVars, countVars>>

TypeOK ==
    /\ content \in Seq(Items)
    /\ begin \in Nat
    /\ mutex \in Threads \cup {Free}
    /\ waiting \subseteq Threads
    /\ expired \subseteq Threads
    /\ pc \in [Threads -> {"idle", "lock", "push", "notify", "check",
                           "wait", "relock", "lastCheck", "reset", "unlock",
                           "count", "begin", "end", "counted"}]
    /\ op \in [Threads -> Operations]
    /\ arg \in [Threads -> Items \cup {Nothing}]
    /\ result \in [Threads -> Items \cup {Nothing}]
    /\ calls \in [Threads -> 0 .. MaxCalls]
    /\ seen \in [Threads -> Int]
    /\ lengths \in [Threads -> SUBSET Nat]

Init ==
    /\ content = <<>> /\ begin = 0
    /\ mutex = Free /\ waiting = {} /\ expired = {}
    /\ pc = [t \in Threads |-> "idle"]
    /\ op = [t \in Threads |-> "reset"]
    /\ arg = [t \in Threads |-> Nothing]
    /\ result = [t \in Threads |-> Nothing]
    /\ calls = [t \in Threads |-> 0]
    /\ seen = [t \in Threads |-> 0]
    /\ lengths = [t \in Threads |-> {}]

Goto(t, label) == pc' = [pc EXCEPT ![t] = label]

\* The threads inside a call of count have seen one more length.
Observe == lengths' = [t \in Threads |->
                         IF op[t] = "count" /\ pc[t] # "idle"
                         THEN lengths[t] \cup {Len(content')} ELSE lengths[t]]

Drop(n) == begin' = begin + n

-----------------------------------------------------------------------------
\* A thread calls an operation.
Invoke(t) ==
    /\ pc[t] = "idle"
    /\ calls[t] < MaxCalls
    /\ calls' = [calls EXCEPT ![t] = @ + 1]
    /\ \E o \in CanCall[t] :
         /\ op' = [op EXCEPT ![t] = o]
         /\ \E i \in IF o = "push" THEN CanPush[t] ELSE {Nothing} :
              arg' = [arg EXCEPT ![t] = i]
         /\ Goto(t, IF o = "count" THEN "count" ELSE "lock")
         /\ lengths' = [lengths EXCEPT
                          ![t] = IF o = "count" THEN {Len(content)} ELSE {}]
    /\ result' = [result EXCEPT ![t] = Nothing]
    /\ UNCHANGED <<content, begin, mutex, waiting, expired, countVars>>

\* unique_lock: each operation but count starts by taking the mutex.
Lock(t) ==
    /\ pc[t] = "lock"
    /\ mutex = Free
    /\ mutex' = t
    /\ Goto(t, CASE op[t] = "push" -> "push"
                 [] op[t] = "reset" -> "reset"
                 [] OTHER -> "check")
    /\ UNCHANGED <<queueVars, waiting, expired, result, callVars, countVars>>

\* push: append, then notify.
PushBack(t) ==
    /\ pc[t] = "push"
    /\ content' = Append(content, arg[t])
    /\ Observe
    /\ Goto(t, "notify")
    /\ UNCHANGED <<begin, mutex, waiting, expired, result, callVars, countVars>>

\* Seeded bug: notify only the push that makes the queue non-empty.
NotifyFirst(t) ==
    /\ pc[t] = "notify"
    /\ IF waiting = {} \/ Len(content) # 1
       THEN Goto(t, "unlock") /\ UNCHANGED waiting
       ELSE \E w \in waiting :
              /\ waiting' = waiting \ {w}
              /\ pc' = [pc EXCEPT ![t] = "unlock", ![w] = "relock"]
    /\ UNCHANGED <<queueVars, mutex, expired, result, callVars, countVars>>

\* Seeded bug: the notification is forgotten.
NotifyNone(t) ==
    /\ pc[t] = "notify"
    /\ Goto(t, "unlock")
    /\ UNCHANGED <<queueVars, mutex, waiting, expired, result, callVars, countVars>>

\* push, after the append: notify_one wakes one of the sleeping threads, if any.
NotifyOne(t) ==
    /\ pc[t] = "notify"
    /\ IF waiting = {}
       THEN Goto(t, "unlock") /\ UNCHANGED waiting
       ELSE \E w \in waiting :
              /\ waiting' = waiting \ {w}
              /\ pc' = [pc EXCEPT ![t] = "unlock", ![w] = "relock"]
    /\ UNCHANGED <<queueVars, mutex, expired, result, callVars, countVars>>

\* Seeded bug: front() of an empty queue.
TakeFrontBlindly(t) ==
    /\ pc[t] \in {"check", "lastCheck"}
    /\ result' = [result EXCEPT ![t] = IF content = <<>> THEN "garbage" ELSE Head(content)]
    /\ content' = IF content = <<>> THEN content ELSE Tail(content)
    /\ Drop(1)
    /\ Observe
    /\ Goto(t, "unlock")
    /\ UNCHANGED <<mutex, waiting, expired, callVars, countVars>>

\* pop: take the oldest item when there is one.
TakeFront(t) ==
    /\ pc[t] \in {"check", "lastCheck"}
    /\ content # <<>>
    /\ result' = [result EXCEPT ![t] = Head(content)]
    /\ content' = Tail(content)
    /\ Drop(1)
    /\ Observe
    /\ Goto(t, "unlock")
    /\ UNCHANGED <<mutex, waiting, expired, callVars, countVars>>

\* Otherwise sleep: the wait gives the mutex back in the same step.
Wait(t) ==
    /\ pc[t] = "check"
    /\ content = <<>>
    /\ waiting' = waiting \cup {t}
    /\ mutex' = Free
    /\ Goto(t, "wait")
    /\ UNCHANGED <<queueVars, expired, result, callVars, countVars>>

\* The deadline of a timed pop passes.
Expire(t) ==
    /\ pc[t] \in {"wait", "relock", "check"}
    /\ op[t] = "popTicks" /\ t \notin expired
    /\ expired' = expired \cup {t}
    /\ UNCHANGED <<queueVars, mutex, waiting, pc, result, callVars, countVars>>

\* A thread wakes up without being notified: its deadline has passed, or the
\* wake-up is spurious.
WakeUp(t) ==
    /\ t \in waiting
    /\ waiting' = waiting \ {t}
    /\ Goto(t, "relock")
    /\ UNCHANGED <<queueVars, mutex, expired, result, callVars, countVars>>

\* Seeded bug: each wake-up starts the timed wait again.
RelockRestart(t) ==
    /\ pc[t] = "relock"
    /\ mutex = Free
    /\ mutex' = t
    /\ Goto(t, "check")
    /\ UNCHANGED <<queueVars, waiting, expired, result, callVars, countVars>>

\* A woken thread takes the mutex again and looks at the queue again, for the
\* last time when its deadline has passed.
Relock(t) ==
    /\ pc[t] = "relock"
    /\ mutex = Free
    /\ mutex' = t
    /\ Goto(t, IF t \in expired THEN "lastCheck" ELSE "check")
    /\ UNCHANGED <<queueVars, waiting, expired, result, callVars, countVars>>

\* Seeded bug: a pop that timed out gives up without looking at the queue.
GiveUpBlindly(t) ==
    /\ pc[t] = "lastCheck"
    /\ Goto(t, "unlock")
    /\ UNCHANGED <<queueVars, mutex, waiting, expired, result, callVars, countVars>>

\* Its deadline passed and the queue still empty, a timed pop returns nothing.
GiveUp(t) ==
    /\ pc[t] = "lastCheck"
    /\ content = <<>>
    /\ Goto(t, "unlock")
    /\ UNCHANGED <<queueVars, mutex, waiting, expired, result, callVars, countVars>>

\* reset: swap the queue with an empty one.
Swap(t) ==
    /\ pc[t] = "reset"
    /\ content' = <<>>
    /\ Drop(Len(content))
    /\ Observe
    /\ Goto(t, "unlock")
    /\ UNCHANGED <<mutex, waiting, expired, result, callVars, countVars>>

\* The lock goes out of scope and the operation returns.
Return(t) ==
    /\ pc[t] = "unlock"
    /\ mutex' = Free
    /\ expired' = expired \ {t}
    /\ Goto(t, "idle")
    /\ UNCHANGED <<queueVars, waiting, result, callVars, countVars>>

-----------------------------------------------------------------------------
\* count: the size of a std::deque is its end position less its start; they
\* are read one after the other, in an order the compiler chooses.
ReadFirst(t) ==
    /\ pc[t] = "count"
    /\ \/ seen' = [seen EXCEPT ![t] = begin] /\ Goto(t, "end")
       \/ seen' = [seen EXCEPT ![t] = begin + Len(content)] /\ Goto(t, "begin")
    /\ UNCHANGED <<queueVars, mutex, waiting, expired, result, callVars>>

ReadSecond(t) ==
    /\ pc[t] \in {"begin", "end"}
    /\ seen' = [seen EXCEPT ![t] = IF pc[t] = "end"
                                   THEN begin + Len(content) - @ ELSE @ - begin]
    /\ Goto(t, "counted")
    /\ UNCHANGED <<queueVars, mutex, waiting, expired, result, callVars>>

ReturnCount(t) ==
    /\ pc[t] = "counted"
    /\ Goto(t, "idle")
    /\ seen' = [seen EXCEPT ![t] = 0]
    /\ lengths' = [lengths EXCEPT ![t] = {}]
    /\ UNCHANGED <<content, begin, mutex, waiting, expired, result, callVars>>

\* A step of thread t inside an operation, that it takes by itself.
Work(t) == \/ Lock(t) \/ PushBack(t) \/ NotifyOne(t)
           \/ TakeFront(t) \/ Wait(t) \/ Relock(t) \/ GiveUp(t)
           \/ Swap(t) \/ Return(t)
           \/ ReadFirst(t) \/ ReadSecond(t) \/ ReturnCount(t)

TimeOut(t) == Expire(t) \/ (t \in expired /\ WakeUp(t))

SpuriousWakeUp == \E t \in Threads \ expired : WakeUp(t)

Next == \E t \in Threads : Invoke(t) \/ Work(t) \/ Expire(t) \/ WakeUp(t)

Spec == Init /\ [][Next]_vars

\* Every thread that can run is run, deadlines pass, and a condition variable
\* does not wake its sleepers spuriously for ever.
FairSpec == /\ Spec
            /\ \A t \in Threads : WF_vars(Work(t)) /\ WF_vars(TimeOut(t))
            /\ <>[][~SpuriousWakeUp]_vars

-----------------------------------------------------------------------------
\* The threads on their way to look at the queue, with or without the mutex.
Awake == {t \in Threads : pc[t] \in {"relock", "check", "lastCheck"}}

\* A push whose notification is still to come.
Notifying == {t \in Threads : pc[t] = "notify"}

\* No wake-up is lost: while threads sleep, each item in the queue has a
\* thread that is awake to take it, or a notification still to come.
NoLostWakeup ==
    waiting # {} => Len(content) <= Cardinality(Awake) + Cardinality(Notifying)

\* What each thread calls and gets, as the abstract queue sees it; count is
\* not one of its operations.
Called(t) == pc[t] # "idle" /\ op[t] # "count"
Effected(t) == pc[t] \in {"notify", "unlock"}
CallOf(t) ==
    IF ~Called(t) THEN [phase |-> "idle"]
    ELSE IF Effected(t) THEN [phase |-> "done", op |-> op[t], result |-> result[t]]
    ELSE [phase |-> "called", op |-> op[t], arg |-> arg[t]]

Queue == INSTANCE ConcurrentQueue
    WITH items <- content, call <- [t \in Threads |-> CallOf(t)]

\* Push, both pops and reset take effect at once, in first-in first-out order,
\* however the steps of the threads interleave.
ImplementsQueue == Queue!Spec

\* count answers a length the queue had at some moment of the call.
CountIsReal == \A t \in Threads : pc[t] = "counted" => seen[t] \in lengths[t]

\* No thread sleeps for ever beside an item it could take.
NoStrandedItem == []<>(content = <<>> \/ waiting = {})

\* A timed pop comes back.
TimedPopReturns ==
    \A t \in Threads : (pc[t] = "wait" /\ op[t] = "popTicks") ~> (pc[t] = "idle")
=============================================================================
