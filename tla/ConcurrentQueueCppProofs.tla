----------------------- MODULE ConcurrentQueueCppProofs -----------------------
(***************************************************************************)
(* Proofs that the std::queue under a mutex with a condition variable is   *)
(* the queue its callers take it for, whatever number of threads share it  *)
(* and however often they call it: it implements the atomic first-in       *)
(* first-out queue, and it loses no wake-up.                               *)
(***************************************************************************)
EXTENDS ConcurrentQueueCpp, SequenceTheorems, FiniteSetTheorems, TLAPS

\* Where a thread is tells in which operation it is.
Position(t) ==
    /\ pc[t] \in {"push", "notify"} => op[t] = "push"
    /\ pc[t] = "reset" => op[t] = "reset"
    /\ pc[t] \in {"check", "wait", "relock"} => op[t] \in {"pop", "popTicks"}
    /\ pc[t] = "lastCheck" => op[t] = "popTicks"
    /\ pc[t] # "idle" =>
         (op[t] = "count" <=> pc[t] \in {"count", "begin", "end", "counted"})

\* The argument of a call is set when it is called, its result when it returns.
Parameters(t) ==
    /\ pc[t] # "idle" =>
         arg[t] \in IF op[t] = "push" THEN Items ELSE {Nothing}
    /\ pc[t] \notin {"idle", "unlock"} => result[t] = Nothing

\* A thread sleeps in its own wait; a deadline passes in a timed pop only.
Sleeping(t) ==
    /\ t \in waiting => pc[t] = "wait"
    /\ t \in expired => pc[t] # "idle" /\ op[t] = "popTicks"

IInv == /\ TypeOK
        /\ \A t \in Threads : Position(t) /\ Parameters(t) /\ Sleeping(t)

-----------------------------------------------------------------------------
(* Type correctness and the invariant. *)

LEMMA ObserveLemma ==
    ASSUME TypeOK, content' \in Seq(Items), Observe
    PROVE  lengths' \in [Threads -> SUBSET Nat]
<1>1. Len(content') \in Nat
  BY LenProperties
<1> QED
  BY <1>1 DEF TypeOK, Observe

\* The steps that change the content of the queue.
LEMMA ContentLemma ==
    ASSUME IInv, NEW t \in Threads,
           PushBack(t) \/ TakeFront(t) \/ Swap(t)
    PROVE  /\ content' \in Seq(Items) /\ begin' \in Nat
           /\ lengths' \in [Threads -> SUBSET Nat]
           /\ result' \in [Threads -> Items \cup {Nothing}]
<1> USE DEF IInv, TypeOK
<1>1. CASE PushBack(t)
  <2>1. arg[t] \in Items
    BY <1>1 DEF PushBack, Position, Parameters
  <2> QED
    BY <1>1, <2>1, ObserveLemma, AppendProperties DEF PushBack
<1>2. CASE TakeFront(t)
  <2>1. Head(content) \in Items /\ Tail(content) \in Seq(Items)
    BY <1>2, HeadTailProperties DEF TakeFront
  <2> QED
    BY <1>2, <2>1, ObserveLemma DEF TakeFront, Drop
<1>3. CASE Swap(t)
  <2>1. <<>> \in Seq(Items) /\ Len(content) \in Nat
    BY LenProperties
  <2> QED
    BY <1>3, <2>1, ObserveLemma DEF Swap, Drop
<1> QED
  BY <1>1, <1>2, <1>3

\* A thread calls an operation.
LEMMA InvokeKeepsInv ==
    ASSUME IInv, NEW t \in Threads, Invoke(t)
    PROVE  IInv'
<1>1. PICK o \in CanCall[t] :
        /\ op' = [op EXCEPT ![t] = o]
        /\ \E i \in IF o = "push" THEN CanPush[t] ELSE {Nothing} :
             arg' = [arg EXCEPT ![t] = i]
        /\ pc' = [pc EXCEPT ![t] = IF o = "count" THEN "count" ELSE "lock"]
        /\ lengths' = [lengths EXCEPT ![t] = IF o = "count" THEN {Len(content)} ELSE {}]
  BY DEF Invoke, Goto
<1>2. PICK i \in IF o = "push" THEN Items ELSE {Nothing} : arg' = [arg EXCEPT ![t] = i]
  BY <1>1, CanPushAssumption
<1>3. o \in Operations
  BY CanCallAssumption
<1>4. /\ result' = [result EXCEPT ![t] = Nothing]
      /\ UNCHANGED <<content, begin, mutex, waiting, expired, seen>>
      /\ calls[t] < MaxCalls /\ calls' = [calls EXCEPT ![t] = @ + 1]
      /\ pc[t] = "idle"
  BY DEF Invoke, countVars
<1>5. TypeOK'
  <2>1. calls' \in [Threads -> 0 .. MaxCalls]
    BY <1>4, MaxCallsAssumption DEF IInv, TypeOK
  <2>2. lengths' \in [Threads -> SUBSET Nat]
    BY <1>1, LenProperties DEF IInv, TypeOK
  <2> QED
    BY <1>1, <1>2, <1>3, <1>4, <2>1, <2>2 DEF IInv, TypeOK
<1>6. ASSUME NEW u \in Threads PROVE (Position(u) /\ Parameters(u) /\ Sleeping(u))'
  <2>1. CASE u = t
    BY <1>1, <1>2, <1>3, <1>4, <2>1
    DEF IInv, TypeOK, Position, Parameters, Sleeping, Operations
  <2>2. CASE u # t
    BY <1>1, <1>2, <1>4, <2>2 DEF IInv, TypeOK, Position, Parameters, Sleeping
  <2> QED
    BY <2>1, <2>2
<1> QED
  BY <1>5, <1>6 DEF IInv

\* A thread takes a step in its operation.
LEMMA WorkKeepsInv ==
    ASSUME IInv, NEW t \in Threads,
           Work(t) \/ Expire(t) \/ WakeUp(t)
    PROVE  IInv'
<1> USE DEF IInv, TypeOK, Position, Parameters, Sleeping, Goto, queueVars, callVars,
            countVars
<1>1. CASE Lock(t)
  BY <1>1 DEF Lock, Operations
<1>2. CASE PushBack(t)
  BY <1>2, ContentLemma DEF PushBack
<1>3. CASE NotifyOne(t)
  <2>1. CASE waiting = {}
    BY <1>3, <2>1 DEF NotifyOne
  <2>2. CASE waiting # {}
    <3>1. PICK w \in waiting : /\ waiting' = waiting \ {w}
                              /\ pc' = [pc EXCEPT ![t] = "unlock", ![w] = "relock"]
      BY <1>3, <2>2 DEF NotifyOne
    <3>2. w \in Threads /\ w # t /\ pc[w] = "wait" /\ pc[t] = "notify"
      BY <1>3 DEF NotifyOne
    <3>3. UNCHANGED <<content, begin, lengths, mutex, expired, result, op, arg, calls, seen>>
      BY <1>3 DEF NotifyOne
    <3> QED
      BY <3>1, <3>2, <3>3
  <2> QED
    BY <2>1, <2>2
<1>4. CASE TakeFront(t)
  BY <1>4, ContentLemma DEF TakeFront
<1>5. CASE Wait(t)
  BY <1>5 DEF Wait
<1>6. CASE Relock(t)
  BY <1>6 DEF Relock
<1>7. CASE GiveUp(t)
  BY <1>7 DEF GiveUp
<1>8. CASE Swap(t)
  BY <1>8, ContentLemma DEF Swap
<1>9. CASE Return(t)
  BY <1>9 DEF Return
<1>10. CASE ReadFirst(t) \/ ReadSecond(t)
  <2>1. Len(content) \in Nat
    BY LenProperties
  <2>2. seen' \in [Threads -> Int]
    BY <1>10, <2>1 DEF ReadFirst, ReadSecond
  <2>3. \E p \in {"begin", "end", "counted"} : pc' = [pc EXCEPT ![t] = p]
    BY <1>10 DEF ReadFirst, ReadSecond
  <2>4. /\ UNCHANGED <<content, begin, lengths, mutex, waiting, expired, result, op, arg, calls>>
        /\ pc[t] \in {"count", "begin", "end"}
    BY <1>10 DEF ReadFirst, ReadSecond
  <2> QED
    BY <2>2, <2>3, <2>4
<1>11. CASE ReturnCount(t)
  BY <1>11 DEF ReturnCount
<1>12. CASE Expire(t)
  BY <1>12 DEF Expire
<1>13. CASE WakeUp(t)
  BY <1>13 DEF WakeUp
<1> QED
  BY <1>1, <1>2, <1>3, <1>4, <1>5, <1>6, <1>7, <1>8, <1>9, <1>10, <1>11, <1>12, <1>13
  DEF Work

LEMMA InitInv == Init => IInv
BY MaxCallsAssumption
DEF Init, IInv, TypeOK, Operations, Position, Parameters, Sleeping

LEMMA StepKeepsInv == IInv /\ [Next]_vars => IInv'
<1> SUFFICES ASSUME IInv, [Next]_vars PROVE IInv'
  OBVIOUS
<1>1. CASE UNCHANGED vars
  BY <1>1 DEF vars, queueVars, countVars, callVars, IInv, TypeOK, Position, Parameters,
              Sleeping
<1> QED
  BY <1>1, InvokeKeepsInv, WorkKeepsInv DEF Next

LEMMA Invariant == Spec => []IInv
BY InitInv, StepKeepsInv, PTL DEF Spec

\* Every variable of the queue keeps its type: no operation takes the front of
\* an empty queue.
THEOREM QueueTypeCorrect == Spec => []TypeOK
<1>1. IInv => TypeOK
  BY DEF IInv
<1> QED
  BY <1>1, Invariant, PTL

-----------------------------------------------------------------------------
(* The queue implements the atomic one. *)

\* The calls as the abstract queue sees them.
CallsSeen == [t \in Threads |-> CallOf(t)]

LEMMA SeenLemma ==
    ASSUME NEW t \in Threads,
           \A u \in Threads \ {t} : CallOf(u)' = CallOf(u)
    PROVE  CallsSeen' = [CallsSeen EXCEPT ![t] = CallOf(t)']
BY DEF CallsSeen

\* A step that leaves the content and what is seen of each call is no step.
LEMMA StutterLemma ==
    ASSUME content' = content, \A u \in Threads : CallOf(u)' = CallOf(u)
    PROVE  UNCHANGED Queue!vars
BY DEF Queue!vars

\* A step of t that moves no other thread.
LEMMA AloneLemma ==
    ASSUME IInv, NEW t \in Threads, NEW label,
           pc' = [pc EXCEPT ![t] = label], UNCHANGED <<op, arg>>,
           \A u \in Threads \ {t} : result'[u] = result[u]
    PROVE  \A u \in Threads \ {t} : CallOf(u)' = CallOf(u)
BY DEF IInv, TypeOK, CallOf, Called, Effected

\* The calls of the three operations and their arguments.
LEMMA InvokeImplements ==
    ASSUME IInv, NEW t \in Threads, Invoke(t)
    PROVE  [Queue!Next]_(Queue!vars)
<1>1. PICK o \in CanCall[t] :
        /\ op' = [op EXCEPT ![t] = o]
        /\ \E i \in IF o = "push" THEN CanPush[t] ELSE {Nothing} :
             arg' = [arg EXCEPT ![t] = i]
        /\ pc' = [pc EXCEPT ![t] = IF o = "count" THEN "count" ELSE "lock"]
  BY DEF Invoke, Goto
<1>2. PICK i \in IF o = "push" THEN Items ELSE {Nothing} : arg' = [arg EXCEPT ![t] = i]
  BY <1>1, CanPushAssumption
<1>3. /\ o \in Operations /\ pc[t] = "idle"
      /\ content' = content /\ result' = [result EXCEPT ![t] = Nothing]
  BY CanCallAssumption DEF Invoke
<1>4. \A u \in Threads \ {t} : CallOf(u)' = CallOf(u)
  BY <1>1, <1>2, <1>3 DEF IInv, TypeOK, CallOf, Called, Effected
<1>5. CallOf(t) = [phase |-> "idle"]
  BY <1>3 DEF CallOf, Called
<1>6. CASE o = "count"
  <2>1. CallOf(t)' = [phase |-> "idle"]
    BY <1>1, <1>6 DEF IInv, TypeOK, CallOf, Called
  <2> QED
    BY <1>3, <1>4, <1>5, <2>1, StutterLemma
<1>7. CASE o # "count"
  <2>1. CallOf(t)' = [phase |-> "called", op |-> o, arg |-> i]
    BY <1>1, <1>2, <1>7 DEF IInv, TypeOK, CallOf, Called, Effected
  <2>2. CallOf(t)' \in Queue!Calls
    BY <1>2, <1>3, <1>7, <2>1 DEF Queue!Calls, Queue!Called, Operations
  <2>3. Queue!Invoke(t)
    BY <1>3, <1>4, <1>5, <2>2, SeenLemma DEF Queue!Invoke, Queue!Idle, CallsSeen
  <2> QED
    BY <2>3 DEF Queue!Next
<1> QED
  BY <1>6, <1>7

\* The four steps at which an operation takes effect.
LEMMA EffectImplements ==
    ASSUME IInv, NEW t \in Threads,
           PushBack(t) \/ TakeFront(t) \/ GiveUp(t) \/ Swap(t)
    PROVE  Queue!Next
<1> USE DEF Goto
<1>1. /\ pc[t] \in {"push", "check", "lastCheck", "reset"}
      /\ op[t] # "count" /\ result[t] = Nothing
      /\ CallOf(t) = [phase |-> "called", op |-> op[t], arg |-> arg[t]]
  BY DEF IInv, Position, Parameters, PushBack, TakeFront, GiveUp, Swap, CallOf, Called,
         Effected
<1>2. /\ UNCHANGED <<op, arg>>
      /\ \E label \in {"notify", "unlock"} : pc' = [pc EXCEPT ![t] = label]
      /\ \A u \in Threads \ {t} : result'[u] = result[u]
  BY DEF IInv, TypeOK, PushBack, TakeFront, GiveUp, Swap, callVars
<1>3. CallOf(t)' = [phase |-> "done", op |-> op[t], result |-> result'[t]]
  BY <1>1, <1>2 DEF IInv, TypeOK, CallOf, Called, Effected
<1>4. CallsSeen' = [CallsSeen EXCEPT ![t] = Queue!Done(op[t], result'[t])]
  BY <1>2, <1>3, AloneLemma, SeenLemma DEF Queue!Done
<1>5. Queue!Effect(t, op[t], result'[t])
  BY <1>1, <1>4 DEF Queue!Effect, CallsSeen
<1>6. CASE PushBack(t)
  <2>1. op[t] = "push" /\ result'[t] = Nothing /\ content' = Append(content, arg[t])
    BY <1>1, <1>6 DEF IInv, Position, PushBack
  <2>2. Queue!Push(t)
    BY <1>1, <1>5, <2>1 DEF Queue!Push
  <2> QED
    BY <2>2 DEF Queue!Next
<1>7. CASE TakeFront(t)
  <2>1. /\ op[t] \in {"pop", "popTicks"} /\ result'[t] = Head(content)
        /\ content # <<>> /\ content' = Tail(content)
    BY <1>1, <1>7 DEF IInv, TypeOK, Position, TakeFront
  <2>2. Queue!Pop(t)
    BY <1>5, <2>1 DEF Queue!Pop
  <2> QED
    BY <2>2 DEF Queue!Next
<1>8. CASE GiveUp(t)
  <2>1. op[t] = "popTicks" /\ result'[t] = Nothing /\ content = <<>> /\ content' = content
    BY <1>1, <1>8 DEF IInv, Position, GiveUp, queueVars
  <2>2. Queue!GiveUp(t)
    BY <1>5, <2>1 DEF Queue!GiveUp
  <2> QED
    BY <2>2 DEF Queue!Next
<1>9. CASE Swap(t)
  <2>1. op[t] = "reset" /\ result'[t] = Nothing /\ content' = <<>>
    BY <1>1, <1>9 DEF IInv, Position, Swap
  <2>2. Queue!Reset(t)
    BY <1>5, <2>1 DEF Queue!Reset
  <2> QED
    BY <2>2 DEF Queue!Next
<1> QED
  BY <1>6, <1>7, <1>8, <1>9

\* The lock is released and the operation is over.
LEMMA ReturnImplements ==
    ASSUME IInv, NEW t \in Threads, Return(t)
    PROVE  Queue!Next
<1>1. /\ pc[t] = "unlock" /\ op[t] # "count"
      /\ pc' = [pc EXCEPT ![t] = "idle"]
      /\ UNCHANGED <<op, arg, result, content>>
  BY DEF IInv, Position, Return, Goto, queueVars, callVars
<1>2. /\ CallOf(t) = [phase |-> "done", op |-> op[t], result |-> result[t]]
      /\ CallOf(t)' = [phase |-> "idle"]
  BY <1>1 DEF IInv, TypeOK, CallOf, Called, Effected
<1>3. CallsSeen' = [CallsSeen EXCEPT ![t] = Queue!Idle]
  BY <1>1, <1>2, AloneLemma, SeenLemma DEF Queue!Idle
<1>4. Queue!Return(t)
  BY <1>1, <1>2, <1>3 DEF Queue!Return, CallsSeen
<1> QED
  BY <1>4 DEF Queue!Next

\* The other steps of an operation are not seen from outside.
LEMMA InnerStepImplements ==
    ASSUME IInv, NEW t \in Threads,
           \/ Lock(t) \/ NotifyOne(t) \/ Wait(t) \/ Relock(t) \/ Expire(t) \/ WakeUp(t)
           \/ ReadFirst(t) \/ ReadSecond(t) \/ ReturnCount(t)
    PROVE  UNCHANGED Queue!vars
<1>1. UNCHANGED <<content, op, arg, result>>
  BY DEF Lock, NotifyOne, Wait, Relock, Expire, WakeUp, ReadFirst, ReadSecond,
         ReturnCount, queueVars, callVars
<1>2. ASSUME NEW u \in Threads PROVE CallOf(u)' = CallOf(u)
  <2>1. CASE pc'[u] = pc[u]
    BY <1>1, <2>1 DEF CallOf, Called, Effected
  <2>2. CASE op[u] = "count"
    BY <1>1, <2>2 DEF CallOf, Called
  <2>3. CASE pc'[u] # pc[u] /\ op[u] # "count"
    <3>1. /\ pc[u] # "idle" /\ pc'[u] # "idle"
          /\ pc[u] \in {"notify", "unlock"} <=> pc'[u] \in {"notify", "unlock"}
      BY <2>3 DEF IInv, TypeOK, Position, Sleeping, Goto, Lock, NotifyOne, Wait, Relock,
                  Expire, WakeUp, ReadFirst, ReadSecond, ReturnCount
    <3> QED
      BY <1>1, <3>1 DEF CallOf, Called, Effected
  <2> QED
    BY <2>1, <2>2, <2>3
<1> QED
  BY <1>1, <1>2, StutterLemma

\* The std::queue, its mutex and its condition variable are, for any number of
\* threads and calls, a first-in first-out queue whose operations are atomic.
THEOREM QueueImplemented == Spec => ImplementsQueue
<1>1. Init => Queue!Init
  BY DEF Init, Queue!Init, Queue!Idle, CallOf, Called
<1>2. IInv /\ [Next]_vars => [Queue!Next]_(Queue!vars)
  <2> SUFFICES ASSUME IInv, [Next]_vars PROVE [Queue!Next]_(Queue!vars)
    OBVIOUS
  <2>1. CASE UNCHANGED vars
    <3>1. \A u \in Threads : CallOf(u)' = CallOf(u)
      BY <2>1 DEF vars, callVars, CallOf, Called, Effected
    <3> QED
      BY <2>1, <3>1, StutterLemma DEF vars, queueVars
  <2>2. ASSUME NEW t \in Threads, Work(t) PROVE [Queue!Next]_(Queue!vars)
    BY <2>2, EffectImplements, ReturnImplements, InnerStepImplements DEF Work
  <2> QED
    BY <2>1, <2>2, InvokeImplements, InnerStepImplements DEF Next
<1> QED
  BY <1>1, <1>2, Invariant, PTL DEF Spec, ImplementsQueue, Queue!Spec

-----------------------------------------------------------------------------
(* No wake-up is lost. *)

LEMMA CountLemma ==
    /\ IsFiniteSet(Awake) /\ IsFiniteSet(Notifying)
    /\ Cardinality(Awake) \in Nat /\ Cardinality(Notifying) \in Nat
<1>1. Awake \subseteq Threads /\ Notifying \subseteq Threads
  BY DEF Awake, Notifying
<1>2. IsFiniteSet(Awake) /\ IsFiniteSet(Notifying)
  BY <1>1, ThreadsAssumption, FS_Subset
<1> QED
  BY <1>2, FS_CardinalityType

\* The steps that neither add an item nor take a thread from the two sets.
LEMMA MoreAwakeLemma ==
    ASSUME NoLostWakeup, content' = content, waiting' # {} => waiting # {},
           Awake \subseteq Awake', Notifying \subseteq Notifying'
    PROVE  NoLostWakeup'
<1>1. /\ Cardinality(Awake) <= Cardinality(Awake')
      /\ Cardinality(Notifying) <= Cardinality(Notifying')
      /\ Cardinality(Awake') \in Nat /\ Cardinality(Notifying') \in Nat
  <2>1. IsFiniteSet(Awake') /\ IsFiniteSet(Notifying')
    <3>1. Awake' \subseteq Threads /\ Notifying' \subseteq Threads
      BY DEF Awake, Notifying
    <3> QED
      BY <3>1, ThreadsAssumption, FS_Subset
  <2> QED
    BY <2>1, FS_Subset, FS_CardinalityType
<1> QED
  BY <1>1, CountLemma, LenProperties DEF NoLostWakeup

\* An item is pushed: its notification is still to come.
LEMMA PushKeepsWakeups ==
    ASSUME IInv, NoLostWakeup, NEW t \in Threads, PushBack(t)
    PROVE  NoLostWakeup'
<1>1. /\ pc[t] = "push" /\ pc' = [pc EXCEPT ![t] = "notify"]
      /\ waiting' = waiting
  BY DEF PushBack, Goto
<1>2. Awake' = Awake /\ Notifying' = Notifying \cup {t} /\ t \notin Notifying
  BY <1>1 DEF IInv, TypeOK, Awake, Notifying
<1>3. Cardinality(Notifying') = Cardinality(Notifying) + 1
  BY <1>2, CountLemma, FS_AddElement
<1>4. Len(content') = Len(content) + 1 /\ Len(content) \in Nat
  <2>1. arg[t] \in Items /\ content \in Seq(Items) /\ content' = Append(content, arg[t])
    BY <1>1 DEF IInv, TypeOK, Position, Parameters, PushBack
  <2> QED
    BY <2>1, AppendProperties, LenProperties
<1> QED
  BY <1>1, <1>2, <1>3, <1>4, CountLemma DEF NoLostWakeup

\* A notification wakes a sleeper, if there is one.
LEMMA NotifyKeepsWakeups ==
    ASSUME IInv, NoLostWakeup, NEW t \in Threads, NotifyOne(t)
    PROVE  NoLostWakeup'
<1>1. CASE waiting = {}
  BY <1>1 DEF NotifyOne, NoLostWakeup
<1>2. CASE waiting # {}
  <2>1. PICK w \in waiting : /\ waiting' = waiting \ {w}
                            /\ pc' = [pc EXCEPT ![t] = "unlock", ![w] = "relock"]
    BY <1>2 DEF NotifyOne
  <2>2. /\ w \in Threads /\ w # t /\ pc[w] = "wait" /\ pc[t] = "notify"
        /\ content' = content
    BY DEF IInv, TypeOK, Sleeping, NotifyOne, queueVars
  <2>3. /\ Awake' = Awake \cup {w} /\ w \notin Awake
        /\ Notifying' = Notifying \ {t} /\ t \in Notifying
    BY <2>1, <2>2 DEF IInv, TypeOK, Awake, Notifying
  <2>4. /\ Cardinality(Awake') = Cardinality(Awake) + 1
        /\ Cardinality(Notifying') = Cardinality(Notifying) - 1
    BY <2>3, CountLemma, FS_AddElement, FS_RemoveElement
  <2> QED
    BY <1>2, <2>2, <2>4, CountLemma DEF NoLostWakeup
<1> QED
  BY <1>1, <1>2

\* A thread that takes an item was awake.
LEMMA TakeKeepsWakeups ==
    ASSUME IInv, NoLostWakeup, NEW t \in Threads, TakeFront(t)
    PROVE  NoLostWakeup'
<1>1. /\ pc[t] \in {"check", "lastCheck"} /\ pc' = [pc EXCEPT ![t] = "unlock"]
      /\ waiting' = waiting
  BY DEF TakeFront, Goto
<1>2. Awake' = Awake \ {t} /\ t \in Awake /\ Notifying' = Notifying
  BY <1>1 DEF IInv, TypeOK, Awake, Notifying
<1>3. Cardinality(Awake') = Cardinality(Awake) - 1
  BY <1>2, CountLemma, FS_RemoveElement
<1>4. Len(content') = Len(content) - 1 /\ Len(content) \in Nat
  <2>1. content \in Seq(Items) /\ content # <<>> /\ content' = Tail(content)
    BY DEF IInv, TypeOK, TakeFront
  <2> QED
    BY <2>1, HeadTailProperties, LenProperties
<1> QED
  BY <1>1, <1>2, <1>3, <1>4, CountLemma DEF NoLostWakeup

\* The steps that leave the queue empty.
LEMMA EmptyKeepsWakeups ==
    ASSUME content' = <<>>
    PROVE  NoLostWakeup'
<1>1. Cardinality(Awake') \in Nat /\ Cardinality(Notifying') \in Nat
  <2>1. Awake' \subseteq Threads /\ Notifying' \subseteq Threads
    BY DEF Awake, Notifying
  <2> QED
    BY <2>1, ThreadsAssumption, FS_Subset, FS_CardinalityType
<1>2. Len(content') = 0
  OBVIOUS
<1> QED
  BY <1>1, <1>2 DEF NoLostWakeup

\* While threads sleep, no more items are in the queue than threads are awake
\* to take one or notifications still to come, for any number of threads.
THEOREM WakeupsKept == Spec => []NoLostWakeup
<1>1. Init => NoLostWakeup
  BY DEF Init, NoLostWakeup
<1>2. IInv /\ NoLostWakeup /\ [Next]_vars => NoLostWakeup'
  <2> SUFFICES ASSUME IInv, NoLostWakeup, [Next]_vars PROVE NoLostWakeup'
    OBVIOUS
  <2> USE DEF Goto, queueVars, callVars, countVars
  <2>1. CASE UNCHANGED vars
    BY <2>1 DEF vars, NoLostWakeup, Awake, Notifying
  <2>2. ASSUME NEW t \in Threads, Wait(t) \/ GiveUp(t) \/ Swap(t) PROVE NoLostWakeup'
    BY <2>2, EmptyKeepsWakeups DEF Wait, GiveUp, Swap
  <2>3. ASSUME NEW t \in Threads,
               \/ Invoke(t) \/ Lock(t) \/ Relock(t) \/ Return(t) \/ Expire(t) \/ WakeUp(t)
               \/ ReadFirst(t) \/ ReadSecond(t) \/ ReturnCount(t)
        PROVE  NoLostWakeup'
    <3>1. content' = content /\ waiting' \subseteq waiting
      BY <2>3 DEF Invoke, Lock, Relock, Return, Expire, WakeUp, ReadFirst, ReadSecond,
                  ReturnCount
    <3>2. Awake \subseteq Awake' /\ Notifying \subseteq Notifying'
      <4> SUFFICES ASSUME NEW u \in Threads, pc'[u] # pc[u]
                   PROVE  /\ u \in Awake => u \in Awake'
                          /\ u \notin Notifying
        BY DEF Awake, Notifying
      <4>1. u = t
        BY <2>3 DEF IInv, TypeOK, Invoke, Lock, Relock, Return, Expire, WakeUp, ReadFirst,
                    ReadSecond, ReturnCount
      <4> QED
        BY <2>3, <4>1 DEF IInv, TypeOK, Sleeping, Awake, Notifying, Invoke, Lock, Relock,
                          Return, Expire, WakeUp, ReadFirst, ReadSecond, ReturnCount
    <3> QED
      BY <3>1, <3>2, MoreAwakeLemma
  <2> QED
    BY <2>1, <2>2, <2>3, PushKeepsWakeups, NotifyKeepsWakeups, TakeKeepsWakeups
    DEF Next, Work
<1> QED
  BY <1>1, <1>2, Invariant, PTL DEF Spec
=============================================================================
