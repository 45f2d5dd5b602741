------------------------------ MODULE CmsisOs2 ------------------------------
(***************************************************************************)
(* The message queues of the simulated CMSIS-RTOS                          *)
(* (vinci-cmsis-simulation/inc/cmsis_os2.h) as ConcurrentQueueCmsis uses   *)
(* them.  A queue holds pointers to buffers of the heap: put copies the    *)
(* message of its caller into a new buffer, get copies it out and frees    *)
(* the buffer.  How many bytes a copy takes is in one global variable that *)
(* every osMessageQueueNew sets.  The queue of pointers is a               *)
(* ConcurrentQueueCpp, whose push, pops and reset are atomic here.         *)
(***************************************************************************)
EXTENDS Integers, Sequences, FiniteSets, Functions

CONSTANTS
    Threads,     \* the threads of the program
    Creator,     \* the thread that creates the queues
    QueueIds,    \* the queues, in the order of their creation
    MsgSize,     \* the size of the messages of each queue, sizeof(T)
    Items,       \* what the messages say
    Garbage,     \* what a message says that was not copied as a whole
    Nothing,     \* no argument, or no result
    Heap,        \* the addresses of buffers
    CanCall,     \* the operations each thread may call
    MaxCalls     \* bound: how many operations each thread calls in a behaviour

Queues == Range(QueueIds)
Operations == {"push", "pop", "popTicks", "reset"}

ASSUME CreatorAssumption == Creator \in Threads
ASSUME QueueIdsAssumption == QueueIds \in Seq(Queues) /\ IsInjective(QueueIds)
ASSUME MsgSizeAssumption == MsgSize \in [Queues -> Nat \ {0}]
ASSUME ItemsAssumption == Nothing \notin Items /\ Garbage \notin Items
ASSUME HeapAssumption == Nothing \notin Heap
ASSUME CanCallAssumption == CanCall \in [Threads -> SUBSET Operations]
ASSUME MaxCallsAssumption == MaxCalls \in [Threads -> Nat]

VARIABLES
    message_size,    \* the global variable
    created,         \* how many queues have been created
    content,         \* the buffers in each queue, oldest first
    allocated,       \* the buffers that new has returned and delete[] has not
    buffer,          \* the size of each buffer and the message copied to it
    pc, op, target,  \* where each thread is, in which operation, on which queue
    arg,             \* the message a put is given
    pointer,         \* the local pointer data of a put or a get
    result,          \* what a get saves to the buffer of its caller
    calls            \* how many operations each thread has called

heapVars == <<allocated, buffer>>
callVars == <<op, target, arg, calls>>
vars == <<message_size, created, content, heapVars, pc, callVars, pointer, result>>

TypeOK ==
    /\ message_size \in Nat
    /\ created \in 0 .. Len(QueueIds)
    /\ content \in [Queues -> Seq(Heap)]
    /\ allocated \subseteq Heap
    /\ buffer \in [Heap -> [bytes : Nat, item : Items \cup {Garbage, Nothing}]]
    /\ pc \in [Threads -> {"idle", "copy", "push", "pop", "save", "reset", "done"}]
    /\ op \in [Threads -> Operations]
    /\ target \in [Threads -> Queues \cup {Nothing}]
    /\ arg \in [Threads -> Items \cup {Nothing}]
    /\ pointer \in [Threads -> Heap \cup {Nothing}]
    /\ result \in [Threads -> Items \cup {Garbage, Nothing}]
    /\ DOMAIN calls = Threads
    /\ \A t \in Threads : calls[t] \in 0 .. MaxCalls[t]

Init ==
    /\ message_size = 0 /\ created = 0
    /\ content = [q \in Queues |-> <<>>]
    /\ allocated = {}
    /\ buffer = [a \in Heap |-> [bytes |-> 0, item |-> Nothing]]
    /\ pc = [t \in Threads |-> "idle"]
    /\ op = [t \in Threads |-> "reset"]
    /\ target = [t \in Threads |-> Nothing]
    /\ arg = [t \in Threads |-> Nothing]
    /\ pointer = [t \in Threads |-> Nothing]
    /\ result = [t \in Threads |-> Nothing]
    /\ calls = [t \in Threads |-> 0]

Goto(t, label) == pc' = [pc EXCEPT ![t] = label]

-----------------------------------------------------------------------------
\* Seeded bug: the size of the queue is taken for the size of its messages.
NewWithCount ==
    /\ pc[Creator] = "idle"
    /\ created < Len(QueueIds)
    /\ created' = created + 1
    /\ message_size' = created'
    /\ UNCHANGED <<content, heapVars, pc, callVars, pointer, result>>

\* osMessageQueueNew: the size of the queue's messages is that of all.
New ==
    /\ pc[Creator] = "idle"
    /\ created < Len(QueueIds)
    /\ created' = created + 1
    /\ message_size' = MsgSize[QueueIds[created']]
    /\ UNCHANGED <<content, heapVars, pc, callVars, pointer, result>>

\* A thread calls push, pop, pop(ticks) or reset of a queue.
Invoke(t) ==
    /\ pc[t] = "idle"
    /\ calls[t] < MaxCalls[t]
    /\ calls' = [calls EXCEPT ![t] = @ + 1]
    /\ \E o \in CanCall[t], i \in 1 .. created :
         /\ op' = [op EXCEPT ![t] = o]
         /\ target' = [target EXCEPT ![t] = QueueIds[i]]
         /\ \E m \in IF o = "push" THEN Items ELSE {Nothing} :
              arg' = [arg EXCEPT ![t] = m]
         /\ Goto(t, CASE o = "push" -> "copy" [] o = "reset" -> "reset" [] OTHER -> "pop")
    /\ result' = [result EXCEPT ![t] = Nothing]
    /\ UNCHANGED <<message_size, created, content, heapVars, pointer>>

\* osMessageQueuePut: a new buffer gets a copy of the message...
Copy(t) ==
    /\ pc[t] = "copy"
    /\ \E a \in Heap \ allocated :
         /\ allocated' = allocated \cup {a}
         /\ pointer' = [pointer EXCEPT ![t] = a]
         /\ buffer' = [buffer EXCEPT
              ![a] = [bytes |-> message_size,
                      item |-> IF message_size = MsgSize[target[t]]
                               THEN arg[t] ELSE Garbage]]
    /\ Goto(t, "push")
    /\ UNCHANGED <<message_size, created, content, callVars, result>>

\* Seeded bug: the pointer is cleared before it is pushed.
PushCleared(t) ==
    /\ pc[t] = "push"
    /\ content' = [content EXCEPT ![target[t]] = Append(@, Nothing)]
    /\ pointer' = [pointer EXCEPT ![t] = Nothing]
    /\ Goto(t, "done")
    /\ UNCHANGED <<message_size, created, heapVars, callVars, result>>

\* ... and its pointer is pushed.
Push(t) ==
    /\ pc[t] = "push"
    /\ content' = [content EXCEPT ![target[t]] = Append(@, pointer[t])]
    /\ pointer' = [pointer EXCEPT ![t] = Nothing]
    /\ Goto(t, "done")
    /\ UNCHANGED <<message_size, created, heapVars, callVars, result>>

\* Seeded bug: the oldest pointer is read and stays in the queue.
PopFront(t) ==
    /\ pc[t] = "pop"
    /\ content[target[t]] # <<>>
    /\ pointer' = [pointer EXCEPT ![t] = Head(content[target[t]])]
    /\ Goto(t, "save")
    /\ UNCHANGED <<message_size, created, content, heapVars, callVars, result>>

\* osMessageQueueGet: pop the oldest pointer...
Pop(t) ==
    /\ pc[t] = "pop"
    /\ content[target[t]] # <<>>
    /\ pointer' = [pointer EXCEPT ![t] = Head(content[target[t]])]
    /\ content' = [content EXCEPT ![target[t]] = Tail(@)]
    /\ Goto(t, "save")
    /\ UNCHANGED <<message_size, created, heapVars, callVars, result>>

\* What the copy out of the buffer gives the caller.
Saved(t) == IF message_size = buffer[pointer[t]].bytes
            THEN buffer[pointer[t]].item ELSE Garbage

\* Seeded bug: the buffer is freed only by an untimed get.
SaveLeaking(t) ==
    /\ pc[t] = "save"
    /\ result' = [result EXCEPT ![t] = Saved(t)]
    /\ allocated' = IF op[t] = "pop" THEN allocated \ {pointer[t]} ELSE allocated
    /\ pointer' = [pointer EXCEPT ![t] = Nothing]
    /\ Goto(t, "done")
    /\ UNCHANGED <<message_size, created, content, buffer, callVars>>

\* ... copy the message out and free the buffer.
Save(t) ==
    /\ pc[t] = "save"
    /\ result' = [result EXCEPT ![t] = Saved(t)]
    /\ allocated' = allocated \ {pointer[t]}
    /\ pointer' = [pointer EXCEPT ![t] = Nothing]
    /\ Goto(t, "done")
    /\ UNCHANGED <<message_size, created, content, buffer, callVars>>

\* A timed get finds the queue empty when its time is over: its status is an
\* error, and the pop of ConcurrentQueueCmsis returns nullopt.
GiveUp(t) ==
    /\ pc[t] = "pop" /\ op[t] = "popTicks"
    /\ content[target[t]] = <<>>
    /\ Goto(t, "done")
    /\ UNCHANGED <<message_size, created, content, heapVars, callVars, pointer, result>>

\* osMessageQueueReset: the pointers are dropped, their buffers stay.
Reset(t) ==
    /\ pc[t] = "reset"
    /\ content' = [content EXCEPT ![target[t]] = <<>>]
    /\ Goto(t, "done")
    /\ UNCHANGED <<message_size, created, heapVars, callVars, pointer, result>>

Return(t) ==
    /\ pc[t] = "done"
    /\ Goto(t, "idle")
    /\ UNCHANGED <<message_size, created, content, heapVars, callVars, pointer, result>>

Next == \/ New
        \/ \E t \in Threads : \/ Invoke(t) \/ Copy(t) \/ Push(t) \/ Pop(t) \/ Save(t)
                              \/ GiveUp(t) \/ Reset(t) \/ Return(t)

Spec == Init /\ [][Next]_vars

-----------------------------------------------------------------------------
\* The buffers in queues and in the hands of threads.
InQueues == UNION {Range(content[q]) : q \in Queues}
InHands == Range(pointer) \ {Nothing}

\* Each buffer in use is allocated and in one place: no thread reads a buffer
\* that another has freed, and none is freed twice.
SoleBuffer ==
    /\ InQueues \cup InHands \subseteq allocated
    /\ InQueues \cap InHands = {}
    /\ \A q \in Queues : IsInjective(content[q])
    /\ \A q, r \in Queues : q # r => Range(content[q]) \cap Range(content[r]) = {}
    /\ \A t, u \in Threads : pointer[t] = pointer[u] /\ pointer[t] # Nothing => t = u

\* A buffer is lost, allocated and in no place, only by a reset.
Lost == allocated \ (InQueues \cup InHands)
LeaksOnlyByReset == [][Lost' # Lost => \E t \in Threads : Reset(t)]_vars

\* What the callers of one queue see of it.
ItemsOf(q) == [i \in DOMAIN content[q] |-> buffer[content[q][i]].item]
CallsOf(q) ==
    [t \in Threads |->
       IF pc[t] = "idle" \/ target[t] # q THEN [phase |-> "idle"]
       ELSE IF pc[t] \in {"save", "done"}
       THEN [phase |-> "done", op |-> op[t],
             result |-> IF pc[t] = "save" THEN Saved(t) ELSE result[t]]
       ELSE [phase |-> "called", op |-> op[t], arg |-> arg[t]]]

First == INSTANCE ConcurrentQueue WITH
    items <- ItemsOf(QueueIds[1]), call <- CallsOf(QueueIds[1])
Second == INSTANCE ConcurrentQueue WITH
    items <- ItemsOf(QueueIds[2]), call <- CallsOf(QueueIds[2])

\* Through the copies on the heap each queue still gives the messages it was
\* given, whole and in their order, however the operations on it and on the
\* other queue interleave and whenever another queue is created.
ImplementsQueues == First!Spec /\ Second!Spec
=============================================================================
