--------------------------- MODULE CmsisOs2Proofs ---------------------------
(***************************************************************************)
(* Proofs about the buffers on the heap that carry the messages of the     *)
(* simulated CMSIS-RTOS, for any number of queues, threads and calls: none *)
(* is in two places, none is used after it was freed or freed twice, none  *)
(* is lost but by a reset, and each queue of whole messages is atomic.     *)
(***************************************************************************)
EXTENDS CmsisOs2, OwnershipLemmas

\* A thread has a pointer between the new or the pop that gave it and the
\* push or the delete[] that ends its use.
PointerInUse == \A t \in Threads : pointer[t] # Nothing <=> pc[t] \in {"push", "save"}

\* A call has a queue, and the argument of a put is a message.
CallMade ==
    \A t \in Threads : /\ pc[t] # "idle" => target[t] \in Queues
                       /\ pc[t] = "copy" => arg[t] \in Items

IInv == TypeOK /\ PointerInUse /\ CallMade

-----------------------------------------------------------------------------
(* Type correctness. *)

LEMMA CreateKeepsInv ==
    ASSUME IInv, New
    PROVE  IInv'
<1>1. Len(QueueIds) \in Nat /\ created' \in 1 .. Len(QueueIds)
  BY QueueIdsAssumption, LenProperties DEF IInv, TypeOK, New
<1>2. QueueIds[created'] \in Queues
  BY <1>1, QueueIdsAssumption, ElementOfSeq
<1>3. message_size' \in Nat
  BY <1>2, MsgSizeAssumption DEF New
<1> QED
  BY <1>1, <1>3 DEF IInv, TypeOK, PointerInUse, CallMade, New, heapVars, callVars

LEMMA InvokeKeepsInv ==
    ASSUME IInv, NEW t \in Threads, Invoke(t)
    PROVE  IInv'
<1>1. PICK o \in CanCall[t], i \in 1 .. created :
        /\ op' = [op EXCEPT ![t] = o]
        /\ target' = [target EXCEPT ![t] = QueueIds[i]]
        /\ \E m \in IF o = "push" THEN Items ELSE {Nothing} :
             arg' = [arg EXCEPT ![t] = m]
        /\ pc' = [pc EXCEPT ![t] = CASE o = "push" -> "copy" [] o = "reset" -> "reset"
                                     [] OTHER -> "pop"]
  BY DEF Invoke, Goto
<1>2. PICK m \in IF o = "push" THEN Items ELSE {Nothing} : arg' = [arg EXCEPT ![t] = m]
  BY <1>1
<1>3. o \in Operations
  BY CanCallAssumption
<1>4. QueueIds[i] \in Queues
  <2>1. i \in 1 .. Len(QueueIds)
    BY QueueIdsAssumption, LenProperties DEF IInv, TypeOK
  <2> QED
    BY <2>1, QueueIdsAssumption, ElementOfSeq
<1>5. /\ result' = [result EXCEPT ![t] = Nothing] /\ pc[t] = "idle"
      /\ UNCHANGED <<message_size, created, content, allocated, buffer, pointer>>
  BY DEF Invoke, heapVars
<1>6. DOMAIN calls' = Threads /\ \A u \in Threads : calls'[u] \in 0 .. MaxCalls[u]
  <2>1. /\ calls' = [calls EXCEPT ![t] = calls[t] + 1] /\ calls[t] < MaxCalls[t]
        /\ DOMAIN calls = Threads
        /\ \A u \in Threads : calls[u] \in 0 .. MaxCalls[u] /\ MaxCalls[u] \in Nat
    BY MaxCallsAssumption DEF IInv, TypeOK, Invoke
  <2>2. DOMAIN calls' = Threads
    BY <2>1
  <2>3. \A u \in Threads : calls'[u] = IF u = t THEN calls[t] + 1 ELSE calls[u]
    BY <2>1
  <2> QED
    BY <2>1, <2>2, <2>3
<1>7. TypeOK'
  BY <1>1, <1>2, <1>3, <1>4, <1>5, <1>6 DEF IInv, TypeOK
<1>8. PointerInUse' /\ CallMade'
  BY <1>1, <1>2, <1>3, <1>4, <1>5 DEF IInv, TypeOK, PointerInUse, CallMade, Operations
<1> QED
  BY <1>7, <1>8 DEF IInv

\* The steps of the calls.
LEMMA CopyKeepsInv ==
    ASSUME IInv, NEW t \in Threads, Copy(t)
    PROVE  IInv'
<1>1. PICK a \in Heap \ allocated :
        /\ allocated' = allocated \cup {a}
        /\ pointer' = [pointer EXCEPT ![t] = a]
        /\ buffer' = [buffer EXCEPT
             ![a] = [bytes |-> message_size,
                     item |-> IF message_size = MsgSize[target[t]] THEN arg[t] ELSE Garbage]]
  BY DEF Copy
<1>2. [bytes |-> message_size,
       item |-> IF message_size = MsgSize[target[t]] THEN arg[t] ELSE Garbage]
         \in [bytes : Nat, item : Items \cup {Garbage, Nothing}]
  BY DEF IInv, TypeOK, CallMade, Copy
<1>3. buffer' \in [Heap -> [bytes : Nat, item : Items \cup {Garbage, Nothing}]]
  BY <1>1, <1>2 DEF IInv, TypeOK
<1>4. /\ pc[t] = "copy" /\ pc' = [pc EXCEPT ![t] = "push"]
      /\ UNCHANGED <<message_size, created, content, op, target, arg, calls, result>>
  BY DEF Copy, Goto, callVars
<1> QED
  BY <1>1, <1>3, <1>4, HeapAssumption DEF IInv, TypeOK, PointerInUse, CallMade

LEMMA ContentTypeLemma ==
    ASSUME IInv, NEW t \in Threads, Push(t) \/ Pop(t) \/ Reset(t)
    PROVE  /\ target[t] \in Queues
           /\ content' \in [Queues -> Seq(Heap)]
           /\ Pop(t) => Head(content[target[t]]) \in Heap
<1>1. target[t] \in Queues /\ content \in [Queues -> Seq(Heap)]
  BY DEF IInv, TypeOK, CallMade, Push, Pop, Reset
<1>2. CASE Push(t)
  <2>1. pointer[t] \in Heap
    BY <1>2 DEF IInv, TypeOK, PointerInUse, Push
  <2> QED
    BY <1>1, <1>2, <2>1, AppendProperties DEF Push, Pop
<1>3. CASE Pop(t)
  BY <1>1, <1>3, HeadTailProperties DEF Pop
<1>4. CASE Reset(t)
  BY <1>1, <1>4 DEF Reset, Pop
<1> QED
  BY <1>1, <1>2, <1>3, <1>4

LEMMA WorkKeepsInv ==
    ASSUME IInv, NEW t \in Threads,
           Push(t) \/ Pop(t) \/ Save(t) \/ GiveUp(t) \/ Reset(t) \/ Return(t)
    PROVE  IInv'
<1> USE DEF IInv, TypeOK, PointerInUse, CallMade, Goto, callVars, heapVars
<1>1. CASE Push(t)
  BY <1>1, ContentTypeLemma DEF Push
<1>2. CASE Pop(t)
  BY <1>2, ContentTypeLemma, HeapAssumption DEF Pop
<1>3. CASE Save(t)
  <2>1. pointer[t] \in Heap
    BY <1>3 DEF Save
  <2>2. Saved(t) \in Items \cup {Garbage, Nothing}
    BY <2>1 DEF Saved
  <2> QED
    BY <1>3, <2>2 DEF Save
<1>4. CASE GiveUp(t)
  BY <1>4 DEF GiveUp
<1>5. CASE Reset(t)
  BY <1>5, ContentTypeLemma DEF Reset
<1>6. CASE Return(t)
  BY <1>6 DEF Return
<1> QED
  BY <1>1, <1>2, <1>3, <1>4, <1>5, <1>6

LEMMA InitInv == Init => IInv
<1> SUFFICES ASSUME Init PROVE IInv
  OBVIOUS
<1>1. Len(QueueIds) \in Nat
  BY QueueIdsAssumption, LenProperties
<1> QED
  BY <1>1, MaxCallsAssumption
  DEF Init, IInv, TypeOK, PointerInUse, CallMade, Operations

LEMMA StepKeepsInv == IInv /\ [Next]_vars => IInv'
<1> SUFFICES ASSUME IInv, [Next]_vars PROVE IInv'
  OBVIOUS
<1>1. CASE UNCHANGED vars
  BY <1>1 DEF vars, heapVars, callVars, IInv, TypeOK, PointerInUse, CallMade
<1> QED
  BY <1>1, CreateKeepsInv, InvokeKeepsInv, CopyKeepsInv, WorkKeepsInv DEF Next

LEMMA Invariant == Spec => []IInv
BY InitInv, StepKeepsInv, PTL DEF Spec

\* Every variable of the simulation keeps its type: no thread follows a null
\* pointer or takes the front of an empty queue.
THEOREM RtosTypeCorrect == Spec => []TypeOK
<1>1. IInv => TypeOK
  BY DEF IInv
<1> QED
  BY <1>1, Invariant, PTL

-----------------------------------------------------------------------------
(* Each buffer in one place. *)

Hands == [t \in Threads |-> {pointer[t]} \ {Nothing}]

InUse == InQueues \cup InHands

\* The invariant as the lemmas about queues and sets state it.
LEMMA SoleBufferIsSole ==
    ASSUME TypeOK
    PROVE  SoleBuffer <=> /\ Sole(Queues, Threads, content, Hands)
                          /\ InUse \subseteq allocated
<1>1. Range(pointer) = {pointer[t] : t \in Threads}
  BY DEF TypeOK, Range
<1>2. InQueues \cap InHands = {}
        <=> \A t \in Threads, q \in Queues : Hands[t] \cap Range(content[q]) = {}
  BY <1>1 DEF InQueues, InHands, Hands
<1>3. (\A t, u \in Threads : pointer[t] = pointer[u] /\ pointer[t] # Nothing => t = u)
        <=> \A t, u \in Threads : t # u => Hands[t] \cap Hands[u] = {}
  BY DEF Hands
<1> QED
  BY <1>2, <1>3 DEF SoleBuffer, Sole, InUse

\* The same after a step.
LEMMA SoleBufferIsSoleNext ==
    ASSUME TypeOK', Sole(Queues, Threads, content', Hands'), InUse' \subseteq allocated'
    PROVE  SoleBuffer'
<1>1. (TypeOK => (SoleBuffer <=> /\ Sole(Queues, Threads, content, Hands)
                                 /\ InUse \subseteq allocated))'
  BY SoleBufferIsSole, PTL
<1> QED
  BY <1>1

\* Where a buffer in use is.
LEMMA InUseLemma ==
    ASSUME TypeOK, NEW b
    PROVE  b \in InUse <=> \/ \E q \in Queues : b \in Range(content[q])
                           \/ \E t \in Threads : b \in Hands[t]
BY DEF TypeOK, InUse, InQueues, InHands, Hands, Range

\* A new buffer is in no other place.
LEMMA CopyKeepsSole ==
    ASSUME IInv, IInv', SoleBuffer, NEW t \in Threads, Copy(t)
    PROVE  SoleBuffer' /\ Lost' = Lost
<1>1. PICK a \in Heap \ allocated :
        /\ allocated' = allocated \cup {a}
        /\ pointer' = [pointer EXCEPT ![t] = a]
  BY DEF Copy
<1>2. content' = content /\ pointer[t] = Nothing /\ a # Nothing
  BY HeapAssumption DEF Copy, IInv, PointerInUse
<1>3. Sole(Queues, Threads, content, Hands) /\ InUse \subseteq allocated
  BY SoleBufferIsSole DEF IInv
<1>4. /\ \A q \in Queues : a \notin Range(content[q])
      /\ \A u \in Threads : a \notin Hands[u]
  BY <1>1, <1>3, InUseLemma DEF IInv
<1>5. \A u \in Threads : Hands'[u] = IF u = t THEN {a} ELSE Hands[u]
  BY <1>1, <1>2 DEF Hands, IInv, TypeOK
<1>6. Sole(Queues, Threads, content', Hands')
  BY <1>2, <1>3, <1>4, <1>5 DEF Sole
<1>7. InUse' = InUse \cup {a}
  <2>1. Hands[t] = {}
    BY <1>2 DEF Hands
  <2>2. Range(pointer') \ {Nothing} = (Range(pointer) \ {Nothing}) \cup {a}
    BY <1>1, <1>2 DEF Range, IInv, TypeOK
  <2> QED
    BY <1>2, <2>2 DEF InUse, InQueues, InHands
<1>8. SoleBuffer'
  BY <1>1, <1>3, <1>6, <1>7, SoleBufferIsSoleNext DEF IInv
<1> QED
  BY <1>1, <1>7, <1>8 DEF Lost, InUse

\* The same after a step.
LEMMA InUseLemmaNext ==
    ASSUME TypeOK', NEW b
    PROVE  b \in InUse' <=> \/ \E q \in Queues : b \in Range(content'[q])
                            \/ \E t \in Threads : b \in Hands'[t]
BY DEF TypeOK, InUse, InQueues, InHands, Hands, Range

\* A put pushes its pointer and forgets it.
LEMMA PushKeepsSole ==
    ASSUME IInv, IInv', SoleBuffer, NEW t \in Threads, Push(t)
    PROVE  SoleBuffer' /\ Lost' = Lost
<1> DEFINE b == pointer[t]
           r == target[t]
<1>1. /\ b \in Heap /\ b # Nothing /\ r \in Queues
      /\ content \in [Queues -> Seq(Heap)]
      /\ content' = [content EXCEPT ![r] = Append(content[r], b)]
      /\ pointer' = [pointer EXCEPT ![t] = Nothing]
      /\ allocated' = allocated
  BY DEF IInv, TypeOK, PointerInUse, CallMade, Push, heapVars
<1>2. Sole(Queues, Threads, content, Hands) /\ InUse \subseteq allocated
  BY SoleBufferIsSole DEF IInv
<1>3. \A u \in Threads : Hands'[u] = IF u = t THEN {} ELSE Hands[u]
  BY <1>1 DEF Hands, IInv, TypeOK
<1>4. Hands[t] = {b}
  BY <1>1 DEF Hands
<1>5. Puts(Threads, content, Hands, content', Hands', t, b, r)
  BY <1>1, <1>3, <1>4 DEF Puts
<1>6. Range(content'[r]) = Range(content[r]) \cup {b}
  <2>1. content[r] \in Seq(Heap) /\ content'[r] = Append(content[r], b)
    BY <1>1
  <2> QED
    BY <1>1, <2>1, AppendLemma
<1>7. \A q \in Queues \ {r} : content'[q] = content[q]
  BY <1>1
<1> HIDE DEF b, r
<1>8. Sole(Queues, Threads, content', Hands')
  <2>1. content \in [Queues -> Seq(Heap)] /\ Sole(Queues, Threads, content, Hands)
    BY <1>1, <1>2
  <2>2. r \in Queues /\ t \in Threads /\ b \in Heap
    BY <1>1
  <2> QED
    BY <1>5, <2>1, <2>2, PutLemma, Zenon
<1>9. \A c : c \in InUse' <=> c \in InUse
  <2> TAKE c
  <2>1. CASE c = b
    BY <1>1, <1>4, <1>6, <2>1, InUseLemma, InUseLemmaNext DEF IInv
  <2>2. CASE c # b
    <3>1. \A q \in Queues : c \in Range(content'[q]) <=> c \in Range(content[q])
      BY <1>6, <1>7, <2>2
    <3>2. \A u \in Threads : c \in Hands'[u] <=> c \in Hands[u]
      BY <1>3, <1>4, <2>2
    <3> QED
      BY <3>1, <3>2, InUseLemma, InUseLemmaNext DEF IInv
  <2> QED
    BY <2>1, <2>2
<1>10. InUse' = InUse
  BY <1>9
<1>11. SoleBuffer'
  BY <1>1, <1>2, <1>8, <1>10, SoleBufferIsSoleNext DEF IInv
<1> QED
  BY <1>1, <1>10, <1>11 DEF Lost, InUse

\* A get pops a pointer, which no thread has.
LEMMA PopKeepsSole ==
    ASSUME IInv, IInv', SoleBuffer, NEW t \in Threads, Pop(t)
    PROVE  SoleBuffer' /\ Lost' = Lost
<1> DEFINE r == target[t]
           b == Head(content[r])
<1>1. /\ r \in Queues /\ content[r] # <<>>
      /\ content \in [Queues -> Seq(Heap)]
      /\ content' = [content EXCEPT ![r] = Tail(content[r])]
      /\ pointer' = [pointer EXCEPT ![t] = b]
      /\ pointer[t] = Nothing
      /\ allocated' = allocated
  BY DEF IInv, TypeOK, PointerInUse, CallMade, Pop, heapVars
<1>2. Sole(Queues, Threads, content, Hands) /\ InUse \subseteq allocated
  BY SoleBufferIsSole DEF IInv
<1>3. b \in Heap /\ b # Nothing
  BY <1>1, HeadTailProperties, HeapAssumption
<1>4. \A u \in Threads : Hands'[u] = IF u = t THEN {b} ELSE Hands[u]
  <2>1. \A u \in Threads : pointer'[u] = IF u = t THEN b ELSE pointer[u]
    BY <1>1 DEF IInv, TypeOK
  <2> QED
    BY <1>3, <2>1 DEF Hands
<1>5. Takes(Threads, content, Hands, content', Hands', t, r)
  BY <1>1, <1>4 DEF Takes
<1>6. Range(content[r]) = {b} \cup Range(content'[r])
  <2>1. content[r] \in Seq(Heap) /\ content'[r] = Tail(content[r]) /\ IsInjective(content[r])
    BY <1>1, <1>2 DEF Sole
  <2> QED
    BY <1>1, <2>1, TailLemma
<1>7. \A q \in Queues \ {r} : content'[q] = content[q]
  BY <1>1
<1>8. Hands[t] = {}
  BY <1>1 DEF Hands
<1> HIDE DEF b, r
<1>9. Sole(Queues, Threads, content', Hands')
  <2>1. content \in [Queues -> Seq(Heap)] /\ Sole(Queues, Threads, content, Hands)
    BY <1>1, <1>2
  <2>2. r \in Queues /\ t \in Threads
    BY <1>1
  <2> QED
    BY <1>5, <2>1, <2>2, TakeLemma, Zenon
<1>10. \A c : c \in InUse' <=> c \in InUse
  <2> TAKE c
  <2>1. CASE c = b
    BY <1>1, <1>4, <1>6, <2>1, InUseLemma, InUseLemmaNext DEF IInv
  <2>2. CASE c # b
    <3>1. \A q \in Queues : c \in Range(content'[q]) <=> c \in Range(content[q])
      BY <1>6, <1>7, <2>2
    <3>2. \A u \in Threads : c \in Hands'[u] <=> c \in Hands[u]
      BY <1>4, <1>8, <2>2
    <3> QED
      BY <3>1, <3>2, InUseLemma, InUseLemmaNext DEF IInv
  <2> QED
    BY <2>1, <2>2
<1>11. InUse' = InUse
  BY <1>10
<1>12. SoleBuffer'
  BY <1>1, <1>2, <1>9, <1>11, SoleBufferIsSoleNext DEF IInv
<1> QED
  BY <1>1, <1>11, <1>12 DEF Lost, InUse

\* A get frees the buffer it has copied, which is in no other place.
LEMMA SaveKeepsSole ==
    ASSUME IInv, IInv', SoleBuffer, NEW t \in Threads, Save(t)
    PROVE  SoleBuffer' /\ Lost' = Lost
<1> DEFINE b == pointer[t]
<1>1. /\ b # Nothing /\ content' = content
      /\ pointer' = [pointer EXCEPT ![t] = Nothing]
      /\ allocated' = allocated \ {b}
  BY DEF IInv, PointerInUse, Save
<1>2. Sole(Queues, Threads, content, Hands) /\ InUse \subseteq allocated
  BY SoleBufferIsSole DEF IInv
<1>3. \A u \in Threads : Hands'[u] = IF u = t THEN {} ELSE Hands[u]
  BY <1>1 DEF Hands, IInv, TypeOK
<1>4. Hands[t] = {b}
  BY <1>1 DEF Hands
<1>5. Sole(Queues, Threads, content', Hands')
  <2>1. \A u \in Threads : Hands'[u] \subseteq Hands[u]
    BY <1>3
  <2>2. Sole(Queues, Threads, content, Hands')
    BY <1>2, <2>1, DropLemma, Zenon
  <2> QED
    BY <1>1, <2>2
<1>6. /\ \A q \in Queues : b \notin Range(content[q])
      /\ \A u \in Threads \ {t} : b \notin Hands[u]
  BY <1>2, <1>4 DEF Sole
<1> HIDE DEF b
<1>7. \A c : c \in InUse' <=> c \in InUse \ {b}
  <2> TAKE c
  <2>1. CASE c = b
    BY <1>1, <1>3, <1>6, <2>1, InUseLemmaNext DEF IInv
  <2>2. CASE c # b
    <3>1. \A u \in Threads : c \in Hands'[u] <=> c \in Hands[u]
      BY <1>3, <1>4, <2>2
    <3> QED
      BY <1>1, <2>2, <3>1, InUseLemma, InUseLemmaNext DEF IInv
  <2> QED
    BY <2>1, <2>2
<1>8. InUse' = InUse \ {b} /\ b \in InUse
  BY <1>4, <1>7, InUseLemma DEF IInv
<1>9. SoleBuffer'
  BY <1>1, <1>2, <1>5, <1>8, SoleBufferIsSoleNext DEF IInv
<1> QED
  BY <1>1, <1>8, <1>9 DEF Lost, InUse

\* A reset forgets pointers.
LEMMA ResetKeepsSole ==
    ASSUME IInv, IInv', SoleBuffer, NEW t \in Threads, Reset(t)
    PROVE  SoleBuffer'
<1>1. /\ content' = [content EXCEPT ![target[t]] = <<>>]
      /\ pointer' = pointer /\ allocated' = allocated /\ Hands' = Hands
      /\ content \in [Queues -> Seq(Heap)]
  BY DEF Reset, heapVars, Hands, IInv, TypeOK
<1>2. Sole(Queues, Threads, content, Hands) /\ InUse \subseteq allocated
  BY SoleBufferIsSole DEF IInv
<1>3. \A q \in Queues : \/ content'[q] = content[q]
                        \/ Range(content'[q]) = {} /\ IsInjective(content'[q])
  <2>1. Range(<<>>) = {} /\ IsInjective(<<>>)
    BY DEF Range, IsInjective
  <2> QED
    BY <1>1, <2>1
<1>4. Sole(Queues, Threads, content', Hands')
  BY <1>1, <1>2, <1>3 DEF Sole
<1>5. \A c : c \in InUse' => c \in InUse
  BY <1>1, <1>3, InUseLemma, InUseLemmaNext DEF IInv
<1>6. InUse' \subseteq allocated'
  BY <1>1, <1>2, <1>5
<1> QED
  BY <1>4, <1>6, SoleBufferIsSoleNext DEF IInv

\* The other steps leave buffers and pointers alone.
LEMMA StayKeepsSole ==
    ASSUME SoleBuffer, UNCHANGED <<content, pointer, allocated>>
    PROVE  SoleBuffer' /\ Lost' = Lost
BY DEF SoleBuffer, Lost, InQueues, InHands

LEMMA StepKeepsSole ==
    ASSUME IInv, IInv', SoleBuffer, [Next]_vars
    PROVE  SoleBuffer' /\ (Lost' = Lost \/ \E t \in Threads : Reset(t))
<1>1. ASSUME New \/ UNCHANGED vars PROVE SoleBuffer' /\ Lost' = Lost
  BY <1>1, StayKeepsSole DEF New, vars, heapVars
<1>2. ASSUME NEW t \in Threads, Invoke(t) \/ GiveUp(t) \/ Return(t)
      PROVE  SoleBuffer' /\ Lost' = Lost
  BY <1>2, StayKeepsSole DEF Invoke, GiveUp, Return, heapVars
<1>3. ASSUME NEW t \in Threads, Reset(t) PROVE SoleBuffer'
  BY <1>3, ResetKeepsSole
<1> QED
  BY <1>1, <1>2, <1>3, CopyKeepsSole, PushKeepsSole, PopKeepsSole, SaveKeepsSole DEF Next

LEMMA SoleInvariant == Spec => [](IInv /\ SoleBuffer)
<1>1. Init => SoleBuffer
  <2> SUFFICES ASSUME Init PROVE SoleBuffer
    OBVIOUS
  <2>1. InQueues = {} /\ InHands = {}
    BY DEF Init, InQueues, InHands, Range
  <2>2. \A q \in Queues : Range(content[q]) = {} /\ IsInjective(content[q])
    BY DEF Init, Range, IsInjective
  <2> QED
    BY <2>1, <2>2 DEF Init, SoleBuffer
<1>2. IInv /\ IInv' /\ SoleBuffer /\ [Next]_vars => SoleBuffer'
  BY StepKeepsSole
<1> QED
  BY <1>1, <1>2, Invariant, PTL DEF Spec

\* Each buffer in a queue or in the hands of a put or a get is allocated and in
\* one place: none is used after its delete[], and none is deleted twice.
THEOREM BuffersSole == Spec => []SoleBuffer
BY SoleInvariant, PTL

\* No buffer is lost but by a reset.
THEOREM LeaksKnown == Spec => LeaksOnlyByReset
<1>1. IInv /\ IInv' /\ SoleBuffer /\ [Next]_vars
        => [Lost' # Lost => \E t \in Threads : Reset(t)]_vars
  BY StepKeepsSole
<1> QED
  BY <1>1, SoleInvariant, PTL DEF Spec, LeaksOnlyByReset

-----------------------------------------------------------------------------
(* What the pointers of a queue point to. *)

\* The values of f at the elements of s.
Through(f, s) == [i \in DOMAIN s |-> f[s[i]]]

LEMMA ThroughAppend ==
    ASSUME NEW S, NEW s \in Seq(S), NEW a \in S, NEW f
    PROVE  Through(f, Append(s, a)) = Append(Through(f, s), f[a])
<1> DEFINE V == {f[b] : b \in S}
<1>1. /\ Append(s, a) \in Seq(S) /\ Len(Append(s, a)) = Len(s) + 1
      /\ \A i \in 1 .. Len(s) : Append(s, a)[i] = s[i]
      /\ Append(s, a)[Len(s) + 1] = a /\ Len(s) \in Nat
      /\ DOMAIN s = 1 .. Len(s) /\ DOMAIN Append(s, a) = 1 .. Len(s) + 1
  BY AppendProperties
<1>2. Through(f, s) \in Seq(V) /\ Len(Through(f, s)) = Len(s)
  BY <1>1, ElementOfSeq DEF Through
<1>3. /\ Append(Through(f, s), f[a]) \in Seq(V)
      /\ Len(Append(Through(f, s), f[a])) = Len(s) + 1
      /\ \A i \in 1 .. Len(s) : Append(Through(f, s), f[a])[i] = Through(f, s)[i]
      /\ Append(Through(f, s), f[a])[Len(s) + 1] = f[a]
  BY <1>2, AppendProperties
<1>4. Append(Through(f, s), f[a]) = [i \in 1 .. Len(s) + 1 |-> f[Append(s, a)[i]]]
  <2> HIDE DEF V
  <2>1. Append(Through(f, s), f[a])
          = [i \in 1 .. Len(s) + 1 |-> Append(Through(f, s), f[a])[i]]
    BY <1>3, LenProperties
  <2>2. \A i \in 1 .. Len(s) + 1 : Append(Through(f, s), f[a])[i] = f[Append(s, a)[i]]
    BY <1>1, <1>3 DEF Through
  <2> QED
    BY <2>1, <2>2
<1> QED
  BY <1>1, <1>4 DEF Through

LEMMA ThroughNothing == \A f : Through(f, <<>>) = <<>>
BY DEF Through

LEMMA ThroughHeadTail ==
    ASSUME NEW S, NEW s \in Seq(S), s # <<>>, NEW f
    PROVE  /\ Through(f, s) # <<>> /\ Head(Through(f, s)) = f[Head(s)]
           /\ Through(f, Tail(s)) = Tail(Through(f, s))
<1>1. /\ Len(s) \in Nat \ {0} /\ DOMAIN s = 1 .. Len(s)
      /\ Head(s) = s[1] /\ Len(Tail(s)) = Len(s) - 1 /\ Tail(s) \in Seq(S)
      /\ DOMAIN Tail(s) = 1 .. Len(s) - 1
      /\ \A i \in 1 .. Len(s) - 1 : Tail(s)[i] = s[i + 1]
  BY HeadTailProperties, EmptySeq, LenProperties
<1>2. /\ Through(f, s) \in Seq({f[b] : b \in S}) /\ Len(Through(f, s)) = Len(s)
      /\ \A i \in 1 .. Len(s) : Through(f, s)[i] = f[s[i]]
  BY <1>1, ElementOfSeq DEF Through
<1>3. Through(f, s) # <<>>
  BY <1>1, <1>2
<1>4. /\ Head(Through(f, s)) = Through(f, s)[1]
      /\ Tail(Through(f, s)) = [i \in 1 .. Len(s) - 1 |-> Through(f, s)[i + 1]]
  <2> DEFINE V == {f[b] : b \in S}
  <2>1. PICK v \in Seq(V) : v = Through(f, s)
    BY <1>2
  <2> HIDE DEF V
  <2>2. v # <<>> /\ Len(v) = Len(s)
    BY <1>2, <1>3, <2>1
  <2>3. /\ Tail(v) \in Seq(V) /\ Len(Tail(v)) = Len(v) - 1
        /\ \A i \in 1 .. Len(Tail(v)) : Tail(v)[i] = v[i + 1]
    BY <2>2, HeadTailProperties
  <2>4. Tail(v) = [i \in 1 .. Len(v) - 1 |-> v[i + 1]]
    BY <2>3, LenProperties
  <2>5. Head(v) = v[1]
    BY <2>2
  <2> QED
    BY <2>1, <2>2, <2>4, <2>5
<1>5. \A i \in 1 .. Len(s) - 1 : Through(f, s)[i + 1] = f[Tail(s)[i]]
  BY <1>1, <1>2
<1> QED
  BY <1>1, <1>2, <1>3, <1>4, <1>5 DEF Through

-----------------------------------------------------------------------------
(* Messages are copied as a whole. *)

\* All queues have messages of one size, as those of the program have: pointers.
OneSize == \A q, r \in Queues : MsgSize[q] = MsgSize[r]

\* Where a thread is tells in which operation it is, and that it has no result.
Position ==
    \A t \in Threads :
      /\ pc[t] \in {"copy", "push"} => op[t] = "push"
      /\ pc[t] \in {"pop", "save"} => op[t] \in {"pop", "popTicks"}
      /\ pc[t] = "reset" => op[t] = "reset"
      /\ pc[t] \notin {"idle", "done"} => result[t] = Nothing

\* A step of a thread in an operation.
Step(t) == \/ Invoke(t) \/ Copy(t) \/ Push(t) \/ Pop(t) \/ Save(t) \/ GiveUp(t)
           \/ Reset(t) \/ Return(t)

LEMMA StepIsNext == ASSUME NEW t \in Threads, Step(t) PROVE Next
BY DEF Step, Next

\* It moves no other thread.
LEMMA AloneLemma ==
    ASSUME IInv, NEW t \in Threads, Step(t), NEW u \in Threads \ {t}
    PROVE  /\ pc'[u] = pc[u] /\ op'[u] = op[u] /\ target'[u] = target[u]
           /\ arg'[u] = arg[u] /\ result'[u] = result[u] /\ pointer'[u] = pointer[u]
<1> USE DEF IInv, TypeOK, Goto, callVars
<1>1. CASE Invoke(t)
  BY <1>1 DEF Invoke
<1>2. CASE Copy(t)
  BY <1>2 DEF Copy
<1>3. CASE Push(t)
  BY <1>3 DEF Push
<1>4. CASE Pop(t)
  BY <1>4 DEF Pop
<1>5. CASE Save(t)
  BY <1>5 DEF Save
<1>6. CASE GiveUp(t) \/ Reset(t) \/ Return(t)
  BY <1>6 DEF GiveUp, Reset, Return
<1> QED
  BY <1>1, <1>2, <1>3, <1>4, <1>5, <1>6 DEF Step

\* Once there is a queue the global variable is the size of the messages of
\* all, a buffer in use has that size, and that of a put its message.
Whole ==
    /\ created >= 1 => \A q \in Queues : message_size = MsgSize[q]
    /\ \A t \in Threads : /\ pc[t] # "idle" => created >= 1
                          /\ pc[t] = "push" => buffer[pointer[t]].item = arg[t]
    /\ \A b \in InUse : created >= 1 /\ buffer[b].bytes = message_size

LEMMA InvokeKeepsPosition ==
    ASSUME IInv, Position, NEW t \in Threads, Invoke(t)
    PROVE  Position' /\ created >= 1
<1>1. PICK o \in CanCall[t], i \in 1 .. created :
        /\ op' = [op EXCEPT ![t] = o]
        /\ pc' = [pc EXCEPT ![t] = CASE o = "push" -> "copy" [] o = "reset" -> "reset"
                                     [] OTHER -> "pop"]
  BY DEF Invoke, Goto
<1>2. o \in Operations /\ result' = [result EXCEPT ![t] = Nothing]
  BY CanCallAssumption DEF Invoke
<1>3. created >= 1
  BY <1>1, QueueIdsAssumption, LenProperties DEF IInv, TypeOK
<1> QED
  BY <1>1, <1>2, <1>3 DEF IInv, TypeOK, Position, Operations

LEMMA StepKeepsPosition == IInv /\ Position /\ [Next]_vars => Position'
<1> SUFFICES ASSUME IInv, Position, [Next]_vars PROVE Position'
  OBVIOUS
<1>1. ASSUME NEW t \in Threads,
             Copy(t) \/ Push(t) \/ Pop(t) \/ Save(t) \/ GiveUp(t) \/ Reset(t) \/ Return(t)
      PROVE  Position'
  <2>1. op' = op /\ \A u \in Threads \ {t} : pc'[u] = pc[u] /\ result'[u] = result[u]
    BY <1>1 DEF Copy, Push, Pop, Save, GiveUp, Reset, Return, Goto, callVars, IInv, TypeOK
  <2>2. \/ pc'[t] \in {"idle", "done"}
        \/ /\ result'[t] = result[t]
           /\ \/ pc[t] = "copy" /\ pc'[t] = "push"
              \/ pc[t] = "pop" /\ pc'[t] = "save"
    BY <1>1 DEF Copy, Push, Pop, Save, GiveUp, Reset, Return, Goto, callVars, IInv, TypeOK
  <2> QED
    BY <2>1, <2>2 DEF Position
<1>2. ASSUME New \/ UNCHANGED vars PROVE Position'
  BY <1>2 DEF New, vars, callVars, Position
<1> QED
  BY <1>1, <1>2, InvokeKeepsPosition DEF Next

\* Only Copy takes a buffer into use.
LEMMA InUseLater ==
    ASSUME IInv, IInv', SoleBuffer, NEW t \in Threads, Step(t), NEW b \in InUse'
    PROVE  b \in InUse \/ (Copy(t) /\ b = pointer'[t])
<1>1. \/ \E q \in Queues : b \in Range(content'[q])
      \/ \E u \in Threads : b \in Hands'[u]
  BY InUseLemmaNext DEF IInv
<1>0. /\ \A q \in Queues : b \in Range(content[q]) => b \in InUse
      /\ \A u \in Threads : b \in Hands[u] => b \in InUse
  BY InUseLemma DEF IInv
<1>2. ASSUME content' = content, pointer' = pointer PROVE b \in InUse
  BY <1>0, <1>1, <1>2 DEF Hands
<1>3. CASE Copy(t)
  <2>1. content' = content /\ \A u \in Threads \ {t} : pointer'[u] = pointer[u]
    BY <1>3 DEF Copy, IInv, TypeOK
  <2>2. /\ \A u \in Threads \ {t} : Hands'[u] = Hands[u]
        /\ Hands'[t] \subseteq {pointer'[t]}
    BY <2>1 DEF Hands
  <2> QED
    BY <1>0, <1>1, <1>3, <2>1, <2>2
<1>4. CASE Push(t)
  <2>1. /\ target[t] \in Queues /\ content[target[t]] \in Seq(Heap)
        /\ pointer[t] \in Heap /\ pointer[t] # Nothing
        /\ content' = [content EXCEPT ![target[t]] = Append(content[target[t]], pointer[t])]
        /\ pointer' = [pointer EXCEPT ![t] = Nothing]
    BY <1>4 DEF Push, IInv, TypeOK, PointerInUse, CallMade
  <2>2. Range(content'[target[t]]) = Range(content[target[t]]) \cup {pointer[t]}
    BY <2>1, AppendLemma DEF IInv, TypeOK
  <2>3. /\ \A q \in Queues \ {target[t]} : content'[q] = content[q]
        /\ \A u \in Threads : Hands'[u] \subseteq Hands[u]
        /\ pointer[t] \in Hands[t]
    BY <2>1 DEF Hands, IInv, TypeOK
  <2> QED
    BY <1>0, <1>1, <2>1, <2>2, <2>3
<1>5. CASE Pop(t)
  <2>1. /\ target[t] \in Queues /\ content[target[t]] \in Seq(Heap)
        /\ content[target[t]] # <<>> /\ IsInjective(content[target[t]])
        /\ content' = [content EXCEPT ![target[t]] = Tail(content[target[t]])]
        /\ pointer' = [pointer EXCEPT ![t] = Head(content[target[t]])]
    BY <1>5 DEF Pop, IInv, TypeOK, CallMade, SoleBuffer
  <2>2. Range(content[target[t]])
          = {Head(content[target[t]])} \cup Range(Tail(content[target[t]]))
    BY <2>1, TailLemma
  <2>3. /\ \A q \in Queues \ {target[t]} : content'[q] = content[q]
        /\ content'[target[t]] = Tail(content[target[t]])
        /\ \A u \in Threads \ {t} : Hands'[u] = Hands[u]
        /\ Hands'[t] \subseteq {Head(content[target[t]])}
    BY <2>1 DEF Hands, IInv, TypeOK
  <2> QED
    BY <1>0, <1>1, <2>1, <2>2, <2>3
<1>6. CASE Save(t)
  <2>1. content' = content /\ \A u \in Threads : Hands'[u] \subseteq Hands[u]
    BY <1>6 DEF Save, Hands, IInv, TypeOK
  <2> QED
    BY <1>0, <1>1, <2>1
<1>7. CASE Reset(t)
  <2>1. Range(<<>>) = {}
    BY DEF Range
  <2>2. /\ \A q \in Queues : content'[q] \in {content[q], <<>>}
        /\ pointer' = pointer
    BY <1>7 DEF Reset, IInv, TypeOK
  <2>3. Hands' = Hands
    BY <2>2 DEF Hands
  <2> QED
    BY <1>0, <1>1, <2>1, <2>2, <2>3
<1> QED
  BY <1>2, <1>3, <1>4, <1>5, <1>6, <1>7 DEF Step, Invoke, GiveUp, Return

\* No step writes to a buffer in use.
LEMMA BuffersStay ==
    ASSUME IInv, SoleBuffer, [Next]_vars, NEW b \in InUse
    PROVE  buffer'[b] = buffer[b]
<1>1. b \in allocated
  BY DEF SoleBuffer, InUse
<1>2. ASSUME NEW t \in Threads, Copy(t) PROVE buffer'[b] = buffer[b]
  BY <1>1, <1>2 DEF Copy, IInv, TypeOK
<1> QED
  BY <1>2 DEF Next, New, Invoke, Push, Pop, Save, GiveUp, Reset, Return, vars, heapVars

LEMMA StepKeepsWhole ==
    ASSUME OneSize, IInv, IInv', SoleBuffer, Position, Whole, [Next]_vars
    PROVE  Whole'
<1>1. CASE New
  <2>1. /\ created' = created + 1 /\ created \in Nat /\ created' \in 1 .. Len(QueueIds)
        /\ message_size' = MsgSize[QueueIds[created']]
        /\ UNCHANGED <<content, buffer, pc, arg, pointer>>
    BY <1>1, QueueIdsAssumption, LenProperties DEF New, heapVars, callVars, IInv, TypeOK
  <2>2. QueueIds[created'] \in Queues
    BY <2>1, QueueIdsAssumption, ElementOfSeq
  <2>3. \A q \in Queues : message_size' = MsgSize[q]
    BY <2>1, <2>2 DEF OneSize
  <2>4. created >= 1 => message_size' = message_size
    BY <2>2, <2>3 DEF Whole
  <2>5. InUse' = InUse
    BY <2>1 DEF InUse, InQueues, InHands
  <2> QED
    BY <2>1, <2>3, <2>4, <2>5 DEF Whole
<1>2. CASE UNCHANGED vars
  BY <1>2 DEF vars, heapVars, callVars, Whole, InUse, InQueues, InHands
<1>3. ASSUME NEW t \in Threads, Step(t) PROVE Whole'
  <2>1. message_size' = message_size /\ created' = created
    BY <1>3 DEF Step, Invoke, Copy, Push, Pop, Save, GiveUp, Reset, Return
  <2>2. created >= 1
    <3>1. Invoke(t) => created >= 1
      BY InvokeKeepsPosition
    <3>2. ~Invoke(t) => pc[t] # "idle"
      BY <1>3 DEF Step, Copy, Push, Pop, Save, GiveUp, Reset, Return
    <3> QED
      BY <3>1, <3>2 DEF Whole
  <2>3. Copy(t) => /\ pointer'[t] \in Heap
                   /\ buffer'[pointer'[t]] = [bytes |-> message_size, item |-> arg[t]]
    BY <2>2 DEF Copy, Whole, IInv, TypeOK, CallMade
  <2>4. \A b \in InUse' : buffer'[b].bytes = message_size
    BY <1>3, <2>3, InUseLater, BuffersStay, StepIsNext DEF Whole
  <2>5. \A u \in Threads : pc'[u] = "push" => buffer'[pointer'[u]].item = arg'[u]
    <3>1. ASSUME NEW u \in Threads, u = t => ~Copy(t), pc'[u] = "push"
          PROVE  buffer'[pointer'[u]].item = arg'[u]
      <4>1. pc[u] = "push" /\ pointer'[u] = pointer[u] /\ arg'[u] = arg[u]
        <5>1. CASE u = t
          BY <1>3, <3>1, <5>1 DEF Step, Invoke, Push, Pop, Save, GiveUp, Reset, Return, Goto,
                                  IInv, TypeOK
        <5>2. CASE u # t
          BY <1>3, <3>1, <5>2, AloneLemma
        <5> QED
          BY <5>1, <5>2
      <4>2. pointer[u] \in InUse
        BY <4>1, InUseLemma DEF IInv, PointerInUse, Hands
      <4> QED
        BY <1>3, <4>1, <4>2, BuffersStay, StepIsNext DEF Whole
    <3>2. Copy(t) => arg' = arg
      BY DEF Copy, callVars
    <3> QED
      BY <2>3, <3>1, <3>2
  <2> QED
    BY <2>1, <2>2, <2>4, <2>5 DEF Whole
<1> QED
  BY <1>1, <1>2, <1>3 DEF Next, Step

LEMMA WholeInvariant ==
    ASSUME OneSize
    PROVE  Spec => [](IInv /\ SoleBuffer /\ Position /\ Whole)
<1>1. Init => Position /\ Whole
  <2> SUFFICES ASSUME Init PROVE Position /\ Whole
    OBVIOUS
  <2>1. InUse = {}
    BY DEF Init, InUse, InQueues, InHands, Range
  <2> QED
    BY <2>1 DEF Init, Position, Whole
<1>2. IInv /\ IInv' /\ SoleBuffer /\ Position /\ Whole /\ [Next]_vars => Position' /\ Whole'
  BY StepKeepsPosition, StepKeepsWhole
<1> QED
  BY <1>1, <1>2, SoleInvariant, PTL DEF Spec

-----------------------------------------------------------------------------
(* Each queue is an atomic one. *)

Atomic(q) == INSTANCE ConcurrentQueue WITH items <- ItemsOf(q), call <- CallsOf(q)

\* What the buffers say.
Written == [b \in Heap |-> buffer[b].item]

LEMMA ItemsLemma ==
    ASSUME IInv, NEW q \in Queues
    PROVE  ItemsOf(q) = Through(Written, content[q])
<1>1. content[q] \in Seq(Heap)
  BY DEF IInv, TypeOK
<1>2. \A i \in DOMAIN content[q] : content[q][i] \in Heap
  BY <1>1
<1> QED
  BY <1>2 DEF ItemsOf, Through, Written

LEMMA ItemsNext ==
    ASSUME IInv', NEW q \in Queues
    PROVE  ItemsOf(q)' = Through(Written', content'[q])
<1>1. content'[q] \in Seq(Heap)
  BY DEF IInv, TypeOK
<1>2. \A i \in DOMAIN content'[q] : content'[q][i] \in Heap
  BY <1>1
<1> QED
  BY <1>2 DEF ItemsOf, Through, Written

\* A queue that no step of a thread changes says the same.
LEMMA ItemsStay ==
    ASSUME IInv, IInv', SoleBuffer, [Next]_vars, NEW q \in Queues
    PROVE  /\ Through(Written', content[q]) = ItemsOf(q)
           /\ content'[q] = content[q] => ItemsOf(q)' = ItemsOf(q)
<1>1. \A i \in DOMAIN content[q] : content[q][i] \in Heap /\ content[q][i] \in InUse
  <2>1. content[q] \in Seq(Heap)
    BY DEF IInv, TypeOK
  <2>2. \A i \in DOMAIN content[q] : content[q][i] \in Range(content[q])
    BY DEF Range
  <2> QED
    BY <2>1, <2>2, InUseLemma DEF IInv
<1>2. \A i \in DOMAIN content[q] : Written'[content[q][i]] = Written[content[q][i]]
  BY <1>1, BuffersStay DEF Written
<1>3. Through(Written', content[q]) = Through(Written, content[q])
  BY <1>2 DEF Through
<1> QED
  BY <1>3, ItemsLemma, ItemsNext

\* A get saves what its buffer says.
LEMMA SavedLemma ==
    IInv /\ Whole => \A t \in Threads : pc[t] = "save" =>
      Saved(t) = buffer[pointer[t]].item /\ pointer[t] \in InUse /\ pointer[t] \in Heap
<1> SUFFICES ASSUME IInv, Whole, NEW t \in Threads, pc[t] = "save"
             PROVE  Saved(t) = buffer[pointer[t]].item /\ pointer[t] \in InUse
                      /\ pointer[t] \in Heap
  OBVIOUS
<1>1. pointer[t] \in InUse /\ pointer[t] \in Heap
  BY InUseLemma DEF IInv, TypeOK, PointerInUse, Hands
<1> QED
  BY <1>1 DEF Whole, Saved

LEMMA SavedNext ==
    IInv' /\ Whole' => \A t \in Threads : pc'[t] = "save" =>
      Saved(t)' = buffer'[pointer'[t]].item
<1>1. (IInv /\ Whole => \A t \in Threads : pc[t] = "save" =>
         Saved(t) = buffer[pointer[t]].item /\ pointer[t] \in InUse /\ pointer[t] \in Heap)'
  BY SavedLemma, PTL
<1> QED
  BY <1>1

\* No queue sees another thread move.
LEMMA OthersStay ==
    ASSUME IInv, IInv', SoleBuffer, Whole, Whole', NEW t \in Threads, Step(t),
           NEW q \in Queues
    PROVE  /\ CallsOf(q)' = [CallsOf(q) EXCEPT ![t] = CallsOf(q)'[t]]
           /\ CallsOf(q)'[t] = CallsOf(q)[t] => CallsOf(q)' = CallsOf(q)
<1>1. ASSUME NEW u \in Threads \ {t} PROVE CallsOf(q)'[u] = CallsOf(q)[u]
  <2>1. /\ pc'[u] = pc[u] /\ op'[u] = op[u] /\ target'[u] = target[u]
        /\ arg'[u] = arg[u] /\ result'[u] = result[u] /\ pointer'[u] = pointer[u]
    BY AloneLemma
  <2>2. pc[u] = "save" => Saved(u)' = Saved(u)
    BY <2>1, SavedLemma, SavedNext, BuffersStay, StepIsNext
  <2> QED
    BY <2>1, <2>2 DEF CallsOf
<1>2. PICK c, d : c = CallsOf(q) /\ d = CallsOf(q)'
  OBVIOUS
<1>3. c = [u \in Threads |-> c[u]] /\ d = [u \in Threads |-> d[u]]
  BY <1>2 DEF CallsOf
<1>4. \A u \in Threads \ {t} : d[u] = c[u]
  BY <1>1, <1>2
<1>5. d = [c EXCEPT ![t] = d[t]] /\ (d[t] = c[t] => d = c)
  BY <1>3, <1>4
<1> QED
  BY <1>2, <1>5

\* A step on another queue.
LEMMA ElsewhereStutters ==
    ASSUME IInv, IInv', SoleBuffer, Whole, Whole', NEW t \in Threads, Step(t),
           NEW q \in Queues, target'[t] # q, pc[t] = "idle" \/ target[t] # q
    PROVE  UNCHANGED Atomic(q)!vars
<1>1. CallsOf(q)'[t] = CallsOf(q)[t]
  BY DEF CallsOf
<1>2. CallsOf(q)' = CallsOf(q)
  BY <1>1, OthersStay
<1>3. content'[q] = content[q]
  BY DEF Step, Invoke, Copy, Push, Pop, Save, GiveUp, Reset, Return, callVars,
         IInv, TypeOK
<1> QED
  BY <1>2, <1>3, ItemsStay, StepIsNext DEF Atomic!vars

\* The call of an operation on queue q.
LEMMA InvokeImplements ==
    ASSUME IInv, IInv', SoleBuffer, Whole, Whole', Position', NEW t \in Threads, Invoke(t),
           NEW q \in Queues, target'[t] = q
    PROVE  Atomic(q)!Next
<1>1. PICK o \in CanCall[t], m \in Items \cup {Nothing} :
        /\ op' = [op EXCEPT ![t] = o] /\ arg' = [arg EXCEPT ![t] = m]
        /\ IF o = "push" THEN m \in Items ELSE m = Nothing
        /\ pc' = [pc EXCEPT ![t] = CASE o = "push" -> "copy" [] o = "reset" -> "reset"
                                     [] OTHER -> "pop"]
  BY DEF Invoke, Goto
<1>2. o \in {"push", "pop", "popTicks", "reset"}
  BY CanCallAssumption DEF Operations
<1>3. CallsOf(q)[t] = Atomic(q)!Idle
  BY DEF Invoke, CallsOf, Atomic!Idle
<1>4. pc'[t] \in {"copy", "reset", "pop"} /\ op'[t] = o /\ arg'[t] = m
  BY <1>1, <1>2 DEF IInv, TypeOK
<1>5. CallsOf(q)'[t] = Atomic(q)!Called(o, m)
  BY <1>4 DEF CallsOf, Atomic!Called
<1>6. Atomic(q)!Called(o, m) \in Atomic(q)!Calls
  BY <1>1, <1>2 DEF Atomic!Calls
<1>7. CallsOf(q)' = [CallsOf(q) EXCEPT ![t] = Atomic(q)!Called(o, m)]
  BY <1>5, OthersStay DEF Step
<1>8. ItemsOf(q)' = ItemsOf(q)
  BY ItemsStay, StepIsNext DEF Step, Invoke
<1>9. Atomic(q)!Invoke(t)
  BY <1>3, <1>6, <1>7, <1>8 DEF Atomic!Invoke
<1> QED
  BY <1>9 DEF Atomic!Next

\* Inside an operation nothing is seen of the copies.
LEMMA InnerStepStutters ==
    ASSUME IInv, IInv', SoleBuffer, Position, Whole, Whole', NEW t \in Threads,
           Copy(t) \/ Save(t), NEW q \in Queues
    PROVE  UNCHANGED Atomic(q)!vars
<1>1. /\ content' = content /\ op' = op /\ target' = target /\ arg' = arg /\ Step(t)
  BY DEF Copy, Save, callVars, Step
<1>2. CASE Copy(t)
  <2>1. pc[t] = "copy" /\ pc'[t] = "push"
    BY <1>2 DEF Copy, Goto, IInv, TypeOK
  <2>2. CallsOf(q)'[t] = CallsOf(q)[t]
    BY <1>1, <2>1 DEF CallsOf
  <2> QED
    BY <1>1, <2>2, OthersStay, ItemsStay, StepIsNext DEF Atomic!vars
<1>3. CASE Save(t)
  <2>1. pc[t] = "save" /\ pc'[t] = "done" /\ result'[t] = Saved(t)
    BY <1>3 DEF Save, Goto, IInv, TypeOK
  <2>2. CallsOf(q)'[t] = CallsOf(q)[t]
    BY <1>1, <2>1 DEF CallsOf
  <2>3. CallsOf(q)' = CallsOf(q)
    BY <1>1, <2>2, OthersStay
  <2> QED
    BY <1>1, <2>3, ItemsStay, StepIsNext DEF Atomic!vars
<1> QED
  BY <1>2, <1>3

\* The four steps at which an operation takes effect on its queue.
LEMMA EffectImplements ==
    ASSUME IInv, IInv', SoleBuffer, Position, Whole, Whole', NEW t \in Threads,
           Push(t) \/ Pop(t) \/ GiveUp(t) \/ Reset(t), NEW q \in Queues, target[t] = q
    PROVE  Atomic(q)!Next
<1>1. /\ pc[t] \in {"push", "pop", "reset"} /\ pc'[t] \in {"save", "done"}
      /\ UNCHANGED <<op, target, arg, result, buffer>> /\ Step(t)
  BY DEF Push, Pop, GiveUp, Reset, Goto, callVars, heapVars, Step, IInv, TypeOK
<1>2. CallsOf(q)[t] = [phase |-> "called", op |-> op[t], arg |-> arg[t]]
  BY <1>1 DEF CallsOf
<1>3. \A r : CallsOf(q)'[t] = Atomic(q)!Done(op[t], r) => Atomic(q)!Effect(t, op[t], r)
  <2> TAKE r
  <2>1. /\ CallsOf(q)[t].phase = "called" /\ CallsOf(q)[t].op = op[t]
    BY <1>2
  <2> QED
    BY <1>1, <2>1, OthersStay DEF Atomic!Effect
<1>4. result[t] = Nothing
  BY <1>1 DEF Position
<1>5. pc'[t] = "done" => CallsOf(q)'[t] = Atomic(q)!Done(op[t], Nothing)
  BY <1>1, <1>4 DEF CallsOf, Atomic!Done
<1>6. /\ ItemsOf(q) = Through(Written, content[q])
      /\ ItemsOf(q)' = Through(Written, content'[q])
  <2>1. Written' = Written
    BY <1>1 DEF Written
  <2> QED
    BY <2>1, ItemsLemma, ItemsNext
<1>7. content[q] \in Seq(Heap)
  BY DEF IInv, TypeOK
<1>8. CASE Push(t)
  <2>1. /\ op[t] = "push" /\ pc'[t] = "done" /\ pointer[t] \in Heap
        /\ content'[q] = Append(content[q], pointer[t])
        /\ Written[pointer[t]] = arg[t]
    BY <1>8 DEF Push, Goto, Position, Whole, IInv, TypeOK, PointerInUse, Written
  <2>2. ItemsOf(q)' = Append(ItemsOf(q), arg[t])
    <3>1. \A b \in Heap : Through(Written, Append(content[q], b))
                            = Append(Through(Written, content[q]), Written[b])
      BY <1>7, ThroughAppend
    <3> QED
      BY <1>6, <2>1, <3>1
  <2>3. CallsOf(q)[t].arg = arg[t]
    BY <1>2
  <2>4. Atomic(q)!Push(t)
    BY <1>3, <1>5, <2>1, <2>2, <2>3 DEF Atomic!Push
  <2> QED
    BY <2>4 DEF Atomic!Next
<1>9. CASE Pop(t)
  <2>1. /\ op[t] \in {"pop", "popTicks"} /\ pc'[t] = "save" /\ content[q] # <<>>
        /\ content'[q] = Tail(content[q]) /\ pointer'[t] = Head(content[q])
    BY <1>9 DEF Pop, Goto, Position, IInv, TypeOK
  <2>2. /\ ItemsOf(q) # <<>> /\ ItemsOf(q)' = Tail(ItemsOf(q))
        /\ Head(ItemsOf(q)) = Written[Head(content[q])]
    BY <1>6, <1>7, <2>1, ThroughHeadTail
  <2>3. Head(content[q]) \in Heap
    BY <1>7, <2>1, HeadTailProperties
  <2>4. Saved(t)' = Head(ItemsOf(q))
    BY <1>1, <2>1, <2>2, <2>3, SavedNext DEF Written
  <2>5. CallsOf(q)'[t] = Atomic(q)!Done(op[t], Head(ItemsOf(q)))
    BY <1>1, <2>1, <2>4 DEF CallsOf, Atomic!Done
  <2>6. Atomic(q)!Pop(t)
    BY <1>3, <2>1, <2>2, <2>5 DEF Atomic!Pop
  <2> QED
    BY <2>6 DEF Atomic!Next
<1>10. CASE GiveUp(t)
  <2>1. /\ op[t] = "popTicks" /\ pc'[t] = "done" /\ content[q] = <<>>
        /\ content'[q] = content[q]
    BY <1>10 DEF GiveUp, Goto, IInv, TypeOK
  <2>2. ItemsOf(q) = <<>> /\ ItemsOf(q)' = ItemsOf(q)
    BY <1>6, <2>1, ThroughNothing
  <2>3. Atomic(q)!GiveUp(t)
    BY <1>3, <1>5, <2>1, <2>2 DEF Atomic!GiveUp
  <2> QED
    BY <2>3 DEF Atomic!Next
<1>11. CASE Reset(t)
  <2>1. op[t] = "reset" /\ pc'[t] = "done" /\ content'[q] = <<>>
    BY <1>11 DEF Reset, Goto, Position, IInv, TypeOK
  <2>2. ItemsOf(q)' = <<>>
    BY <1>6, <2>1, ThroughNothing
  <2>3. Atomic(q)!Reset(t)
    BY <1>3, <1>5, <2>1, <2>2 DEF Atomic!Reset
  <2> QED
    BY <2>3 DEF Atomic!Next
<1> QED
  BY <1>8, <1>9, <1>10, <1>11

LEMMA ReturnImplements ==
    ASSUME IInv, IInv', SoleBuffer, Whole, Whole', NEW t \in Threads, Return(t),
           NEW q \in Queues, target[t] = q
    PROVE  Atomic(q)!Next
<1>1. /\ pc[t] = "done" /\ pc'[t] = "idle" /\ content' = content /\ Step(t)
  BY DEF Return, Goto, Step, IInv, TypeOK
<1>2. CallsOf(q)[t].phase = "done" /\ CallsOf(q)'[t] = Atomic(q)!Idle
  BY <1>1 DEF CallsOf, Atomic!Idle
<1>3. Atomic(q)!Return(t)
  BY <1>1, <1>2, OthersStay, ItemsStay, StepIsNext DEF Atomic!Return
<1> QED
  BY <1>3 DEF Atomic!Next

\* The creation of a queue changes nothing that its threads see.
LEMMA CreationStutters ==
    ASSUME IInv, IInv', SoleBuffer, Whole, Whole', New \/ UNCHANGED vars, NEW q \in Queues
    PROVE  UNCHANGED Atomic(q)!vars
<1>1. UNCHANGED <<content, buffer, pc, op, target, arg, result, pointer>> /\ [Next]_vars
  BY DEF New, Next, vars, heapVars, callVars
<1>2. \A u \in Threads : pc[u] = "save" => Saved(u)' = Saved(u)
  BY <1>1, SavedLemma, SavedNext
<1>3. \A u \in Threads : CallsOf(q)'[u] = CallsOf(q)[u]
  BY <1>1, <1>2 DEF CallsOf
<1>4. PICK c, d : c = CallsOf(q) /\ d = CallsOf(q)'
  OBVIOUS
<1>5. c = [u \in Threads |-> c[u]] /\ d = [u \in Threads |-> d[u]]
  BY <1>4 DEF CallsOf
<1>6. d = c
  BY <1>3, <1>4, <1>5
<1> QED
  BY <1>1, <1>4, <1>6, ItemsStay DEF Atomic!vars

\* Every step is one of the atomic queue or none.
LEMMA StepImplements ==
    ASSUME IInv, IInv', SoleBuffer, Position, Position', Whole, Whole', [Next]_vars,
           NEW q \in Queues
    PROVE  [Atomic(q)!Next]_(Atomic(q)!vars)
<1>1. ASSUME NEW t \in Threads, Step(t) PROVE [Atomic(q)!Next]_(Atomic(q)!vars)
  <2>1. CASE Invoke(t)
    <3>1. pc[t] = "idle"
      BY <2>1 DEF Invoke
    <3> QED
      BY <1>1, <2>1, <3>1, InvokeImplements, ElsewhereStutters
  <2>2. CASE ~Invoke(t)
    <3>1. target'[t] = target[t]
      BY <1>1, <2>2 DEF Step, Copy, Push, Pop, Save, GiveUp, Reset, Return, callVars
    <3> QED
      BY <1>1, <2>2, <3>1, EffectImplements, ReturnImplements, InnerStepStutters,
         ElsewhereStutters DEF Step
  <2> QED
    BY <2>1, <2>2
<1> QED
  BY <1>1, CreationStutters DEF Next, Step

LEMMA InitImplements ==
    ASSUME Init, NEW q \in Queues
    PROVE  Atomic(q)!Init
<1>1. ItemsOf(q) = <<>>
  BY InitInv, ItemsLemma, ThroughNothing DEF Init
<1>2. CallsOf(q) = [t \in Threads |-> Atomic(q)!Idle]
  BY DEF Init, CallsOf, Atomic!Idle
<1> QED
  BY <1>1, <1>2 DEF Atomic!Init

\* With messages of one size each queue of the simulation is a queue whose
\* operations are atomic: the copies on the heap, the other queues and their
\* creation are not seen.
THEOREM QueuesImplemented ==
    ASSUME OneSize, Len(QueueIds) >= 2
    PROVE  Spec => ImplementsQueues
<1>1. QueueIds[1] \in Queues /\ QueueIds[2] \in Queues
  <2>1. Len(QueueIds) \in Nat
    BY QueueIdsAssumption, LenProperties
  <2> QED
    BY <2>1, QueueIdsAssumption, ElementOfSeq
<1>2. Init => First!Init /\ Second!Init
  BY <1>1, InitImplements
  DEF First!Init, Second!Init, First!Idle, Second!Idle, Atomic!Init, Atomic!Idle
<1>3. IInv /\ IInv' /\ SoleBuffer /\ Position /\ Position' /\ Whole /\ Whole'
        /\ [Next]_vars => [First!Next]_(First!vars)
  BY <1>1, StepImplements
  DEF Atomic!Next, Atomic!Invoke, Atomic!Push, Atomic!Pop, Atomic!GiveUp, Atomic!Reset,
      Atomic!Return, Atomic!Effect, Atomic!Calls, Atomic!Called, Atomic!Done, Atomic!Idle,
      Atomic!vars, First!Next, First!Invoke, First!Push, First!Pop, First!GiveUp,
      First!Reset, First!Return, First!Effect, First!Calls, First!Called, First!Done,
      First!Idle, First!vars
<1>4. IInv /\ IInv' /\ SoleBuffer /\ Position /\ Position' /\ Whole /\ Whole'
        /\ [Next]_vars => [Second!Next]_(Second!vars)
  BY <1>1, StepImplements
  DEF Atomic!Next, Atomic!Invoke, Atomic!Push, Atomic!Pop, Atomic!GiveUp, Atomic!Reset,
      Atomic!Return, Atomic!Effect, Atomic!Calls, Atomic!Called, Atomic!Done, Atomic!Idle,
      Atomic!vars, Second!Next, Second!Invoke, Second!Push, Second!Pop, Second!GiveUp,
      Second!Reset, Second!Return, Second!Effect, Second!Calls, Second!Called, Second!Done,
      Second!Idle, Second!vars
<1> QED
  BY <1>2, <1>3, <1>4, WholeInvariant, PTL
  DEF Spec, First!Spec, Second!Spec, ImplementsQueues
=============================================================================
