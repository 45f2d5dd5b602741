----------------------- MODULE MessageOwnershipProofs -----------------------
(***************************************************************************)
(* Proofs that the ownership protocol keeps each message in one place, for *)
(* any number of actors, clients and messages.                             *)
(***************************************************************************)
EXTENDS MessageOwnership, OwnershipLemmas, FiniteSetTheorems, TLAPS

-----------------------------------------------------------------------------
(* Type correctness. *)

\* The pool starts as the sequence of all messages.
LEMMA InitialPoolLemma == [m \in Message |-> m] \in Seq(Message)
  BY PoolAssumption DEF Message

\* Taking a message keeps the types.
LEMMA TakeKeepsType ==
    ASSUME TypeOK, NEW t \in Threads, NEW q \in Queues, Take(t, q)
    PROVE  TypeOK'
<1>1. Head(queue[q]) \in Message /\ Tail(queue[q]) \in Seq(Message)
  BY HeadTailProperties DEF TypeOK, Take
<1> QED
  BY <1>1 DEF TypeOK, Take

\* Putting a message a thread holds keeps the types.
LEMMA PutKeepsType ==
    ASSUME TypeOK, NEW t \in Threads, NEW m \in held[t], NEW q \in Queues, Put(t, m, q)
    PROVE  TypeOK'
<1>1. m \in Message
  BY DEF TypeOK
<1>2. Append(queue[q], m) \in Seq(Message)
  BY <1>1, AppendProperties DEF TypeOK
<1> QED
  BY <1>2 DEF TypeOK, Put

\* The pool starts with every message.
LEMMA InitTypeOK == Init => TypeOK
  BY InitialPoolLemma DEF Init, TypeOK

\* Every queue holds messages of the pool and every thread a set of them.
THEOREM TypeCorrect == Spec => []TypeOK
<1>1. TypeOK /\ [Next]_vars => TypeOK'
  <2> SUFFICES ASSUME TypeOK, [Next]_vars PROVE TypeOK'
    OBVIOUS
  <2>1. CASE UNCHANGED vars
    BY <2>1 DEF TypeOK, vars
  <2> QED
    BY <2>1, TakeKeepsType, PutKeepsType DEF Next, Acquire, Receive, Queues, Threads
<1> QED
  BY <1>1, InitTypeOK, PTL DEF Spec

-----------------------------------------------------------------------------
(* Sole ownership. *)

\* The invariant as the lemmas about queues and sets state it.
LEMMA SoleOwnerIsSole == SoleOwner <=> Sole(Queues, Threads, queue, held)
  BY DEF SoleOwner, QueuesDistinct, Apart, Sole

\* The owners stay sole when a thread takes the head of a queue.
LEMMA TakeKeepsSoleOwner ==
    ASSUME TypeOK, SoleOwner,
           NEW t \in Threads, NEW q \in Queues, Take(t, q)
    PROVE  SoleOwner'
<1>1. Takes(Threads, queue, held, queue', held', t, q)
  BY DEF Take, TypeOK, Takes
<1>2. queue \in [Queues -> Seq(Message)] /\ Sole(Queues, Threads, queue, held)
  BY SoleOwnerIsSole DEF TypeOK
<1>3. Sole(Queues, Threads, queue', held')
  BY <1>1, <1>2, TakeLemma, Zenon
<1> QED
  BY <1>3 DEF SoleOwner, QueuesDistinct, Apart, Sole

\* The owners stay sole when a thread puts a message it holds in a queue.
LEMMA PutKeepsSoleOwner ==
    ASSUME TypeOK, SoleOwner,
           NEW t \in Threads, NEW m \in held[t], NEW q \in Queues, Put(t, m, q)
    PROVE  SoleOwner'
<1>1. m \in Message /\ Puts(Threads, queue, held, queue', held', t, m, q)
  BY DEF Put, TypeOK, SoleOwner, Apart, Puts
<1>2. queue \in [Queues -> Seq(Message)] /\ Sole(Queues, Threads, queue, held)
  BY SoleOwnerIsSole DEF TypeOK
<1>3. Sole(Queues, Threads, queue', held')
  BY <1>1, <1>2, PutLemma, Zenon
<1> QED
  BY <1>3 DEF SoleOwner, QueuesDistinct, Apart, Sole

\* The pool holds each message once and nobody else holds one.
LEMMA InitSoleOwner == Init => SoleOwner
<1> SUFFICES ASSUME Init PROVE SoleOwner
  OBVIOUS
<1>1. \A q \in Queues : queue[q] = IF q = Pool THEN [m \in Message |-> m] ELSE <<>>
  BY DEF Init
<1>2. \A q \in Queues \ {Pool} : Range(queue[q]) = {} /\ IsInjective(queue[q])
  <2>1. Range(<<>>) = {} /\ IsInjective(<<>>)
    BY DEF Range, IsInjective
  <2> QED
    BY <1>1, <2>1
<1>3. IsInjective([m \in Message |-> m])
  BY DEF IsInjective
<1>4. QueuesDistinct
  BY <1>1, <1>2, <1>3 DEF QueuesDistinct, Queues
<1>5. Apart
  BY <1>2 DEF Apart, Queues, Init
<1> QED
  BY <1>4, <1>5 DEF SoleOwner

\* No message ever has two owners: not two threads, not two queues, not a
\* thread and a queue, and it is in no queue twice.
THEOREM OwnersSole == Spec => []SoleOwner
<1>1. TypeOK /\ SoleOwner /\ [Next]_vars => SoleOwner'
  <2> SUFFICES ASSUME TypeOK, SoleOwner, [Next]_vars PROVE SoleOwner'
    OBVIOUS
  <2>1. ASSUME NEW t \in Threads, Acquire(t) PROVE SoleOwner'
    BY <2>1, TakeKeepsSoleOwner DEF Acquire, Queues
  <2>2. ASSUME NEW a \in Actors, Receive(a) PROVE SoleOwner'
    BY <2>2, TakeKeepsSoleOwner DEF Receive, Queues, Threads
  <2>3. ASSUME NEW t \in Threads, NEW m \in held[t], NEW q \in Queues, Put(t, m, q)
        PROVE  SoleOwner'
    BY <2>3, PutKeepsSoleOwner
  <2>4. CASE UNCHANGED vars
    BY <2>4 DEF SoleOwner, QueuesDistinct, Apart, vars
  <2> QED
    BY <2>1, <2>2, <2>3, <2>4 DEF Next
<1> QED
  BY <1>1, InitSoleOwner, TypeCorrect, PTL DEF Spec

-----------------------------------------------------------------------------
(* No message is lost. *)

\* A thread that takes a message loses none.
LEMMA TakeKeepsPlaced ==
    ASSUME TypeOK, SoleOwner, NEW t \in Threads, NEW q \in Queues, Take(t, q),
           NEW m, Placed(m)
    PROVE  Placed(m)'
<1>1. Range(Tail(queue[q])) = Range(queue[q]) \ {Head(queue[q])}
  BY TailLemma DEF TypeOK, SoleOwner, QueuesDistinct, Take
<1>2. /\ queue'[q] = Tail(queue[q])
      /\ \A r \in Queues \ {q} : queue'[r] = queue[r]
      /\ held'[t] = held[t] \cup {Head(queue[q])}
      /\ \A u \in Threads \ {t} : held'[u] = held[u]
  BY DEF TypeOK, Take
<1> QED
  BY <1>1, <1>2 DEF Placed

\* Nor does one that puts a message, which is then in a queue.
LEMMA PutKeepsPlaced ==
    ASSUME TypeOK, NEW t \in Threads, NEW n \in held[t], NEW q \in Queues, Put(t, n, q),
           NEW m, Placed(m) \/ m = n
    PROVE  Placed(m)'
<1>1. Range(Append(queue[q], n)) = Range(queue[q]) \cup {n}
  BY AppendLemma DEF TypeOK
<1>2. /\ queue'[q] = Append(queue[q], n)
      /\ \A r \in Queues \ {q} : queue'[r] = queue[r]
      /\ held'[t] = held[t] \ {n}
      /\ \A u \in Threads \ {t} : held'[u] = held[u]
  BY DEF TypeOK, Put
<1> QED
  BY <1>1, <1>2 DEF Placed

\* At the start every message is in the pool.
LEMMA InitPlaced == ASSUME Init, NEW m \in Message PROVE Placed(m)
<1>1. Pool \in Queues /\ queue[Pool] = [n \in Message |-> n]
  BY DEF Init, Queues
<1>2. m \in Range(queue[Pool])
  BY <1>1 DEF Range
<1> QED
  BY <1>1, <1>2 DEF Placed

\* Each message is at every moment in some queue or in some thread's hands.
THEOREM NoMessageLost == Spec => []NoneLost
<1>1. Init => NoneLost
  BY InitPlaced DEF NoneLost
<1>2. TypeOK /\ SoleOwner /\ NoneLost /\ [Next]_vars => NoneLost'
  <2> SUFFICES ASSUME TypeOK, SoleOwner, NoneLost, [Next]_vars, NEW m \in Message
               PROVE  Placed(m)'
    BY DEF NoneLost, Message
  <2>1. Placed(m)
    BY DEF NoneLost
  <2>2. CASE UNCHANGED vars
    BY <2>1, <2>2 DEF Placed, vars
  <2> QED
    BY <2>1, <2>2, TakeKeepsPlaced, PutKeepsPlaced
       DEF Next, Acquire, Receive, Queues, Threads
<1> QED
  BY <1>1, <1>2, TypeCorrect, OwnersSole, PTL DEF Spec

-----------------------------------------------------------------------------
(* The mailboxes fit. *)

\* The size of an initial interval of the positive numbers.
LEMMA IntervalLemma ==
    ASSUME NEW n \in Nat
    PROVE  IsFiniteSet(1 .. n) /\ Cardinality(1 .. n) = n
<1>1. 1 \in Int /\ n \in Int
  OBVIOUS
<1>2. IsFiniteSet(1 .. n) /\ Cardinality(1 .. n) = IF 1 > n THEN 0 ELSE n - 1 + 1
  BY <1>1, FS_Interval, Zenon
<1>3. (IF 1 > n THEN 0 ELSE n - 1 + 1) = n
  OBVIOUS
<1> QED
  BY <1>2, <1>3

\* A queue without repetitions is no longer than the pool.
LEMMA FitLemma == TypeOK /\ SoleOwner => MailboxesFit
<1> SUFFICES ASSUME TypeOK, SoleOwner, NEW q \in Queues
             PROVE  Len(queue[q]) <= PoolSize
  BY DEF MailboxesFit
<1> DEFINE s == queue[q]
           n == Len(queue[q])
<1>1. n \in Nat /\ s \in [1 .. n -> Message]
  BY DEF TypeOK
<1>2. /\ IsFiniteSet(1 .. n) /\ Cardinality(1 .. n) = n
      /\ IsFiniteSet(Message) /\ Cardinality(Message) = PoolSize
  BY <1>1, PoolAssumption, IntervalLemma DEF Message
<1>3. \A x, y \in 1 .. n : s[x] = s[y] => x = y
  BY <1>1 DEF SoleOwner, QueuesDistinct, IsInjective
<1>4. ~ (PoolSize < n)
  BY <1>1, <1>2, <1>3, FS_PigeonHole
<1> QED
  BY <1>1, <1>4, PoolAssumption

\* No queue ever holds more messages than the pool has: a mailbox of that size
\* is never full, so a put with an unlimited timeout never blocks.
THEOREM MailboxesNeverFull == Spec => []MailboxesFit
  BY FitLemma, TypeCorrect, OwnersSole, PTL
=============================================================================
