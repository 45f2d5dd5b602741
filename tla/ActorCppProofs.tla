---------------------------- MODULE ActorCppProofs ----------------------------
(***************************************************************************)
(* Proofs about the life of the actors, for any number of actors, messages *)
(* and messages in a handler's hands: no message has two owners and no     *)
(* mailbox overflows, no processMsg runs before its class is in place,      *)
(* nobody uses a destroyed actor, and only messages sent after the request *)
(* to end are lost.                                                        *)
(***************************************************************************)
EXTENDS ActorCpp, MessageOwnershipProofs

-----------------------------------------------------------------------------
(* What each step does to queues and hands. *)

\* A step takes the head of a queue, puts a message, drops the mailbox of a
\* destroyed actor, or does none of this.
Takes1 == \E t \in Threads, q \in Queues : Take(t, q)
Puts1 == \E t \in Threads : \E m \in held[t], q \in Queues : Put(t, m, q)
Drops(a) == queue' = [queue EXCEPT ![a] = <<>>] /\ UNCHANGED held

\* Who takes and who gives are threads, and where to are queues.
LEMMA NamesLemma ==
    /\ Owner \in Threads /\ Pool \in Queues
    /\ \A a \in Actors : a \in Threads /\ a \in Queues
  BY OwnerAssumption DEF Threads, Queues

\* The steps of the life cycle, seen as moves of messages.
LEMMA MovesLemma ==
    ASSUME LifeTypeOK, LifeNext
    PROVE  Takes1 \/ Puts1 \/ (\E a \in Actors : Drops(a)) \/ UNCHANGED vars
<1> USE NamesLemma DEF LifeTypeOK, TypeOK
<1>1. CASE Reserve \/ Work
  BY <1>1 DEF Reserve, Work, Acquire, Takes1
<1>2. ASSUME NEW a \in Actors, OwnerStep(a) PROVE Puts1 \/ Drops(a) \/ UNCHANGED vars
  BY <1>2 DEF OwnerStep, Construct, StartThread, Override, Return, AskToEnd, Join,
              Destroy, Send, Puts1, Drops
<1>3. ASSUME NEW a \in Actors, SetDelay(a) \/ Tell(a) PROVE Puts1 \/ UNCHANGED vars
  BY <1>3 DEF SetDelay, Tell, Send, Puts1
<1>4. ASSUME NEW a \in Actors, ActorThread(a) PROVE Takes1 \/ Puts1 \/ UNCHANGED vars
  <2>1. CASE TakeMessage(a) \/ HandlerAcquires(a)
    BY <2>1 DEF TakeMessage, HandlerAcquires, Receive, Acquire, Takes1
  <2>2. CASE HandlerGives(a)
    BY <2>2 DEF HandlerGives, Send, Release, Known, Puts1
  <2>3. CASE Turn(a) \/ TimesOut(a) \/ HandlerReturns(a)
    BY <2>3 DEF Turn, TimesOut, HandlerReturns
  <2> QED
    BY <1>4, <2>1, <2>2, <2>3 DEF ActorThread
<1> QED
  BY <1>1, <1>2, <1>3, <1>4 DEF LifeNext

\* An emptied mailbox keeps the types and the sole ownership.
LEMMA DropKeeps ==
    ASSUME TypeOK, SoleOwner, NEW a \in Actors, Drops(a)
    PROVE  TypeOK' /\ SoleOwner'
<1>1. /\ queue' \in [Queues -> Seq(Message)] /\ held' = held
      /\ \A q \in Queues : queue'[q] = IF q = a THEN <<>> ELSE queue[q]
  <2>1. <<>> \in Seq(Message)
    OBVIOUS
  <2>2. queue \in [Queues -> Seq(Message)]
    BY DEF TypeOK
  <2>3. queue' = [queue EXCEPT ![a] = <<>>] /\ held' = held
    BY DEF Drops
  <2> QED
    BY <2>1, <2>2, <2>3
<1>2. Range(<<>>) = {} /\ IsInjective(<<>>)
  BY DEF Range, IsInjective
<1>3. QueuesDistinct'
  BY <1>1, <1>2 DEF SoleOwner, QueuesDistinct
<1>4. \A q \in Queues : Range(queue'[q]) \subseteq Range(queue[q])
  BY <1>1, <1>2
<1>5. Apart'
  BY <1>1, <1>4 DEF SoleOwner, Apart
<1> QED
  BY <1>1, <1>3, <1>5 DEF TypeOK, SoleOwner

\* Every step of the life cycle keeps them.
LEMMA LifeStepKeeps ==
    ASSUME LifeTypeOK, SoleOwner, [LifeNext]_allVars
    PROVE  TypeOK' /\ SoleOwner'
<1>1. CASE LifeNext
  BY <1>1, MovesLemma, TakeKeepsType, PutKeepsType, TakeKeepsSoleOwner,
     PutKeepsSoleOwner, DropKeeps
     DEF LifeTypeOK, Takes1, Puts1, vars, TypeOK, SoleOwner, QueuesDistinct, Apart
<1>2. CASE UNCHANGED allVars
  BY <1>2 DEF LifeTypeOK, allVars, vars, TypeOK, SoleOwner, QueuesDistinct, Apart
<1> QED
  BY <1>1, <1>2

-----------------------------------------------------------------------------
(* Types, owners and the size of the mailboxes. *)

\* Every step keeps the types of the life cycle.
LEMMA LifeStepKeepsType ==
    ASSUME LifeTypeOK, SoleOwner, [LifeNext]_allVars
    PROVE  LifeTypeOK'
<1>1. TypeOK'
  BY LifeStepKeeps
<1>2. CASE Reserve \/ Work
  BY <1>1, <1>2, NamesLemma DEF Reserve, Work, LifeTypeOK, TypeOK, lifeVars
<1>3. ASSUME NEW a \in Actors, OwnerStep(a) \/ SetDelay(a) \/ Tell(a) PROVE LifeTypeOK'
  <2>1. CASE Construct(a) \/ StartThread(a) \/ Join(a) \/ Destroy(a)
    BY <1>1, <2>1 DEF Construct, StartThread, Join, Destroy, Becomes, Goto, LifeTypeOK, Phases
  <2>3. CASE Override(a) \/ SetDelay(a) \/ Return(a)
    BY <1>1, <2>3 DEF Override, SetDelay, Return, Becomes, LifeTypeOK, Phases
  <2>2. CASE Tell(a) \/ AskToEnd(a)
    BY <1>1, <2>2, NamesLemma DEF Tell, AskToEnd, Send, Becomes, LifeTypeOK, TypeOK, Phases
  <2> QED
    BY <1>3, <2>1, <2>2, <2>3 DEF OwnerStep
<1>4. ASSUME NEW a \in Actors, ActorThread(a) PROVE LifeTypeOK'
  <2>1. CASE Turn(a) \/ TakeMessage(a) \/ TimesOut(a)
    BY <1>1, <2>1 DEF Turn, TakeMessage, TimesOut, Goto, LifeTypeOK
  <2>2. CASE HandlerGives(a)
    BY <1>1, <2>2, NamesLemma DEF HandlerGives, Send, Release, LifeTypeOK, TypeOK
  <2>3. CASE HandlerAcquires(a)
    BY <1>1, <2>3, SendAssumption DEF HandlerAcquires, LifeTypeOK
  <2>4. CASE HandlerReturns(a)
    BY <1>1, <2>4, SendAssumption DEF HandlerReturns, Goto, LifeTypeOK
  <2> QED
    BY <1>4, <2>1, <2>2, <2>3, <2>4 DEF ActorThread
<1>5. CASE UNCHANGED allVars
  BY <1>1, <1>5 DEF LifeTypeOK, allVars, lifeVars
<1> QED
  BY <1>2, <1>3, <1>4, <1>5 DEF LifeNext

LEMMA LifeInitTypeOK == LifeInit => LifeTypeOK /\ SoleOwner
  BY InitTypeOK, InitSoleOwner, SendAssumption DEF LifeInit, LifeTypeOK, Phases

LEMMA LifeTypesAndOwners == LifeSpec => [](LifeTypeOK /\ SoleOwner)
<1>1. LifeTypeOK /\ SoleOwner /\ [LifeNext]_allVars => (LifeTypeOK /\ SoleOwner)'
  BY LifeStepKeeps, LifeStepKeepsType
<1> QED
  BY <1>1, LifeInitTypeOK, PTL DEF LifeSpec

\* The objects, threads and messages of the actors keep their types.
THEOREM LifeTypeCorrect == LifeSpec => []LifeTypeOK
  BY LifeTypesAndOwners, PTL

\* From the construction of the first actor to the destruction of the last, no
\* message has two owners.
THEOREM LifeOwnersSole == LifeSpec => []SoleOwner
  BY LifeTypesAndOwners, PTL

\* No mailbox ever holds more messages than the pool has.
THEOREM LifeMailboxesNeverFull == LifeSpec => []MailboxesFit
<1>1. LifeTypeOK /\ SoleOwner => MailboxesFit
  BY FitLemma DEF LifeTypeOK
<1> QED
  BY <1>1, LifeTypesAndOwners, PTL

-----------------------------------------------------------------------------
(* The stages of a life. *)

\* Where the thread of an actor can be while the object is in each phase, and
\* that nothing can reach an actor whose class is not in place.
Stages ==
    \A a \in Actors :
      /\ phase[a] \in {"raw", "members", "base"} => queue[a] = <<>>
      /\ phase[a] \in {"raw", "members"} => run[a] = "none"
      /\ phase[a] \in {"members", "base"} => ~timed[a]
      /\ phase[a] = "base" => run[a] \in {"loop", "wait"}
      /\ phase[a] \in {"joined", "destroyed"} => run[a] = "ended"

\* The owner destroys no actor before it has joined them all.
DestroyedLast ==
    \A a \in Actors : phase[a] = "destroyed" => All({"joined", "destroyed"})

\* Whether a loop goes on, and which mailboxes hold a message that ends it.
Ending ==
    \A a \in Actors :
      /\ run[a] \in {"none", "loop", "wait", "timedWait"} => continues[a]
      /\ run[a] = "ended" => ~continues[a]
      /\ ~continues[a] => /\ phase[a] \in {"stopping", "joined", "destroyed"}
                          /\ Range(queue[a]) \subseteq late

\* The messages that end a loop are in the owner's hands or in the mailboxes
\* of the actors asked to end; what follows them there is late.
Stops ==
    /\ Range(queue[Pool]) \cap stop = {}
    /\ \A a \in Actors :
         /\ held[a] \cap stop = {}
         /\ phase[a] \in {"raw", "members", "base", "derived", "alive"}
              => Range(queue[a]) \cap stop = {}
         /\ \A i, j \in DOMAIN queue[a] :
              i < j /\ queue[a][i] \in stop => queue[a][j] \in late

\* Which mailboxes a step can fill: those of the actors known.
LEMMA FilledLemma ==
    ASSUME LifeTypeOK, LifeNext, NEW a \in Actors, phase[a] \in {"raw", "members", "base"}
    PROVE  queue'[a] = queue[a] \/ Take(a, a)
<1> USE DEF LifeTypeOK, TypeOK
<1>1. a \notin Known /\ ~All({"alive", "stopping"}) /\ ~All({"joined", "destroyed"})
  BY DEF Known, All
<1>2. a # Pool /\ a \in Queues
  BY NamesAssumption, NamesLemma
<1>3. CASE Reserve \/ Work
  BY <1>2, <1>3 DEF Reserve, Work, Acquire, Take
<1>4. ASSUME NEW b \in Actors, OwnerStep(b) PROVE queue'[a] = queue[a]
  BY <1>1, <1>4 DEF OwnerStep, Construct, StartThread, Override, Return, AskToEnd, Join,
                    Destroy, vars, All
<1>6. ASSUME NEW b \in Actors, SetDelay(b) \/ Tell(b) PROVE queue'[a] = queue[a]
  <2>1. CASE SetDelay(b)
    BY <2>1 DEF SetDelay, vars
  <2>2. CASE Tell(b)
    <3>1. b # a
      BY <1>1, <2>2 DEF Tell
    <3> QED
      BY <2>2, <3>1 DEF Tell, Send, Put
  <2> QED
    BY <1>6, <2>1, <2>2
<1>5. ASSUME NEW b \in Actors, ActorThread(b) PROVE queue'[a] = queue[a] \/ Take(a, a)
  <2>1. CASE TakeMessage(b)
    <3>1. Take(b, b)
      BY <2>1 DEF TakeMessage, Receive
    <3>2. CASE b # a
      BY <1>2, <3>1, <3>2 DEF Take
    <3> QED
      BY <3>1, <3>2
  <2>2. CASE HandlerAcquires(b)
    BY <1>2, <2>2 DEF HandlerAcquires, Acquire, Take
  <2>3. CASE HandlerGives(b)
    BY <1>1, <1>2, <2>3 DEF HandlerGives, Send, Release, Put
  <2>4. CASE Turn(b) \/ TimesOut(b) \/ HandlerReturns(b)
    BY <2>4 DEF Turn, TimesOut, HandlerReturns, vars
  <2> QED
    BY <1>5, <2>1, <2>2, <2>3, <2>4 DEF ActorThread
<1> QED
  BY <1>3, <1>4, <1>5, <1>6 DEF LifeNext

\* Every step keeps the stages.
LEMMA LifeStepKeepsStages ==
    ASSUME LifeTypeOK, Stages, DestroyedLast, [LifeNext]_allVars
    PROVE  Stages' /\ DestroyedLast'
<1> USE DEF LifeTypeOK
<1>1. ASSUME LifeNext, NEW a \in Actors, phase[a] \in {"raw", "members", "base"}
      PROVE  queue'[a] = <<>>
  <2>1. queue[a] = <<>>
    BY <1>1 DEF Stages
  <2> QED
    BY <1>1, <2>1, FilledLemma DEF Take
<1>2. CASE Reserve \/ Work
  <2>1. UNCHANGED <<phase, run, timed>>
    BY <1>2 DEF Reserve, Work, lifeVars
  <2> QED
    BY <1>1, <1>2, <2>1 DEF LifeNext, Stages, DestroyedLast, All
<1>3. ASSUME NEW a \in Actors, OwnerStep(a) \/ SetDelay(a) \/ Tell(a)
      PROVE  Stages' /\ DestroyedLast'
  <2>0. LifeNext
    BY <1>3 DEF LifeNext
  <2>1. CASE Construct(a)
    BY <1>1, <2>0, <2>1 DEF Construct, Becomes, Stages, DestroyedLast, All
  <2>2. CASE StartThread(a)
    BY <1>1, <2>0, <2>2 DEF StartThread, Becomes, Goto, Stages, DestroyedLast, All
  <2>3. CASE Override(a) \/ Return(a)
    BY <1>1, <2>0, <2>3 DEF Override, Return, Becomes, Stages, DestroyedLast, All
  <2>8. CASE SetDelay(a)
    BY <1>1, <2>0, <2>8 DEF SetDelay, Stages, DestroyedLast, All
  <2>4. CASE Tell(a)
    BY <1>1, <2>0, <2>4 DEF Tell, Stages, DestroyedLast, All
  <2>5. CASE AskToEnd(a)
    BY <1>1, <2>0, <2>5 DEF AskToEnd, Becomes, Stages, DestroyedLast, All
  <2>6. CASE Join(a)
    BY <1>1, <2>0, <2>6 DEF Join, Becomes, Stages, DestroyedLast, All
  <2>7. CASE Destroy(a)
    BY <1>1, <2>0, <2>7 DEF Destroy, Becomes, Stages, DestroyedLast, All
  <2> QED
    BY <1>3, <2>1, <2>2, <2>3, <2>4, <2>5, <2>6, <2>7, <2>8 DEF OwnerStep
<1>4. ASSUME NEW a \in Actors, ActorThread(a)
      PROVE  Stages' /\ DestroyedLast'
  <2>0. LifeNext /\ phase' = phase
    BY <1>4 DEF LifeNext, ActorThread, Turn, TakeMessage, TimesOut, HandlerAcquires,
                HandlerGives, HandlerReturns, lifeVars
  <2>1. CASE Turn(a)
    BY <1>1, <2>0, <2>1 DEF Turn, Goto, Stages, DestroyedLast, All
  <2>2. CASE TakeMessage(a)
    <3>1. queue[a] # <<>>
      BY <2>2 DEF TakeMessage, Receive, Take
    <3> QED
      BY <1>1, <2>0, <2>2, <3>1 DEF TakeMessage, Goto, Stages, DestroyedLast, All
  <2>3. CASE TimesOut(a)
    BY <1>1, <2>0, <2>3 DEF TimesOut, Goto, Stages, DestroyedLast, All
  <2>4. CASE HandlerAcquires(a)
    BY <1>1, <2>0, <2>4 DEF HandlerAcquires, Stages, DestroyedLast, All
  <2>5. CASE HandlerGives(a)
    BY <1>1, <2>0, <2>5 DEF HandlerGives, Stages, DestroyedLast, All
  <2>6. CASE HandlerReturns(a)
    BY <1>1, <2>0, <2>6 DEF HandlerReturns, Goto, Stages, DestroyedLast, All
  <2> QED
    BY <1>4, <2>1, <2>2, <2>3, <2>4, <2>5, <2>6 DEF ActorThread
<1>5. CASE UNCHANGED allVars
  BY <1>5 DEF allVars, vars, lifeVars, Stages, DestroyedLast, All
<1> QED
  BY <1>2, <1>3, <1>4, <1>5 DEF LifeNext

LEMMA LifeInStages == LifeSpec => [](Stages /\ DestroyedLast)
<1>1. LifeInit => Stages /\ DestroyedLast
  BY NamesAssumption, NamesLemma DEF LifeInit, Init, Stages, DestroyedLast
<1>2. LifeTypeOK /\ (Stages /\ DestroyedLast) /\ [LifeNext]_allVars => (Stages /\ DestroyedLast)'
  BY LifeStepKeepsStages
<1> QED
  BY <1>1, <1>2, LifeTypeCorrect, PTL DEF LifeSpec

\* Only the step of the actor's own thread changes where it is, but for its start.
LEMMA RunLemma ==
    ASSUME LifeTypeOK, LifeNext, NEW a \in Actors, run'[a] # run[a]
    PROVE  \/ StartThread(a)
           \/ ActorThread(a) /\ (run'[a] = "process" /\ run[a] # "process"
                                   => TakeMessage(a) \/ TimesOut(a))
<1> USE DEF LifeTypeOK
<1>1. CASE Reserve \/ Work
  BY <1>1 DEF Reserve, Work, lifeVars
<1>2. ASSUME NEW b \in Actors, OwnerStep(b) \/ SetDelay(b) \/ Tell(b) PROVE StartThread(a)
  BY <1>2 DEF OwnerStep, Construct, StartThread, Override, SetDelay, Return, AskToEnd, Tell,
              Join, Destroy, Goto
<1>3. ASSUME NEW b \in Actors, ActorThread(b)
      PROVE  ActorThread(a) /\ (run'[a] = "process" /\ run[a] # "process"
                                  => TakeMessage(a) \/ TimesOut(a))
  <2>1. b = a
    BY <1>3 DEF ActorThread, Turn, TakeMessage, TimesOut, HandlerAcquires, HandlerGives,
                HandlerReturns, Goto, lifeVars
  <2> QED
    BY <1>3, <2>1 DEF ActorThread, Turn, HandlerAcquires, HandlerGives, HandlerReturns,
                      Goto, lifeVars
<1> QED
  BY <1>1, <1>2, <1>3 DEF LifeNext

\* No actor runs processMsg before its class has set its members and its own
\* processMsg, although its thread starts before and the body of its
\* constructor may set a delay, hand the object out and send messages.
THEOREM LifeNoEarlyDispatch == LifeSpec => NoEarlyDispatch
<1>1. ASSUME LifeTypeOK, Stages, [LifeNext]_allVars, NEW a \in Actors,
             run'[a] = "process", run[a] # "process"
      PROVE  phase[a] \in {"derived", "alive", "stopping"}
  <2>1. LifeNext
    BY <1>1 DEF allVars, lifeVars
  <2>2. TakeMessage(a) \/ TimesOut(a)
    BY <1>1, <2>1, RunLemma DEF StartThread, Goto, LifeTypeOK
  <2>3. run[a] \in {"wait", "timedWait"} /\ (run[a] = "wait" => queue[a] # <<>>)
    BY <2>2 DEF TakeMessage, TimesOut, Receive, Take
  <2> QED
    BY <1>1, <2>3 DEF Stages, LifeTypeOK, Phases
<1>2. LifeTypeOK /\ (Stages /\ DestroyedLast) /\ [LifeNext]_allVars
        => [\A a \in Actors : run'[a] = "process" /\ run[a] # "process"
                                => phase[a] \in {"derived", "alive", "stopping"}]_allVars
  BY <1>1
<1> QED
  BY <1>2, LifeTypeCorrect, LifeInStages, PTL DEF LifeSpec, NoEarlyDispatch

\* Nobody uses an actor that is not constructed or is destroyed: not its own
\* thread, which has ended, and no sender, because all threads have.
THEOREM LifeUsedWithinLife == LifeSpec => UsedWithinLife
<1>1. ASSUME LifeTypeOK, Stages, DestroyedLast, LifeNext, NEW a \in Actors,
             run'[a] # run[a]
      PROVE  phase[a] \in Phases \ {"raw", "destroyed"}
  <2>1. CASE StartThread(a)
    BY <2>1 DEF StartThread, Phases
  <2>2. CASE ActorThread(a)
    <3>1. run[a] \notin {"none", "ended"}
      BY <2>2 DEF ActorThread, Turn, TakeMessage, TimesOut, HandlerAcquires,
                  HandlerGives, HandlerReturns
    <3> QED
      BY <1>1, <3>1 DEF Stages, LifeTypeOK, Phases
  <2> QED
    BY <1>1, <2>1, <2>2, RunLemma
<1>2. ASSUME LifeTypeOK, Stages, DestroyedLast, LifeNext, NEW a \in Actors,
             Len(queue'[a]) > Len(queue[a])
      PROVE  phase[a] \in Phases \ {"raw", "destroyed"}
  <2>1. queue[a] \in Seq(Message) /\ a \in Queues
    BY <1>2, NamesLemma DEF LifeTypeOK, TypeOK
  <2>2. ASSUME phase[a] = "raw" PROVE FALSE
    <3>1. queue[a] = <<>> /\ (queue'[a] = queue[a] \/ Take(a, a))
      BY <1>2, <2>2, FilledLemma DEF Stages
    <3>2. queue'[a] = queue[a]
      BY <3>1 DEF Take
    <3> QED
      BY <1>2, <2>1, <3>2
  <2>3. ASSUME phase[a] = "destroyed" PROVE FALSE
    <3>1. \A b \in Actors : phase[b] \in {"joined", "destroyed"} /\ run[b] = "ended"
      BY <1>2, <2>3 DEF DestroyedLast, Stages, All
    <3>2. PICK b \in Actors : Destroy(b)
      <4>1. ~Reserve /\ ~Work
        BY <2>3, <3>1 DEF Reserve, Work, All
      <4>2. \A b \in Actors : ~ActorThread(b) /\ ~SetDelay(b) /\ ~Tell(b)
        BY <3>1 DEF ActorThread, Turn, TakeMessage, TimesOut, HandlerAcquires,
                    HandlerGives, HandlerReturns, SetDelay, Tell, All
      <4>3. \A b \in Actors : OwnerStep(b) => Destroy(b)
        BY <3>1 DEF OwnerStep, Construct, StartThread, Override, Return, AskToEnd, Join
      <4> QED
        BY <1>2, <4>1, <4>2, <4>3 DEF LifeNext
    <3>3. queue'[a] = queue[a] \/ queue'[a] = <<>>
      BY <1>2, <2>1, <3>2 DEF Destroy, LifeTypeOK, TypeOK
    <3> QED
      BY <1>2, <2>1, <3>3
  <2> QED
    BY <1>2, <2>2, <2>3 DEF LifeTypeOK, Phases
<1>3. LifeTypeOK /\ (Stages /\ DestroyedLast) /\ [LifeNext]_allVars
        => [\A a \in Actors :
              run'[a] # run[a] \/ Len(queue'[a]) > Len(queue[a])
                => phase[a] \in Phases \ {"raw", "destroyed"}]_allVars
  BY <1>1, <1>2
<1> QED
  BY <1>3, LifeTypeCorrect, LifeInStages, PTL DEF LifeSpec, UsedWithinLife

-----------------------------------------------------------------------------
(* What the end of an actor loses. *)

\* A message put is the last of its queue; the other queues stay.
PutAtEnd(m, q) ==
    /\ \A r \in Queues \ {q} : queue'[r] = queue[r]
    /\ \A r \in Queues : m \notin Range(queue[r])
    /\ Range(queue'[q]) = Range(queue[q]) \cup {m}
    /\ DOMAIN queue[q] = 1 .. Len(queue[q]) /\ Len(queue[q]) \in Nat
    /\ DOMAIN queue'[q] = 1 .. Len(queue[q]) + 1
    /\ \A i \in 1 .. Len(queue[q]) : queue'[q][i] = queue[q][i]
    /\ queue'[q][Len(queue[q]) + 1] = m
    /\ \A u \in Threads : held'[u] \subseteq held[u]

LEMMA PutLast ==
    ASSUME TypeOK, SoleOwner, NEW t \in Threads, NEW m \in held[t], NEW q \in Queues,
           Put(t, m, q)
    PROVE  PutAtEnd(m, q)
<1>1. m \in Message /\ queue[q] \in Seq(Message)
  BY DEF TypeOK
<1>2. queue'[q] = Append(queue[q], m) /\ \A r \in Queues \ {q} : queue'[r] = queue[r]
  BY DEF Put, TypeOK
<1>3. Range(queue'[q]) = Range(queue[q]) \cup {m}
  BY <1>1, <1>2, AppendLemma
<1>4. /\ DOMAIN queue[q] = 1 .. Len(queue[q]) /\ Len(queue[q]) \in Nat
      /\ DOMAIN queue'[q] = 1 .. Len(queue[q]) + 1
      /\ \A i \in 1 .. Len(queue[q]) : queue'[q][i] = queue[q][i]
      /\ queue'[q][Len(queue[q]) + 1] = m
  BY <1>1, <1>2, AppendProperties
<1>5. \A r \in Queues : m \notin Range(queue[r])
  BY DEF SoleOwner, Apart
<1>6. \A u \in Threads : held'[u] \subseteq held[u]
  BY DEF Put, TypeOK
<1> QED
  BY <1>2, <1>3, <1>4, <1>5, <1>6 DEF PutAtEnd

\* A message taken was the first of its queue; the others move up.
LEMMA TakeFirst ==
    ASSUME TypeOK, SoleOwner, NEW t \in Threads, NEW q \in Queues, Take(t, q)
    PROVE  /\ \A r \in Queues \ {q} : queue'[r] = queue[r]
           /\ Head(queue[q]) \in Range(queue[q])
           /\ Range(queue'[q]) \subseteq Range(queue[q])
           /\ DOMAIN queue[q] = 1 .. Len(queue[q]) /\ Len(queue[q]) \in Nat \ {0}
           /\ Head(queue[q]) = queue[q][1]
           /\ DOMAIN queue'[q] = 1 .. Len(queue[q]) - 1
           /\ \A i \in 1 .. Len(queue[q]) - 1 : queue'[q][i] = queue[q][i + 1]
           /\ held'[t] = held[t] \cup {Head(queue[q])}
           /\ \A u \in Threads \ {t} : held'[u] = held[u]
<1>1. queue[q] \in Seq(Message) /\ queue[q] # <<>> /\ IsInjective(queue[q])
  BY DEF TypeOK, SoleOwner, QueuesDistinct, Take
<1>2. queue'[q] = Tail(queue[q]) /\ \A r \in Queues \ {q} : queue'[r] = queue[r]
  BY DEF Take, TypeOK
<1>3. Head(queue[q]) \in Range(queue[q]) /\ Range(queue'[q]) \subseteq Range(queue[q])
  BY <1>1, <1>2, TailLemma
<1>4. /\ Head(queue[q]) = queue[q][1]
      /\ queue'[q] \in Seq(Message)
      /\ Len(queue'[q]) = Len(queue[q]) - 1
      /\ \A i \in 1 .. Len(queue'[q]) : queue'[q][i] = queue[q][i + 1]
  BY <1>1, <1>2, HeadTailProperties
<1>5. DOMAIN queue[q] = 1 .. Len(queue[q]) /\ Len(queue[q]) \in Nat \ {0}
  BY <1>1, EmptySeq
<1>6. /\ held'[t] = held[t] \cup {Head(queue[q])}
      /\ \A u \in Threads \ {t} : held'[u] = held[u]
  BY DEF Take, TypeOK
<1> QED
  BY <1>2, <1>3, <1>4, <1>5, <1>6

\* Threads give messages in two ways, to a constructed actor and to the pool.
Gives(t, m, a) == m \in held[t] /\ IF a = Pool THEN Release(t, m) ELSE Send(t, m, a)

LEMMA GivesIsPut ==
    ASSUME TypeOK, SoleOwner,
           NEW t \in Threads, NEW m \in held[t], NEW q \in Queues, Gives(t, m, q)
    PROVE  /\ Put(t, m, q) /\ PutAtEnd(m, q)
           /\ late \ {m} \subseteq late'
           /\ q # Pool /\ phase[q] \notin {"derived", "alive"} => late' = late \cup {m}
<1>1. /\ Put(t, m, q)
      /\ late \ {m} \subseteq late'
      /\ q # Pool /\ phase[q] \notin {"derived", "alive"} => late' = late \cup {m}
  BY DEF Gives, Release, Send
<1> QED
  BY <1>1, PutLast

End == Ending /\ Stops /\ OnlyLateLost

\* Messages fetched from the pool end nobody.
LEMMA FetchKeepsEnd ==
    ASSUME LifeTypeOK, SoleOwner, End, NEW t \in Threads, Take(t, Pool),
           UNCHANGED <<phase, run, continues, stop, late>>
    PROVE  End'
<1> USE NamesLemma, TakeFirst DEF LifeTypeOK
<1>1. \A a \in Actors : a # Pool /\ queue'[a] = queue[a]
  BY NamesAssumption
<1>2. Ending'
  BY <1>1 DEF End, Ending
<1>3. Stops'
  <2>1. /\ Range(queue'[Pool]) \subseteq Range(queue[Pool])
        /\ Head(queue[Pool]) \in Range(queue[Pool])
    OBVIOUS
  <2>2. \A a \in Actors : held'[a] \subseteq held[a] \cup {Head(queue[Pool])}
    OBVIOUS
  <2> QED
    BY <1>1, <2>1, <2>2 DEF End, Stops
<1>4. OnlyLateLost'
  BY TakeKeepsPlaced DEF End, OnlyLateLost, Message
<1> QED
  BY <1>2, <1>3, <1>4 DEF End

\* The messages that end the loops are the owner's from the start.
LEMMA ReserveKeepsEnd ==
    ASSUME LifeTypeOK, SoleOwner, SoleOwner', Stages, End, Reserve
    PROVE  End'
<1> USE NamesLemma DEF LifeTypeOK
<1>1. Take(Owner, Pool) /\ stop' = held'[Owner]
  BY DEF Reserve, Acquire
<1>2. \A a \in Actors : a # Pool /\ a # Owner /\ queue'[a] = queue[a] /\ queue[a] = <<>>
  BY <1>1, TakeFirst, NamesAssumption, OwnerAssumption DEF Reserve, Stages, All
<1>3. Ending'
  BY <1>2 DEF End, Ending, Reserve
<1>4. Stops'
  <2>1. Range(queue'[Pool]) \cap stop' = {}
    BY <1>1 DEF SoleOwner, Apart
  <2>2. \A a \in Actors : held'[a] \cap stop' = {}
    BY <1>1, <1>2 DEF SoleOwner, Apart
  <2>3. Range(<<>>) = {} /\ DOMAIN <<>> = {}
    BY DEF Range
  <2> QED
    BY <1>2, <2>1, <2>2, <2>3 DEF Stops
<1>5. OnlyLateLost'
  BY <1>1, TakeKeepsPlaced DEF End, OnlyLateLost, Message, Reserve
<1> QED
  BY <1>3, <1>4, <1>5 DEF End

\* A message that is given, whether it ends an actor or not, loses none and is
\* late in the mailbox of an actor whose loop ends.
LEMMA GivesKeepsEnding ==
    ASSUME LifeTypeOK, SoleOwner, End,
           NEW t \in Threads, NEW m \in held[t], NEW q \in Queues, Gives(t, m, q)
    PROVE  /\ OnlyLateLost'
           /\ \A a \in Actors : ~continues[a] => Range(queue'[a]) \subseteq late'
           /\ \A a \in Actors : \A i, j \in DOMAIN queue'[a] :
                i < j /\ queue'[a][i] \in stop =>
                  \/ queue'[a][j] \in late'
                  \/ a = q /\ phase[a] \in {"derived", "alive"} /\ queue'[a][i] \in Range(queue[a])
<1> USE NamesLemma DEF LifeTypeOK
<1>0. /\ Put(t, m, q) /\ PutAtEnd(m, q)
      /\ late \ {m} \subseteq late'
      /\ q # Pool /\ phase[q] \notin {"derived", "alive"} => late' = late \cup {m}
  BY GivesIsPut
<1> USE DEF PutAtEnd
<1>1. OnlyLateLost'
  <2>1. \A n \in Message \ late' : Placed(n) \/ n = m
    BY <1>0 DEF End, OnlyLateLost
  <2> QED
    BY <1>0, <2>1, PutKeepsPlaced DEF OnlyLateLost, Message
<1>2. ASSUME NEW a \in Actors, ~continues[a] PROVE Range(queue'[a]) \subseteq late'
  <2>1. phase[a] \notin {"derived", "alive"} /\ Range(queue[a]) \subseteq late
    BY <1>2 DEF End, Ending
  <2>2. a # Pool
    BY NamesAssumption
  <2>3. CASE a # q
    BY <1>0, <2>1, <2>3
  <2>4. CASE a = q
    BY <1>0, <2>1, <2>2, <2>4
  <2> QED
    BY <2>3, <2>4
<1>3. ASSUME NEW a \in Actors, NEW i \in DOMAIN queue'[a], NEW j \in DOMAIN queue'[a],
             i < j, queue'[a][i] \in stop
      PROVE  \/ queue'[a][j] \in late'
             \/ a = q /\ phase[a] \in {"derived", "alive"} /\ queue'[a][i] \in Range(queue[a])
  <2>1. CASE a # q
    <3>1. queue'[a] = queue[a] /\ queue[a][j] \in Range(queue[a])
      BY <1>0, <1>3, <2>1 DEF Range
    <3>2. queue[a][j] \in late /\ queue[a][j] # m
      BY <1>0, <1>3, <3>1 DEF End, Stops
    <3> QED
      BY <1>0, <3>1, <3>2
  <2>2. CASE a = q
    <3>0. a # Pool
      BY NamesAssumption
    <3>5. i \in Int /\ j \in Int /\ i \in 1 .. Len(queue[q]) + 1 /\ j \in 1 .. Len(queue[q]) + 1
      BY <1>0, <1>3, <2>2
    <3>1. i \in 1 .. Len(queue[a]) /\ queue'[a][i] = queue[a][i]
      <4>1. Len(queue[q]) \in Nat
        BY <1>0
      <4>2. i \in 1 .. Len(queue[q])
        BY <1>3, <3>5, <4>1
      <4> QED
        BY <1>0, <2>2, <4>2
    <3>2. queue'[a][i] \in Range(queue[a])
      BY <1>0, <3>1, <2>2 DEF Range
    <3>3. CASE j = Len(queue[a]) + 1
      <4>1. queue'[a][j] = m
        BY <1>0, <2>2, <3>3
      <4>2. CASE phase[a] \in {"derived", "alive"}
        BY <2>2, <3>2, <4>2
      <4>3. CASE phase[a] \notin {"derived", "alive"}
        <5>1. late' = late \cup {m}
          BY <1>0, <2>2, <3>0, <4>3
        <5> QED
          BY <4>1, <5>1
      <4> QED
        BY <4>2, <4>3
    <3>4. CASE j # Len(queue[a]) + 1
      <4>1. j \in 1 .. Len(queue[a]) /\ queue'[a][j] = queue[a][j]
        BY <1>0, <1>3, <2>2, <3>4, <3>5
      <4>2. queue[a][j] \in late /\ queue[a][j] \in Range(queue[a])
        BY <1>0, <1>3, <2>2, <3>1, <4>1 DEF End, Stops, Range
      <4> QED
        BY <1>0, <4>1, <4>2
    <3> QED
      BY <3>3, <3>4
  <2> QED
    BY <2>1, <2>2
<1> QED
  BY <1>1, <1>2, <1>3

\* A message that ends nobody is passed on or released.
LEMMA PassKeepsEnd ==
    ASSUME LifeTypeOK, SoleOwner, End,
           NEW t \in Threads, NEW m \in held[t], NEW q \in Queues, Gives(t, m, q),
           m \notin stop, UNCHANGED <<phase, run, continues, stop>>
    PROVE  End'
<1> USE NamesLemma DEF LifeTypeOK
<1>1. Ending'
  BY GivesKeepsEnding DEF End, Ending
<1>2. /\ \A r \in Queues : Range(queue'[r]) \subseteq Range(queue[r]) \cup {m}
      /\ \A u \in Threads : held'[u] \subseteq held[u]
  <2>1. PutAtEnd(m, q)
    BY GivesIsPut
  <2> QED
    BY <2>1 DEF PutAtEnd
<1>3. Stops'
  <2>1. \A a \in Actors : \A i, j \in DOMAIN queue'[a] :
          i < j /\ queue'[a][i] \in stop => queue'[a][j] \in late'
    <3>1. \A a \in Actors : phase[a] \in {"derived", "alive"}
                               => Range(queue[a]) \cap stop = {}
      BY DEF End, Stops
    <3> QED
      BY <3>1, GivesKeepsEnding
  <2>2. Stops /\ phase' = phase /\ stop' = stop
    BY DEF End
  <2> QED
    BY <1>2, <2>1, <2>2 DEF Stops
<1> QED
  BY <1>1, <1>3, GivesKeepsEnding DEF End

\* The request to end is the last message of the mailbox.
LEMMA AskKeepsEnd ==
    ASSUME LifeTypeOK, SoleOwner, End, NEW a \in Actors, AskToEnd(a)
    PROVE  End'
<1> USE NamesLemma DEF LifeTypeOK
<1>1. PICK m \in held[Owner] : m \in stop /\ Send(Owner, m, a)
  BY DEF AskToEnd
<1>2. a # Pool /\ Gives(Owner, m, a)
  BY <1>1, NamesAssumption DEF Gives
<1>3. PutAtEnd(m, a)
  BY <1>2, GivesIsPut
<1>4. /\ phase[a] = "alive" /\ phase' = [phase EXCEPT ![a] = "stopping"]
      /\ UNCHANGED <<run, continues, stop>>
  BY DEF AskToEnd, Becomes
<1>5. continues[a] /\ Range(queue[a]) \cap stop = {}
  BY <1>4 DEF End, Ending, Stops
<1>6. Ending'
  <2>1. \A b \in Actors : ~continues[b] => Range(queue'[b]) \subseteq late'
    BY <1>2, GivesKeepsEnding
  <2> QED
    BY <1>4, <1>5, <2>1 DEF End, Ending
<1>7. Stops'
  <2>1. \A b \in Actors : \A i, j \in DOMAIN queue'[b] :
          i < j /\ queue'[b][i] \in stop => queue'[b][j] \in late'
    BY <1>2, <1>5, GivesKeepsEnding
  <2>2. /\ \A b \in Actors \cup {Pool} : b # a => queue'[b] = queue[b]
        /\ \A b \in Actors : held'[b] \subseteq held[b]
    BY <1>3 DEF PutAtEnd
  <2> QED
    BY <1>2, <1>4, <2>1, <2>2 DEF End, Stops
<1> QED
  BY <1>2, <1>6, <1>7, GivesKeepsEnding DEF End

\* A mailbox gives its oldest message; after the one that ends the loop only
\* late ones are left.
LEMMA TakeMessageKeepsEnd ==
    ASSUME LifeTypeOK, SoleOwner, End, NEW a \in Actors, TakeMessage(a)
    PROVE  End'
<1> USE NamesLemma DEF LifeTypeOK
<1> DEFINE h == Head(queue[a])
           n == Len(queue[a])
<1>0. Ending /\ Stops /\ OnlyLateLost
  BY DEF End
<1>1. Take(a, a) /\ held[a] = {}
  BY DEF TakeMessage, Receive
<1>2. /\ \A r \in Queues \ {a} : queue'[r] = queue[r]
      /\ h \in Range(queue[a]) /\ h = queue[a][1]
      /\ Range(queue'[a]) \subseteq Range(queue[a])
      /\ DOMAIN queue[a] = 1 .. n /\ n \in Nat \ {0}
      /\ DOMAIN queue'[a] = 1 .. n - 1
      /\ \A i \in 1 .. n - 1 : queue'[a][i] = queue[a][i + 1]
      /\ held'[a] = {h}
      /\ \A u \in Threads \ {a} : held'[u] = held[u]
  <2>1. /\ \A r \in Queues \ {a} : queue'[r] = queue[r]
        /\ h \in Range(queue[a]) /\ h = queue[a][1]
        /\ Range(queue'[a]) \subseteq Range(queue[a])
        /\ DOMAIN queue[a] = 1 .. n /\ n \in Nat \ {0}
        /\ DOMAIN queue'[a] = 1 .. n - 1
        /\ \A i \in 1 .. n - 1 : queue'[a][i] = queue[a][i + 1]
        /\ held'[a] = held[a] \cup {h}
        /\ \A u \in Threads \ {a} : held'[u] = held[u]
    <3>1. TypeOK /\ a \in Threads /\ a \in Queues
      OBVIOUS
    <3> HIDE NamesLemma DEF LifeTypeOK
    <3> QED
      BY <1>1, <3>1, TakeFirst
  <2>2. held'[a] = {h}
    BY <1>1, <2>1
  <2> QED
    BY <2>1, <2>2
<1>3. /\ stop' = stop \ {h}
      /\ continues' = [continues EXCEPT ![a] = h \notin stop]
      /\ run' = [run EXCEPT ![a] = "process"]
      /\ UNCHANGED <<phase, late>>
  <2>1. held'[a] = {h} /\ ({h} \cap stop = {} <=> h \notin stop)
    BY <1>2
  <2> HIDE DEF h, n
  <2>2. /\ stop' = stop \ held'[a]
        /\ continues' = [continues EXCEPT ![a] = held'[a] \cap stop = {}]
        /\ run' = [run EXCEPT ![a] = "process"]
        /\ UNCHANGED <<phase, late>>
    BY Zenon DEF TakeMessage, Goto
  <2>3. ({h} \cap stop = {}) = (h \notin stop)
    BY <2>1
  <2> QED
    BY <2>1, <2>2, <2>3
<1>4. h \in stop => /\ phase[a] \in {"stopping", "joined", "destroyed"}
                     /\ Range(queue'[a]) \subseteq late
  <2> SUFFICES ASSUME h \in stop
               PROVE  /\ phase[a] \in {"stopping", "joined", "destroyed"}
                      /\ Range(queue'[a]) \subseteq late
    OBVIOUS
  <2>1. phase[a] \in {"stopping", "joined", "destroyed"}
    <3>1. Range(queue[a]) \cap stop # {} /\ phase[a] \in Phases
      BY <1>2
    <3> QED
      BY <3>1, <1>0 DEF Stops, Phases
  <2>2. ASSUME NEW i \in 1 .. n - 1 PROVE queue'[a][i] \in late
    <3> HIDE DEF LifeTypeOK, h, n
    <3>1. 1 \in DOMAIN queue[a] /\ i + 1 \in DOMAIN queue[a] /\ 1 < i + 1
      BY <1>2, <2>2
    <3>2. \A k, j \in DOMAIN queue[a] :
             k < j /\ queue[a][k] \in stop => queue[a][j] \in late
      BY <1>0 DEF Stops
    <3>3. queue[a][1] \in stop /\ queue'[a][i] = queue[a][i + 1]
      BY <1>2, <2>2
    <3> QED
      BY <3>1, <3>2, <3>3
  <2> QED
    BY <1>2, <2>1, <2>2 DEF Range
<1>5. Ending'
  <2>1. ASSUME NEW b \in Actors, b # a
        PROVE  queue'[b] = queue[b] /\ continues'[b] = continues[b] /\ run'[b] = run[b]
    BY <1>2, <1>3, <2>1
  <2>2. run'[a] = "process" /\ (continues'[a] <=> h \notin stop)
    BY <1>3
  <2> QED
    BY <1>3, <1>4, <2>1, <2>2 DEF End, Ending
<1>6. Stops'
  <2>1. stop' \subseteq stop /\ h \notin stop' /\ phase' = phase /\ late' = late
    BY <1>3
  <2>2. queue'[Pool] = queue[Pool] /\ \A b \in Actors : b # a => queue'[b] = queue[b]
    BY <1>2, NamesAssumption
  <2>3. \A b \in Actors : held'[b] \cap stop' = {}
    BY <1>0, <1>2, <2>1 DEF Stops
  <2>4. ASSUME NEW i \in DOMAIN queue'[a], NEW j \in DOMAIN queue'[a],
               i < j, queue'[a][i] \in stop'
        PROVE  queue'[a][j] \in late
    <3> HIDE DEF LifeTypeOK, h, n
    <3>1. i \in 1 .. n - 1 /\ j \in 1 .. n - 1 /\ n \in Nat
      BY <1>2, <2>4
    <3>2. queue'[a][i] = queue[a][i + 1] /\ queue'[a][j] = queue[a][j + 1]
      BY <1>2, <3>1
    <3>3. i + 1 \in DOMAIN queue[a] /\ j + 1 \in DOMAIN queue[a] /\ i + 1 < j + 1
      BY <1>2, <2>4, <3>1
    <3>4. \A k, l \in DOMAIN queue[a] :
             k < l /\ queue[a][k] \in stop => queue[a][l] \in late
      BY <1>0 DEF Stops
    <3> QED
      BY <2>1, <2>4, <3>2, <3>3, <3>4
  <2> QED
    <3>1. \A b \in Actors : phase[b] \in {"raw", "members", "base", "derived", "alive"}
                               => Range(queue'[b]) \cap stop' = {}
      BY <1>0, <1>2, <2>1, <2>2 DEF Stops
    <3>2. Range(queue'[Pool]) \cap stop' = {}
      BY <1>0, <2>1, <2>2 DEF Stops
    <3>3. \A b \in Actors : \A i, j \in DOMAIN queue'[b] :
             i < j /\ queue'[b][i] \in stop' => queue'[b][j] \in late'
      BY <1>0, <2>1, <2>2, <2>4 DEF Stops
    <3> QED
      BY <2>1, <2>3, <3>1, <3>2, <3>3 DEF Stops
<1>7. OnlyLateLost'
  BY <1>1, <1>3, TakeKeepsPlaced DEF End, OnlyLateLost, Message
<1> QED
  BY <1>5, <1>6, <1>7 DEF End

\* With a mailbox only late messages are lost: the loop of its actor has ended.
LEMMA DestroyKeepsEnd ==
    ASSUME LifeTypeOK, Stages, End, NEW a \in Actors, Destroy(a)
    PROVE  End'
<1> USE NamesLemma DEF LifeTypeOK, TypeOK
<1>1. /\ \A q \in Queues : q # a => queue'[q] = queue[q]
      /\ queue'[a] = <<>> /\ a # Pool
      /\ phase' = [phase EXCEPT ![a] = "destroyed"]
      /\ UNCHANGED <<held, run, continues, stop, late>>
  BY NamesAssumption DEF Destroy, Becomes
<1>2. Range(<<>>) = {} /\ DOMAIN <<>> = {}
  BY DEF Range
<1>3. ~continues[a] /\ Range(queue[a]) \subseteq late
  BY DEF Destroy, Stages, End, Ending
<1>4. Ending'
  BY <1>1, <1>2, <1>3 DEF End, Ending
<1>5. Stops'
  BY <1>1, <1>2 DEF End, Stops
<1>6. OnlyLateLost'
  BY <1>1, <1>3 DEF End, OnlyLateLost, Placed, Message
<1> QED
  BY <1>4, <1>5, <1>6 DEF End

\* The steps that move no message.
LEMMA QuietKeepsEnd ==
    ASSUME LifeTypeOK, End, UNCHANGED <<vars, stop, late>>,
           NEW a \in Actors,
           \/ Construct(a) \/ StartThread(a) \/ Override(a) \/ SetDelay(a) \/ Return(a)
           \/ Join(a)
           \/ Turn(a) \/ TimesOut(a) \/ HandlerReturns(a)
    PROVE  End'
<1> USE DEF LifeTypeOK, vars
<1>1. OnlyLateLost'
  BY DEF End, OnlyLateLost, Placed
<1>2. CASE Construct(a) \/ StartThread(a)
  BY <1>1, <1>2 DEF Construct, StartThread, Becomes, Goto, End, Ending, Stops
<1>5. CASE Override(a) \/ SetDelay(a) \/ Return(a)
  BY <1>1, <1>5 DEF Override, SetDelay, Return, Becomes, End, Ending, Stops
<1>3. CASE Join(a)
  BY <1>1, <1>3 DEF Join, Becomes, End, Ending, Stops
<1>4. CASE Turn(a) \/ TimesOut(a) \/ HandlerReturns(a)
  BY <1>1, <1>4 DEF Turn, TimesOut, HandlerReturns, Goto, End, Ending, Stops
<1> QED
  BY <1>2, <1>3, <1>4, <1>5

LEMMA LifeStepKeepsEnd ==
    ASSUME LifeTypeOK, SoleOwner, SoleOwner', Stages, End, [LifeNext]_allVars
    PROVE  End'
<1> USE NamesLemma
<1>1. CASE Reserve
  BY <1>1, ReserveKeepsEnd
<1>2. CASE Work
  BY <1>2, FetchKeepsEnd DEF Work, Acquire, lifeVars
<1>3. ASSUME NEW a \in Actors, OwnerStep(a) \/ SetDelay(a) \/ Tell(a) PROVE End'
  <2>1. CASE Tell(a)
    <3>1. PICK m \in held[Owner] : m \notin stop /\ Send(Owner, m, a)
      BY <2>1 DEF Tell
    <3>2. Gives(Owner, m, a)
      BY <3>1, NamesAssumption DEF Gives
    <3> QED
      BY <2>1, <3>1, <3>2, PassKeepsEnd DEF Tell
  <2>2. CASE Destroy(a)
    BY <2>2, DestroyKeepsEnd
  <2>3. CASE Construct(a) \/ StartThread(a) \/ Join(a)
    BY <2>3, QuietKeepsEnd DEF Construct, StartThread, Join
  <2>4. CASE Override(a) \/ SetDelay(a) \/ Return(a)
    BY <2>4, QuietKeepsEnd DEF Override, SetDelay, Return
  <2>5. CASE AskToEnd(a)
    BY <2>5, AskKeepsEnd
  <2> QED
    BY <1>3, <2>1, <2>2, <2>3, <2>4, <2>5 DEF OwnerStep
<1>4. ASSUME NEW a \in Actors, ActorThread(a) PROVE End'
  <2>1. CASE TakeMessage(a)
    BY <2>1, TakeMessageKeepsEnd
  <2>2. CASE HandlerAcquires(a)
    BY <2>2, FetchKeepsEnd DEF HandlerAcquires, Acquire
  <2>3. CASE HandlerGives(a)
    <3>1. PICK m \in held[a] : Release(a, m) \/ \E b \in Known : Send(a, m, b)
      BY <2>3 DEF HandlerGives
    <3>2. PICK q \in Queues : Gives(a, m, q)
      BY <3>1, NamesAssumption DEF Gives, Known
    <3>3. m \notin stop
      BY DEF End, Stops
    <3> QED
      BY <2>3, <3>2, <3>3, PassKeepsEnd DEF HandlerGives
  <2>4. CASE Turn(a) \/ TimesOut(a) \/ HandlerReturns(a)
    BY <2>4, QuietKeepsEnd DEF Turn, TimesOut, HandlerReturns
  <2> QED
    BY <1>4, <2>1, <2>2, <2>3, <2>4 DEF ActorThread
<1>5. CASE UNCHANGED allVars
  BY <1>5 DEF allVars, vars, lifeVars, End, Ending, Stops, OnlyLateLost, Placed
<1> QED
  BY <1>1, <1>2, <1>3, <1>4, <1>5 DEF LifeNext

\* A message sent to an actor before it is asked to end is not lost with it:
\* only later ones can be in its mailbox when it is destroyed.
THEOREM LifeOnlyLateLost == LifeSpec => []OnlyLateLost
<1>1. LifeInit => End
  <2> SUFFICES ASSUME LifeInit PROVE End
    OBVIOUS
  <2>1. OnlyLateLost
    BY InitPlaced DEF LifeInit, OnlyLateLost
  <2>2. \A a \in Actors : queue[a] = <<>> /\ phase[a] = "raw" /\ held[a] = {}
                          /\ run[a] = "none" /\ continues[a] = TRUE
    BY NamesAssumption, NamesLemma DEF LifeInit, Init
  <2>3. stop = {} /\ Range(<<>>) = {} /\ DOMAIN <<>> = {}
    BY DEF LifeInit, Range
  <2> QED
    BY <2>1, <2>2, <2>3 DEF End, Ending, Stops
<1>2. LifeTypeOK /\ SoleOwner /\ SoleOwner' /\ Stages /\ End /\ [LifeNext]_allVars => End'
  BY LifeStepKeepsEnd
<1>3. End => OnlyLateLost
  BY DEF End
<1> QED
  BY <1>1, <1>2, <1>3, LifeTypesAndOwners, LifeInStages, PTL DEF LifeSpec
=============================================================================
