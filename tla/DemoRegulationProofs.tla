------------------------ MODULE DemoRegulationProofs ------------------------
(***************************************************************************)
(* Proofs about the demo program in a build without optimisation, for any  *)
(* pool, any pressures and any number of readings: every actor has its own *)
(* processMsg before it runs, the handlers keep the ownership of messages, *)
(* the LEDs agree about a reading once it is handled, and the program      *)
(* regulates its LEDs, one reading after the other and in their order.     *)
(***************************************************************************)
EXTENDS DemoAppProofs, FiniteSetTheorems

-----------------------------------------------------------------------------
(* What messages and calls carry, and the rates LEDs are on their way to. *)

\* The rate a LED takes from a command, and those of the two sets of commands.
RateOf(d) == IF d.cmd = "START" THEN d.rate ELSE 0
First(l) == RateIn(Setup, l)
Commanded(p, l) == RateIn(Commands(p), l)

\* What a message or a call of the sensor can carry: the registration of the
\* processor or a reading that was entered.
ForSensor(d) ==
    \/ d = PressureSensorCmd(Processor)
    \/ IsPressureSensorData(d) /\ d.pressure \in Range(entered)

\* Thread t has a call of LED l to make.
Calling(t, l) == \E i \in DOMAIN todo[t] : todo[t][i].to = l

\* A call of thread t: main and the processor call the LEDs, main for their
\* first rates, and every thread but the processor calls the sensor.
CallOK(t, c) ==
    \/ /\ c.to \in Leds /\ IsLedCmd(c.data) /\ t \in {Main, Processor}
       /\ t = Main => RateOf(c.data) = First(c.to)
    \/ c.to = Sensor /\ t # Processor /\ ForSensor(c.data)

CallsOK == \A t \in Threads : \A i \in DOMAIN todo[t] : CallOK(t, todo[t][i])
DraftsOK == \A t \in Threads : draft[t] # nullptr => data[draft[t]] = Head(todo[t]).data
DataOK == \A m \in Message : IsLedCmd(data[m]) \/ ForSensor(data[m])
LedsOK ==
    \A l \in Leds : /\ \A i \in DOMAIN queue[l] : IsLedCmd(data[queue[l][i]])
                    /\ msg[l] # nullptr => IsLedCmd(data[msg[l]])
ListenerOK == listener \in {NoListener, Processor}
CarriedOK == CallsOK /\ DraftsOK /\ DataOK /\ LedsOK /\ ListenerOK

\* The rate LED l will have when it has taken the messages given to it.
Last(l) == IF queue[l] # <<>> THEN RateOf(data[queue[l][Len(queue[l])]])
           ELSE IF msg[l] # nullptr THEN RateOf(data[msg[l]])
           ELSE waitDelay[l]

\* Before the first decision a LED waits for main or has its first rate.
Undirected ==
    /\ todo[Processor] = <<>>
    /\ \A l \in Leds : \/ Last(l) = First(l)
                       \/ Last(l) = 0 /\ (Constructing \/ Calling(Main, l))

\* After it the LEDs have their first rates or those of the last reading
\* decided, or the processor has still to call them.
Directed(p) ==
    /\ \A i \in DOMAIN todo[Processor] :
         RateOf(todo[Processor][i].data) = Commanded(p, todo[Processor][i].to)
    /\ \A l \in Leds : Calling(Processor, l) \/ Last(l) \in {First(l), Commanded(p, l)}

Agreement == Undirected \/ \E p \in Range(entered) : Directed(p)

-----------------------------------------------------------------------------
(* The commands of main and of the processor. *)

\* A call's rate is the one RateIn gives its LED when no other call is of it.
LEMMA RateInLemma ==
    ASSUME NEW calls, NEW i \in DOMAIN calls,
           \A j \in DOMAIN calls : calls[j].to = calls[i].to => j = i
    PROVE  RateIn(calls, calls[i].to) = RateOf(calls[i].data)
BY DEF RateIn, RateOf

\* main calls the sensor first and then each LED once.
LEMMA SetupLemma ==
    /\ Len(Setup) = 3 /\ DOMAIN Setup = 1 .. 3
    /\ Setup[1].to = Sensor /\ Setup[1].data = PressureSensorCmd(Processor)
    /\ Setup[2].to = Green /\ Setup[3].to = Red
    /\ \A i \in 2 .. 3 : /\ IsLedCmd(Setup[i].data)
                         /\ RateOf(Setup[i].data) = First(Setup[i].to)
<1>1. /\ Len(Setup) = 3 /\ DOMAIN Setup = 1 .. 3
      /\ Setup[1] = registerListener(Processor)
      /\ Setup[2] = start(Green, 100) /\ Setup[3] = start(Red, 400)
  BY DEF Setup
<1>2. /\ Setup[1].to = Sensor /\ Setup[1].data = PressureSensorCmd(Processor)
      /\ Setup[2].to = Green /\ Setup[3].to = Red
      /\ IsLedCmd(Setup[2].data) /\ IsLedCmd(Setup[3].data)
  BY <1>1 DEF registerListener, start, Call, LedCmd, IsLedCmd
<1>3. \A i \in 1 .. 3 : i = 1 \/ i = 2 \/ i = 3
  OBVIOUS
<1>4. \A i \in 2 .. 3 : \A j \in DOMAIN Setup : Setup[j].to = Setup[i].to => j = i
  BY <1>1, <1>2, <1>3, RolesLemma
<1>5. \A i \in 2 .. 3 : RateOf(Setup[i].data) = First(Setup[i].to)
  BY <1>1, <1>4, RateInLemma DEF First
<1> QED
  BY <1>1, <1>2, <1>3, <1>5

\* A decision calls each LED once.
LEMMA CommandsOfLemma ==
    ASSUME NEW p
    PROVE  /\ Len(Commands(p)) = 2 /\ DOMAIN Commands(p) = 1 .. 2
           /\ Commands(p)[1].to = Green /\ Commands(p)[2].to = Red
           /\ \A i \in 1 .. 2 : /\ IsLedCmd(Commands(p)[i].data)
                                /\ RateOf(Commands(p)[i].data)
                                     = Commanded(p, Commands(p)[i].to)
<1>1. Len(Commands(p)) = 2 /\ DOMAIN Commands(p) = 1 .. 2
  BY DEF Commands
<1>2. /\ Commands(p)[1].to = Green /\ Commands(p)[2].to = Red
      /\ IsLedCmd(Commands(p)[1].data) /\ IsLedCmd(Commands(p)[2].data)
  BY DEF Commands, start, stop, Call, LedCmd, IsLedCmd
<1>3. \A i \in 1 .. 2 : i = 1 \/ i = 2
  OBVIOUS
<1>4. \A i \in 1 .. 2 : \A j \in DOMAIN Commands(p) :
        Commands(p)[j].to = Commands(p)[i].to => j = i
  BY <1>1, <1>2, <1>3, RolesLemma
<1>5. \A i \in 1 .. 2 : RateOf(Commands(p)[i].data) = Commanded(p, Commands(p)[i].to)
  BY <1>1, <1>4, RateInLemma DEF Commanded
<1> QED
  BY <1>1, <1>2, <1>3, <1>5

\* A build writes no message that is in a mailbox or in the hands of a thread.
LEMMA BuildWrites ==
    ASSUME IInv, SoleOwner, NEW t \in Threads, Build(t)
    PROVE  \E m \in Message :
             /\ m # nullptr
             /\ draft' = [draft EXCEPT ![t] = m]
             /\ data' = [data EXCEPT ![m] = Head(todo[t]).data]
             /\ \A a \in Actors : /\ queue'[a] = queue[a] /\ msg[a] # m
                                  /\ \A i \in DOMAIN queue[a] : queue[a][i] # m
             /\ \A u \in Threads : draft[u] # m
<1> DEFINE m == Head(queue[Pool])
<1>1. /\ queue[Pool] \in Seq(Message) /\ queue[Pool] # <<>> /\ Pool \in Queues
      /\ queue \in [Queues -> Seq(Message)]
      /\ Sole(Queues, Threads, queue, HeldBy)
  BY SoleOwnerIsSole, RolesLemma DEF Build, IInv, TypeOK, VinciTypeOK
<1>2. m \in Message /\ m \in Range(queue[Pool]) /\ m # nullptr
  <2>1. IsInjective(queue[Pool])
    BY <1>1 DEF Sole
  <2>2. m \in Message /\ m \in Range(queue[Pool])
    BY <1>1, <2>1, TailLemma
  <2> QED
    BY <2>2, PoolSizeAssumption DEF Message, nullptr
<1>3. \A a \in Actors : \A i \in DOMAIN queue[a] : queue[a][i] # m
  <2>1. \A a \in Actors : m \notin Range(queue[a])
    BY <1>1, <1>2, RolesLemma DEF Sole, Queues
  <2> QED
    BY <2>1 DEF Range
<1>4. \A u \in Threads : m \notin Held(u)
  BY <1>1, <1>2 DEF Sole, HeldBy
<1>5. /\ \A a \in Actors : msg[a] # m
      /\ \A u \in Threads : draft[u] # m
  BY <1>2, <1>4 DEF Held, Threads
<1>6. \A a \in Actors : queue'[a] = queue[a]
  BY <1>1, RolesLemma DEF Build, Queues
<1> QED
  BY <1>2, <1>3, <1>5, <1>6 DEF Build

-----------------------------------------------------------------------------
(* The steps and the rates on their way. *)

\* A LED whose mailbox, message and rate stay.
LEMMA LastStays ==
    ASSUME IInv, NEW l \in Leds, queue'[l] = queue[l], msg'[l] = msg[l],
           waitDelay'[l] = waitDelay[l],
           \A i \in DOMAIN queue[l] : data'[queue[l][i]] = data[queue[l][i]],
           msg[l] # nullptr => data'[msg[l]] = data[msg[l]]
    PROVE  Last(l)' = Last(l)
<1>1. queue[l] # <<>> => Len(queue[l]) \in DOMAIN queue[l]
  <2>1. queue[l] \in Seq(Message)
    BY RolesLemma DEF IInv, TypeOK, VinciTypeOK
  <2> QED
    BY <2>1, EmptySeq, LenProperties
<1>2. CASE queue[l] # <<>>
  BY <1>1, <1>2 DEF Last
<1>3. CASE queue[l] = <<>> /\ msg[l] # nullptr
  BY <1>3 DEF Last
<1>4. CASE queue[l] = <<>> /\ msg[l] = nullptr
  BY <1>4 DEF Last
<1> QED
  BY <1>2, <1>3, <1>4

\* A command sent to a LED is its last.
LEMMA LastSent ==
    ASSUME IInv, NEW l \in Leds, NEW m \in Message,
           queue'[l] = Append(queue[l], m), data' = data
    PROVE  Last(l)' = RateOf(data[m])
<1>1. queue[l] \in Seq(Message)
  BY RolesLemma DEF IInv, TypeOK, VinciTypeOK
<1>2. /\ queue'[l] # <<>> /\ queue'[l][Len(queue'[l])] = m
  <2>1. /\ Append(queue[l], m) # <<>>
        /\ Append(queue[l], m)[Len(queue[l]) + 1] = m
        /\ Len(Append(queue[l], m)) = Len(queue[l]) + 1
    BY <1>1, AppendProperties
  <2> QED
    BY <2>1
<1> QED
  BY <1>2 DEF Last

\* Taking the head leaves the last element.
LEMMA LastOfTail ==
    ASSUME NEW S, NEW s \in Seq(S), s # <<>>, Tail(s) # <<>>
    PROVE  Tail(s)[Len(Tail(s))] = s[Len(s)]
<1> DEFINE tl == Tail(s)
<1>1. /\ Len(tl) = Len(s) - 1 /\ Len(s) \in Nat /\ tl \in Seq(S)
      /\ \A i \in 1 .. Len(tl) : tl[i] = s[i + 1]
  BY HeadTailProperties, LenProperties
<1>2. tl # <<>>
  OBVIOUS
<1> HIDE DEF tl
<1>3. PICK i \in Nat : i = Len(tl) /\ i \in 1 .. Len(tl)
  BY <1>1, <1>2, EmptySeq, LenProperties
<1>4. PICK j \in Nat : j = Len(s) /\ j = i + 1
  BY <1>1, <1>3
<1>5. tl[i] = s[j]
  BY <1>1, <1>3, <1>4
<1>6. tl[Len(tl)] = s[Len(s)]
  BY <1>3, <1>4, <1>5
<1> QED
  BY <1>6 DEF tl

\* A LED that takes a message keeps the last one it has been given.
LEMMA LastReceived ==
    ASSUME IInv, NEW l \in Leds, Receive(l)
    PROVE  Last(l)' = Last(l)
<1>1. /\ queue[l] \in Seq(Message) /\ queue[l] # <<>>
      /\ queue'[l] = Tail(queue[l]) /\ msg'[l] = Head(queue[l])
      /\ data' = data
  BY RolesLemma DEF IInv, TypeOK, VinciTypeOK, Receive
<1> DEFINE tl == Tail(queue[l])
<1>2. /\ Len(tl) = Len(queue[l]) - 1 /\ Len(queue[l]) \in Nat
      /\ tl \in Seq(Message)
      /\ \A i \in 1 .. Len(tl) : tl[i] = queue[l][i + 1]
      /\ Head(queue[l]) = queue[l][1] /\ Head(queue[l]) \in Message
  BY <1>1, HeadTailProperties, LenProperties
<1>3. CASE tl # <<>>
  <2>1. Len(tl) \in 1 .. Len(tl) /\ Len(tl) + 1 = Len(queue[l])
    BY <1>2, <1>3, EmptySeq, LenProperties
  <2>2. tl[Len(tl)] = queue[l][Len(queue[l])]
    BY <1>1, <1>3, LastOfTail
  <2> QED
    BY <1>1, <1>3, <2>2 DEF Last
<1>4. CASE tl = <<>>
  <2>0. Len(tl) = 0
    BY <1>4, EmptySeq
  <2>1. Len(queue[l]) = 1
    <3> HIDE DEF tl
    <3> QED
      BY <1>2, <2>0
  <2>2. msg'[l] = queue[l][Len(queue[l])] /\ msg'[l] # nullptr
    BY <1>1, <1>2, <2>1, PoolSizeAssumption DEF Message, nullptr
  <2> QED
    BY <1>1, <1>4, <2>2 DEF Last
<1> QED
  BY <1>3, <1>4

\* A LED takes the rate of the command it releases.
LEMMA LastProcessed ==
    ASSUME ~OptimisedBuild, IInv, CarriedOK, NEW k \in Leds, NEW l \in Leds, LedProcess(k)
    PROVE  Last(l)' = Last(l)
<1>1. /\ msg[k] # nullptr /\ msg[k] \in Message /\ IsLedCmd(data[msg[k]])
      /\ queue \in [Queues -> Seq(Message)]
      /\ msg \in [Actors -> Message \cup {nullptr}]
      /\ waitDelay \in [Actors -> Rates]
      /\ k \in Actors /\ l \in Actors /\ l \in Queues /\ l # Pool
  BY RolesLemma DEF IInv, TypeOK, VinciTypeOK, Handling, MsgInHand, LedProcess, CarriedOK, LedsOK
<1>2. /\ queue'[l] = queue[l] /\ data' = data
      /\ msg' = [msg EXCEPT ![k] = nullptr]
      /\ waitDelay' = [waitDelay EXCEPT ![k] = RateOf(data[msg[k]])]
  BY <1>1 DEF LedProcess, Dispose, Push, Read, RateOf
<1>3. CASE l # k
  <2>1. msg'[l] = msg[l] /\ waitDelay'[l] = waitDelay[l]
    BY <1>1, <1>2, <1>3
  <2> QED
    BY <1>2, <2>1, LastStays
<1>4. CASE l = k
  <2>1. msg'[l] = nullptr /\ waitDelay'[l] = RateOf(data[msg[l]])
    BY <1>1, <1>2, <1>4
  <2>2. CASE queue[l] # <<>>
    BY <1>2, <2>2 DEF Last
  <2>3. CASE queue[l] = <<>>
    BY <1>1, <1>2, <1>4, <2>1, <2>3 DEF Last
  <2> QED
    BY <2>2, <2>3
<1> QED
  BY <1>3, <1>4

\* The rates stay as they are when the mailboxes and messages of the LEDs do.
LEMMA AgreementStays ==
    ASSUME IInv, Agreement, UNCHANGED <<todo, entered>>, Constructing' <=> Constructing,
           \A l \in Leds : Last(l)' = Last(l)
    PROVE  Agreement'
<1>1. \A t \in Threads, l \in Leds : Calling(t, l)' <=> Calling(t, l)
  BY DEF Calling
<1>2. CASE Undirected
  BY <1>1, <1>2, RolesLemma DEF Undirected, Agreement
<1>3. ASSUME NEW p \in Range(entered), Directed(p) PROVE Directed(p)' /\ p \in Range(entered')
  BY <1>1, <1>3, RolesLemma DEF Directed
<1> QED
  BY <1>2, <1>3 DEF Agreement

\* What a step leaves alone carries what it did.
LEMMA CarriedStays ==
    ASSUME IInv, CarriedOK, ListenerOK',
           UNCHANGED <<todo, draft, data, entered>>,
           \A l \in Leds : queue'[l] = queue[l] /\ msg'[l] = msg[l]
    PROVE  CarriedOK'
<1>1. CallsOK' /\ DraftsOK' /\ DataOK'
  BY DEF CarriedOK, CallsOK, CallOK, DraftsOK, DataOK, ForSensor
<1>2. LedsOK'
  BY DEF CarriedOK, LedsOK
<1> QED
  BY <1>1, <1>2 DEF CarriedOK

\* The two parts of the invariant for a step that does neither send nor take.
LEMMA BothStay ==
    ASSUME IInv, CarriedOK, Agreement, ListenerOK', Constructing' <=> Constructing,
           UNCHANGED <<todo, draft, data, entered>>,
           \A l \in Leds : /\ queue'[l] = queue[l] /\ msg'[l] = msg[l]
                           /\ waitDelay'[l] = waitDelay[l]
    PROVE  CarriedOK' /\ Agreement'
<1>1. \A l \in Leds : Last(l)' = Last(l)
  BY LastStays
<1> QED
  BY <1>1, AgreementStays, CarriedStays

\* A build writes the payload of the call in a free message.
LEMMA BuildAgrees ==
    ASSUME IInv, SoleOwner, CarriedOK, Agreement, NEW t \in Threads, Build(t),
           UNCHANGED <<on, listener, simulatorVars, overridden>>
    PROVE  CarriedOK' /\ Agreement'
<1>1. PICK m \in Message :
             /\ m # nullptr
             /\ draft' = [draft EXCEPT ![t] = m]
             /\ data' = [data EXCEPT ![m] = Head(todo[t]).data]
             /\ \A a \in Actors : /\ queue'[a] = queue[a] /\ msg[a] # m
                                  /\ \A i \in DOMAIN queue[a] : queue[a][i] # m
             /\ \A u \in Threads : draft[u] # m
  BY BuildWrites
<1>2. /\ UNCHANGED <<todo, pc, msg, waitDelay, entered>> /\ todo[t] # <<>>
      /\ data \in [Message -> Data(Actors, Pressures)]
      /\ draft \in [Threads -> Message \cup {nullptr}]
      /\ \A a \in Actors : msg[a] \in Message \cup {nullptr}
      /\ \A a \in Actors : \A i \in DOMAIN queue[a] : queue[a][i] \in Message
  <2>1. \A a \in Actors : queue[a] \in Seq(Message)
    BY RolesLemma DEF IInv, TypeOK, VinciTypeOK
  <2>2. \A a \in Actors : \A i \in DOMAIN queue[a] : queue[a][i] \in Message
    BY <2>1, LenProperties
  <2> QED
    BY <2>2 DEF Build, simulatorVars, IInv, TypeOK, VinciTypeOK
<1>3. \A a \in Actors : /\ \A i \in DOMAIN queue[a] : data'[queue[a][i]] = data[queue[a][i]]
                        /\ msg[a] # nullptr => data'[msg[a]] = data[msg[a]]
  BY <1>1, <1>2
<1>4. \A l \in Leds : Last(l)' = Last(l)
  BY <1>1, <1>2, <1>3, LastStays, RolesLemma
<1>5. Agreement'
  BY <1>2, <1>4, AgreementStays DEF Constructing
<1>6. CallsOK' /\ ListenerOK'
  BY <1>2 DEF CarriedOK, CallsOK, CallOK, ForSensor, ListenerOK
<1>7. LedsOK'
  BY <1>1, <1>2, <1>3, RolesLemma DEF CarriedOK, LedsOK
<1>8. DraftsOK'
  <2> SUFFICES ASSUME NEW u \in Threads, draft'[u] # nullptr
               PROVE  data'[draft'[u]] = Head(todo'[u]).data
    BY DEF DraftsOK
  <2>1. CASE u = t
    BY <1>1, <1>2, <2>1
  <2>2. CASE u # t
    <3>1. draft'[u] = draft[u] /\ draft[u] # m /\ draft[u] \in Message
      BY <1>1, <1>2, <2>2
    <3> QED
      BY <1>1, <1>2, <3>1 DEF CarriedOK, DraftsOK
  <2> QED
    BY <2>1, <2>2
<1>9. DataOK'
  <2>1. IsLedCmd(Head(todo[t]).data) \/ ForSensor(Head(todo[t]).data)
    <3>1. Head(todo[t]) = todo[t][1] /\ 1 \in DOMAIN todo[t]
      <4>1. todo[t] \in Seq(Calls)
        BY DEF IInv, TypeOK
      <4> QED
        BY <1>2, <4>1, HeadTailProperties, EmptySeq, LenProperties
    <3> QED
      BY <3>1 DEF CarriedOK, CallsOK, CallOK
  <2>2. \A d : ForSensor(d)' <=> ForSensor(d)
    BY <1>2 DEF ForSensor
  <2> QED
    BY <1>1, <1>2, <2>1, <2>2 DEF CarriedOK, DataOK, ForSensor
<1> QED
  BY <1>5, <1>6, <1>7, <1>8, <1>9 DEF CarriedOK

\* A call made leaves the others of its thread.
LEMMA CallsLater ==
    ASSUME IInv, NEW t \in Threads, todo[t] # <<>>,
           todo' = [todo EXCEPT ![t] = Tail(@)]
    PROVE  /\ Head(todo[t]) = todo[t][1] /\ 1 \in DOMAIN todo[t]
           /\ \A i \in DOMAIN todo'[t] : /\ i + 1 \in DOMAIN todo[t]
                                        /\ todo'[t][i] = todo[t][i + 1]
           /\ \A u \in Threads \ {t} : todo'[u] = todo[u]
           /\ \A u \in Threads : \A l : u # t \/ Head(todo[t]).to # l
                                      => (Calling(u, l)' <=> Calling(u, l))
<1> DEFINE tl == Tail(todo[t])
<1>1. todo[t] \in Seq(Calls) /\ todo'[t] = tl
      /\ \A u \in Threads \ {t} : todo'[u] = todo[u]
  BY DEF IInv, TypeOK
<1>2. /\ Len(todo[t]) \in Nat /\ Len(tl) = Len(todo[t]) - 1
      /\ Head(todo[t]) = todo[t][1]
      /\ DOMAIN tl = 1 .. Len(tl) /\ DOMAIN todo[t] = 1 .. Len(todo[t])
      /\ \A i \in 1 .. Len(tl) : tl[i] = todo[t][i + 1]
  BY <1>1, HeadTailProperties, LenProperties
<1>3. 1 \in DOMAIN todo[t]
  BY <1>1, <1>2, EmptySeq
<1> HIDE DEF tl
<1>4. \A i \in DOMAIN tl : i + 1 \in DOMAIN todo[t] /\ tl[i] = todo[t][i + 1]
  BY <1>2
<1>5. ASSUME NEW u \in Threads, NEW l, u # t \/ Head(todo[t]).to # l
      PROVE  Calling(u, l)' <=> Calling(u, l)
  <2>1. CASE u # t
    BY <1>1, <2>1 DEF Calling
  <2>2. CASE u = t /\ Head(todo[t]).to # l
    <3>1. ASSUME Calling(t, l) PROVE Calling(t, l)'
      <4>1. PICK i \in DOMAIN todo[t] : todo[t][i].to = l
        BY <3>1 DEF Calling
      <4>2. i # 1 /\ i \in 1 .. Len(todo[t])
        BY <1>2, <2>2, <4>1
      <4>3. PICK j \in 1 .. Len(tl) : j + 1 = i
        <5>1. i - 1 \in 1 .. Len(tl) /\ (i - 1) + 1 = i
          BY <1>2, <4>2
        <5> QED
          BY <5>1
      <4>4. tl[j] = todo[t][i] /\ j \in DOMAIN tl
        BY <1>2, <4>3
      <4> QED
        BY <1>1, <4>1, <4>4 DEF Calling
    <3>2. ASSUME Calling(t, l)' PROVE Calling(t, l)
      <4>1. PICK i \in DOMAIN tl : tl[i].to = l
        BY <1>1, <3>2 DEF Calling
      <4> QED
        BY <1>4, <4>1 DEF Calling
    <3> QED
      BY <2>2, <3>1, <3>2
  <2> QED
    BY <1>5, <2>1, <2>2
<1> QED
  BY <1>1, <1>2, <1>3, <1>4, <1>5

\* What a thread sends is the call it has made.
LEMMA SendAgrees ==
    ASSUME IInv, CarriedOK, Agreement, Main \notin Interrupts,
           NEW t \in Threads, Send(t) \/ SendFails(t),
           UNCHANGED <<on, listener, simulatorVars, overridden>>
    PROVE  CarriedOK' /\ Agreement'
<1> DEFINE c == Head(todo[t])
<1>0. PICK a, m : a = c.to /\ m = draft[t]
  OBVIOUS
<1>1. /\ m \in Message /\ m # nullptr /\ todo[t] # <<>>
      /\ draft' = [draft EXCEPT ![t] = nullptr]
      /\ todo' = [todo EXCEPT ![t] = Tail(@)]
      /\ UNCHANGED <<data, pc, msg, waitDelay, listener, entered>>
      /\ draft \in [Threads -> Message \cup {nullptr}]
      /\ queue \in [Queues -> Seq(Message)]
      /\ todo \in [Threads -> Seq(Calls)]
  BY <1>0 DEF Send, SendFails, simulatorVars, IInv, TypeOK, VinciTypeOK, Handling, DraftForCall
<1>2. /\ c = todo[t][1] /\ 1 \in DOMAIN todo[t]
      /\ \A i \in DOMAIN todo'[t] : i + 1 \in DOMAIN todo[t] /\ todo'[t][i] = todo[t][i + 1]
      /\ \A u \in Threads \ {t} : todo'[u] = todo[u]
      /\ \A u \in Threads : \A l : u # t \/ a # l => (Calling(u, l)' <=> Calling(u, l))
  BY <1>0, <1>1, CallsLater
<1>3. CallOK(t, c) /\ data[m] = c.data
  BY <1>0, <1>1, <1>2 DEF CarriedOK, CallsOK, DraftsOK
<1>4. Send(t) \/ a = Sensor
  <2>1. CASE SendFails(t)
    <3>1. t \in Interrupts /\ t # Main /\ t # Processor
      BY <2>1, ActorsAssumption, RolesLemma DEF SendFails
    <3> QED
      BY <1>0, <1>3, <3>1 DEF CallOK
  <2> QED
    BY <2>1
<1>5. Send(t) => queue' = [queue EXCEPT ![a] = Append(@, m)]
  BY <1>0 DEF Send, Push
<1>6. SendFails(t) => queue' = queue
  BY DEF SendFails
<1>7. CallsOK' /\ DraftsOK' /\ DataOK' /\ ListenerOK'
  <2>1. \A u, d : CallOK(u, d)' <=> CallOK(u, d)
    BY <1>1 DEF CallOK, ForSensor
  <2>2. \A u \in Threads : \A i \in DOMAIN todo'[u] : CallOK(u, todo'[u][i])
    BY <1>2 DEF CarriedOK, CallsOK
  <2>3. DraftsOK'
    BY <1>1, <1>2 DEF CarriedOK, DraftsOK
  <2> QED
    BY <1>1, <2>1, <2>2, <2>3 DEF CarriedOK, CallsOK, DataOK, ListenerOK, ForSensor
<1> HIDE DEF c
<1>8. CASE a = Sensor
  <2>1. \A l \in Leds : queue'[l] = queue[l]
    BY <1>1, <1>5, <1>6, <1>8, RolesLemma
  <2>2. LedsOK'
    BY <1>1, <2>1 DEF CarriedOK, LedsOK
  <2>3. \A l \in Leds : Last(l)' = Last(l)
    BY <1>1, <2>1, LastStays
  <2>4. t # Processor
    BY <1>0, <1>3, <1>8, RolesLemma DEF CallOK
  <2>5. \A u \in Threads, l \in Leds : Calling(u, l)' <=> Calling(u, l)
    BY <1>2, <1>8, RolesLemma
  <2>6. todo'[Processor] = todo[Processor] /\ (Constructing' <=> Constructing)
    BY <1>1, <1>2, <2>4, RolesLemma DEF Constructing
  <2>7. Agreement'
    <3>1. CASE Undirected
      BY <2>3, <2>5, <2>6, <3>1, RolesLemma DEF Undirected, Agreement
    <3>2. ASSUME NEW p \in Range(entered), Directed(p) PROVE Directed(p)' /\ p \in Range(entered')
      BY <1>1, <2>3, <2>5, <2>6, <3>2, RolesLemma DEF Directed
    <3> QED
      BY <3>1, <3>2 DEF Agreement
  <2> QED
    BY <1>7, <2>2, <2>7 DEF CarriedOK
<1>9. CASE a # Sensor
  <2>1. /\ a \in Leds /\ IsLedCmd(data[m]) /\ t \in {Main, Processor}
        /\ t = Main => RateOf(data[m]) = First(a)
    BY <1>0, <1>3, <1>9 DEF CallOK
  <2>2. /\ queue'[a] = Append(queue[a], m)
        /\ \A l \in Leds \ {a} : queue'[l] = queue[l]
    <3>1. queue' = [queue EXCEPT ![a] = Append(@, m)] /\ a \in Queues
      BY <1>4, <1>5, <1>9, <2>1, RolesLemma
    <3> QED
      BY <1>1, <3>1, RolesLemma
  <2>3. LedsOK'
    <3> SUFFICES ASSUME NEW l \in Leds
                 PROVE  /\ \A i \in DOMAIN queue'[l] : IsLedCmd(data[queue'[l][i]])
                        /\ msg[l] # nullptr => IsLedCmd(data[msg[l]])
      BY <1>1 DEF LedsOK
    <3>1. CASE l # a
      BY <2>2, <3>1 DEF CarriedOK, LedsOK
    <3>2. CASE l = a
      <4>1. queue[a] \in Seq(Message)
        BY <1>1, <2>1, RolesLemma
      <4>2. ASSUME NEW i \in DOMAIN queue'[a]
            PROVE  queue'[a][i] = m \/ \E j \in DOMAIN queue[a] : queue'[a][i] = queue[a][j]
        <5>1. Range(Append(queue[a], m)) = Range(queue[a]) \cup {m}
          BY <1>1, <4>1, AppendLemma
        <5> QED
          BY <2>2, <4>2, <5>1 DEF Range
      <4> QED
        BY <2>1, <3>2, <4>2 DEF CarriedOK, LedsOK
    <3> QED
      BY <3>1, <3>2
  <2>4. /\ Last(a)' = RateOf(data[m])
        /\ \A l \in Leds \ {a} : Last(l)' = Last(l)
    <3>1. Last(a)' = RateOf(data[m])
      BY <1>1, <2>1, <2>2, LastSent
    <3> QED
      BY <1>1, <2>2, <3>1, LastStays
  <2>5. Constructing' <=> Constructing
    BY <1>1 DEF Constructing
  <2>6. Agreement'
    <3>1. CASE t = Main
      <4>1. /\ todo'[Processor] = todo[Processor]
            /\ \A l \in Leds : Calling(Processor, l)' <=> Calling(Processor, l)
            /\ \A l \in Leds \ {a} : Calling(Main, l)' <=> Calling(Main, l)
            /\ Last(a)' = First(a)
        BY <1>2, <2>1, <2>4, <3>1, RolesLemma
      <4>2. CASE Undirected
        BY <2>1, <2>4, <2>5, <4>1, <4>2 DEF Undirected, Agreement
      <4>3. ASSUME NEW p \in Range(entered), Directed(p)
            PROVE  Directed(p)' /\ p \in Range(entered')
        BY <1>1, <2>1, <2>4, <4>1, <4>3 DEF Directed
      <4> QED
        BY <4>2, <4>3 DEF Agreement
    <3>2. CASE t = Processor
      <4>1. PICK p \in Range(entered) : Directed(p)
        BY <1>1, <3>2 DEF Agreement, Undirected
      <4>2. RateOf(data[m]) = Commanded(p, a)
        BY <1>0, <1>2, <1>3, <3>2, <4>1 DEF Directed
      <4>3. \A i \in DOMAIN todo'[Processor] :
              RateOf(todo'[Processor][i].data) = Commanded(p, todo'[Processor][i].to)
        BY <1>2, <3>2, <4>1 DEF Directed
      <4>4. \A l \in Leds \ {a} : Calling(Processor, l)' <=> Calling(Processor, l)
        BY <1>2, RolesLemma
      <4>5. Directed(p)'
        BY <2>1, <2>4, <4>1, <4>2, <4>3, <4>4 DEF Directed
      <4> QED
        BY <1>1, <4>5 DEF Agreement
    <3> QED
      BY <2>1, <3>1, <3>2
  <2> QED
    BY <1>7, <2>3, <2>6 DEF CarriedOK
<1> QED
  BY <1>8, <1>9

\* A LED takes the oldest message of its mailbox; the rate of the last stays.
LEMMA ReceiveAgrees ==
    ASSUME IInv, CarriedOK, Agreement, NEW a \in Actors, Receive(a),
           UNCHANGED <<on, listener, simulatorVars, overridden>>
    PROVE  CarriedOK' /\ Agreement'
<1>1. /\ UNCHANGED <<data, draft, todo, waitDelay, entered, listener>>
      /\ queue' = [queue EXCEPT ![a] = Tail(@)] /\ msg' = [msg EXCEPT ![a] = Head(queue[a])]
      /\ queue \in [Queues -> Seq(Message)] /\ msg \in [Actors -> Message \cup {nullptr}]
      /\ queue[a] # <<>> /\ a \in Queues /\ a # Main
      /\ queue[a] \in Seq(Message)
  BY RolesLemma DEF Receive, simulatorVars, IInv, TypeOK, VinciTypeOK
<1>2. Constructing' <=> Constructing
  BY <1>1, RolesLemma DEF Receive, Goto, Constructing, IInv, TypeOK
<1>3. ASSUME NEW l \in Leds PROVE Last(l)' = Last(l)
  <2>1. CASE l = a
    BY <2>1, LastReceived
  <2>2. CASE l # a
    <3>1. queue'[l] = queue[l] /\ msg'[l] = msg[l]
      BY <1>1, <2>2, RolesLemma
    <3> QED
      BY <1>1, <3>1, LastStays
  <2> QED
    BY <2>1, <2>2
<1>4. Agreement'
  BY <1>1, <1>2, <1>3, AgreementStays
<1>5. CallsOK' /\ DraftsOK' /\ DataOK' /\ ListenerOK'
  BY <1>1 DEF CarriedOK, CallsOK, CallOK, DraftsOK, DataOK, ListenerOK, ForSensor
<1>6. LedsOK'
  <2> SUFFICES ASSUME NEW l \in Leds
               PROVE  /\ \A i \in DOMAIN queue'[l] : IsLedCmd(data[queue'[l][i]])
                      /\ msg'[l] # nullptr => IsLedCmd(data[msg'[l]])
    BY <1>1 DEF LedsOK
  <2>1. CASE l # a
    BY <1>1, <2>1, RolesLemma DEF CarriedOK, LedsOK
  <2>2. CASE l = a
    <3> DEFINE tl == Tail(queue[a])
    <3>1. /\ Len(tl) = Len(queue[a]) - 1 /\ Len(queue[a]) \in Nat
          /\ DOMAIN tl = 1 .. Len(tl) /\ DOMAIN queue[a] = 1 .. Len(queue[a])
          /\ \A i \in 1 .. Len(tl) : tl[i] = queue[a][i + 1]
          /\ Head(queue[a]) = queue[a][1] /\ 1 \in DOMAIN queue[a]
      BY <1>1, HeadTailProperties, LenProperties, EmptySeq
    <3>2. queue'[a] = tl /\ msg'[a] = queue[a][1]
      BY <1>1, <3>1
    <3> HIDE DEF tl
    <3>3. \A i \in DOMAIN tl : i + 1 \in DOMAIN queue[a] /\ tl[i] = queue[a][i + 1]
      BY <3>1
    <3> QED
      BY <2>2, <3>1, <3>2, <3>3 DEF CarriedOK, LedsOK
  <2> QED
    BY <2>1, <2>2
<1> QED
  BY <1>4, <1>5, <1>6 DEF CarriedOK

\* A LED that has taken a message has the rate of it.
LEMMA LedAgrees ==
    ASSUME ~OptimisedBuild, IInv, CarriedOK, Agreement, NEW k \in Leds, LedProcess(k),
           UNCHANGED <<listener, simulatorVars, overridden>>
    PROVE  CarriedOK' /\ Agreement'
<1>1. /\ UNCHANGED <<data, draft, todo, entered, listener>>
      /\ queue' = [queue EXCEPT ![Pool] = Append(@, msg[k])]
      /\ msg' = [msg EXCEPT ![k] = nullptr]
      /\ queue \in [Queues -> Seq(Message)] /\ msg \in [Actors -> Message \cup {nullptr}]
      /\ k \in Actors /\ k # Main
  BY RolesLemma DEF LedProcess, Dispose, Push, simulatorVars, IInv, TypeOK, VinciTypeOK
<1>2. Constructing' <=> Constructing
  BY <1>1, RolesLemma DEF LedProcess, Dispose, Goto, Constructing, IInv, TypeOK
<1>3. Agreement'
  BY <1>1, <1>2, LastProcessed, AgreementStays
<1>4. \A l \in Leds : queue'[l] = queue[l] /\ msg'[l] \in {msg[l], nullptr}
  BY <1>1, RolesLemma
<1>5. LedsOK'
  BY <1>1, <1>4 DEF CarriedOK, LedsOK
<1>6. CallsOK' /\ DraftsOK' /\ DataOK' /\ ListenerOK'
  BY <1>1 DEF CarriedOK, CallsOK, CallOK, DraftsOK, DataOK, ListenerOK, ForSensor
<1> QED
  BY <1>3, <1>5, <1>6 DEF CarriedOK

\* The end of processMsg in the sensor and in the processor.
LEMMA OthersAgree ==
    ASSUME ~OptimisedBuild, IInv, CarriedOK, Agreement,
           SensorStep \/ (ProcessorStep /\ ~ProcessorDecide)
    PROVE  CarriedOK' /\ Agreement'
<1>1. /\ msg \in [Actors -> Message \cup {nullptr}]
      /\ queue \in [Queues -> Seq(Message)]
  BY DEF IInv, TypeOK, VinciTypeOK
<1>2. ASSUME NEW a \in Actors \ Leds, NEW q \in Queues \ Leds, Dispose(a, q)
      PROVE  /\ \A l \in Leds : queue'[l] = queue[l] /\ msg'[l] = msg[l]
             /\ UNCHANGED <<draft, todo, data>>
             /\ Constructing' <=> Constructing
  <2>1. a # Main
    BY RolesLemma
  <2> QED
    BY <1>1, <1>2, <2>1, RolesLemma DEF Dispose, Push, Goto, Constructing, IInv, TypeOK
<1>3. ASSUME pc[Sensor] = "process"
      PROVE  \A d \in Read(msg[Sensor]) : IsLedCmd(d) \/ ForSensor(d)
  <2>1. msg[Sensor] \in Message
    BY <1>1, <1>3, RolesLemma DEF IInv, Handling, MsgInHand
  <2> QED
    BY <2>1 DEF Read, CarriedOK, DataOK
<1>4. CASE SensorStep
  <2>1. UNCHANGED <<entered, waitDelay>>
    BY <1>4 DEF SensorStep, SensorRegister, SensorForward, SensorDrop, simulatorVars
  <2>2. CASE SensorRegister
    <3>1. PICK d \in Read(msg[Sensor]) : IsPressureSensorCmd(d) /\ listener' = d.listener
      BY <2>2 DEF SensorRegister
    <3>2. listener' = Processor
      BY <1>3, <2>2, <3>1
      DEF SensorRegister, IsPressureSensorCmd, IsLedCmd, ForSensor, IsPressureSensorData,
          PressureSensorCmd
    <3>3. ListenerOK'
      BY <3>2 DEF ListenerOK
    <3>4. Dispose(Sensor, Pool)
      BY <2>2 DEF SensorRegister
    <3> QED
      BY <1>2, <2>1, <3>3, <3>4, RolesLemma, BothStay
  <2>3. CASE SensorForward
    <3>1. Dispose(Sensor, Processor) /\ ListenerOK'
      BY <2>3 DEF SensorForward, CarriedOK, ListenerOK
    <3> QED
      BY <1>2, <2>1, <3>1, RolesLemma, BothStay
  <2>4. CASE SensorDrop
    <3>1. /\ \A l \in Leds : queue'[l] = queue[l] /\ msg'[l] = msg[l]
          /\ UNCHANGED <<draft, todo, data, listener>>
          /\ Constructing' <=> Constructing
      BY <1>1, <2>4, RolesLemma DEF SensorDrop, Goto, Constructing, IInv, TypeOK
    <3>2. ListenerOK'
      BY <3>1 DEF CarriedOK, ListenerOK
    <3> QED
      BY <2>1, <3>1, <3>2, BothStay
  <2> QED
    BY <1>4, <2>2, <2>3, <2>4 DEF SensorStep
<1>5. CASE ProcessorStep /\ ~ProcessorDecide
  <2>1. /\ Dispose(Processor, Pool) /\ UNCHANGED <<entered, waitDelay>>
        /\ ListenerOK'
    BY <1>5 DEF ProcessorStep, ProcessorRelease, simulatorVars, CarriedOK, ListenerOK
  <2> QED
    BY <1>2, <2>1, RolesLemma, BothStay
<1> QED
  BY <1>4, <1>5

\* The processor's decision: calls of both LEDs for the rates of one reading.
LEMMA DecideAgrees ==
    ASSUME ~OptimisedBuild, IInv, CarriedOK, Agreement, ProcessorDecide,
           UNCHANGED <<on, listener, simulatorVars, overridden>>
    PROVE  CarriedOK' /\ Agreement'
<1> DEFINE d == data[msg[Processor]]
<1>1. /\ todo' = [todo EXCEPT ![Processor] = IF IsPressureSensorData(d)
                                             THEN Commands(d.pressure) ELSE <<>>]
      /\ UNCHANGED <<queue, data, msg, draft, waitDelay, listener, entered>>
      /\ todo \in [Threads -> Seq(Calls)] /\ msg[Processor] \in Message
      /\ todo[Processor] = <<>> /\ draft[Processor] = nullptr
      /\ Constructing' <=> Constructing
  BY RolesLemma
  DEF ProcessorDecide, Read, Goto, Constructing, simulatorVars, IInv, TypeOK, VinciTypeOK,
      Handling, MsgInHand, CallsInHandler, DraftForCall
<1>2. CASE ~IsPressureSensorData(d)
  <2>1. todo' = todo
    BY <1>1, <1>2, RolesLemma
  <2>2. ListenerOK'
    BY <1>1 DEF CarriedOK, ListenerOK
  <2> QED
    BY <1>1, <2>1, <2>2, BothStay
<1>3. CASE IsPressureSensorData(d)
  <2>1. PICK p \in Range(entered) : p = d.pressure
    <3>1. IsLedCmd(d) \/ ForSensor(d)
      BY <1>1 DEF CarriedOK, DataOK
    <3> QED
      BY <1>3, <3>1 DEF IsPressureSensorData, IsLedCmd, ForSensor, PressureSensorCmd
  <2>2. /\ todo'[Processor] = Commands(p)
        /\ \A u \in Threads \ {Processor} : todo'[u] = todo[u]
    BY <1>1, <1>3, <2>1, RolesLemma
  <2>3. /\ DOMAIN Commands(p) = 1 .. 2
        /\ Commands(p)[1].to = Green /\ Commands(p)[2].to = Red
        /\ \A i \in 1 .. 2 : /\ IsLedCmd(Commands(p)[i].data)
                             /\ RateOf(Commands(p)[i].data) = Commanded(p, Commands(p)[i].to)
    BY CommandsOfLemma
  <2>4. 1 \in 1 .. 2 /\ 2 \in 1 .. 2 /\ \A i \in 1 .. 2 : i = 1 \/ i = 2
    OBVIOUS
  <2>5. Directed(p)'
    <3>1. \A l \in Leds : l = Green \/ l = Red
      BY ProcessorAssumption
    <3>2. \A l \in Leds : Calling(Processor, l)'
      BY <2>2, <2>3, <2>4, <3>1 DEF Calling
    <3> QED
      BY <2>2, <2>3, <3>2 DEF Directed
  <2>6. Agreement'
    BY <1>1, <2>5 DEF Agreement
  <2>7. CallsOK'
    <3>1. \A u \in Threads : \A c : CallOK(u, c)' <=> CallOK(u, c)
      BY <1>1 DEF CallOK, ForSensor
    <3>2. \A i \in DOMAIN todo'[Processor] : CallOK(Processor, todo'[Processor][i])
      BY <2>2, <2>3, <2>4, RolesLemma DEF CallOK
    <3> QED
      BY <2>2, <3>1, <3>2 DEF CarriedOK, CallsOK
  <2>8. DraftsOK'
    BY <1>1, <2>2 DEF CarriedOK, DraftsOK
  <2>9. DataOK' /\ LedsOK' /\ ListenerOK'
    BY <1>1 DEF CarriedOK, DataOK, LedsOK, ListenerOK, ForSensor
  <2> QED
    BY <2>6, <2>7, <2>8, <2>9 DEF CarriedOK
<1> QED
  BY <1>2, <1>3

\* The end of the construction: main has both LEDs to call.
LEMMA OverrideAgrees ==
    ASSUME IInv, BInv, CarriedOK, Agreement, Override
    PROVE  CarriedOK' /\ Agreement'
<1>1. /\ UNCHANGED <<queue, data, msg, draft, waitDelay, listener, entered>>
      /\ todo \in [Threads -> Seq(Calls)] /\ Constructing
      /\ pc \in [Threads -> {"none", "wait", "process", "finish",
                             "base", "derived", "body", "run"}]
      /\ \/ pc' = [pc EXCEPT ![Main] = "base"] /\ todo' = todo
         \/ pc' = [pc EXCEPT ![Main] = "body"] /\ todo' = [todo EXCEPT ![Main] = Setup]
      /\ todo[Main] = <<>> /\ draft[Main] = nullptr
  BY RolesLemma
  DEF Override, Goto, Constructing, simulatorVars, IInv, TypeOK, Handling, DraftForCall,
      BInv, Callers
<1>2. ListenerOK'
  BY <1>1 DEF CarriedOK, ListenerOK
<1>3. CASE pc' = [pc EXCEPT ![Main] = "base"] /\ todo' = todo
  <2>1. Constructing'
    BY <1>1, <1>3, RolesLemma DEF Constructing
  <2> QED
    BY <1>1, <1>2, <1>3, <2>1, BothStay
<1>4. CASE pc' = [pc EXCEPT ![Main] = "body"] /\ todo' = [todo EXCEPT ![Main] = Setup]
  <2>1. /\ todo'[Main] = Setup
        /\ \A u \in Threads \ {Main} : todo'[u] = todo[u]
    BY <1>1, <1>4, RolesLemma
  <2>2. \A i \in 1 .. 3 : i = 1 \/ i \in 2 .. 3
    OBVIOUS
  <2>3. 2 \in 1 .. 3 /\ 3 \in 1 .. 3 /\ 2 \in 2 .. 3 /\ 3 \in 2 .. 3
        /\ \A i \in 2 .. 3 : i = 2 \/ i = 3
    OBVIOUS
  <2>4. \A l \in Leds : Calling(Main, l)'
    <3>1. \A l \in Leds : l = Green \/ l = Red
      BY ProcessorAssumption
    <3> QED
      BY <2>1, <2>3, <3>1, SetupLemma DEF Calling
  <2>5. \A l \in Leds : Last(l)' = Last(l)
    BY <1>1, LastStays
  <2>6. CallsOK'
    <3>1. \A u \in Threads : \A c : CallOK(u, c)' <=> CallOK(u, c)
      BY <1>1 DEF CallOK, ForSensor
    <3>2. \A i \in DOMAIN todo'[Main] : CallOK(Main, todo'[Main][i])
      BY <2>1, <2>2, <2>3, SetupLemma, RolesLemma DEF CallOK, ForSensor
    <3> QED
      BY <2>1, <3>1, <3>2 DEF CarriedOK, CallsOK
  <2>7. DraftsOK' /\ DataOK' /\ LedsOK'
    BY <1>1, <2>1 DEF CarriedOK, DraftsOK, DataOK, LedsOK, ForSensor
  <2>8. Agreement'
    <3>1. todo'[Processor] = todo[Processor]
      BY <2>1, RolesLemma
    <3>2. CASE Undirected
      BY <2>4, <2>5, <3>1, <3>2 DEF Undirected, Agreement
    <3>3. ASSUME NEW p \in Range(entered), Directed(p)
          PROVE  Directed(p)' /\ p \in Range(entered')
      BY <1>1, <2>5, <3>1, <3>3 DEF Directed, Calling
    <3> QED
      BY <3>2, <3>3 DEF Agreement
  <2> QED
    BY <1>2, <2>6, <2>7, <2>8 DEF CarriedOK
<1> QED
  BY <1>1, <1>3, <1>4

\* A reading comes with the call that passes it on.
LEMMA TakeReadingAgrees ==
    ASSUME IInv, CarriedOK, Agreement, TakeReading
    PROVE  CarriedOK' /\ Agreement'
<1>1. /\ UNCHANGED <<queue, data, msg, draft, waitDelay, listener, pc>>
      /\ todo \in [Threads -> Seq(Calls)] /\ entered \in Seq(Pressures \ {0})
      /\ todo[Source] = <<>> /\ draft[Source] = nullptr
      /\ Constructing' <=> Constructing
  BY RolesLemma
  DEF TakeReading, Display, Constructing, IInv, TypeOK, SimulatorTypeOK, Handling,
      DraftForCall
<1>2. ListenerOK'
  BY <1>1 DEF CarriedOK, ListenerOK
<1>3. CASE UNCHANGED <<todo, entered>>
  BY <1>1, <1>2, <1>3, BothStay
<1>4. CASE panel' > 0
  <2>0. PICK v : v = panel'
    OBVIOUS
  <2> DEFINE c == Call(Sensor, PressureSensorData(v))
  <2>1. todo' = [todo EXCEPT ![Source] = <<c>>] /\ entered' = Append(entered, v)
    BY <1>4, <2>0 DEF TakeReading, Display
  <2>2. Range(entered') = Range(entered) \cup {v}
    <3>1. v \in Pressures \ {0}
      <4>1. panel' \in Pressures \cup {0}
        BY DEF TakeReading, Display, ReadNumber, ReadGarbage, ReadNothing, IInv, TypeOK,
               SimulatorTypeOK
      <4> QED
        BY <1>4, <2>0, <4>1
    <3> QED
      BY <1>1, <2>1, <3>1, AppendLemma
  <2>3. /\ todo'[Source] = <<c>>
        /\ \A u \in Threads \ {Source} : todo'[u] = todo[u]
    BY <1>1, <2>1, RolesLemma
  <2>4. \A i \in DOMAIN todo'[Source] : todo'[Source][i] = c
    BY <2>3
  <2>5. \A d : ForSensor(d) => ForSensor(d)'
    BY <2>2 DEF ForSensor
  <2>6. CallsOK'
    <3>1. c.to = Sensor /\ ForSensor(c.data)'
      BY <2>2 DEF Call, ForSensor, PressureSensorData, IsPressureSensorData
    <3>2. \A u \in Threads : \A e : CallOK(u, e) => CallOK(u, e)'
      BY <2>5 DEF CallOK
    <3>3. CallOK(Source, c)'
      BY <3>1, RolesLemma DEF CallOK
    <3> HIDE DEF c
    <3> QED
      BY <2>3, <2>4, <3>2, <3>3 DEF CarriedOK, CallsOK
  <2>7. DraftsOK' /\ LedsOK'
    BY <1>1, <2>3 DEF CarriedOK, DraftsOK, LedsOK
  <2>8. DataOK'
    BY <1>1, <2>5 DEF CarriedOK, DataOK
  <2>9. \A l \in Leds : Last(l)' = Last(l)
    BY <1>1, LastStays
  <2>10. Agreement'
    <3>1. todo'[Processor] = todo[Processor]
      BY <2>3, RolesLemma
    <3>2. \A l \in Leds : Calling(Main, l) => Calling(Main, l)'
      <4>1. Source = Main => \A l \in Leds : ~Calling(Main, l)
        BY <1>1 DEF Calling
      <4>2. Source # Main => todo'[Main] = todo[Main]
        BY <2>3, RolesLemma
      <4> QED
        BY <4>1, <4>2 DEF Calling
    <3>3. CASE Undirected
      BY <1>1, <2>9, <3>1, <3>2, <3>3 DEF Undirected, Agreement
    <3>4. ASSUME NEW p \in Range(entered), Directed(p)
          PROVE  Directed(p)' /\ p \in Range(entered')
      BY <2>2, <2>9, <3>1, <3>4 DEF Directed, Calling
    <3> QED
      BY <3>3, <3>4 DEF Agreement
  <2> QED
    BY <1>2, <2>6, <2>7, <2>8, <2>10 DEF CarriedOK
<1> QED
  BY <1>3, <1>4 DEF TakeReading, Display

\* Every step keeps both.
LEMMA StepKeepsAgreement ==
    ASSUME ~OptimisedBuild, Main \notin Interrupts
    PROVE  IInv /\ BInv /\ SoleOwner /\ CarriedOK /\ Agreement /\ [Next]_vars
             => CarriedOK' /\ Agreement'
<1> SUFFICES ASSUME IInv, BInv, SoleOwner, CarriedOK, Agreement, [Next]_vars
             PROVE  CarriedOK' /\ Agreement'
  OBVIOUS
<1>1. ASSUME UNCHANGED vars \/ UNCHANGED <<vinciVars, listener, simulatorVars, overridden>>
             \/ UNCHANGED <<queue, data, msg, draft, todo, pc, waitDelay, listener, entered>>
      PROVE  CarriedOK' /\ Agreement'
  <2>1. UNCHANGED <<queue, data, msg, draft, todo, pc, waitDelay, listener, entered>>
    BY <1>1 DEF vars, vinciVars, simulatorVars
  <2>2. ListenerOK' /\ (Constructing' <=> Constructing)
    BY <2>1 DEF CarriedOK, ListenerOK, Constructing
  <2> QED
    BY <2>1, <2>2, BothStay
<1>2. ASSUME NEW t \in Threads, CallStep(t) PROVE CarriedOK' /\ Agreement'
  <2>1. CASE BuildFromEmptyPool(t)
    BY <1>1, <1>2, <2>1 DEF CallStep, BuildFromEmptyPool, simulatorVars
  <2> QED
    BY <1>2, <2>1, BuildAgrees, SendAgrees DEF CallStep
<1>3. ASSUME NEW a \in Actors, ReceiveStep(a) PROVE CarriedOK' /\ Agreement'
  BY <1>3, ReceiveAgrees DEF ReceiveStep
<1>4. ASSUME NEW l \in Leds, LedStep(l) PROVE CarriedOK' /\ Agreement'
  BY <1>1, <1>4, LedAgrees DEF LedStep, LedToggle, TimesOut
<1>5. CASE SensorStep
  BY <1>5, OthersAgree
<1>6. CASE ProcessorStep
  BY <1>6, OthersAgree, DecideAgrees DEF ProcessorStep
<1>7. CASE StartThread
  <2>1. /\ UNCHANGED <<queue, data, msg, draft, todo, waitDelay, listener, entered>>
        /\ Constructing' <=> Constructing
    <3>1. Declared[overridden + 1] # Main
      <4>1. overridden + 1 \in 1 .. 4
        BY <1>7, DeclaredLemma DEF StartThread, IInv, TypeOK, Handling, Construction
      <4> QED
        BY <4>1, DeclaredLemma, RolesLemma
    <3> QED
      BY <1>7, <3>1, RolesLemma DEF StartThread, Constructing, simulatorVars, IInv, TypeOK
  <2>2. ListenerOK'
    BY <2>1 DEF CarriedOK, ListenerOK
  <2> QED
    BY <2>1, <2>2, BothStay
<1>8. ASSUME NEW a \in Actors, ActorThread(a) PROVE CarriedOK' /\ Agreement'
  BY <1>2, <1>3, <1>4, <1>5, <1>6, <1>8 DEF ActorThread, Threads
<1>9. CASE Return
  <2>1. Constructing' <=> Constructing
    BY <1>9, ReturnLemma DEF Constructing
  <2>2. ListenerOK'
    BY <1>9, ReturnLemma DEF CarriedOK, ListenerOK
  <2> QED
    BY <1>9, <2>1, <2>2, ReturnLemma, BothStay
<1>10. ASSUME NEW t \in Clients, ClientThread(t) PROVE CarriedOK' /\ Agreement'
  BY <1>2, <1>7, <1>9, <1>10, OverrideAgrees DEF ClientThread, Threads
<1> QED
  BY <1>1, <1>8, <1>10, TakeReadingAgrees DEF Next

\* The program starts with dark LEDs that wait for main.
LEMMA InitAgreement == Init => CarriedOK /\ Agreement
<1> SUFFICES ASSUME Init PROVE CarriedOK /\ Agreement
  OBVIOUS
<1>1. /\ \A t \in Threads : todo[t] = <<>> /\ draft[t] = nullptr
      /\ \A l \in Leds : queue[l] = <<>> /\ msg[l] = nullptr /\ waitDelay[l] = 0
      /\ \A m \in Message : data[m] = InitialData
      /\ Constructing /\ listener = NoListener
  BY RolesLemma
  DEF Init, VinciInit, SensorInit, Constructing, Queues
<1>2. CarriedOK
  BY <1>1
  DEF CarriedOK, CallsOK, DraftsOK, DataOK, LedsOK, ListenerOK, InitialData, LedCmd, IsLedCmd
<1>3. Undirected
  BY <1>1, RolesLemma DEF Undirected, Last
<1> QED
  BY <1>2, <1>3 DEF Agreement

\* The number of places of a sequence that satisfy a condition.
LEMMA PlacesLemma ==
    ASSUME NEW S, NEW s \in Seq(S), NEW P \in SUBSET DOMAIN s
    PROVE  Cardinality(P) \in Nat /\ (Cardinality(P) = 0 => P = {})
<1>1. Len(s) \in Nat /\ DOMAIN s = 1 .. Len(s)
  BY LenProperties
<1>2. IsFiniteSet(1 .. Len(s))
  BY <1>1, FS_Interval
<1>3. IsFiniteSet(P)
  BY <1>1, <1>2, FS_Subset
<1> QED
  BY <1>3, FS_CardinalityType, FS_EmptySet

\* A count of readings is a number.
LEMMA ReadingsLeftType == IInv => ReadingsLeft \in Nat
<1> SUFFICES ASSUME IInv PROVE ReadingsLeft \in Nat
  OBVIOUS
<1> DEFINE C == {i \in DOMAIN todo[Source] : IsPressureSensorData(todo[Source][i].data)}
           S == {i \in DOMAIN queue[Sensor] : IsPressureSensorData(data[queue[Sensor][i]])}
           P == {i \in DOMAIN queue[Processor] :
                   IsPressureSensorData(data[queue[Processor][i]])}
           h == Count(msg[Sensor] # nullptr /\ IsPressureSensorData(data[msg[Sensor]]))
<1>1. /\ todo[Source] \in Seq(Calls)
      /\ queue[Sensor] \in Seq(Message) /\ queue[Processor] \in Seq(Message)
  BY RolesLemma DEF IInv, TypeOK, VinciTypeOK
<1>2. /\ Cardinality(C) \in Nat /\ Cardinality(S) \in Nat /\ Cardinality(P) \in Nat
  BY <1>1, PlacesLemma
<1>3. h \in Nat /\ Undecided \in Nat
  BY DEF Undecided, Count
<1>4. ReadingsLeft = Cardinality(C) + Cardinality(S) + Cardinality(P) + h + Undecided
  BY DEF ReadingsLeft, CallsLeft, Queued, Undecided
<1> HIDE DEF C, S, P, h
<1> QED
  BY <1>2, <1>3, <1>4

\* A LED without commands left has nothing on its way.
LEMMA NoneLeft ==
    ASSUME IInv, NEW l \in Leds, CommandsLeft(l) = 0
    PROVE  /\ ReadingsLeft = 0 /\ ~Constructing
           /\ ~Calling(Main, l) /\ ~Calling(Processor, l)
           /\ queue[l] = <<>> /\ msg[l] = nullptr
<1>1. /\ todo[Main] \in Seq(Calls) /\ todo[Processor] \in Seq(Calls)
      /\ queue[l] \in Seq(Message)
  BY RolesLemma DEF IInv, TypeOK, VinciTypeOK
<1> DEFINE M == {i \in DOMAIN todo[Main] : todo[Main][i].to = l}
           P == {i \in DOMAIN todo[Processor] : todo[Processor][i].to = l}
<1>2. /\ Cardinality(M) \in Nat /\ (Cardinality(M) = 0 => M = {})
      /\ Cardinality(P) \in Nat /\ (Cardinality(P) = 0 => P = {})
  BY <1>1, PlacesLemma
<1>3. Len(queue[l]) \in Nat /\ (Len(queue[l]) = 0 => queue[l] = <<>>)
  BY <1>1, LenProperties, EmptySeq
<1>4. /\ ReadingsLeft \in Nat
      /\ Unconstructed \in Nat /\ (Unconstructed = 0 => ~Constructing)
      /\ Count(msg[l] # nullptr) \in Nat
      /\ Count(msg[l] # nullptr) = 0 => msg[l] = nullptr
  BY ReadingsLeftType DEF Unconstructed, Count
<1>5. CommandsLeft(l) = ReadingsLeft + Unconstructed + Cardinality(M) + Cardinality(P)
                        + Len(queue[l]) + Count(msg[l] # nullptr)
  BY DEF CommandsLeft, CallsLeft, Unconstructed, Constructing
<1> HIDE DEF M, P
<1>6. /\ ReadingsLeft = 0 /\ Unconstructed = 0 /\ Cardinality(M) = 0
      /\ Cardinality(P) = 0 /\ Len(queue[l]) = 0 /\ Count(msg[l] # nullptr) = 0
  BY <1>2, <1>3, <1>4, <1>5
<1> QED
  BY <1>2, <1>3, <1>4, <1>6 DEF M, P, Calling

\* Once nothing is under way, the LEDs that have not kept or got back their
\* first rates have the rates of one and the same reading, whoever takes the
\* readings and whenever main sends the first rates.
THEOREM LedsAgreeHolds ==
    ASSUME ~OptimisedBuild, Main \notin Interrupts
    PROVE  Spec => []LedsAgree
<1>1. IInv /\ Agreement => LedsAgree
  <2> SUFFICES ASSUME IInv, Agreement, entered # <<>>,
                      \A l \in Leds : CommandsLeft(l) = 0
               PROVE  \E p \in Range(entered) : \A l \in Leds :
                        waitDelay[l] \in {First(l), Commanded(p, l)}
    BY DEF LedsAgree, First, Commanded
  <2>1. \A l \in Leds : /\ ~Constructing /\ ~Calling(Main, l) /\ ~Calling(Processor, l)
                        /\ Last(l) = waitDelay[l]
    BY NoneLeft DEF Last
  <2>2. CASE Undirected
    <3>1. \A l \in Leds : waitDelay[l] = First(l)
      BY <2>1, <2>2 DEF Undirected
    <3>2. entered[1] \in Range(entered)
      <4>1. entered \in Seq(Pressures \ {0})
        BY DEF IInv, TypeOK, SimulatorTypeOK
      <4>2. 1 \in DOMAIN entered
        BY <4>1, EmptySeq, LenProperties
      <4> QED
        BY <4>2 DEF Range
    <3> QED
      BY <3>1, <3>2
  <2>3. ASSUME NEW p \in Range(entered), Directed(p)
        PROVE  \A l \in Leds : waitDelay[l] \in {First(l), Commanded(p, l)}
    BY <2>1, <2>3 DEF Directed
  <2> QED
    BY <2>2, <2>3 DEF Agreement
<1> QED
  BY <1>1, InitInv, StepKeepsInv, InitBudget, StepKeepsBudget, DemoOwnersSole,
     InitAgreement, StepKeepsAgreement, PTL DEF Spec

-----------------------------------------------------------------------------
(* The construction of the actors. *)

\* An actor without its own processMsg waits, if it has a thread, without a
\* timeout and with an empty mailbox.
Dormant == \A a \in Actors :
    ~Overridden(a) => pc[a] \in {"none", "wait"} /\ waitDelay[a] = 0 /\ queue[a] = <<>>

\* While main constructs, the sensor is not told of the processor: there is
\* no registration yet, and what is sent goes to the sensor.
Prelude ==
    /\ ~Constructing => overridden = 4
    /\ Constructing => Deaf /\ \A m \in Message : ~IsPressureSensorCmd(data[m])
    /\ \A t \in Threads : todo[t] # <<>> => overridden >= 1

\* Who sends what: only main registers, and only the processor.
Senders ==
    /\ \A t \in Threads : \A i \in DOMAIN todo[t] :
         /\ t \in {Main, Processor} \/ todo[t][i].to = Sensor
         /\ IsPressureSensorCmd(todo[t][i].data)
              => t = Main /\ todo[t][i].data.listener = Processor
    /\ \A m \in Message : IsPressureSensorCmd(data[m]) => data[m].listener = Processor
    /\ listener \in {NoListener, Processor}

Sequence == Dormant /\ Prelude /\ Senders

\* An actor that does something has its own processMsg, and all the four have
\* when main is at the body of the last constructor; that of the processor is
\* not there before.
LEMMA OverriddenLemma ==
    ASSUME IInv, Sequence
    PROVE  /\ \A a \in Actors : \/ pc[a] \notin {"none", "wait"} \/ waitDelay[a] # 0
                                \/ queue[a] # <<>>
                                => Overridden(a)
           /\ overridden >= 1 => Overridden(Sensor)
           /\ ~Constructing => \A a \in Leds \cup {Sensor, Processor} : Overridden(a)
           /\ Constructing => todo[Processor] = <<>>
<1> USE RolesLemma, DeclaredLemma
<1>1. overridden \in 0 .. 4
  BY DEF IInv, TypeOK
<1>2. /\ Declared[1] = Sensor /\ Declared[2] = Green /\ Declared[3] = Red
      /\ Declared[4] = Processor /\ Leds = {Green, Red}
  BY ProcessorAssumption DEF Declared
<1>3. overridden >= 1 => Overridden(Sensor)
  BY <1>1, <1>2 DEF Overridden
<1>4. ~Constructing => \A a \in Leds \cup {Sensor, Processor} : Overridden(a)
  <2> SUFFICES ASSUME ~Constructing
               PROVE  \A a \in Leds \cup {Sensor, Processor} : Overridden(a)
    OBVIOUS
  <2>1. overridden = 4
    BY DEF Sequence, Prelude
  <2>2. 1 \in 1 .. 4 /\ 2 \in 1 .. 4 /\ 3 \in 1 .. 4 /\ 4 \in 1 .. 4
    OBVIOUS
  <2> QED
    BY <1>2, <2>1, <2>2 DEF Overridden
<1>5. Constructing => todo[Processor] = <<>>
  <2> SUFFICES ASSUME Constructing PROVE todo[Processor] = <<>>
    OBVIOUS
  <2>1. overridden < 4
    BY DEF Constructing, IInv, Handling, Construction
  <2>2. ~Overridden(Processor)
    BY <1>1, <1>2, <2>1 DEF Overridden
  <2> QED
    BY <2>2 DEF Sequence, Dormant, IInv, Handling, CallsInHandler
<1> QED
  BY <1>3, <1>4, <1>5 DEF Sequence, Dormant

\* What changes nothing for the actors without their own processMsg keeps them
\* dormant.
LEMMA DormantStays ==
    ASSUME Sequence, overridden' = overridden,
           \A a \in Actors : ~Overridden(a) =>
             /\ pc'[a] \in {pc[a], "none", "wait"}
             /\ waitDelay'[a] = waitDelay[a] /\ queue'[a] = queue[a]
    PROVE  Dormant'
BY DEF Sequence, Dormant, Overridden

\* What sends nothing new keeps the prelude and the senders.
LEMMA SendersStay ==
    ASSUME Sequence, UNCHANGED <<data, todo, listener, overridden>>,
           Constructing' <=> Constructing
    PROVE  Prelude' /\ Senders'
BY DEF Sequence, Prelude, Senders, Deaf

\* A call is built for an actor that has its own processMsg already.
LEMMA CallStepSequence ==
    ASSUME IInv, BInv, Sequence, NEW t \in Threads, CallStep(t)
    PROVE  Sequence'
<1> USE RolesLemma
<1>1. /\ queue \in [Queues -> Seq(Message)] /\ todo \in [Threads -> Seq(Calls)]
      /\ draft[t] # nullptr => todo[t] # <<>>
      /\ UNCHANGED <<pc, listener, overridden, waitDelay>>
  BY DEF IInv, TypeOK, VinciTypeOK, Handling, DraftForCall, CallStep, Build,
         BuildFromEmptyPool, Send, SendFails
<1>2. Constructing' <=> Constructing
  BY <1>1 DEF Constructing
<1>3. CASE BuildFromEmptyPool(t)
  <2>1. UNCHANGED <<data, todo, queue>>
    BY <1>3 DEF BuildFromEmptyPool
  <2> QED
    BY <1>1, <1>2, <2>1, DormantStays, SendersStay DEF Sequence
<1>4. CASE Build(t)
  <2>1. PICK m, c : m = Head(queue[Pool]) /\ c = Head(todo[t])
    OBVIOUS
  <2>2. /\ data' = [data EXCEPT ![m] = c.data] /\ todo' = todo
        /\ queue' = [queue EXCEPT ![Pool] = Tail(@)] /\ todo[t] # <<>>
    BY <1>4, <2>1 DEF Build
  <2>3. c = todo[t][1] /\ 1 \in DOMAIN todo[t]
    <3>1. todo[t] \in Seq(Calls) /\ todo[t] # <<>>
      BY <1>1, <2>2
    <3> QED
      BY <2>1, <3>1, EmptySeq, LenProperties, HeadTailProperties
  <2>4. IsPressureSensorCmd(c.data) => t = Main /\ c.data.listener = Processor
    BY <2>3 DEF Sequence, Senders
  <2>5. Constructing => ~IsPressureSensorCmd(c.data)
    BY <2>2, <2>4 DEF BInv, Callers
  <2>6. data \in [Message -> Data(Actors, Pressures)]
    BY DEF IInv, TypeOK, VinciTypeOK
  <2>7. \A n \in Message : data'[n] \in {data[n], c.data}
    BY <2>2, <2>6
  <2>8. Dormant'
    <3>1. \A a \in Actors : queue'[a] = queue[a]
      BY <1>1, <2>2
    <3> QED
      BY <1>1, <3>1, DormantStays
  <2>9. Prelude'
    <3>1. Constructing => \A n \in Message : ~IsPressureSensorCmd(data'[n])
      BY <2>5, <2>7 DEF Sequence, Prelude
    <3> QED
      BY <1>1, <1>2, <2>2, <3>1 DEF Sequence, Prelude, Deaf
  <2>10. Senders'
    <3>1. \A n \in Message : IsPressureSensorCmd(data'[n]) => data'[n].listener = Processor
      BY <2>4, <2>7 DEF Sequence, Senders
    <3> QED
      BY <1>1, <2>2, <3>1 DEF Sequence, Senders
  <2> QED
    BY <2>8, <2>9, <2>10 DEF Sequence
<1>5. CASE Send(t) \/ SendFails(t)
  <2>1. PICK c : c = Head(todo[t])
    OBVIOUS
  <2>2. /\ data' = data /\ todo' = [todo EXCEPT ![t] = Tail(@)] /\ todo[t] # <<>>
        /\ \/ queue' = queue
           \/ queue' = [queue EXCEPT ![c.to] = Append(@, draft[t])]
    BY <1>1, <1>5, <2>1 DEF Send, SendFails, Push
  <2>3. /\ c = todo[t][1] /\ 1 \in DOMAIN todo[t]
        /\ \A i \in DOMAIN todo'[t] : /\ i + 1 \in DOMAIN todo[t]
                                      /\ todo'[t][i] = todo[t][i + 1]
        /\ \A u \in Threads \ {t} : todo'[u] = todo[u]
    BY <2>1, <2>2, CallsLater
  <2>4. Overridden(c.to)
    <3>1. c.to \in Leds \cup {Sensor}
      BY <2>3 DEF BInv, Callers
    <3>2. CASE Constructing
      <4>1. t \notin {Main, Processor}
        BY <2>2, <3>2, OverriddenLemma DEF BInv, Callers
      <4>2. c.to = Sensor
        BY <2>3, <4>1 DEF Sequence, Senders
      <4> QED
        BY <2>2, <4>2, OverriddenLemma DEF Sequence, Prelude
    <3> QED
      BY <3>1, <3>2, OverriddenLemma
  <2>5. Dormant'
    <3>1. \A a \in Actors : ~Overridden(a) => queue'[a] = queue[a]
      BY <1>1, <2>2, <2>4
    <3> QED
      BY <1>1, <3>1, DormantStays
  <2>6. Prelude'
    <3>1. \A u \in Threads : todo'[u] # <<>> => todo[u] # <<>>
      BY <2>2, <2>3
    <3> QED
      BY <1>1, <1>2, <2>2, <3>1 DEF Sequence, Prelude, Deaf
  <2>7. Senders'
    <3>1. ASSUME NEW u \in Threads, NEW i \in DOMAIN todo'[u]
          PROVE  /\ u \in {Main, Processor} \/ todo'[u][i].to = Sensor
                 /\ IsPressureSensorCmd(todo'[u][i].data)
                      => u = Main /\ todo'[u][i].data.listener = Processor
      <4>1. PICK j \in DOMAIN todo[u] : todo'[u][i] = todo[u][j]
        BY <2>3, <3>1
      <4> QED
        BY <4>1 DEF Sequence, Senders
    <3> QED
      BY <1>1, <2>2, <3>1 DEF Sequence, Senders
  <2> QED
    BY <2>5, <2>6, <2>7 DEF Sequence
<1> QED
  BY <1>3, <1>4, <1>5 DEF CallStep

\* Every step keeps the sequence, and only an actor with its own processMsg
\* takes a message, gives one up or toggles.
LEMMA StepKeepsSequence ==
    ASSUME ~OptimisedBuild
    PROVE  IInv /\ IInv' /\ BInv /\ Sequence /\ [Next]_vars
             => /\ Sequence'
                /\ \A a \in Actors :
                     msg'[a] # msg[a] \/ (a \in Leds /\ on'[a] # on[a]) => Overridden(a)
<1> DEFINE Alone(a) == \A b \in Actors \ {a} :
                         msg'[b] = msg[b] /\ (b \in Leds => on'[b] = on[b])
           Does(a) == Sequence' /\ Alone(a) /\ Overridden(a)
           Idle == Sequence' /\ msg' = msg /\ on' = on
<1> SUFFICES ASSUME IInv, IInv', BInv, Sequence, [Next]_vars
             PROVE  Idle \/ \E a \in Actors : Does(a)
  OBVIOUS
<1> USE RolesLemma
<1>a. /\ queue \in [Queues -> Seq(Message)] /\ data \in [Message -> Data(Actors, Pressures)]
      /\ pc \in [Threads -> {"none", "wait", "process", "finish", "base", "derived", "body", "run"}]
      /\ msg \in [Actors -> Message \cup {nullptr}] /\ waitDelay \in [Actors -> Rates]
      /\ todo \in [Threads -> Seq(Calls)] /\ on \in [Leds -> BOOLEAN]
      /\ overridden \in 0 .. 4
  BY DeclaredLemma DEF IInv, TypeOK, VinciTypeOK
<1>1. CASE UNCHANGED vars
  <2>1. UNCHANGED <<queue, data, pc, msg, todo, waitDelay, on, listener, overridden>>
    BY <1>1 DEF vars, vinciVars
  <2> QED
    BY <2>1 DEF Sequence, Dormant, Prelude, Senders, Overridden, Constructing, Deaf
<1>2. ASSUME NEW t \in Threads, CallStep(t) PROVE Idle
  BY <1>2, CallStepSequence DEF CallStep, Build, BuildFromEmptyPool, Send, SendFails
<1>3. ASSUME NEW a \in Actors, ReceiveStep(a) PROVE Does(a)
  <2>1. /\ queue' = [queue EXCEPT ![a] = Tail(@)] /\ msg' = [msg EXCEPT ![a] = Head(queue[a])]
        /\ pc' = [pc EXCEPT ![a] = "process"] /\ queue[a] # <<>>
        /\ UNCHANGED <<data, todo, waitDelay, listener, overridden, on>>
    BY <1>3 DEF ReceiveStep, Receive, Goto
  <2>2. Overridden(a)
    BY <2>1, OverriddenLemma
  <2>3. Constructing' <=> Constructing
    BY <1>a, <2>1 DEF Constructing
  <2>4. Dormant'
    <3>1. \A b \in Actors \ {a} : /\ pc'[b] = pc[b] /\ queue'[b] = queue[b]
                                  /\ msg'[b] = msg[b]
      BY <1>a, <2>1
    <3> QED
      BY <2>1, <2>2, <3>1, DormantStays
  <2>5. Alone(a)
    BY <1>a, <2>1
  <2> QED
    BY <2>1, <2>2, <2>3, <2>4, <2>5, SendersStay DEF Sequence
\* An actor at the end of processMsg.
<1>4. ASSUME NEW a \in Actors, pc[a] \in {"process", "finish"},
             NEW q \in Queues, q \in Actors => Overridden(q),
             \/ Dispose(a, q)
             \/ /\ q = Pool /\ msg' = [msg EXCEPT ![a] = nullptr] /\ Goto(a, "wait")
                /\ UNCHANGED <<queue, data, todo>>,
             \A b \in Actors \ {a} : waitDelay'[b] = waitDelay[b],
             on' = on, overridden' = overridden
      PROVE  /\ Dormant' /\ Alone(a) /\ Overridden(a)
             /\ UNCHANGED <<data, todo>> /\ (Constructing' <=> Constructing)
  <2>1. /\ msg' = [msg EXCEPT ![a] = nullptr] /\ pc' = [pc EXCEPT ![a] = "wait"]
        /\ UNCHANGED <<data, todo>>
        /\ queue' = queue \/ queue' = [queue EXCEPT ![q] = Append(@, msg[a])]
    BY <1>4 DEF Dispose, Push, Goto
  <2>2. Overridden(a)
    BY <1>4, OverriddenLemma
  <2>3. Constructing' <=> Constructing
    BY <1>a, <2>1 DEF Constructing
  <2>4. \A b \in Actors : ~Overridden(b) => /\ pc'[b] = pc[b] /\ queue'[b] = queue[b]
                                             /\ waitDelay'[b] = waitDelay[b]
    BY <1>4, <1>a, <2>1, <2>2
  <2>5. Dormant'
    BY <1>4, <2>4, DormantStays
  <2>6. Alone(a)
    BY <1>4, <1>a, <2>1
  <2> QED
    BY <2>1, <2>2, <2>3, <2>5, <2>6
<1>5. ASSUME NEW l \in Leds, LedStep(l) PROVE Does(l)
  <2>1. CASE LedProcess(l)
    <3>1. \A b \in Actors \ {l} : waitDelay'[b] = waitDelay[b]
      BY <1>a, <2>1 DEF LedProcess
    <3>2. /\ Dispose(l, Pool) /\ pc[l] \in {"process", "finish"}
          /\ UNCHANGED <<on, overridden, listener>>
      BY <1>5, <2>1 DEF LedProcess, LedStep
    <3>3. /\ Dormant' /\ Alone(l) /\ Overridden(l)
          /\ UNCHANGED <<data, todo>> /\ (Constructing' <=> Constructing)
      BY <1>4, <3>1, <3>2
    <3> QED
      BY <3>2, <3>3, SendersStay DEF Sequence
  <2>2. CASE LedToggle(l)
    <3>1. /\ UNCHANGED <<queue, data, pc, msg, todo, waitDelay, listener, overridden>>
          /\ waitDelay[l] # 0 /\ on' = [on EXCEPT ![l] = ~@]
      BY <1>5, <2>2 DEF LedToggle, LedStep, TimesOut, vinciVars
    <3>2. Overridden(l)
      BY <3>1, OverriddenLemma
    <3>3. Constructing' <=> Constructing
      BY <3>1 DEF Constructing
    <3>4. Dormant'
      BY <3>1, DormantStays
    <3>5. Alone(l)
      BY <1>a, <3>1
    <3> QED
      BY <3>1, <3>2, <3>3, <3>4, <3>5, SendersStay DEF Sequence
  <2> QED
    BY <1>5, <2>1, <2>2 DEF LedStep
<1>6. CASE SensorStep
  <2>1. /\ UNCHANGED <<on, overridden>> /\ pc[Sensor] \in {"process", "finish"}
        /\ msg[Sensor] \in Message
    BY <1>6 DEF SensorStep, SensorRegister, SensorForward, SensorDrop,
                IInv, TypeOK, VinciTypeOK, Handling, MsgInHand
  <2>2. CASE SensorRegister
    <3>1. /\ IsPressureSensorCmd(data[msg[Sensor]])
          /\ listener' = data[msg[Sensor]].listener
          /\ Dispose(Sensor, Pool) /\ waitDelay' = waitDelay
      BY <2>2 DEF SensorRegister, Read
    <3>2. /\ Dormant' /\ Alone(Sensor) /\ Overridden(Sensor)
          /\ UNCHANGED <<data, todo>> /\ (Constructing' <=> Constructing)
      BY <1>4, <2>1, <3>1
    <3>3. ~Constructing /\ listener' = Processor
      BY <2>1, <3>1 DEF Sequence, Prelude, Senders
    <3>4. Prelude' /\ Senders'
      BY <2>1, <3>2, <3>3 DEF Sequence, Prelude, Senders
    <3> QED
      BY <3>2, <3>4 DEF Sequence
  <2>3. CASE SensorForward
    <3>1. /\ Dispose(Sensor, listener) /\ UNCHANGED <<waitDelay, listener>>
          /\ listener # NoListener
      BY <2>3 DEF SensorForward
    <3>2. listener = Processor /\ ~Constructing
      BY <3>1 DEF Sequence, Prelude, Senders, Deaf
    <3>3. Overridden(Processor)
      BY <3>2, OverriddenLemma
    <3>4. Dispose(Sensor, Processor)
      BY <3>1, <3>2
    <3>5. /\ Dormant' /\ Alone(Sensor) /\ Overridden(Sensor)
          /\ UNCHANGED <<data, todo>> /\ (Constructing' <=> Constructing)
      BY <1>4, <2>1, <3>1, <3>3, <3>4
    <3> QED
      BY <2>1, <3>1, <3>5, SendersStay DEF Sequence
  <2>4. CASE SensorDrop
    <3>1. /\ msg' = [msg EXCEPT ![Sensor] = nullptr] /\ Goto(Sensor, "wait")
          /\ UNCHANGED <<queue, data, todo, waitDelay, listener>>
      BY <2>4 DEF SensorDrop
    <3>2. /\ Dormant' /\ Alone(Sensor) /\ Overridden(Sensor)
          /\ UNCHANGED <<data, todo>> /\ (Constructing' <=> Constructing)
      BY <1>4, <2>1, <3>1
    <3> QED
      BY <2>1, <3>1, <3>2, SendersStay DEF Sequence
  <2> QED
    BY <1>6, <2>2, <2>3, <2>4 DEF SensorStep
<1>7. CASE ProcessorStep
  <2>1. CASE ProcessorDecide
    <3>1. PICK cs : /\ todo' = [todo EXCEPT ![Processor] = cs]
                    /\ \A i \in DOMAIN cs : IsLedCmd(cs[i].data)
      <4>1. PICK p, q : todo' = [todo EXCEPT ![Processor] = IF q THEN Commands(p) ELSE <<>>]
        <5>1. todo' = [todo EXCEPT ![Processor] =
                         IF IsPressureSensorData(data[msg[Processor]])
                         THEN Commands(data[msg[Processor]].pressure) ELSE <<>>]
          BY <2>1 DEF ProcessorDecide, Read
        <5> QED
          BY <5>1
      <4>2. \A i \in DOMAIN Commands(p) : IsLedCmd(Commands(p)[i].data)
        BY CommandsOfLemma
      <4>3. PICK cs : cs = IF q THEN Commands(p) ELSE <<>>
        OBVIOUS
      <4>4. \A i \in DOMAIN cs : IsLedCmd(cs[i].data)
        BY <4>2, <4>3
      <4> QED
        BY <4>1, <4>3, <4>4
    <3>2. /\ pc' = [pc EXCEPT ![Processor] = "finish"] /\ pc[Processor] = "process"
          /\ UNCHANGED <<queue, data, msg, waitDelay, on, listener, overridden>>
      BY <1>7, <2>1 DEF ProcessorStep, ProcessorDecide, Goto
    <3>3. Overridden(Processor)
      BY <3>2, OverriddenLemma
    <3>4. Constructing' <=> Constructing
      BY <1>a, <3>2 DEF Constructing
    <3>5. Dormant'
      <4>1. \A b \in Actors : ~Overridden(b) => pc'[b] = pc[b]
        BY <1>a, <3>2, <3>3
      <4> QED
        BY <3>2, <4>1, DormantStays
    <3>6. overridden >= 1
      BY <1>a, <3>3 DEF Overridden
    <3>7. Prelude'
      BY <3>2, <3>4, <3>6 DEF Sequence, Prelude, Deaf
    <3>8. Senders'
      <4>1. ASSUME NEW t \in Threads, NEW i \in DOMAIN todo'[t]
            PROVE  /\ t \in {Main, Processor} \/ todo'[t][i].to = Sensor
                   /\ IsPressureSensorCmd(todo'[t][i].data)
                        => t = Main /\ todo'[t][i].data.listener = Processor
        <5>1. CASE t = Processor
          BY <1>a, <3>1, <4>1, <5>1 DEF IsLedCmd, IsPressureSensorCmd
        <5>2. CASE t # Processor
          BY <1>a, <3>1, <4>1, <5>2 DEF Sequence, Senders
        <5> QED
          BY <5>1, <5>2
      <4> QED
        BY <3>2, <4>1 DEF Sequence, Senders
    <3> QED
      BY <3>2, <3>5, <3>7, <3>8 DEF Sequence
  <2>2. CASE ProcessorRelease
    <3>1. /\ Dispose(Processor, Pool) /\ pc[Processor] \in {"process", "finish"}
          /\ UNCHANGED <<waitDelay, on, listener, overridden>>
      BY <1>7, <2>2 DEF ProcessorStep, ProcessorRelease
    <3>2. /\ Dormant' /\ Alone(Processor) /\ Overridden(Processor)
          /\ UNCHANGED <<data, todo>> /\ (Constructing' <=> Constructing)
      BY <1>4, <3>1
    <3> QED
      BY <3>1, <3>2, SendersStay DEF Sequence
  <2> QED
    BY <1>7, <2>1, <2>2 DEF ProcessorStep
<1>8. CASE StartThread
  <2>1. PICK d : d = Declared[overridden + 1]
    OBVIOUS
  <2>2. d \in Actors /\ pc' = [pc EXCEPT ![Main] = "derived", ![d] = "wait"]
    <3>1. overridden + 1 \in 1 .. 4
      BY <1>a, <1>8, DeclaredLemma DEF StartThread, IInv, Handling, Construction
    <3> QED
      BY <1>8, <2>1, <3>1, DeclaredLemma DEF StartThread
  <2>3. UNCHANGED <<queue, data, msg, todo, waitDelay, on, listener, overridden>>
    BY <1>8 DEF StartThread
  <2>4. Constructing' <=> Constructing
    BY <1>a, <1>8, <2>2 DEF StartThread, Constructing
  <2>5. \A a \in Actors : pc'[a] \in {pc[a], "none", "wait"}
    BY <1>a, <2>2 DEF Threads
  <2> QED
    BY <2>3, <2>4, <2>5, DormantStays, SendersStay DEF Sequence
<1>9. CASE Override
  <2>1. /\ UNCHANGED <<queue, data, msg, waitDelay, on, listener>>
        /\ overridden' = overridden + 1 /\ pc[Main] = "derived"
        /\ \/ pc' = [pc EXCEPT ![Main] = "base"] /\ todo' = todo
           \/ /\ pc' = [pc EXCEPT ![Main] = "body"] /\ overridden' = 4
              /\ todo' = [todo EXCEPT ![Main] = Setup]
    <3>1. overridden' \in 0 .. 4
      BY DeclaredLemma DEF IInv, TypeOK
    <3> QED
      BY <1>9, <3>1, DeclaredLemma DEF Override, Goto
  <2>2. Constructing /\ overridden' >= 1
    BY <1>a, <2>1 DEF Constructing
  <2>3. Dormant'
    <3>1. \A a \in Actors : Overridden(a) => Overridden(a)'
      BY <1>a, <2>1 DEF Overridden
    <3>2. \A a \in Actors : pc'[a] = pc[a]
      BY <1>a, <2>1 DEF Threads
    <3> QED
      BY <2>1, <3>1, <3>2 DEF Sequence, Dormant
  <2>4. Prelude'
    <3>1. ~Constructing' => overridden' = 4
      BY <1>a, <2>1 DEF Constructing
    <3> QED
      BY <2>1, <2>2, <3>1 DEF Sequence, Prelude, Deaf
  <2>5. Senders'
    <3>1. \A i \in DOMAIN Setup : IsPressureSensorCmd(Setup[i].data)
            => Setup[i].data.listener = Processor
      <4>1. \A i \in 1 .. 3 : i = 1 \/ i \in 2 .. 3
        OBVIOUS
      <4> QED
        BY <4>1, SetupLemma DEF IsLedCmd, IsPressureSensorCmd, PressureSensorCmd
    <3>2. CASE todo' = todo
      BY <2>1, <3>2 DEF Sequence, Senders
    <3>3. CASE todo' = [todo EXCEPT ![Main] = Setup]
      <4>1. ASSUME NEW t \in Threads, NEW i \in DOMAIN todo'[t]
            PROVE  /\ t \in {Main, Processor} \/ todo'[t][i].to = Sensor
                   /\ IsPressureSensorCmd(todo'[t][i].data)
                        => t = Main /\ todo'[t][i].data.listener = Processor
        <5>1. CASE t = Main
          BY <1>a, <3>1, <3>3, <4>1, <5>1
        <5>2. CASE t # Main
          BY <1>a, <3>3, <4>1, <5>2 DEF Sequence, Senders
        <5> QED
          BY <5>1, <5>2
      <4> QED
        BY <2>1, <4>1 DEF Sequence, Senders
    <3> QED
      BY <2>1, <3>2, <3>3
  <2> QED
    BY <2>1, <2>3, <2>4, <2>5 DEF Sequence
<1>10. CASE TakeReading
  <2>1. PICK c : /\ c = Call(Sensor, PressureSensorData(panel'))
                 /\ todo' = todo \/ todo' = [todo EXCEPT ![Source] = <<c>>]
    BY <1>10 DEF TakeReading, Display
  <2>2. /\ UNCHANGED <<queue, data, pc, msg, waitDelay, on, listener, overridden>>
        /\ overridden >= 1
    <3>1. Source = Main => ~Constructing
      BY <1>10 DEF TakeReading, Constructing
    <3> QED
      BY <1>10, <3>1 DEF TakeReading, Display, Sequence, Prelude
  <2>3. c.to = Sensor /\ ~IsPressureSensorCmd(c.data)
    BY <2>1 DEF Call, PressureSensorData, IsPressureSensorCmd
  <2>4. Constructing' <=> Constructing
    BY <2>2 DEF Constructing
  <2>5. Dormant'
    BY <2>2, DormantStays
  <2>6. Prelude'
    BY <2>2, <2>4 DEF Sequence, Prelude, Deaf
  <2>7. Senders'
    <3>1. CASE todo' = todo
      BY <2>2, <3>1 DEF Sequence, Senders
    <3>2. CASE todo' = [todo EXCEPT ![Source] = <<c>>]
      <4>1. ASSUME NEW t \in Threads, NEW i \in DOMAIN todo'[t]
            PROVE  /\ t \in {Main, Processor} \/ todo'[t][i].to = Sensor
                   /\ IsPressureSensorCmd(todo'[t][i].data)
                        => t = Main /\ todo'[t][i].data.listener = Processor
        <5>1. CASE t = Source
          <6>1. todo'[t] = <<c>>
            BY <1>a, <3>2, <5>1
          <6>2. i = 1 /\ todo'[t][i] = c
            BY <4>1, <6>1
          <6> QED
            BY <2>3, <6>2
        <5>2. CASE t # Source
          BY <1>a, <3>2, <4>1, <5>2 DEF Sequence, Senders
        <5> QED
          BY <5>1, <5>2
      <4> QED
        BY <2>2, <4>1 DEF Sequence, Senders
    <3> QED
      BY <2>1, <3>1, <3>2
  <2> QED
    BY <2>2, <2>5, <2>6, <2>7 DEF Sequence
<1>11. CASE Return
  <2>1. Constructing' <=> Constructing
    BY <1>11, ReturnLemma DEF Constructing
  <2>2. Dormant'
    BY <1>11, ReturnLemma, DormantStays
  <2> QED
    BY <1>11, <2>1, <2>2, ReturnLemma, SendersStay DEF Sequence
<1> HIDE DEF Alone
<1>12. ASSUME NEW a \in Actors, ActorThread(a) PROVE Idle \/ \E b \in Actors : Does(b)
  BY <1>2, <1>3, <1>5, <1>6, <1>7, <1>12 DEF ActorThread, Threads
<1>13. ASSUME NEW t \in Clients, ClientThread(t) PROVE Idle \/ \E b \in Actors : Does(b)
  BY <1>2, <1>8, <1>9, <1>11, <1>13 DEF ClientThread, Threads
<1> QED
  BY <1>1, <1>10, <1>12, <1>13 DEF Next

\* No actor runs processMsg before its class has set its members and its own
\* processMsg, although its thread is started before, whoever takes the
\* readings and from when on, and also when puts fail: for any pool, any
\* pressures and any number of readings.
THEOREM OverriddenBeforeDispatch ==
    ASSUME ~OptimisedBuild
    PROVE  Spec => NoPureVirtualCall
<1>1. Init => Sequence
  <2> SUFFICES ASSUME Init PROVE Sequence
    OBVIOUS
  <2> USE RolesLemma
  <2>1. Dormant
    <3>1. \A a \in Actors : pc[a] = "none" /\ waitDelay[a] = 0 /\ queue[a] = <<>>
      BY ActorsAssumption DEF Init, VinciInit, Threads, Queues
    <3> QED
      BY <3>1 DEF Dormant
  <2>2. Constructing /\ Deaf /\ \A t \in Threads : todo[t] = <<>>
    BY DEF Init, SensorInit, Constructing, Deaf
  <2>3. \A m \in Message : ~IsPressureSensorCmd(data[m])
    BY DEF Init, VinciInit, InitialData, LedCmd, IsPressureSensorCmd
  <2> QED
    BY <2>1, <2>2, <2>3 DEF Sequence, Prelude, Senders, Deaf
<1>2. Spec => [](IInv /\ BInv)
  BY InitInv, StepKeepsInv, InitBudget, StepKeepsBudget, PTL DEF Spec
<1>3. IInv /\ IInv' /\ BInv /\ Sequence /\ [Next]_vars
        => /\ Sequence'
           /\ [\A a \in Actors : Dispatches(a) => Overridden(a)]_vars
  BY StepKeepsSequence DEF Dispatches
<1> QED
  BY <1>1, <1>2, <1>3, PTL DEF Spec, NoPureVirtualCall

-----------------------------------------------------------------------------
(* The registration comes first. *)

\* Until the sensor has a listener, the next command on its way to it, in its
\* hands, in its mailbox or with main, is the registration.
Registration ==
    Deaf =>
      \/ msg[Sensor] # nullptr /\ IsPressureSensorCmd(data[msg[Sensor]])
      \/ /\ msg[Sensor] = nullptr /\ queue[Sensor] # <<>>
         /\ IsPressureSensorCmd(data[queue[Sensor][1]])
      \/ /\ msg[Sensor] = nullptr /\ queue[Sensor] = <<>>
         /\ \/ Constructing
            \/ todo[Main] # <<>> /\ IsPressureSensorCmd(todo[Main][1].data)

\* What leaves the sensor, its messages and the calls of main alone keeps it.
LEMMA RegistrationStays ==
    ASSUME IInv, Registration, UNCHANGED <<listener, todo>>, Constructing' <=> Constructing,
           queue'[Sensor] = queue[Sensor], msg'[Sensor] = msg[Sensor],
           \A i \in DOMAIN queue[Sensor] : data'[queue[Sensor][i]] = data[queue[Sensor][i]],
           msg[Sensor] # nullptr => data'[msg[Sensor]] = data[msg[Sensor]]
    PROVE  Registration'
<1>1. queue[Sensor] # <<>> => 1 \in DOMAIN queue[Sensor]
  <2>1. queue[Sensor] \in Seq(Message)
    BY RolesLemma DEF IInv, TypeOK, VinciTypeOK
  <2> QED
    BY <2>1, EmptySeq, LenProperties
<1> QED
  BY <1>1 DEF Registration, Deaf

\* The calls of main are made in their order.
LEMMA SendRegisters ==
    ASSUME Source = Main, Main \notin Interrupts, IInv, BInv, CarriedOK, Registration,
           NEW t \in Threads, Send(t) \/ SendFails(t),
           UNCHANGED <<on, listener, simulatorVars, overridden>>
    PROVE  Registration' /\ ~SendFails(t)
<1> DEFINE c == Head(todo[t])
<1>0. PICK a, m : a = c.to /\ m = draft[t]
  OBVIOUS
<1>1. /\ m \in Message /\ m # nullptr /\ todo[t] # <<>>
      /\ todo' = [todo EXCEPT ![t] = Tail(@)]
      /\ UNCHANGED <<data, pc, msg, listener>>
      /\ queue \in [Queues -> Seq(Message)]
      /\ queue[Sensor] \in Seq(Message)
      /\ todo \in [Threads -> Seq(Calls)]
  BY <1>0, RolesLemma
  DEF Send, SendFails, simulatorVars, IInv, TypeOK, VinciTypeOK, Handling, DraftForCall
<1>2. /\ c = todo[t][1] /\ 1 \in DOMAIN todo[t]
      /\ \A u \in Threads \ {t} : todo'[u] = todo[u]
  BY <1>1, CallsLater
<1>3. CallOK(t, c) /\ data[m] = c.data
  BY <1>0, <1>1, <1>2 DEF CarriedOK, CallsOK, DraftsOK
<1>4. t \in {Main, Processor}
  BY <1>1 DEF BInv, Callers
<1>5. ~SendFails(t)
  BY <1>4, ActorsAssumption, RolesLemma DEF SendFails
<1>6. queue' = [queue EXCEPT ![a] = Append(@, m)]
  BY <1>0, <1>5 DEF Send, Push
<1>7. Constructing' <=> Constructing
  BY <1>1 DEF Constructing
<1> HIDE DEF c
<1>8. CASE t = Processor
  <2>1. a # Sensor
    BY <1>0, <1>3, <1>8, RolesLemma DEF CallOK
  <2>2. queue'[Sensor] = queue[Sensor] /\ todo'[Main] = todo[Main]
    BY <1>1, <1>2, <1>6, <1>8, <2>1, RolesLemma
  <2> QED
    BY <1>1, <1>5, <1>7, <2>2 DEF Registration, Deaf
<1>9. CASE t = Main
  <2>1. ~Constructing
    BY <1>1, <1>9 DEF BInv, Callers
  <2>2. CASE a = Sensor
    <3>1. queue'[Sensor] = Append(queue[Sensor], m)
      BY <1>1, <1>6, <2>2, RolesLemma
    <3>2. /\ queue'[Sensor] # <<>>
          /\ queue[Sensor] # <<>> => queue'[Sensor][1] = queue[Sensor][1]
          /\ queue[Sensor] = <<>> => queue'[Sensor][1] = m
      <4>1. /\ Append(queue[Sensor], m) # <<>>
            /\ \A i \in 1 .. Len(queue[Sensor]) : Append(queue[Sensor], m)[i] = queue[Sensor][i]
            /\ Append(queue[Sensor], m)[Len(queue[Sensor]) + 1] = m
        <5>1. queue[Sensor] \in Seq(Message) /\ m \in Message
          BY <1>1
        <5> QED
          BY <5>1, AppendProperties
      <4>2. queue[Sensor] # <<>> => 1 \in 1 .. Len(queue[Sensor])
        BY <1>1, EmptySeq
      <4>3. queue[Sensor] = <<>> => Append(queue[Sensor], m)[1] = m
        OBVIOUS
      <4> QED
        BY <3>1, <4>1, <4>2, <4>3
    <3> QED
      BY <1>1, <1>2, <1>3, <1>5, <1>9, <2>1, <3>2 DEF Registration, Deaf
  <2>3. CASE a # Sensor
    <3>1. queue'[Sensor] = queue[Sensor]
      BY <1>1, <1>6, <2>3, RolesLemma
    <3>2. ~IsPressureSensorCmd(todo[Main][1].data)
      BY <1>0, <1>2, <1>3, <1>9, <2>3 DEF CallOK, IsLedCmd, IsPressureSensorCmd
    <3> QED
      BY <1>1, <1>5, <2>1, <3>1, <3>2 DEF Registration, Deaf
  <2> QED
    BY <2>2, <2>3
<1> QED
  BY <1>4, <1>8, <1>9

\* Every step keeps the registration first, and loses no message.
LEMMA StepKeepsRegistration ==
    ASSUME ~OptimisedBuild, Source = Main, Main \notin Interrupts
    PROVE  IInv /\ BInv /\ SoleOwner /\ CarriedOK /\ Registration /\ [Next]_vars
             => /\ Registration'
                /\ ~SensorDrop /\ \A t \in Interrupts : ~SendFails(t)
<1> SUFFICES ASSUME IInv, BInv, SoleOwner, CarriedOK, Registration, [Next]_vars
             PROVE  /\ Registration'
                    /\ ~SensorDrop /\ \A t \in Interrupts : ~SendFails(t)
  OBVIOUS
<1> USE RolesLemma
<1>a. \A t \in Interrupts : ~SendFails(t)
  <2> SUFFICES ASSUME NEW t \in Interrupts, SendFails(t) PROVE FALSE
    OBVIOUS
  <2>1. t \in Threads /\ t \in Clients
    BY ActorsAssumption DEF Threads
  <2>2. todo[t] # <<>>
    BY <2>1 DEF SendFails, IInv, Handling, DraftForCall
  <2>3. t \in {Main, Processor}
    BY <2>1, <2>2 DEF BInv, Callers
  <2> QED
    BY <2>1, <2>3, ActorsAssumption
<1>b. ~SensorDrop
  <2> SUFFICES ASSUME SensorDrop PROVE FALSE
    OBVIOUS
  <2>1. Deaf /\ msg[Sensor] # nullptr
    BY DEF SensorDrop, Deaf, IInv, Handling, MsgInHand
  <2> QED
    BY <2>1 DEF SensorDrop, Registration, Read
<1> SUFFICES Registration'
  BY <1>a, <1>b
<1>1. ASSUME UNCHANGED vars \/ UNCHANGED <<vinciVars, listener, simulatorVars, overridden>>
             \/ UNCHANGED <<queue, data, msg, todo, pc, listener>>
      PROVE  Registration'
  BY <1>1 DEF vars, vinciVars, simulatorVars, Registration, Deaf, Constructing
<1>2. ASSUME NEW t \in Threads, CallStep(t) PROVE Registration'
  <2>1. CASE BuildFromEmptyPool(t)
    BY <1>1, <1>2, <2>1 DEF CallStep, BuildFromEmptyPool
  <2>2. CASE Build(t)
    <3>1. PICK m \in Message :
             /\ m # nullptr
             /\ draft' = [draft EXCEPT ![t] = m]
             /\ data' = [data EXCEPT ![m] = Head(todo[t]).data]
             /\ \A a \in Actors : /\ queue'[a] = queue[a] /\ msg[a] # m
                                  /\ \A i \in DOMAIN queue[a] : queue[a][i] # m
             /\ \A u \in Threads : draft[u] # m
      BY <2>2, BuildWrites
    <3>2. /\ queue[Sensor] \in Seq(Message) /\ msg[Sensor] \in Message \cup {nullptr}
          /\ data \in [Message -> Data(Actors, Pressures)]
      BY DEF IInv, TypeOK, VinciTypeOK
    <3>3. \A i \in DOMAIN queue[Sensor] : data'[queue[Sensor][i]] = data[queue[Sensor][i]]
      <4>1. \A i \in DOMAIN queue[Sensor] : queue[Sensor][i] \in Message
        BY <3>2, LenProperties
      <4> QED
        BY <3>1, <3>2, <4>1
    <3>4. msg[Sensor] # nullptr => data'[msg[Sensor]] = data[msg[Sensor]]
      BY <3>1, <3>2
    <3>5. UNCHANGED <<listener, todo, pc, msg>>
      BY <1>2, <2>2 DEF CallStep, Build
    <3> QED
      BY <3>1, <3>3, <3>4, <3>5, RegistrationStays DEF Constructing
  <2> QED
    BY <1>2, <2>1, <2>2, SendRegisters DEF CallStep
<1>3. ASSUME NEW a \in Actors, ReceiveStep(a) PROVE Registration'
  <2>1. /\ UNCHANGED <<data, todo, listener>>
        /\ queue' = [queue EXCEPT ![a] = Tail(@)] /\ msg' = [msg EXCEPT ![a] = Head(queue[a])]
        /\ queue \in [Queues -> Seq(Message)] /\ msg \in [Actors -> Message \cup {nullptr}]
        /\ queue[a] # <<>> /\ a \in Queues /\ queue[a] \in Seq(Message)
    BY <1>3 DEF ReceiveStep, Receive, IInv, TypeOK, VinciTypeOK
  <2>2. Constructing' <=> Constructing
    BY <1>3 DEF ReceiveStep, Receive, Goto, Constructing, IInv, TypeOK
  <2>3. CASE a # Sensor
    <3>1. queue'[Sensor] = queue[Sensor] /\ msg'[Sensor] = msg[Sensor]
      BY <2>1, <2>3
    <3> QED
      BY <2>1, <2>2, <3>1, RegistrationStays
  <2>4. CASE a = Sensor
    <3>1. msg'[Sensor] = queue[Sensor][1] /\ msg'[Sensor] # nullptr
      <4>1. Head(queue[a]) = queue[a][1] /\ Head(queue[a]) \in Message
        BY <2>1, HeadTailProperties
      <4> QED
        BY <2>1, <2>4, <4>1, PoolSizeAssumption DEF Message, nullptr
    <3>2. msg[Sensor] = nullptr
      BY <1>3, <2>4 DEF ReceiveStep, Receive, IInv, Handling, MsgInHand
    <3> QED
      BY <2>1, <2>4, <3>1, <3>2 DEF Registration, Deaf
  <2> QED
    BY <2>3, <2>4
<1>4. ASSUME NEW a \in Actors \ {Sensor}, NEW q \in Queues \ {Sensor}, Dispose(a, q),
             listener' = listener
      PROVE  Registration'
  <2>1. /\ UNCHANGED <<data, todo>>
        /\ queue'[Sensor] = queue[Sensor] /\ msg'[Sensor] = msg[Sensor]
        /\ Constructing' <=> Constructing
    BY <1>4 DEF Dispose, Push, Goto, Constructing, IInv, TypeOK, VinciTypeOK
  <2> QED
    BY <1>4, <2>1, RegistrationStays
<1>5. ASSUME NEW l \in Leds, LedStep(l) PROVE Registration'
  BY <1>1, <1>4, <1>5 DEF LedStep, LedProcess, LedToggle, TimesOut
<1>6. CASE SensorStep
  <2>1. CASE SensorRegister
    <3>1. PICK d \in Read(msg[Sensor]) : IsPressureSensorCmd(d) /\ listener' = d.listener
      BY <2>1 DEF SensorRegister
    <3>2. listener' \in Actors
      <4>1. msg[Sensor] \in Message
        BY <2>1 DEF SensorRegister, IInv, TypeOK, VinciTypeOK, Handling, MsgInHand
      <4> QED
        BY <3>1, <4>1, ReadLemma, DataLemma DEF IInv
    <3> QED
      BY <3>2, ListenerAssumption DEF Registration, Deaf
  <2>2. CASE SensorForward
    BY <2>2 DEF SensorForward, Registration, Deaf
  <2> QED
    BY <1>6, <1>b, <2>1, <2>2 DEF SensorStep
<1>7. CASE ProcessorStep
  <2>1. CASE ProcessorDecide
    <3>1. /\ UNCHANGED <<queue, data, msg, listener>> /\ todo'[Main] = todo[Main]
          /\ Constructing' <=> Constructing
      BY <1>7, <2>1 DEF ProcessorStep, ProcessorDecide, Goto, Constructing, IInv, TypeOK
    <3> QED
      BY <3>1 DEF Registration, Deaf
  <2> QED
    BY <1>4, <1>7, <2>1 DEF ProcessorStep, ProcessorRelease
<1>8. CASE StartThread
  <2>1. Declared[overridden + 1] # Main
    <3>1. overridden + 1 \in 1 .. 4
      BY <1>8, DeclaredLemma DEF StartThread, IInv, TypeOK, Handling, Construction
    <3> QED
      BY <3>1, DeclaredLemma
  <2>2. /\ UNCHANGED <<queue, data, msg, todo, listener>>
        /\ Constructing' <=> Constructing
    BY <1>8, <2>1 DEF StartThread, Constructing, IInv, TypeOK
  <2> QED
    BY <2>2 DEF Registration, Deaf
<1>9. CASE Override
  <2>1. /\ UNCHANGED <<queue, data, msg, listener>> /\ Constructing
        /\ todo \in [Threads -> Seq(Calls)]
        /\ pc \in [Threads -> {"none", "wait", "process", "finish",
                               "base", "derived", "body", "run"}]
        /\ \/ pc' = [pc EXCEPT ![Main] = "base"]
           \/ todo' = [todo EXCEPT ![Main] = Setup]
    BY <1>9 DEF Override, Goto, Constructing, IInv, TypeOK
  <2>2. \/ Constructing'
        \/ todo'[Main] # <<>> /\ IsPressureSensorCmd(todo'[Main][1].data)
    <3>1. CASE pc' = [pc EXCEPT ![Main] = "base"]
      BY <2>1, <3>1 DEF Constructing
    <3>2. CASE todo' = [todo EXCEPT ![Main] = Setup]
      <4>1. todo'[Main] = Setup /\ Setup # <<>>
        BY <2>1, <3>2, CommandsLemma
      <4> QED
        BY <4>1, SetupLemma DEF PressureSensorCmd, IsPressureSensorCmd
    <3> QED
      BY <2>1, <3>1, <3>2
  <2>3. Constructing => todo[Main] = <<>>
    BY DEF BInv, Callers
  <2> QED
    BY <2>1, <2>2, <2>3 DEF Registration, Deaf
<1>10. CASE TakeReading
  <2>1. /\ UNCHANGED <<queue, data, msg, listener, pc>> /\ todo[Main] = <<>> /\ ~Constructing
    BY <1>10 DEF TakeReading, Display, Constructing
  <2> QED
    BY <2>1 DEF Registration, Deaf
<1>11. CASE Return
  <2>1. Constructing' <=> Constructing
    BY <1>11, ReturnLemma DEF Constructing
  <2> QED
    BY <1>11, <2>1, ReturnLemma DEF Registration, Deaf
<1>12. ASSUME NEW a \in Actors, ActorThread(a) PROVE Registration'
  BY <1>2, <1>3, <1>5, <1>6, <1>7, <1>12 DEF ActorThread, Threads
<1>13. ASSUME NEW t \in Clients, ClientThread(t) PROVE Registration'
  BY <1>2, <1>8, <1>9, <1>11, <1>13 DEF ClientThread, Threads
<1> QED
  BY <1>1, <1>10, <1>12, <1>13 DEF Next

\* At the start main constructs.
LEMMA InitRegistration == Init => Registration
BY RolesLemma DEF Init, VinciInit, Registration, Constructing, Queues

-----------------------------------------------------------------------------
(* The ownership protocol. *)

\* Taking the head of a queue, as the protocol has it.
LEMMA TakesAsPromised ==
    ASSUME IInv, NEW t \in Threads, NEW q \in Queues, queue[q] # <<>>,
           queue' = [queue EXCEPT ![q] = Tail(@)],
           Held(t)' = Held(t) \cup {Head(queue[q])},
           \A u \in Threads \ {t} : Held(u)' = Held(u)
    PROVE  Ownership!Take(t, q)
<1>1. HeldBy' = [HeldBy EXCEPT ![t] = @ \cup {Head(queue[q])}]
  BY DEF HeldBy
<1> QED
  BY <1>1 DEF Ownership!Take, HeldBy

\* Giving a message in hand to a queue.
LEMMA PutsAsPromised ==
    ASSUME IInv, NEW t \in Threads, NEW m \in Held(t), NEW q \in Queues,
           queue' = [queue EXCEPT ![q] = Append(@, m)],
           Held(t)' = Held(t) \ {m},
           \A u \in Threads \ {t} : Held(u)' = Held(u)
    PROVE  Ownership!Next
<1>1. HeldBy' = [HeldBy EXCEPT ![t] = @ \ {m}]
  BY DEF HeldBy
<1>2. HeldBy[t] = Held(t)
  BY DEF HeldBy
<1>3. Ownership!Put(t, m, q)
  BY <1>1, <1>2 DEF Ownership!Put, HeldBy
<1>4. m \in [u \in Threads |-> Held(u)][t]
  OBVIOUS
<1> QED
  BY <1>3, <1>4 DEF Ownership!Next, Ownership!Threads, Ownership!Queues, Threads, Queues

\* The end of processMsg gives up the message in hand.
LEMMA DisposeAsPromised ==
    ASSUME IInv, SoleOwner, NEW a \in Actors, NEW q \in Queues, Dispose(a, q),
           pc[a] \in {"process", "finish"}, todo[a] = <<>>
    PROVE  Ownership!Next
<1>1. /\ msg[a] \in Message /\ msg[a] # nullptr /\ a \in Threads
      /\ draft[a] = nullptr
      /\ msg' = [msg EXCEPT ![a] = nullptr] /\ draft' = draft
      /\ msg \in [Actors -> Message \cup {nullptr}]
  BY DEF Dispose, IInv, TypeOK, VinciTypeOK, Handling, MsgInHand, DraftForCall, Threads
<1>2. /\ msg[a] \in Held(a) /\ Held(a)' = Held(a) \ {msg[a]}
      /\ \A u \in Threads \ {a} : Held(u)' = Held(u)
  BY <1>1 DEF Held
<1> QED
  BY <1>1, <1>2, PutsAsPromised DEF Dispose, Push

\* What changes no queue and no pointer is no step of the protocol.
LEMMA StayAsPromised ==
    UNCHANGED <<queue, msg, draft>> => UNCHANGED Ownership!vars
BY DEF Ownership!vars, Held

\* Every step of the demo is a step of the protocol or none of its business.
LEMMA StepAsPromised ==
    ASSUME Source = Main
    PROVE  IInv /\ SoleOwner /\ [Next]_vars
             /\ ~SensorDrop /\ (\A t \in Interrupts : ~SendFails(t))
             => [Ownership!Next]_(Ownership!vars)
<1> SUFFICES ASSUME IInv, SoleOwner, [Next]_vars,
                    ~SensorDrop, \A t \in Interrupts : ~SendFails(t)
             PROVE  [Ownership!Next]_(Ownership!vars)
  OBVIOUS
<1> USE RolesLemma
<1>1. ASSUME NEW t \in Threads, CallStep(t) PROVE [Ownership!Next]_(Ownership!vars)
  <2>1. CASE BuildFromEmptyPool(t)
    BY <2>1, StayAsPromised DEF BuildFromEmptyPool
  <2>2. CASE Build(t)
    <3>1. PICK m : m = Head(queue[Pool])
      OBVIOUS
    <3>2. /\ queue[Pool] # <<>> /\ draft[t] = nullptr
          /\ queue' = [queue EXCEPT ![Pool] = Tail(@)]
          /\ draft' = [draft EXCEPT ![t] = m] /\ msg' = msg
          /\ draft \in [Threads -> Message \cup {nullptr}]
          /\ m \in Message /\ m # nullptr
      <4>1. queue[Pool] \in Seq(Message) /\ queue[Pool] # <<>>
        BY <2>2 DEF Build, IInv, TypeOK, VinciTypeOK
      <4>2. m \in Message
        BY <3>1, <4>1, HeadTailProperties
      <4>3. m # nullptr
        BY <4>2, PoolSizeAssumption DEF Message, nullptr
      <4>4. draft \in [Threads -> Message \cup {nullptr}]
        BY DEF IInv, TypeOK, VinciTypeOK
      <4>5. /\ draft[t] = nullptr /\ msg' = msg
            /\ queue' = [queue EXCEPT ![Pool] = Tail(@)]
            /\ draft' = [draft EXCEPT ![t] = m]
        BY <2>2, <3>1 DEF Build
      <4> QED
        BY <4>1, <4>2, <4>3, <4>4, <4>5
    <3>3. /\ Held(t)' = Held(t) \cup {m}
          /\ \A u \in Threads \ {t} : Held(u)' = Held(u)
      BY <3>2 DEF Held
    <3>4. Ownership!Take(t, Pool)
      BY <3>1, <3>2, <3>3, TakesAsPromised
    <3> QED
      BY <3>4 DEF Ownership!Next, Ownership!Acquire, Ownership!Threads, Threads
  <2>3. CASE Send(t)
    <3>1. PICK a, m : a = Head(todo[t]).to /\ m = draft[t]
      OBVIOUS
    <3>2. /\ m \in Message /\ m # nullptr /\ todo[t] # <<>>
          /\ draft' = [draft EXCEPT ![t] = nullptr] /\ msg' = msg
          /\ queue' = [queue EXCEPT ![a] = Append(@, m)]
          /\ draft \in [Threads -> Message \cup {nullptr}]
          /\ todo[t] \in Seq(Calls)
          /\ draft[t] = m
      BY <2>3, <3>1
      DEF Send, Push, IInv, TypeOK, VinciTypeOK, Handling, DraftForCall
    <3>3. a \in Queues
      BY <3>1, <3>2, NextCallLemma
    <3>4. t \in Actors => msg[t] # m
      BY <3>2, SoleOwnerIsSole DEF OneOfTwo
    <3>5. /\ m \in Held(t) /\ Held(t)' = Held(t) \ {m}
          /\ \A u \in Threads \ {t} : Held(u)' = Held(u)
      BY <3>2, <3>4 DEF Held
    <3> QED
      BY <3>2, <3>3, <3>5, PutsAsPromised
  <2>4. ~SendFails(t)
    BY DEF SendFails
  <2> QED
    BY <1>1, <2>1, <2>2, <2>3, <2>4 DEF CallStep
<1>2. ASSUME NEW a \in Actors, ReceiveStep(a) PROVE [Ownership!Next]_(Ownership!vars)
  <2>1. PICK m : m = Head(queue[a])
    OBVIOUS
  <2>2. /\ queue[a] # <<>> /\ msg[a] = nullptr /\ draft[a] = nullptr
        /\ queue' = [queue EXCEPT ![a] = Tail(@)]
        /\ msg' = [msg EXCEPT ![a] = m] /\ draft' = draft
        /\ msg \in [Actors -> Message \cup {nullptr}]
        /\ m \in Message /\ m # nullptr /\ a \in Threads
    <3>1. queue[a] \in Seq(Message) /\ queue[a] # <<>>
      BY <1>2 DEF ReceiveStep, Receive, IInv, TypeOK, VinciTypeOK
    <3>2. m \in Message
      BY <2>1, <3>1, HeadTailProperties
    <3>3. m # nullptr /\ a \in Threads
      BY <3>2, PoolSizeAssumption DEF Message, nullptr, Threads
    <3>4. pc[a] = "wait" /\ msg[a] = nullptr
      BY <1>2 DEF ReceiveStep, Receive, IInv, Handling, MsgInHand
    <3>5. draft[a] = nullptr
      BY <3>3, <3>4 DEF IInv, Handling, DraftForCall, CallsInHandler
    <3> QED
      BY <1>2, <2>1, <3>1, <3>2, <3>3, <3>4, <3>5
      DEF ReceiveStep, Receive, IInv, TypeOK, VinciTypeOK
  <2>3. /\ Held(a) = {} /\ Held(a)' = Held(a) \cup {m}
        /\ \A u \in Threads \ {a} : Held(u)' = Held(u)
    BY <2>2 DEF Held
  <2>4. Ownership!Take(a, a)
    BY <2>1, <2>2, <2>3, TakesAsPromised
  <2>5. [t \in Threads |-> Held(t)][a] = {}
    BY <2>2, <2>3
  <2> QED
    BY <2>4, <2>5 DEF Ownership!Next, Ownership!Receive
<1>3. ASSUME NEW l \in Leds, LedStep(l) PROVE [Ownership!Next]_(Ownership!vars)
  <2>1. CASE LedProcess(l)
    BY <2>1, DisposeAsPromised DEF LedProcess, IInv, Handling, CallsInHandler
  <2>2. CASE LedToggle(l)
    BY <2>2, StayAsPromised DEF LedToggle, TimesOut, vinciVars
  <2> QED
    BY <1>3, <2>1, <2>2 DEF LedStep
<1>4. ASSUME SensorStep PROVE [Ownership!Next]_(Ownership!vars)
  <2>1. CASE SensorRegister
    BY <2>1, DisposeAsPromised DEF SensorRegister, IInv, Handling, CallsInHandler
  <2>2. CASE SensorForward
    <3>1. listener \in Queues
      BY <2>2 DEF SensorForward, IInv, TypeOK, Queues
    <3> QED
      BY <2>2, <3>1, DisposeAsPromised DEF SensorForward, IInv, Handling, CallsInHandler
  <2> QED
    BY <1>4, <2>1, <2>2 DEF SensorStep
<1>5. ASSUME ProcessorStep PROVE [Ownership!Next]_(Ownership!vars)
  <2>1. CASE ProcessorDecide
    BY <2>1, StayAsPromised DEF ProcessorDecide
  <2>2. CASE ProcessorRelease
    BY <2>2, DisposeAsPromised DEF ProcessorRelease
  <2> QED
    BY <1>5, <2>1, <2>2 DEF ProcessorStep
<1>6. ASSUME StartThread \/ Override \/ Return \/ TakeReading \/ UNCHANGED vars
      PROVE  [Ownership!Next]_(Ownership!vars)
  BY <1>6, StayAsPromised
  DEF StartThread, Override, Return, TakeReading, Display, vars, vinciVars
<1>7. ASSUME NEW a \in Actors, ActorThread(a) PROVE [Ownership!Next]_(Ownership!vars)
  BY <1>1, <1>2, <1>3, <1>4, <1>5, <1>7 DEF ActorThread, Threads
<1>8. ASSUME NEW t \in Clients, ClientThread(t) PROVE [Ownership!Next]_(Ownership!vars)
  BY <1>1, <1>6, <1>8 DEF ClientThread, Threads
<1> QED
  BY <1>6, <1>7, <1>8 DEF Next

\* The handlers keep the ownership protocol when main takes the readings: each
\* message is released or sent on once, before its actor takes the next.
THEOREM HandlersKeepOwnership ==
    ASSUME ~OptimisedBuild, Source = Main, Main \notin Interrupts
    PROVE  Spec => KeepsOwnership
<1>1. Init => Ownership!Init
  <2> SUFFICES ASSUME Init PROVE Ownership!Init
    OBVIOUS
  <2>1. \A t \in Threads : Held(t) = {}
    BY DEF Init, VinciInit, Held, Threads
  <2> QED
    BY <2>1
    DEF Init, VinciInit, Ownership!Init, Ownership!Queues, Ownership!Threads,
        Ownership!Message, Queues, Threads, Message
<1>2. Spec => [](IInv /\ BInv /\ SoleOwner /\ CarriedOK /\ Agreement)
  BY InitInv, StepKeepsInv, InitBudget, StepKeepsBudget, DemoOwnersSole,
     InitAgreement, StepKeepsAgreement, PTL DEF Spec
<1> QED
  BY <1>1, <1>2, InitRegistration, StepKeepsRegistration, StepAsPromised, PTL
  DEF Spec, KeepsOwnership, Ownership!Spec

\* Then no message is ever lost, and the registration comes before the readings.
THEOREM NothingLost ==
    ASSUME ~OptimisedBuild, Source = Main, Main \notin Interrupts
    PROVE  Spec => [](Lost = {} /\ Registration)
<1>1. Init => Lost = {}
  <2> SUFFICES ASSUME Init PROVE Lost = {}
    OBVIOUS
  <2>1. queue[Pool] = [m \in Message |-> m]
    BY RolesLemma DEF Init, VinciInit
  <2>2. \A m \in Message : m \in Range(queue[Pool])
    BY <2>1 DEF Range
  <2> QED
    BY <2>2, RolesLemma DEF Lost
<1>2. Spec => [](IInv /\ BInv /\ SoleOwner /\ CarriedOK /\ Agreement)
  BY InitInv, StepKeepsInv, InitBudget, StepKeepsBudget, DemoOwnersSole,
     InitAgreement, StepKeepsAgreement, PTL DEF Spec
<1>3. Spec => []Registration /\ [][~SensorDrop /\ \A t \in Interrupts : ~SendFails(t)]_vars
  BY <1>2, InitRegistration, StepKeepsRegistration, PTL DEF Spec
<1>4. [Lost' \subseteq Lost \/ SensorDrop \/ \E t \in Interrupts : SendFails(t)]_vars
        /\ [~SensorDrop /\ \A t \in Interrupts : ~SendFails(t)]_vars
        => [Lost' \subseteq Lost]_vars
  OBVIOUS
<1>5. Spec => [][Lost' \subseteq Lost]_vars
  BY <1>3, <1>4, LossesKnown, PTL DEF KnownLosses
<1>6. Lost = {} /\ [Lost' \subseteq Lost]_vars => (Lost = {})'
  <2>1. UNCHANGED vars => Lost' = Lost
    BY DEF Lost, Held, vars, vinciVars
  <2> QED
    BY <2>1
<1> QED
  BY <1>1, <1>3, <1>5, <1>6, PTL DEF Spec

-----------------------------------------------------------------------------
(* The order of the readings and of the commands. *)

\* The readings are numbered as they are entered, and the registration, which
\* goes the same way before them, is number 0.  The number of the last one
\* that the sensor has taken, that the processor has taken, and that it has
\* decided; after the construction the registration is one still to pass on.
Heard == Entries - CallsSensor(Main) - Size(Sensor)
Taken == Heard - Handled - Size(Processor)
Early == Count(Deaf /\ ~Constructing)
Decided == Taken - Undecided + Early

\* A decision makes a command for each LED, numbered as its reading; number 0
\* is the one of main.  The number of the last one that LED l has taken, and
\* how many it has applied.
Opened(l) == Decided - Unconstructed - Size(l)
               - Count(Calling(Main, l)) - Count(Calling(Processor, l))
Done(l) == Opened(l) + 1 - Count(msg[l] # nullptr)

\* What number k is for each actor, after the readings in e.
Carries(d, k, e) == \/ k = 0 /\ d = PressureSensorCmd(Processor)
                    \/ k \in 1 .. Len(e) /\ d = PressureSensorData(e[k])
Bids(d, k, e, l) == \/ k = 0 /\ RateOf(d) = First(l)
                    \/ k \in 1 .. Len(e) /\ RateOf(d) = Commanded(e[k], l)
Suits(a, d, k, e) == IF a \in Leds THEN Bids(d, k, e, a) ELSE Carries(d, k, e)

\* The messages that actor a has, in hand and in its mailbox, have the numbers
\* from that of the last one taken on.
Served == {Sensor, Processor} \cup Leds
At(a) == IF a = Sensor THEN Heard ELSE IF a = Processor THEN Taken ELSE Opened(a)
InOrder(a) ==
    /\ \A i \in DOMAIN queue[a] : Suits(a, data[queue[a][i]], At(a) + i, entered)
    /\ msg[a] # nullptr => Suits(a, data[msg[a]], At(a), entered)

\* So have the calls that are to be made.
CallsInOrder ==
    /\ CallsSensor(Main) # 0 => Carries(todo[Main][1].data, Entries, entered)
    /\ \A l \in Leds : Calling(Main, l) => Entries = 0
    /\ \A i \in DOMAIN todo[Processor] :
         /\ Decided >= 1
         /\ Bids(todo[Processor][i].data, Decided, entered, todo[Processor][i].to)

\* A thread calls nobody twice.
Once ==
    \A t \in Threads : \A i, j \in DOMAIN todo[t] :
        todo[t][i].to = todo[t][j].to => i = j

\* Nothing is entered before the construction is over, and the processor is
\* sent nothing before it is registered.
Stages ==
    /\ Constructing => /\ Deaf /\ Entries = 0
                       /\ Size(Sensor) = 0 /\ Handled = 0
    /\ Deaf => Size(Processor) = 0 /\ Undecided = 0
    /\ Deaf /\ ~Constructing => Heard - Handled = -1
    /\ ~Deaf => Taken - Undecided >= 0

\* All of it: what the steps keep.
Order == (\A a \in Served : InOrder(a)) /\ CallsInOrder /\ Once /\ Stages

\* The commands a LED has done with are the readings its rate counts.
Same == \A l \in Leds : Done(l) = Applied[l]

-----------------------------------------------------------------------------
(* The numbers, and the messages in the order of them. *)

\* What the provers need to know of the numbers to add them up.
Numbers ==
    /\ Entries \in Nat /\ CallsSensor(Main) \in 0 .. 1 /\ Size(Sensor) \in Nat
    /\ Size(Processor) \in Nat /\ Handled \in 0 .. 1 /\ Undecided \in 0 .. 1
    /\ Early \in 0 .. 1 /\ Unconstructed \in 0 .. 1
    /\ Heard \in Int /\ Taken \in Int /\ Decided \in Int
    /\ \A l \in Leds : Size(l) \in Nat /\ Opened(l) \in Int /\ Done(l) \in Int
    /\ \A a \in Served : a \in Actors /\ Size(a) \in Nat /\ At(a) \in Int

\* The numbers are integers.
LEMMA NumbersLemma == IInv => Numbers
<1> SUFFICES ASSUME IInv PROVE Numbers
  OBVIOUS
<1>0. \A b : Count(b) \in 0 .. 1
  BY DEF Count
<1>1. /\ Entries \in Nat /\ CallsSensor(Main) \in 0 .. 1 /\ Size(Sensor) \in Nat
      /\ Size(Processor) \in Nat /\ Handled \in 0 .. 1 /\ Undecided \in 0 .. 1
      /\ Early \in 0 .. 1 /\ Unconstructed \in 0 .. 1
  BY <1>0, SizesLemma DEF Sizes, CallsSensor, Handled, Undecided, Early, Unconstructed
<1>2. Heard \in Int
  BY <1>1 DEF Heard
<1>3. Taken \in Int
  BY <1>1, <1>2 DEF Taken
<1>4. Decided \in Int
  BY <1>1, <1>3 DEF Decided
<1>5. \A l \in Leds : Size(l) \in Nat /\ l \in Actors
  BY QueueSizesLemma, RolesLemma DEF QueueSizes
<1>6. ASSUME NEW l \in Leds PROVE Opened(l) \in Int
  <2>1. Count(Calling(Main, l)) \in 0 .. 1 /\ Count(Calling(Processor, l)) \in 0 .. 1
    BY <1>0
  <2> QED
    BY <1>1, <1>4, <1>5, <2>1 DEF Opened
<1>7. ASSUME NEW l \in Leds PROVE Done(l) \in Int
  <2>1. Count(msg[l] # nullptr) \in 0 .. 1
    BY <1>0
  <2> QED
    BY <1>6, <2>1 DEF Done
<1>8. \A a \in Served : a \in Actors /\ Size(a) \in Nat /\ At(a) \in Int
  BY <1>1, <1>2, <1>3, <1>5, <1>6, RolesLemma DEF Served, At
<1> QED
  BY <1>1, <1>2, <1>3, <1>4, <1>5, <1>6, <1>7, <1>8 DEF Numbers

\* So they are after every step.
LEMMA NumbersNext == IInv' => Numbers'
BY NumbersLemma, PTL

\* The numbers that a step changes nothing for.
LEMMA PlacesStay ==
    ASSUME UNCHANGED <<todo, entered, listener>>, Constructing' <=> Constructing,
           queue'[Sensor] = queue[Sensor], msg'[Sensor] = msg[Sensor],
           queue'[Processor] = queue[Processor],
           pc'[Processor] = "process" <=> pc[Processor] = "process"
    PROVE  /\ Entries' = Entries /\ CallsSensor(Main)' = CallsSensor(Main)
           /\ Size(Sensor)' = Size(Sensor) /\ Size(Processor)' = Size(Processor)
           /\ Handled' = Handled /\ Undecided' = Undecided /\ Early' = Early
           /\ Unconstructed' = Unconstructed /\ (Deaf' <=> Deaf)
           /\ Heard' = Heard /\ Taken' = Taken /\ Decided' = Decided
           /\ \A l : queue'[l] = queue[l] => Opened(l)' = Opened(l)
<1>1. /\ Entries' = Entries /\ CallsSensor(Main)' = CallsSensor(Main)
      /\ Size(Sensor)' = Size(Sensor) /\ Size(Processor)' = Size(Processor)
      /\ Handled' = Handled /\ Undecided' = Undecided /\ Early' = Early
      /\ Unconstructed' = Unconstructed /\ (Deaf' <=> Deaf)
  BY DEF Entries, CallsSensor, Size, Handled, Undecided, Early, Deaf, Unconstructed, Count
<1>2. Heard' = Heard
  BY <1>1 DEF Heard
<1>3. Taken' = Taken
  BY <1>1, <1>2 DEF Taken
<1>4. Decided' = Decided
  BY <1>1, <1>3 DEF Decided
<1>5. ASSUME NEW l, queue'[l] = queue[l] PROVE Opened(l)' = Opened(l)
  <2>1. \A t : Calling(t, l)' <=> Calling(t, l)
    BY DEF Calling
  <2>2. \A t : Count(Calling(t, l))' = Count(Calling(t, l))
    BY <2>1 DEF Count
  <2>3. Size(l)' = Size(l)
    BY <1>5 DEF Size
  <2> QED
    BY <1>1, <1>4, <2>2, <2>3 DEF Opened
<1> QED
  BY <1>1, <1>2, <1>3, <1>4, <1>5

-----------------------------------------------------------------------------
(* A mailbox and the message in hand. *)

\* A reading more changes nothing for those before.
LEMMA SuitsLater ==
    ASSUME NEW S, NEW e \in Seq(S), NEW v \in S, NEW a, NEW d, NEW k, Suits(a, d, k, e)
    PROVE  Suits(a, d, k, Append(e, v))
<1>1. /\ Len(Append(e, v)) = Len(e) + 1 /\ Len(e) \in Nat
      /\ \A i \in 1 .. Len(e) : Append(e, v)[i] = e[i]
  BY AppendProperties, LenProperties
<1>2. \A i \in 1 .. Len(e) : i \in 1 .. Len(Append(e, v))
  BY <1>1
<1> QED
  BY <1>1, <1>2 DEF Suits, Bids, Carries

\* An actor that is given nothing and takes nothing.
LEMMA InOrderStays ==
    ASSUME IInv, NEW a \in Served, InOrder(a), At(a)' = At(a),
           queue'[a] = queue[a], msg'[a] \in {msg[a], nullptr},
           \A i \in DOMAIN queue[a] : data'[queue[a][i]] = data[queue[a][i]],
           msg[a] # nullptr => data'[msg[a]] = data[msg[a]],
           \A d, k : Suits(a, d, k, entered) => Suits(a, d, k, entered')
    PROVE  InOrder(a)'
BY DEF InOrder

\* An actor that is given the message with the next number.
LEMMA InOrderGiven ==
    ASSUME IInv, NEW a \in Served, InOrder(a), At(a)' = At(a), NEW m \in Message,
           queue'[a] = Append(queue[a], m), msg'[a] = msg[a], data' = data,
           entered' = entered, Suits(a, data[m], At(a) + Size(a) + 1, entered)
    PROVE  InOrder(a)'
<1>1. queue[a] \in Seq(Message)
  BY RolesLemma DEF Served, IInv, TypeOK, VinciTypeOK
<1> DEFINE q == Append(queue[a], m)
<1>2. /\ DOMAIN q = 1 .. Len(queue[a]) + 1 /\ Len(queue[a]) \in Nat
      /\ DOMAIN queue[a] = 1 .. Len(queue[a])
      /\ q[Len(queue[a]) + 1] = m
      /\ \A i \in 1 .. Len(queue[a]) : q[i] = queue[a][i]
  BY <1>1, AppendProperties, LenProperties
<1> HIDE DEF q
<1>3. PICK n : n = Len(queue[a]) /\ n = Size(a)
  BY DEF Size
<1>4. At(a) \in Int
  BY NumbersLemma DEF Numbers
<1>5. At(a) + n + 1 = At(a) + (n + 1)
  BY <1>2, <1>3, <1>4
<1>6. \A i \in 1 .. n + 1 : i \in 1 .. n \/ i = n + 1
  BY <1>2, <1>3
<1>7. ASSUME NEW i \in DOMAIN q PROVE Suits(a, data[q[i]], At(a) + i, entered)
  <2>1. CASE i \in 1 .. n
    BY <1>2, <1>3, <2>1 DEF InOrder
  <2>2. CASE i = n + 1
    BY <1>2, <1>3, <1>5, <2>2
  <2> QED
    BY <1>2, <1>3, <1>6, <1>7, <2>1, <2>2
<1>8. queue'[a] = q
  BY DEF q
<1> QED
  BY <1>7, <1>8 DEF InOrder

\* An actor that takes the message with the next number.
LEMMA InOrderTaken ==
    ASSUME IInv, NEW a \in Served, InOrder(a), At(a)' = At(a) + 1, Receive(a),
           entered' = entered
    PROVE  InOrder(a)'
<1>1. /\ queue[a] \in Seq(Message) /\ queue[a] # <<>> /\ a \in Actors /\ a \in Queues
  BY RolesLemma DEF Served, IInv, TypeOK, VinciTypeOK, Receive
<1>2. queue'[a] = Tail(queue[a]) /\ msg'[a] = Head(queue[a]) /\ data' = data
  BY <1>1 DEF IInv, TypeOK, VinciTypeOK, Receive
<1> DEFINE q == Tail(queue[a])
<1>3. /\ DOMAIN q = 1 .. Len(q) /\ Len(q) = Len(queue[a]) - 1 /\ Len(queue[a]) \in Nat
      /\ DOMAIN queue[a] = 1 .. Len(queue[a])
      /\ \A i \in 1 .. Len(q) : q[i] = queue[a][i + 1]
      /\ Head(queue[a]) = queue[a][1] /\ 1 \in DOMAIN queue[a]
  BY <1>1, HeadTailProperties, LenProperties, EmptySeq
<1>4. At(a) \in Int
  BY NumbersLemma DEF Numbers
<1> HIDE DEF q
<1>5. ASSUME NEW i \in DOMAIN q PROVE Suits(a, data[q[i]], (At(a) + 1) + i, entered)
  <2>1. PICK j : j = i + 1 /\ j \in DOMAIN queue[a] /\ q[i] = queue[a][j]
    BY <1>3
  <2>2. (At(a) + 1) + i = At(a) + j
    BY <1>3, <1>4, <2>1
  <2> QED
    BY <2>1, <2>2 DEF InOrder
<1>6. Suits(a, data[queue[a][1]], At(a) + 1, entered)
  BY <1>3 DEF InOrder
<1>7. queue'[a] = q
  BY <1>2 DEF q
<1> QED
  BY <1>2, <1>3, <1>5, <1>6, <1>7 DEF InOrder

-----------------------------------------------------------------------------
(* What the LEDs have applied. *)

\* The registration is no reading.
LEMMA CarriesLemma ==
    ASSUME NEW S, NEW e \in Seq(S), NEW d, NEW k, Carries(d, k, e)
    PROVE  k \in Nat /\ (IsPressureSensorData(d) <=> k # 0)
BY LenProperties
DEF Carries, IsPressureSensorData, PressureSensorData, PressureSensorCmd

\* The readings in the mailboxes of the sensor and the processor.
LEMMA ReadingsQueued ==
    ASSUME IInv, NEW a \in {Sensor, Processor}, InOrder(a), At(a) >= -1
    PROVE  Queued(a, IsPressureSensorData)
             = Size(a) - Count(At(a) = -1 /\ Size(a) # 0)
<1> DEFINE Q == {i \in DOMAIN queue[a] : IsPressureSensorData(data[queue[a][i]])}
<1>1. PICK n, h : n = Len(queue[a]) /\ n = Size(a) /\ h = At(a)
  BY DEF Size
<1>2. n \in Nat /\ DOMAIN queue[a] = 1 .. n /\ h \in Int /\ h >= -1
  <2>1. queue[a] \in Seq(Message)
    BY RolesLemma DEF IInv, TypeOK, VinciTypeOK
  <2>2. At(a) \in Int
    BY NumbersLemma DEF Numbers, Served
  <2> QED
    BY <1>1, <2>1, <2>2, LenProperties
<1>3. \A i \in 1 .. n : i \in Q <=> h + i # 0
  <2> SUFFICES ASSUME NEW i \in 1 .. n
               PROVE  IsPressureSensorData(data[queue[a][i]]) <=> h + i # 0
    BY <1>2
  <2>1. Carries(data[queue[a][i]], h + i, entered)
    BY <1>1, <1>2, RolesLemma DEF InOrder, Suits
  <2> QED
    BY <2>1, CarriesLemma DEF IInv, TypeOK, SimulatorTypeOK
<1>4. Q \subseteq 1 .. n /\ Queued(a, IsPressureSensorData) = Cardinality(Q)
  BY <1>2 DEF Queued
<1> HIDE DEF Q
<1>5. CASE h >= 0
  <2>1. \A i \in 1 .. n : h + i # 0
    BY <1>2, <1>5
  <2>2. Q = 1 .. n
    BY <1>3, <1>4, <2>1
  <2>3. Cardinality(1 .. n) = n
    BY <1>2, FS_Interval
  <2>4. ~(At(a) = -1 /\ Size(a) # 0)
    BY <1>1, <1>5
  <2>5. Queued(a, IsPressureSensorData) = n
    BY <1>4, <2>2, <2>3
  <2> QED
    BY <1>1, <1>2, <2>4, <2>5 DEF Count
<1>6. CASE h = -1 /\ n = 0
  <2>1. Q = {}
    BY <1>4, <1>6
  <2>2. Queued(a, IsPressureSensorData) = 0 /\ ~(At(a) = -1 /\ Size(a) # 0)
    BY <1>1, <1>4, <1>6, <2>1, FS_EmptySet
  <2> QED
    BY <1>1, <1>6, <2>2 DEF Count
<1>7. CASE h = -1 /\ n # 0
  <2>1. \A i \in 1 .. n : h + i # 0 <=> i \in 2 .. n
    BY <1>2, <1>7
  <2>2. Q = 2 .. n
    <3>1. \A i \in 2 .. n : i \in 1 .. n
      BY <1>2
    <3> QED
      BY <1>3, <1>4, <2>1, <3>1, Zenon
  <2>3. Cardinality(2 .. n) = n - 1
    <3>1. Cardinality(2 .. n) = IF 2 > n THEN 0 ELSE n - 2 + 1
      BY <1>2, FS_Interval
    <3> QED
      BY <1>2, <1>7, <3>1
  <2>4. At(a) = -1 /\ Size(a) # 0
    BY <1>1, <1>7
  <2>5. Queued(a, IsPressureSensorData) = n - 1
    BY <1>4, <2>2, <2>3
  <2> QED
    BY <1>1, <1>2, <2>4, <2>5 DEF Count
<1> QED
  BY <1>2, <1>5, <1>6, <1>7

\* The readings that main has still to send.
LEMMA ReadingsToSend ==
    ASSUME IInv, BInv, CarriedOK, CallsInOrder
    PROVE  CallsLeft(Main, LAMBDA c : IsPressureSensorData(c.data))
             = CallsSensor(Main) - Count(CallsSensor(Main) # 0 /\ Entries = 0)
<1> DEFINE C == {i \in DOMAIN todo[Main] : IsPressureSensorData(todo[Main][i].data)}
<1>1. CallsLeft(Main, LAMBDA c : IsPressureSensorData(c.data)) = Cardinality(C)
  BY DEF CallsLeft
<1>2. todo[Main] \in Seq(Calls) /\ DOMAIN todo[Main] = 1 .. Len(todo[Main])
      /\ Len(todo[Main]) \in Nat
  BY RolesLemma, LenProperties DEF IInv, TypeOK
<1>3. \A i \in DOMAIN todo[Main] :
        todo[Main][i].to \in Leds => ~IsPressureSensorData(todo[Main][i].data)
  BY RolesLemma DEF CarriedOK, CallsOK, CallOK, IsLedCmd, IsPressureSensorData
<1>4. \A i \in DOMAIN todo[Main] : i # 1 => todo[Main][i].to \in Leds
  BY <1>2, RolesLemma DEF BInv, Callers
<1>5. todo[Main] # <<>> => 1 \in DOMAIN todo[Main] /\ Head(todo[Main]) = todo[Main][1]
  BY <1>2, EmptySeq, HeadTailProperties
<1>6. CASE CallsSensor(Main) = 0
  <2>1. \A i \in DOMAIN todo[Main] : todo[Main][i].to \in Leds
    <3>1. todo[Main] # <<>> => Head(todo[Main]).to \in Leds
      BY <1>6 DEF CallsSensor, Count
    <3>2. todo[Main] = <<>> => DOMAIN todo[Main] = {}
      OBVIOUS
    <3> QED
      BY <1>4, <1>5, <3>1, <3>2
  <2>2. C = {}
    BY <1>3, <2>1
  <2>3. Cardinality(C) = 0 /\ ~(CallsSensor(Main) # 0 /\ Entries = 0)
    BY <1>6, <2>2, FS_EmptySet
  <2> QED
    BY <1>1, <1>6, <2>3 DEF Count
<1>7. CASE CallsSensor(Main) # 0
  <2>1. CallsSensor(Main) = 1 /\ todo[Main] # <<>>
    BY <1>7 DEF CallsSensor, Count
  <2>2. /\ Entries \in Nat
        /\ IsPressureSensorData(todo[Main][1].data) <=> Entries # 0
    <3>1. Carries(todo[Main][1].data, Entries, entered)
      BY <1>7 DEF CallsInOrder
    <3> QED
      BY <3>1, CarriesLemma DEF IInv, TypeOK, SimulatorTypeOK
  <2>3. CASE Entries # 0
    <3>1. C = {1}
      BY <1>3, <1>4, <1>5, <2>1, <2>2, <2>3
    <3>2. Cardinality(C) = 1
      BY <3>1, FS_Singleton
    <3> QED
      BY <1>1, <2>1, <2>3, <3>2 DEF Count
  <2>4. CASE Entries = 0
    <3>1. C = {}
      BY <1>3, <1>4, <2>2, <2>4
    <3>2. Cardinality(C) = 0
      BY <3>1, FS_EmptySet
    <3> QED
      BY <1>1, <2>1, <2>4, <3>2 DEF Count
  <2> QED
    BY <2>3, <2>4
<1> QED
  BY <1>6, <1>7

\* The readings not decided yet.
LEMMA ReadingsNotDecided ==
    ASSUME Source = Main, IInv, BInv, CarriedOK, Order
    PROVE  ReadingsLeft = Entries - Decided
<1> DEFINE h == Count(msg[Sensor] # nullptr /\ IsPressureSensorData(data[msg[Sensor]]))
<1>1. Numbers
  BY NumbersLemma
<1>2. PICK c, s, p, x, r : /\ c = CallsLeft(Main, LAMBDA k : IsPressureSensorData(k.data))
                           /\ s = Queued(Sensor, IsPressureSensorData)
                           /\ p = Queued(Processor, IsPressureSensorData)
                           /\ x = h
                           /\ r = ReadingsLeft
  OBVIOUS
<1>3. r = c + s + p + x + Undecided
  BY <1>2 DEF ReadingsLeft, CallsLeft, Queued, Undecided
<1>4. c = CallsSensor(Main) - Count(CallsSensor(Main) # 0 /\ Entries = 0)
  BY <1>2, ReadingsToSend DEF Order
<1>5. /\ At(Sensor) = Heard /\ At(Processor) = Taken
      /\ InOrder(Sensor) /\ InOrder(Processor)
  BY RolesLemma DEF At, Order, Served
<1>6. /\ Heard >= -1 => s = Size(Sensor) - Count(Heard = -1 /\ Size(Sensor) # 0)
      /\ Taken >= -1 => p = Size(Processor) - Count(Taken = -1 /\ Size(Processor) # 0)
  BY <1>2, <1>5, ReadingsQueued
<1>7. x = Handled - Count(Handled # 0 /\ Heard = 0)
  <2>1. CASE msg[Sensor] = nullptr
    BY <1>2, <2>1 DEF Handled, Count
  <2>2. CASE msg[Sensor] # nullptr
    <3>1. Carries(data[msg[Sensor]], Heard, entered)
      BY <1>5, <2>2, RolesLemma DEF InOrder, Suits
    <3>2. IsPressureSensorData(data[msg[Sensor]]) <=> Heard # 0
      BY <3>1, CarriesLemma DEF IInv, TypeOK, SimulatorTypeOK
    <3> QED
      BY <1>2, <2>2, <3>2 DEF Handled, Count
  <2> QED
    BY <2>1, <2>2
<1> HIDE DEF h
<1>8. /\ Heard = Entries - CallsSensor(Main) - Size(Sensor)
      /\ Taken = Heard - Handled - Size(Processor)
      /\ Decided = Taken - Undecided + Early
  BY DEF Heard, Taken, Decided
<1>9. CASE Constructing
  <2>1. /\ Entries = 0 /\ Size(Sensor) = 0 /\ Handled = 0 /\ Size(Processor) = 0
        /\ Undecided = 0 /\ CallsSensor(Main) = 0 /\ Early = 0
    BY <1>9 DEF Order, Stages, BInv, Callers, CallsSensor, Early, Count
  <2>2. Heard = 0 /\ Taken = 0 /\ Decided = 0
    BY <1>8, <2>1
  <2>3. c = 0 /\ s = 0 /\ p = 0 /\ x = 0
    BY <1>4, <1>6, <1>7, <2>1, <2>2 DEF Count
  <2> QED
    BY <1>2, <1>3, <2>1, <2>2, <2>3
<1>10. CASE Deaf /\ ~Constructing
  <2>1. Size(Processor) = 0 /\ Undecided = 0 /\ Early = 1 /\ Heard - Handled = -1
    BY <1>10 DEF Order, Stages, Early, Count
  <2>2. Taken = -1 /\ Decided = 0
    BY <1>1, <1>8, <2>1 DEF Numbers
  <2>3. p = 0
    BY <1>6, <2>1, <2>2 DEF Count
  <2>4. CASE Handled = 1
    <3>1. Heard = 0
      BY <1>1, <2>1, <2>4 DEF Numbers
    <3>2. x = 0 /\ s = Size(Sensor) /\ c = CallsSensor(Main)
      <4>1. CallsSensor(Main) # 0 => Entries # 0
        BY <1>1, <1>8, <3>1 DEF Numbers
      <4> QED
        BY <1>1, <1>4, <1>6, <1>7, <2>4, <3>1, <4>1 DEF Numbers, Count
    <3> QED
      BY <1>1, <1>2, <1>3, <1>8, <2>1, <2>2, <2>3, <3>1, <3>2 DEF Numbers
  <2>5. CASE Handled = 0
    <3>1. Heard = -1 /\ x = 0
      BY <1>1, <1>7, <2>1, <2>5 DEF Numbers, Count
    <3>2. CASE Size(Sensor) = 0
      <4>1. CallsSensor(Main) = 1 /\ Entries = 0
        BY <1>1, <1>8, <3>1, <3>2 DEF Numbers
      <4>2. c = 0 /\ s = 0
        BY <1>4, <1>6, <3>1, <3>2, <4>1 DEF Count
      <4> QED
        BY <1>2, <1>3, <2>1, <2>2, <2>3, <3>1, <4>1, <4>2
    <3>3. CASE Size(Sensor) # 0
      <4>1. CallsSensor(Main) # 0 => Entries # 0
        BY <1>1, <1>8, <3>1, <3>3 DEF Numbers
      <4>2. c = CallsSensor(Main) /\ s = Size(Sensor) - 1
        BY <1>1, <1>4, <1>6, <3>1, <3>3, <4>1 DEF Numbers, Count
      <4> QED
        BY <1>1, <1>2, <1>3, <1>8, <2>1, <2>2, <2>3, <3>1, <4>2 DEF Numbers
    <3> QED
      BY <3>2, <3>3
  <2> QED
    BY <1>1, <2>4, <2>5 DEF Numbers
<1>11. CASE ~Deaf
  <2>1. Early = 0 /\ Taken - Undecided >= 0
    BY <1>11 DEF Order, Stages, Early, Count
  <2>2. Taken >= 0 /\ Heard >= 0 /\ (Handled # 0 => Heard # 0)
        /\ (CallsSensor(Main) # 0 => Entries # 0)
    BY <1>1, <1>8, <2>1 DEF Numbers
  <2>3. c = CallsSensor(Main) /\ s = Size(Sensor) /\ p = Size(Processor) /\ x = Handled
    BY <1>1, <1>4, <1>6, <1>7, <2>2 DEF Numbers, Count
  <2> QED
    BY <1>1, <1>2, <1>3, <1>8, <2>1, <2>3 DEF Numbers
<1> QED
  BY <1>9, <1>10, <1>11

\* The commands for a LED that a thread has still to send.
LEMMA CallsOfLed ==
    ASSUME IInv, Once, NEW t \in Threads, NEW l \in Leds
    PROVE  CallsLeft(t, LAMBDA c : c.to = l) = Count(Calling(t, l))
<1> DEFINE C == {i \in DOMAIN todo[t] : todo[t][i].to = l}
<1>1. CallsLeft(t, LAMBDA c : c.to = l) = Cardinality(C)
  BY DEF CallsLeft
<1>2. CASE Calling(t, l)
  <2>1. PICK i \in DOMAIN todo[t] : todo[t][i].to = l
    BY <1>2 DEF Calling
  <2>2. C = {i}
    BY <2>1 DEF Once
  <2>3. Cardinality(C) = 1
    BY <2>2, FS_Singleton
  <2> QED
    BY <1>1, <1>2, <2>3 DEF Count
<1>3. CASE ~Calling(t, l)
  <2>1. C = {}
    BY <1>3 DEF Calling
  <2>2. Cardinality(C) = 0
    BY <2>1, FS_EmptySet
  <2> QED
    BY <1>1, <1>3, <2>2 DEF Count
<1> QED
  BY <1>2, <1>3

\* The commands a LED has applied are those it has taken and released.
LEMMA AppliedLemma ==
    ASSUME Source = Main
    PROVE  IInv /\ BInv /\ CarriedOK /\ Order => Same
<1> SUFFICES ASSUME IInv, BInv, CarriedOK, Order, NEW l \in Leds
             PROVE  Done(l) = Applied[l]
  BY DEF Same
<1>1. Numbers
  BY NumbersLemma
<1>2. PICK m, p, r, a, u, n :
        /\ m = Count(Calling(Main, l)) /\ p = Count(Calling(Processor, l))
        /\ r = ReadingsLeft /\ a = Applied[l] /\ u = Count(msg[l] # nullptr)
        /\ n = Size(l)
  OBVIOUS
<1>3. m \in 0 .. 1 /\ p \in 0 .. 1 /\ u \in 0 .. 1 /\ n \in Nat
  BY <1>1, <1>2 DEF Count, Numbers
<1>4. CommandsLeft(l) = r + Unconstructed + m + p + n + u
  <2>1. /\ CallsLeft(Main, LAMBDA c : c.to = l) = m
        /\ CallsLeft(Processor, LAMBDA c : c.to = l) = p
    BY <1>2, CallsOfLed, RolesLemma DEF Order
  <2> QED
    BY <1>2, <2>1 DEF CommandsLeft, Unconstructed, Constructing, Size
<1>5. a = 1 + Entries - CommandsLeft(l)
  BY <1>2 DEF Applied, Entries
<1>6. r = Entries - Decided
  BY <1>2, ReadingsNotDecided
<1>7. Done(l) = Decided - Unconstructed - n - m - p + 1 - u
  BY <1>2 DEF Done, Opened
<1>8. a = Done(l)
  BY <1>1, <1>3, <1>4, <1>5, <1>6, <1>7 DEF Numbers
<1> QED
  BY <1>2, <1>8

\* So it is after every step.
LEMMA AppliedNext ==
    ASSUME Source = Main
    PROVE  IInv' /\ BInv' /\ CarriedOK' /\ Order' => Same'
BY AppliedLemma, PTL

-----------------------------------------------------------------------------
(* The steps and the order of the commands. *)

\* LED l keeps its rate, or takes the next one due to it.
Rests(l) == Done(l)' = Done(l) /\ waitDelay'[l] = waitDelay[l]
Applies(l) ==
    /\ Done(l)' = Done(l) + 1
    /\ \/ Done(l) = 0 /\ waitDelay'[l] = First(l)
       \/ Done(l) \in 1 .. Entries /\ waitDelay'[l] = Commanded(entered[Done(l)], l)

\* What a step can do about readings and rates.
Effect ==
    \/ entered' = entered /\ \A l \in Leds : Rests(l)
    \/ \E p \in Pressures \ {0} : entered' = Append(entered, p)
                                  /\ \A l \in Leds : Rests(l)
    \/ entered' = entered /\ \E l \in Leds : /\ Applies(l)
                                             /\ \A k \in Leds \ {l} : Rests(k)

\* A step that makes no call and no decision.
LEMMA CallsStay ==
    ASSUME CallsInOrder, Once, UNCHANGED <<todo, entered>>, Decided' = Decided
    PROVE  CallsInOrder' /\ Once'
<1>1. /\ CallsSensor(Main)' = CallsSensor(Main) /\ Entries' = Entries
      /\ \A l : Calling(Main, l)' <=> Calling(Main, l)
  BY DEF CallsSensor, Count, Entries, Calling
<1> QED
  BY <1>1 DEF CallsInOrder, Once

\* A LED's count stays with its messages.
LEMMA DoneStays ==
    ASSUME NEW l, Opened(l)' = Opened(l), msg'[l] # nullptr <=> msg[l] # nullptr
    PROVE  Done(l)' = Done(l)
BY DEF Done, Count

\* A step that gives and takes no message but those of the pool.
LEMMA OrderStays ==
    ASSUME IInv, Order, UNCHANGED <<todo, entered, listener, waitDelay>>,
           Constructing' <=> Constructing,
           pc'[Processor] = "process" <=> pc[Processor] = "process",
           \A a \in Served :
             /\ queue'[a] = queue[a]
             /\ msg'[a] = msg[a] \/ (a = Processor /\ msg'[a] = nullptr)
             /\ \A i \in DOMAIN queue[a] : data'[queue[a][i]] = data[queue[a][i]]
             /\ msg[a] # nullptr => data'[msg[a]] = data[msg[a]]
    PROVE  Order' /\ Effect
<1>1. /\ queue'[Sensor] = queue[Sensor] /\ msg'[Sensor] = msg[Sensor]
      /\ queue'[Processor] = queue[Processor]
      /\ \A l \in Leds : queue'[l] = queue[l] /\ msg'[l] = msg[l]
  BY RolesLemma DEF Served
<1>2. /\ Entries' = Entries /\ CallsSensor(Main)' = CallsSensor(Main)
      /\ Size(Sensor)' = Size(Sensor) /\ Size(Processor)' = Size(Processor)
      /\ Handled' = Handled /\ Undecided' = Undecided
      /\ Heard' = Heard /\ Taken' = Taken /\ Decided' = Decided /\ (Deaf' <=> Deaf)
      /\ \A l \in Leds : Opened(l)' = Opened(l)
  BY <1>1, PlacesStay
<1>3. \A a \in Served : At(a)' = At(a)
  BY <1>2, RolesLemma DEF At, Served
<1>4. \A a \in Served : InOrder(a)'
  BY <1>3, InOrderStays DEF Order
<1>5. CallsInOrder' /\ Once'
  BY <1>2, CallsStay DEF Order
<1>6. Stages'
  BY <1>2 DEF Order, Stages
<1>7. \A l \in Leds : Rests(l)
  BY <1>1, <1>2, DoneStays DEF Rests
<1> QED
  BY <1>4, <1>5, <1>6, <1>7 DEF Order, Effect

\* Taking a message, as the numbers see it.
LEMMA ReceiveLemma ==
    ASSUME IInv, NEW a \in Actors, Receive(a)
    PROVE  /\ Size(a)' = Size(a) - 1 /\ Size(a) \in Nat \ {0}
           /\ msg[a] = nullptr /\ msg'[a] # nullptr
           /\ pc[a] = "wait" /\ pc'[a] = "process"
           /\ \A b \in Actors \ {a} : /\ queue'[b] = queue[b] /\ msg'[b] = msg[b]
                                      /\ pc'[b] = pc[b]
           /\ pc'[Main] = pc[Main]
<1>1. /\ queue[a] \in Seq(Message) /\ queue[a] # <<>>
      /\ queue \in [Queues -> Seq(Message)] /\ a \in Queues
      /\ queue' = [queue EXCEPT ![a] = Tail(@)]
  BY RolesLemma DEF IInv, TypeOK, VinciTypeOK, Receive
<1>2. /\ Len(Tail(queue[a])) = Len(queue[a]) - 1 /\ Len(queue[a]) \in Nat \ {0}
      /\ Head(queue[a]) \in Message
  BY <1>1, HeadTailProperties, LenProperties, EmptySeq
<1>3. Size(a)' = Size(a) - 1 /\ Size(a) \in Nat \ {0}
  BY <1>1, <1>2 DEF Size
<1>4. Head(queue[a]) # nullptr
  BY <1>2, PoolSizeAssumption DEF Message, nullptr
<1>5. msg[a] = nullptr /\ pc[a] = "wait"
  BY DEF Receive, IInv, Handling, MsgInHand
<1>6. /\ msg' = [msg EXCEPT ![a] = Head(queue[a])]
      /\ pc' = [pc EXCEPT ![a] = "process"]
      /\ msg \in [Actors -> Message \cup {nullptr}] /\ a # Main /\ a \in Threads
      /\ pc \in [Threads -> {"none", "wait", "process", "finish",
                             "base", "derived", "body", "run"}]
  BY RolesLemma DEF Receive, Goto, IInv, TypeOK, VinciTypeOK, Threads
<1>7. msg'[a] # nullptr /\ pc'[a] = "process" /\ pc'[Main] = pc[Main]
  BY <1>4, <1>6, RolesLemma
<1>8. \A b \in Actors \ {a} : queue'[b] = queue[b] /\ msg'[b] = msg[b] /\ pc'[b] = pc[b]
  BY <1>1, <1>6, RolesLemma DEF Threads
<1> QED
  BY <1>3, <1>5, <1>7, <1>8

\* An actor takes the message with the next number.
LEMMA ReceiveOrdered ==
    ASSUME IInv, Order, NEW a \in Actors, Receive(a),
           UNCHANGED <<on, listener, simulatorVars, overridden>>
    PROVE  Order' /\ Effect
<1>1. /\ Size(a)' = Size(a) - 1 /\ Size(a) \in Nat \ {0}
      /\ msg[a] = nullptr /\ msg'[a] # nullptr
      /\ pc[a] = "wait" /\ pc'[a] = "process"
      /\ \A b \in Actors \ {a} : /\ queue'[b] = queue[b] /\ msg'[b] = msg[b]
                                 /\ pc'[b] = pc[b]
      /\ pc'[Main] = pc[Main]
  BY ReceiveLemma
<1>2. UNCHANGED <<todo, entered, listener, waitDelay, data, draft>>
  BY DEF Receive, simulatorVars
<1>3. Constructing' <=> Constructing
  BY <1>1 DEF Constructing
<1>4. Numbers
  BY NumbersLemma
<1>5. /\ Entries' = Entries /\ CallsSensor(Main)' = CallsSensor(Main) /\ Early' = Early
      /\ Unconstructed' = Unconstructed /\ (Deaf' <=> Deaf)
      /\ \A t, l : Calling(t, l)' <=> Calling(t, l)
  BY <1>2, <1>3
  DEF Entries, CallsSensor, Early, Unconstructed, Deaf, Calling, Count
<1>6. \A t, l : Count(Calling(t, l))' = Count(Calling(t, l))
  BY <1>5 DEF Count
<1>7. CASE a = Sensor
  <2>1. /\ queue'[Processor] = queue[Processor] /\ pc'[Processor] = pc[Processor]
        /\ \A b \in Served \ {a} : queue'[b] = queue[b] /\ msg'[b] = msg[b]
    BY <1>1, <1>7, RolesLemma DEF Served
  <2>2. Handled' = 1 /\ Handled = 0 /\ Undecided' = Undecided
        /\ Size(Processor)' = Size(Processor) /\ Size(Sensor)' = Size(Sensor) - 1
    BY <1>1, <1>7, <2>1 DEF Handled, Undecided, Size, Count
  <2>3. Heard' = Heard + 1
    BY <1>4, <1>5, <2>2 DEF Numbers, Heard
  <2>4. Taken' = Taken
    BY <1>4, <2>2, <2>3 DEF Numbers, Taken
  <2>5. Decided' = Decided
    BY <1>5, <2>2, <2>4 DEF Decided
  <2>6. \A l \in Leds : Opened(l)' = Opened(l) /\ msg'[l] = msg[l]
    <3> SUFFICES ASSUME NEW l \in Leds PROVE Opened(l)' = Opened(l) /\ msg'[l] = msg[l]
      OBVIOUS
    <3>1. queue'[l] = queue[l] /\ msg'[l] = msg[l]
      BY <1>7, <2>1, RolesLemma DEF Served
    <3>2. Size(l)' = Size(l)
      BY <3>1 DEF Size
    <3> QED
      BY <1>5, <1>6, <2>5, <3>1, <3>2 DEF Opened
  <2>7. \A b \in Served \ {Sensor} : At(b)' = At(b)
    BY <2>4, <2>6 DEF At, Served
  <2>8. At(Sensor)' = At(Sensor) + 1
    BY <2>3 DEF At
  <2>9. \A b \in Served : InOrder(b)'
    <3>1. InOrder(Sensor)'
      BY <1>2, <1>7, <2>8, InOrderTaken DEF Order, Served
    <3>2. \A b \in Served \ {Sensor} : InOrder(b)'
      BY <1>2, <1>7, <2>1, <2>7, InOrderStays DEF Order
    <3> QED
      BY <3>1, <3>2
  <2>10. Stages'
    BY <1>1, <1>3, <1>4, <1>5, <1>7, <2>2, <2>3, <2>4 DEF Numbers, Order, Stages
  <2>11. \A l \in Leds : Rests(l)
    BY <1>2, <2>6, DoneStays DEF Rests
  <2> QED
    BY <1>2, <2>5, <2>9, <2>10, <2>11, CallsStay DEF Order, Effect
<1>8. CASE a = Processor
  <2>1. /\ queue'[Sensor] = queue[Sensor] /\ msg'[Sensor] = msg[Sensor]
        /\ \A b \in Served \ {a} : queue'[b] = queue[b] /\ msg'[b] = msg[b]
    BY <1>1, <1>8, RolesLemma DEF Served
  <2>2. Handled' = Handled /\ Undecided = 0 /\ Undecided' = 1
        /\ Size(Processor)' = Size(Processor) - 1 /\ Size(Sensor)' = Size(Sensor)
    BY <1>1, <1>8, <2>1 DEF Handled, Undecided, Size, Count
  <2>3. Heard' = Heard
    BY <1>5, <2>2 DEF Heard
  <2>4. Taken' = Taken + 1
    BY <1>4, <2>2, <2>3 DEF Numbers, Taken
  <2>5. Decided' = Decided
    BY <1>4, <1>5, <2>2, <2>4 DEF Numbers, Decided
  <2>6. \A l \in Leds : Opened(l)' = Opened(l) /\ msg'[l] = msg[l]
    <3> SUFFICES ASSUME NEW l \in Leds PROVE Opened(l)' = Opened(l) /\ msg'[l] = msg[l]
      OBVIOUS
    <3>1. queue'[l] = queue[l] /\ msg'[l] = msg[l]
      BY <1>8, <2>1, RolesLemma DEF Served
    <3>2. Size(l)' = Size(l)
      BY <3>1 DEF Size
    <3> QED
      BY <1>5, <1>6, <2>5, <3>1, <3>2 DEF Opened
  <2>7. \A b \in Served \ {Processor} : At(b)' = At(b)
    BY <2>3, <2>6 DEF At, Served
  <2>8. At(Processor)' = At(Processor) + 1
    BY <2>4, RolesLemma DEF At
  <2>9. \A b \in Served : InOrder(b)'
    <3>1. InOrder(Processor)'
      BY <1>2, <1>8, <2>8, InOrderTaken DEF Order, Served
    <3>2. \A b \in Served \ {Processor} : InOrder(b)'
      BY <1>2, <1>8, <2>1, <2>7, InOrderStays DEF Order
    <3> QED
      BY <3>1, <3>2
  <2>10. ~Deaf
    BY <1>1, <1>8 DEF Order, Stages
  <2>11. Stages'
    BY <1>3, <1>4, <1>5, <2>2, <2>3, <2>4, <2>10 DEF Numbers, Order, Stages
  <2>12. \A l \in Leds : Rests(l)
    BY <1>2, <2>6, DoneStays DEF Rests
  <2> QED
    BY <1>2, <2>5, <2>9, <2>11, <2>12, CallsStay DEF Order, Effect
<1>9. CASE a \notin {Sensor, Processor}
  <2>1. /\ queue'[Sensor] = queue[Sensor] /\ msg'[Sensor] = msg[Sensor]
        /\ queue'[Processor] = queue[Processor] /\ msg'[Processor] = msg[Processor]
        /\ pc'[Processor] = pc[Processor]
        /\ \A b \in Served \ {a} : queue'[b] = queue[b] /\ msg'[b] = msg[b]
    BY <1>1, <1>9, RolesLemma DEF Served
  <2>2. /\ Entries' = Entries /\ Size(Sensor)' = Size(Sensor)
        /\ Size(Processor)' = Size(Processor)
        /\ Handled' = Handled /\ Undecided' = Undecided
        /\ Heard' = Heard /\ Taken' = Taken /\ Decided' = Decided
        /\ \A l : queue'[l] = queue[l] => Opened(l)' = Opened(l)
    BY <1>2, <1>3, <2>1, PlacesStay
  <2>3. CASE a \notin Leds
    BY <1>2, <1>3, <1>9, <2>1, <2>3, OrderStays, RolesLemma DEF Served
  <2>4. CASE a \in Leds
    <3>1. Opened(a)' = Opened(a) + 1
      <4>1. PICK m, p : m = Count(Calling(Main, a)) /\ p = Count(Calling(Processor, a))
        OBVIOUS
      <4>2. m \in 0 .. 1 /\ p \in 0 .. 1
        BY <4>1 DEF Count
      <4>3. Opened(a) = Decided - Unconstructed - Size(a) - m - p
        BY <4>1 DEF Opened
      <4>4. Opened(a)' = Decided - Unconstructed - Size(a)' - m - p
        BY <1>5, <1>6, <2>2, <4>1 DEF Opened
      <4> QED
        BY <1>1, <1>4, <4>2, <4>3, <4>4 DEF Numbers
    <3>2. Done(a)' = Done(a)
      <4>1. Count(msg[a] # nullptr) = 0 /\ Count(msg[a] # nullptr)' = 1
        BY <1>1 DEF Count
      <4>2. Opened(a) \in Int
        BY <1>4, <2>4 DEF Numbers
      <4> QED
        BY <3>1, <4>1, <4>2 DEF Done
    <3>3. \A l \in Leds : Rests(l)
      BY <1>2, <2>1, <2>2, <3>2, DoneStays, RolesLemma DEF Rests, Served
    <3>4. At(a)' = At(a) + 1 /\ \A b \in Served \ {a} : At(b)' = At(b)
      BY <1>9, <2>1, <2>2, <3>1 DEF At, Served
    <3>5. \A b \in Served : InOrder(b)'
      <4>1. InOrder(a)'
        BY <1>2, <2>4, <3>4, InOrderTaken DEF Order, Served
      <4>2. \A b \in Served \ {a} : InOrder(b)'
        BY <1>2, <2>1, <3>4, InOrderStays DEF Order
      <4> QED
        BY <4>1, <4>2
    <3>6. Stages'
      BY <1>3, <1>5, <2>2 DEF Order, Stages
    <3> QED
      BY <1>2, <2>2, <3>3, <3>5, <3>6, CallsStay DEF Order, Effect
  <2> QED
    BY <2>3, <2>4
<1> QED
  BY <1>7, <1>8, <1>9

\* A reading is decided after it is entered.
LEMMA DecidedLemma ==
    ASSUME IInv, BInv, Order
    PROVE  /\ Decided \in 0 .. Entries
           /\ Constructing => Decided = 0 /\ Heard = 0 /\ Taken = 0
<1>1. Numbers
  BY NumbersLemma
<1>2. /\ Heard = Entries - CallsSensor(Main) - Size(Sensor)
      /\ Taken = Heard - Handled - Size(Processor)
      /\ Decided = Taken - Undecided + Early
  BY DEF Heard, Taken, Decided
<1>3. CASE Constructing
  <2>1. /\ Entries = 0 /\ Size(Sensor) = 0 /\ Handled = 0 /\ Size(Processor) = 0
        /\ Undecided = 0 /\ CallsSensor(Main) = 0 /\ Early = 0
    BY <1>3 DEF Order, Stages, BInv, Callers, CallsSensor, Early, Count
  <2> QED
    BY <1>2, <2>1
<1>4. CASE Deaf /\ ~Constructing
  <2>1. Size(Processor) = 0 /\ Undecided = 0 /\ Early = 1 /\ Heard - Handled = -1
    BY <1>4 DEF Order, Stages, Early, Count
  <2>2. Taken = -1
    BY <1>1, <1>2, <2>1 DEF Numbers
  <2>3. Decided = 0 /\ Entries \in Nat
    BY <1>1, <1>2, <2>1, <2>2 DEF Numbers
  <2> QED
    BY <1>4, <2>3
<1>5. CASE ~Deaf
  <2>1. Early = 0 /\ Taken - Undecided >= 0 /\ ~Constructing
    BY <1>5 DEF Order, Stages, Early, Count
  <2> QED
    BY <1>1, <1>2, <2>1 DEF Numbers
<1> QED
  BY <1>3, <1>4, <1>5

\* The calls left once the first of a thread is made.
LEMMA CallsAfter ==
    ASSUME IInv, BInv, Once, NEW t \in Threads, todo[t] # <<>>,
           todo' = [todo EXCEPT ![t] = Tail(@)]
    PROVE  /\ Once' /\ CallsSensor(t)' = 0
           /\ \A l : l = todo[t][1].to => Calling(t, l) /\ ~Calling(t, l)'
<1>1. /\ 1 \in DOMAIN todo[t]
      /\ \A i \in DOMAIN todo'[t] : i + 1 \in DOMAIN todo[t] /\ todo'[t][i] = todo[t][i + 1]
      /\ \A u \in Threads \ {t} : todo'[u] = todo[u]
  BY CallsLater
<1>2. todo'[t] \in Seq(Calls)
  BY HeadTailProperties DEF IInv, TypeOK
<1>3. /\ \A i \in DOMAIN todo'[t] : i \in Nat /\ i + 1 > 1
      /\ todo'[t] # <<>> => 1 \in DOMAIN todo'[t] /\ Head(todo'[t]) = todo'[t][1]
  BY <1>2, LenProperties, EmptySeq, HeadTailProperties
<1>4. \A i \in DOMAIN todo'[t] : todo'[t][i].to \in Leds
  BY <1>1, <1>3 DEF BInv, Callers
<1>5. ~(todo'[t] # <<>> /\ Head(todo'[t]).to \notin Leds)
  BY <1>3, <1>4
<1>6. CallsSensor(t)' = 0
  BY <1>5 DEF CallsSensor, Count
<1>7. ASSUME NEW i \in DOMAIN todo'[t], NEW j \in DOMAIN todo'[t],
             todo'[t][i].to = todo'[t][j].to
      PROVE  i = j
  <2>1. i + 1 = j + 1
    BY <1>1, <1>7 DEF Once
  <2> QED
    BY <1>3, <2>1
<1>8. Once'
  BY <1>1, <1>7 DEF Once
<1>9. ASSUME NEW l, l = todo[t][1].to PROVE Calling(t, l) /\ ~Calling(t, l)'
  <2>1. \A i \in DOMAIN todo'[t] : todo'[t][i].to # todo[t][1].to
    <3> SUFFICES ASSUME NEW i \in DOMAIN todo'[t], todo'[t][i].to = todo[t][1].to
                 PROVE  FALSE
      OBVIOUS
    <3>1. i + 1 = 1
      BY <1>1 DEF Once
    <3> QED
      BY <1>3, <3>1
  <2> QED
    BY <1>1, <1>9, <2>1 DEF Calling
<1> QED
  BY <1>6, <1>8, <1>9

\* A call made gives its actor the message with the next number.
LEMMA SendOrdered ==
    ASSUME Source = Main, Main \notin Interrupts, IInv, BInv, CarriedOK, Order,
           NEW t \in Threads, Send(t),
           UNCHANGED <<on, listener, simulatorVars, overridden>>
    PROVE  Order' /\ Effect
<1>0. PICK a, m : a = Head(todo[t]).to /\ m = draft[t]
  OBVIOUS
<1>1. /\ m \in Message /\ todo[t] # <<>>
      /\ todo' = [todo EXCEPT ![t] = Tail(@)]
      /\ UNCHANGED <<data, pc, msg, listener, entered, waitDelay>>
      /\ queue \in [Queues -> Seq(Message)]
      /\ queue' = [queue EXCEPT ![a] = Append(@, m)]
      /\ t \in {Main, Processor}
  BY <1>0
  DEF Send, Push, simulatorVars, IInv, TypeOK, VinciTypeOK, Handling, DraftForCall,
      BInv, Callers
<1>2. /\ Head(todo[t]) = todo[t][1] /\ 1 \in DOMAIN todo[t] /\ a = todo[t][1].to
      /\ \A i \in DOMAIN todo'[t] : i + 1 \in DOMAIN todo[t] /\ todo'[t][i] = todo[t][i + 1]
      /\ \A u \in Threads \ {t} : todo'[u] = todo[u]
      /\ \A u \in Threads : \A l : u # t \/ a # l => (Calling(u, l)' <=> Calling(u, l))
  BY <1>0, <1>1, CallsLater
<1>3. /\ Once' /\ CallsSensor(t)' = 0
      /\ Calling(t, a) /\ ~Calling(t, a)'
  BY <1>1, <1>2, CallsAfter DEF Order
<1>4. CallOK(t, todo[t][1]) /\ data[m] = todo[t][1].data
  BY <1>0, <1>1, <1>2 DEF CarriedOK, CallsOK, DraftsOK, Send
<1>5. a \in Served /\ a # Processor /\ (a = Sensor => t = Main)
  BY <1>1, <1>2, <1>4, RolesLemma DEF CallOK, Served
<1>6. /\ queue'[a] = Append(queue[a], m) /\ Size(a)' = Size(a) + 1 /\ Size(a) \in Nat
      /\ \A b \in Served \ {a} : queue'[b] = queue[b]
  <2>1. a \in Queues /\ \A b \in Served : b \in Queues
    BY <1>5, RolesLemma DEF Served
  <2>2. queue'[a] = Append(queue[a], m) /\ \A b \in Served \ {a} : queue'[b] = queue[b]
    BY <1>1, <2>1
  <2>3. Len(Append(queue[a], m)) = Len(queue[a]) + 1 /\ Len(queue[a]) \in Nat
    BY <1>1, <2>1, AppendProperties, LenProperties
  <2> QED
    BY <2>2, <2>3 DEF Size
<1>7. Numbers /\ Numbers'
  <2>1. IInv'
    BY SendKeepsInv
  <2> QED
    BY <2>1, NumbersLemma, NumbersNext
<1>8. /\ Entries' = Entries /\ Handled' = Handled /\ Undecided' = Undecided
      /\ Early' = Early /\ Unconstructed' = Unconstructed
      /\ (Deaf' <=> Deaf) /\ (Constructing' <=> Constructing)
  BY <1>1 DEF Entries, Handled, Undecided, Early, Unconstructed, Deaf, Constructing, Count
<1>9. Size(Processor)' = Size(Processor)
  BY <1>5, <1>6 DEF Size, Served
<1>10. Heard' = Heard
  <2>1. CASE a = Sensor
    <3>1. CallsSensor(Main) = 1 /\ CallsSensor(Main)' = 0
      BY <1>0, <1>1, <1>3, <1>5, <2>1, RolesLemma DEF CallsSensor, Count
    <3> QED
      BY <1>6, <1>7, <1>8, <2>1, <3>1 DEF Numbers, Heard
  <2>2. CASE a # Sensor
    <3>1. a \in Leds
      BY <1>5, <2>2 DEF Served
    <3>2. CallsSensor(Main)' = CallsSensor(Main)
      <4>1. CASE t = Main
        BY <1>0, <1>3, <3>1, <4>1 DEF CallsSensor, Count
      <4>2. CASE t # Main
        <5>1. todo'[Main] = todo[Main]
          BY <1>2, <4>2, RolesLemma
        <5> QED
          BY <5>1 DEF CallsSensor, Count
      <4> QED
        BY <4>1, <4>2
    <3>3. Size(Sensor)' = Size(Sensor)
      BY <1>6, <2>2 DEF Size, Served
    <3> QED
      BY <1>8, <3>2, <3>3 DEF Heard
  <2> QED
    BY <2>1, <2>2
<1>11. Taken' = Taken
  BY <1>8, <1>9, <1>10 DEF Taken
<1>12. Decided' = Decided
  BY <1>8, <1>11 DEF Decided
<1>13. ~Constructing
  <2>1. CASE t = Main
    BY <1>1, <2>1 DEF BInv, Callers
  <2>2. CASE t = Processor
    <3>1. Decided >= 1
      BY <1>2, <2>2 DEF Order, CallsInOrder
    <3> QED
      BY <3>1, DecidedLemma
  <2> QED
    BY <1>1, <2>1, <2>2
<1>14. CASE a = Sensor
  <2>1. /\ t = Main /\ CallsSensor(Main) = 1 /\ CallsSensor(Main)' = 0
    BY <1>0, <1>1, <1>3, <1>5, <1>14, RolesLemma DEF CallsSensor, Count
  <2>2. /\ \A u \in Threads, l \in Leds : Calling(u, l)' <=> Calling(u, l)
        /\ todo'[Processor] = todo[Processor]
    BY <1>2, <1>14, <2>1, RolesLemma
  <2>3. \A l \in Leds : Opened(l)' = Opened(l)
    <3> SUFFICES ASSUME NEW l \in Leds PROVE Opened(l)' = Opened(l)
      OBVIOUS
    <3>1. /\ Count(Calling(Main, l))' = Count(Calling(Main, l))
          /\ Count(Calling(Processor, l))' = Count(Calling(Processor, l))
      BY <2>2, RolesLemma DEF Count
    <3>2. Size(l)' = Size(l)
      BY <1>6, <1>14, RolesLemma DEF Size, Served
    <3> QED
      BY <1>8, <1>12, <3>1, <3>2 DEF Opened
  <2>4. \A b \in Served : At(b)' = At(b)
    BY <1>10, <1>11, <2>3 DEF At, Served
  <2>5. Suits(Sensor, data[m], At(Sensor) + Size(Sensor) + 1, entered)
    <3>1. Carries(data[m], Entries, entered)
      BY <1>4, <2>1 DEF Order, CallsInOrder
    <3>2. At(Sensor) + Size(Sensor) + 1 = Entries
      BY <1>7, <2>1 DEF Numbers, At, Heard
    <3> QED
      BY <3>1, <3>2, RolesLemma DEF Suits
  <2>6. \A b \in Served : InOrder(b)'
    <3>1. InOrder(Sensor)'
      BY <1>1, <1>5, <1>6, <1>14, <2>4, <2>5, InOrderGiven DEF Order
    <3>2. \A b \in Served \ {Sensor} : InOrder(b)'
      BY <1>1, <1>6, <1>14, <2>4, InOrderStays DEF Order
    <3> QED
      BY <3>1, <3>2
  <2>7. CallsInOrder'
    BY <1>1, <1>8, <1>12, <2>1, <2>2, RolesLemma DEF Order, CallsInOrder
  <2>8. Stages'
    BY <1>8, <1>9, <1>10, <1>11, <1>13 DEF Order, Stages
  <2>9. \A l \in Leds : Rests(l)
    BY <1>1, <2>3, DoneStays DEF Rests
  <2> QED
    BY <1>1, <1>3, <2>6, <2>7, <2>8, <2>9 DEF Order, Effect
<1>15. CASE a # Sensor
  <2>1. a \in Leds
    BY <1>5, <1>15 DEF Served
  <2>2. \A l \in Leds \ {a} : Opened(l)' = Opened(l)
    <3> SUFFICES ASSUME NEW l \in Leds \ {a} PROVE Opened(l)' = Opened(l)
      OBVIOUS
    <3>1. /\ Count(Calling(Main, l))' = Count(Calling(Main, l))
          /\ Count(Calling(Processor, l))' = Count(Calling(Processor, l))
      BY <1>2, RolesLemma DEF Count
    <3>2. Size(l)' = Size(l)
      BY <1>6, RolesLemma DEF Size, Served
    <3> QED
      BY <1>8, <1>12, <3>1, <3>2 DEF Opened
  <2>3. /\ Decided \in 0 .. Entries /\ Unconstructed = 0
        /\ Calling(Main, a) => ~Calling(Processor, a)
    <3>1. Decided \in 0 .. Entries /\ Entries \in Nat
      BY <1>7, DecidedLemma DEF Numbers
    <3>2. Calling(Processor, a) => Decided >= 1
      BY DEF Order, CallsInOrder, Calling
    <3>3. Calling(Main, a) => Entries = 0
      BY <2>1 DEF Order, CallsInOrder
    <3> QED
      BY <1>13, <3>1, <3>2, <3>3 DEF Unconstructed, Count
  <2>4. PICK u \in {Main, Processor} : u # t
    BY <1>1, RolesLemma
  <2>5. ~Calling(u, a) /\ ~Calling(u, a)' /\ Calling(t, a) /\ ~Calling(t, a)'
    BY <1>1, <1>2, <1>3, <2>3, <2>4, RolesLemma
  <2>6. /\ Count(Calling(Main, a)) + Count(Calling(Processor, a)) = 1
        /\ Count(Calling(Main, a))' + Count(Calling(Processor, a))' = 0
    BY <1>1, <2>4, <2>5, RolesLemma DEF Count
  <2>7. Opened(a)' = Opened(a) /\ Opened(a) + Size(a) + 1 = Decided
    <3>1. PICK x, y, v, w : /\ x = Count(Calling(Main, a)) /\ v = Count(Calling(Main, a))'
                            /\ y = Count(Calling(Processor, a))
                            /\ w = Count(Calling(Processor, a))'
      OBVIOUS
    <3>2. x \in 0 .. 1 /\ y \in 0 .. 1 /\ v \in 0 .. 1 /\ w \in 0 .. 1
      BY <3>1 DEF Count
    <3>3. /\ Opened(a) = Decided - Unconstructed - Size(a) - x - y
          /\ Opened(a)' = Decided' - Unconstructed' - Size(a)' - v - w
      BY <3>1 DEF Opened
    <3>4. x + y = 1 /\ v + w = 0
      BY <2>6, <3>1
    <3>5. Decided \in Int
      BY <1>7 DEF Numbers
    <3>6. Opened(a) = Decided - Size(a) - 1
      BY <1>6, <2>3, <3>2, <3>3, <3>4, <3>5
    <3>7. Opened(a)' = Decided - Size(a)'
      <4>1. v = 0 /\ w = 0
        BY <3>2, <3>4
      <4>2. Opened(a)' = Decided - 0 - Size(a)' - 0 - 0
        BY <1>8, <1>12, <2>3, <3>3, <4>1
      <4> QED
        BY <1>6, <3>5, <4>2
    <3> QED
      BY <1>6, <3>5, <3>6, <3>7
  <2>8. \A b \in Served : At(b)' = At(b)
    BY <1>10, <1>11, <2>2, <2>7 DEF At, Served
  <2>9. Suits(a, data[m], At(a) + Size(a) + 1, entered)
    <3>1. At(a) = Opened(a)
      BY <2>1, RolesLemma DEF At
    <3>2. CASE t = Main
      <4>1. Decided = 0
        BY <1>3, <1>7, <2>1, <2>3, <3>2 DEF Numbers, Order, CallsInOrder
      <4>2. RateOf(data[m]) = First(a)
        BY <1>2, <1>4, <1>15, <3>2 DEF CallOK
      <4> QED
        BY <2>1, <2>7, <3>1, <4>1, <4>2 DEF Suits, Bids
    <3>3. CASE t = Processor
      <4>1. Bids(data[m], Decided, entered, a)
        BY <1>2, <1>4, <3>3 DEF Order, CallsInOrder
      <4> QED
        BY <2>1, <2>7, <3>1, <4>1 DEF Suits
    <3> QED
      BY <1>1, <3>2, <3>3
  <2>10. \A b \in Served : InOrder(b)'
    <3>1. InOrder(a)'
      BY <1>1, <1>5, <1>6, <2>8, <2>9, InOrderGiven DEF Order
    <3>2. \A b \in Served \ {a} : InOrder(b)'
      BY <1>1, <1>6, <2>8, InOrderStays DEF Order
    <3> QED
      BY <3>1, <3>2
  <2>11. CallsInOrder'
    <3>1. \A l \in Leds : Calling(Main, l)' => Calling(Main, l)
      <4>1. Calling(Main, a)' => Calling(Main, a)
        BY <1>1, <2>4, <2>5
      <4>2. \A l \in Leds : a # l => (Calling(Main, l)' => Calling(Main, l))
        BY <1>2, RolesLemma
      <4> QED
        BY <4>1, <4>2 DEF Calling
    <3>2. CallsSensor(Main)' # 0 => todo'[Main] = todo[Main] /\ CallsSensor(Main) # 0
      <4>1. CASE t = Main
        BY <1>3, <4>1
      <4>2. CASE t # Main
        <5>1. todo'[Main] = todo[Main]
          BY <1>2, <4>2, RolesLemma
        <5> QED
          BY <5>1 DEF CallsSensor, Count
      <4> QED
        BY <4>1, <4>2
    <3>3. \A i \in DOMAIN todo'[Processor] :
            \E j \in DOMAIN todo[Processor] : todo'[Processor][i] = todo[Processor][j]
      BY <1>2, RolesLemma
    <3> QED
      BY <1>1, <1>8, <1>12, <3>1, <3>2, <3>3 DEF Order, CallsInOrder
  <2>12. Stages'
    BY <1>8, <1>9, <1>10, <1>11, <1>13 DEF Order, Stages
  <2>13. \A l \in Leds : Rests(l)
    BY <1>1, <2>2, <2>7, DoneStays DEF Rests
  <2> QED
    BY <1>1, <1>3, <2>10, <2>11, <2>12, <2>13 DEF Order, Effect
<1> QED
  BY <1>14, <1>15

\* A LED takes the rate of the command it releases, the next one due to it.
LEMMA LedOrdered ==
    ASSUME ~OptimisedBuild, IInv, CarriedOK, Order, NEW k \in Leds, LedProcess(k),
           UNCHANGED <<listener, simulatorVars, overridden>>
    PROVE  Order' /\ Effect
<1>1. /\ msg[k] # nullptr /\ msg[k] \in Message /\ IsLedCmd(data[msg[k]])
      /\ UNCHANGED <<data, draft, todo, entered, listener>>
      /\ queue' = [queue EXCEPT ![Pool] = Append(@, msg[k])]
      /\ msg' = [msg EXCEPT ![k] = nullptr]
      /\ waitDelay' = [waitDelay EXCEPT ![k] = RateOf(data[msg[k]])]
      /\ queue \in [Queues -> Seq(Message)] /\ msg \in [Actors -> Message \cup {nullptr}]
      /\ waitDelay \in [Actors -> Rates] /\ k \in Actors
      /\ pc'[Main] = pc[Main] /\ pc'[Processor] = pc[Processor]
  <2>1. /\ msg[k] # nullptr /\ msg[k] \in Message /\ IsLedCmd(data[msg[k]])
        /\ queue \in [Queues -> Seq(Message)] /\ msg \in [Actors -> Message \cup {nullptr}]
        /\ waitDelay \in [Actors -> Rates] /\ k \in Actors
    BY RolesLemma
    DEF IInv, TypeOK, VinciTypeOK, Handling, MsgInHand, LedProcess, CarriedOK, LedsOK
  <2>2. pc'[Main] = pc[Main] /\ pc'[Processor] = pc[Processor]
    BY RolesLemma DEF LedProcess, Dispose, Goto, IInv, TypeOK
  <2> QED
    BY <2>1, <2>2 DEF LedProcess, Dispose, Push, Read, RateOf, simulatorVars
<1>2. \A a \in Served : queue'[a] = queue[a] /\ (a # k => msg'[a] = msg[a])
  BY <1>1, RolesLemma DEF Served
<1>3. Constructing' <=> Constructing
  BY <1>1 DEF Constructing
<1>4. /\ Entries' = Entries
      /\ Size(Processor)' = Size(Processor) /\ Size(Sensor)' = Size(Sensor)
      /\ Handled' = Handled /\ Undecided' = Undecided
      /\ Heard' = Heard /\ Taken' = Taken /\ Decided' = Decided /\ (Deaf' <=> Deaf)
      /\ \A l \in Leds : Opened(l)' = Opened(l)
  <2>1. /\ queue'[Sensor] = queue[Sensor] /\ queue'[Processor] = queue[Processor]
        /\ msg'[Sensor] = msg[Sensor] /\ \A l \in Leds : queue'[l] = queue[l]
    BY <1>2, RolesLemma DEF Served
  <2> QED
    BY <1>1, <1>3, <2>1, PlacesStay
<1>5. \A a \in Served : At(a)' = At(a)
  BY <1>4 DEF At, Served
<1>6. \A a \in Served : InOrder(a)'
  <2>1. \A a \in Served : msg'[a] \in {msg[a], nullptr}
    BY <1>1, <1>2
  <2> QED
    BY <1>1, <1>2, <1>5, <2>1, InOrderStays DEF Order
<1>7. CallsInOrder' /\ Once'
  BY <1>1, <1>4, CallsStay DEF Order
<1>8. Stages'
  BY <1>3, <1>4 DEF Order, Stages
<1>9. \A l \in Leds \ {k} : Rests(l)
  <2>1. \A l \in Leds \ {k} : waitDelay'[l] = waitDelay[l] /\ msg'[l] = msg[l]
    BY <1>1, RolesLemma
  <2> QED
    BY <1>4, <2>1, DoneStays DEF Rests
<1>10. Applies(k)
  <2>1. Opened(k) \in Int
    BY NumbersLemma DEF Numbers
  <2>2. Count(msg[k] # nullptr) = 1 /\ Count(msg[k] # nullptr)' = 0
    BY <1>1 DEF Count
  <2>3. Done(k) = Opened(k) /\ Done(k)' = Opened(k) + 1
    BY <1>4, <2>1, <2>2 DEF Done
  <2>4. waitDelay'[k] = RateOf(data[msg[k]])
    BY <1>1
  <2>5. Bids(data[msg[k]], Opened(k), entered, k)
    <3>1. At(k) = Opened(k) /\ InOrder(k)
      BY RolesLemma DEF At, Order, Served
    <3> QED
      BY <1>1, <3>1 DEF InOrder, Suits
  <2> QED
    BY <2>3, <2>4, <2>5 DEF Applies, Bids, Entries
<1> QED
  BY <1>1, <1>6, <1>7, <1>8, <1>9, <1>10 DEF Order, Effect

\* The sensor gives the processor the reading it holds.
LEMMA ForwardOrdered ==
    ASSUME IInv, CarriedOK, Order, SensorForward,
           UNCHANGED <<on, simulatorVars, overridden>>
    PROVE  Order' /\ Effect
<1>0. PICK m : m = msg[Sensor]
  OBVIOUS
<1>1. /\ m \in Message /\ m # nullptr /\ listener = Processor
      /\ UNCHANGED <<data, todo, entered, listener, waitDelay>>
      /\ queue' = [queue EXCEPT ![Processor] = Append(@, m)]
      /\ msg' = [msg EXCEPT ![Sensor] = nullptr]
      /\ queue \in [Queues -> Seq(Message)] /\ msg \in [Actors -> Message \cup {nullptr}]
      /\ pc'[Main] = pc[Main] /\ pc'[Processor] = pc[Processor]
  <2>1. /\ m \in Message /\ m # nullptr /\ listener = Processor
        /\ queue \in [Queues -> Seq(Message)] /\ msg \in [Actors -> Message \cup {nullptr}]
    BY <1>0, RolesLemma
    DEF IInv, TypeOK, VinciTypeOK, Handling, MsgInHand, SensorForward, CarriedOK, ListenerOK
  <2>2. pc'[Main] = pc[Main] /\ pc'[Processor] = pc[Processor]
    BY RolesLemma DEF SensorForward, Dispose, Goto, IInv, TypeOK
  <2> QED
    BY <1>0, <2>1, <2>2 DEF SensorForward, Dispose, Push, simulatorVars
<1>2. /\ \A a \in Served \ {Processor} : queue'[a] = queue[a]
      /\ \A a \in Served \ {Sensor} : msg'[a] = msg[a]
      /\ queue'[Processor] = Append(queue[Processor], m) /\ msg'[Sensor] = nullptr
  BY <1>1, RolesLemma DEF Served
<1>3. (Constructing' <=> Constructing) /\ (Deaf' <=> Deaf) /\ ~Deaf
  <2>1. listener # NoListener
    BY DEF SensorForward
  <2> QED
    BY <1>1, <2>1 DEF Constructing, Deaf
<1>4. Numbers
  BY NumbersLemma
<1>5. Size(Processor)' = Size(Processor) + 1
  <2>1. queue[Processor] \in Seq(Message)
    BY <1>1, RolesLemma
  <2> QED
    BY <1>1, <1>2, <2>1, AppendProperties DEF Size
<1>6. /\ Handled = 1 /\ Handled' = 0 /\ Undecided' = Undecided /\ Early' = Early
      /\ Entries' = Entries /\ CallsSensor(Main)' = CallsSensor(Main)
      /\ Size(Sensor)' = Size(Sensor) /\ Unconstructed' = Unconstructed
  <2>1. queue'[Sensor] = queue[Sensor]
    BY <1>2, RolesLemma DEF Served
  <2> QED
    BY <1>0, <1>1, <1>2, <1>3, <2>1
    DEF Handled, Undecided, Early, Entries, CallsSensor, Size, Unconstructed, Count
<1>7. Heard' = Heard
  BY <1>6 DEF Heard
<1>8. Taken' = Taken /\ Heard = Taken + Size(Processor) + 1
  BY <1>4, <1>5, <1>6, <1>7 DEF Numbers, Taken
<1>9. Decided' = Decided
  BY <1>6, <1>8 DEF Decided
<1>10. \A l \in Leds : Opened(l)' = Opened(l)
  <2> SUFFICES ASSUME NEW l \in Leds PROVE Opened(l)' = Opened(l)
    OBVIOUS
  <2>1. /\ Count(Calling(Main, l))' = Count(Calling(Main, l))
        /\ Count(Calling(Processor, l))' = Count(Calling(Processor, l))
    BY <1>1 DEF Count, Calling
  <2>2. Size(l)' = Size(l)
    BY <1>2, RolesLemma DEF Size, Served
  <2> QED
    BY <1>6, <1>9, <2>1, <2>2 DEF Opened
<1>11. \A a \in Served : At(a)' = At(a)
  BY <1>7, <1>8, <1>10 DEF At, Served
<1>12. \A a \in Served : InOrder(a)'
  <2>1. InOrder(Processor)'
    <3>1. At(Sensor) = Heard /\ At(Processor) = Taken
      BY RolesLemma DEF At
    <3>2. Suits(Processor, data[m], At(Processor) + Size(Processor) + 1, entered)
      BY <1>0, <1>1, <1>8, <3>1, RolesLemma DEF Order, Served, InOrder, Suits
    <3>3. Processor \in Served /\ msg'[Processor] = msg[Processor]
      BY <1>2, RolesLemma DEF Served
    <3> QED
      BY <1>1, <1>2, <1>11, <3>2, <3>3, InOrderGiven DEF Order
  <2>2. ASSUME NEW a \in Served \ {Processor} PROVE InOrder(a)'
    <3>1. msg'[a] \in {msg[a], nullptr}
      BY <1>1, <1>2
    <3> QED
      BY <1>1, <1>2, <1>11, <3>1, InOrderStays DEF Order
  <2> QED
    BY <2>1, <2>2
<1>13. Stages'
  BY <1>3, <1>6, <1>8 DEF Order, Stages
<1>14. \A l \in Leds : Rests(l)
  <2>1. \A l \in Leds : msg'[l] = msg[l]
    BY <1>2, RolesLemma DEF Served
  <2> QED
    BY <1>1, <1>10, <2>1, DoneStays DEF Rests
<1> QED
  BY <1>1, <1>9, <1>12, <1>13, <1>14, CallsStay DEF Order, Effect

\* The sensor registers the processor, once: the registration has gone all its
\* way and the next message to pass on is the first reading.
LEMMA RegisterOrdered ==
    ASSUME ~OptimisedBuild, IInv, BInv, CarriedOK, Order, SensorRegister,
           UNCHANGED <<on, simulatorVars, overridden>>
    PROVE  Order' /\ Effect
<1>1. /\ msg[Sensor] \in Message /\ msg[Sensor] # nullptr
      /\ IsPressureSensorCmd(data[msg[Sensor]]) /\ listener' \in Actors
      /\ UNCHANGED <<data, todo, entered, waitDelay>>
      /\ queue' = [queue EXCEPT ![Pool] = Append(@, msg[Sensor])]
      /\ msg' = [msg EXCEPT ![Sensor] = nullptr]
      /\ queue \in [Queues -> Seq(Message)] /\ msg \in [Actors -> Message \cup {nullptr}]
      /\ pc'[Main] = pc[Main] /\ pc'[Processor] = pc[Processor]
  <2>1. /\ msg[Sensor] \in Message /\ msg[Sensor] # nullptr
        /\ queue \in [Queues -> Seq(Message)] /\ msg \in [Actors -> Message \cup {nullptr}]
        /\ data \in [Message -> Data(Actors, Pressures)]
    BY RolesLemma DEF IInv, TypeOK, VinciTypeOK, Handling, MsgInHand, SensorRegister
  <2>2. pc'[Main] = pc[Main] /\ pc'[Processor] = pc[Processor]
    BY RolesLemma DEF SensorRegister, Dispose, Goto, IInv, TypeOK
  <2>3. IsPressureSensorCmd(data[msg[Sensor]]) /\ listener' = data[msg[Sensor]].listener
    BY DEF SensorRegister, Read
  <2>4. listener' \in Actors
    BY <2>1, <2>3, DataLemma
  <2> QED
    BY <2>1, <2>2, <2>3, <2>4 DEF SensorRegister, Dispose, Push, simulatorVars
<1>2. /\ \A a \in Served : queue'[a] = queue[a]
      /\ \A a \in Served \ {Sensor} : msg'[a] = msg[a]
      /\ msg'[Sensor] = nullptr
  BY <1>1, RolesLemma DEF Served
<1>3. Numbers
  BY NumbersLemma
<1>4. (Constructing' <=> Constructing) /\ ~Deaf'
  BY <1>1, ListenerAssumption DEF Constructing, Deaf
<1>5. Handled = 1 /\ Handled' = 0
  BY <1>1, <1>2 DEF Handled, Count
<1>6. Heard = 0
  <2>1. At(Sensor) = Heard /\ InOrder(Sensor)
    BY DEF At, Order, Served
  <2>2. Carries(data[msg[Sensor]], Heard, entered)
    BY <1>1, <2>1, RolesLemma DEF InOrder, Suits
  <2>3. ~IsPressureSensorData(data[msg[Sensor]])
    BY <1>1 DEF IsPressureSensorCmd, IsPressureSensorData
  <2> QED
    BY <2>2, <2>3, CarriesLemma DEF IInv, TypeOK, SimulatorTypeOK
<1>7. Deaf /\ ~Constructing
  <2>1. Taken = Heard - Handled - Size(Processor)
    BY DEF Taken
  <2>2. ~Deaf => FALSE
    BY <1>3, <1>5, <1>6, <2>1 DEF Numbers, Order, Stages
  <2> QED
    BY <1>5, <2>2 DEF Order, Stages
<1>8. /\ Entries' = Entries /\ CallsSensor(Main)' = CallsSensor(Main)
      /\ Size(Sensor)' = Size(Sensor) /\ Size(Processor)' = Size(Processor)
      /\ Undecided' = Undecided /\ Unconstructed' = Unconstructed
      /\ Early = 1 /\ Early' = 0 /\ Size(Processor) = 0 /\ Undecided = 0
  <2>1. queue'[Sensor] = queue[Sensor] /\ queue'[Processor] = queue[Processor]
    BY <1>2 DEF Served
  <2> QED
    BY <1>1, <1>4, <1>7, <2>1
    DEF Entries, CallsSensor, Size, Undecided, Unconstructed, Early, Count, Order, Stages
<1>9. Heard' = Heard
  BY <1>8 DEF Heard
<1>10. Taken = -1 /\ Taken' = 0
  BY <1>5, <1>6, <1>8, <1>9 DEF Taken
<1>11. Decided' = Decided
  BY <1>8, <1>10 DEF Decided
<1>12. \A l \in Leds : Opened(l)' = Opened(l)
  <2> SUFFICES ASSUME NEW l \in Leds PROVE Opened(l)' = Opened(l)
    OBVIOUS
  <2>1. /\ Count(Calling(Main, l))' = Count(Calling(Main, l))
        /\ Count(Calling(Processor, l))' = Count(Calling(Processor, l))
    BY <1>1 DEF Count, Calling
  <2>2. Size(l)' = Size(l)
    BY <1>2 DEF Size, Served
  <2> QED
    BY <1>8, <1>11, <2>1, <2>2 DEF Opened
<1>13. \A a \in Served \ {Processor} : At(a)' = At(a)
  BY <1>9, <1>12 DEF At, Served
<1>14. \A a \in Served : InOrder(a)'
  <2>1. InOrder(Processor)'
    <3>1. queue[Processor] = <<>> /\ msg[Processor] = nullptr
      BY <1>7 DEF BInv, Callers
    <3>2. queue'[Processor] = <<>> /\ msg'[Processor] = nullptr
      BY <1>2, <3>1, RolesLemma DEF Served
    <3> QED
      BY <3>2 DEF InOrder
  <2>2. ASSUME NEW a \in Served \ {Processor} PROVE InOrder(a)'
    <3>1. msg'[a] \in {msg[a], nullptr}
      BY <1>1, <1>2
    <3> QED
      BY <1>1, <1>2, <1>13, <3>1, InOrderStays DEF Order
  <2> QED
    BY <2>1, <2>2
<1>15. Stages'
  BY <1>4, <1>7, <1>8, <1>10 DEF Stages
<1>16. \A l \in Leds : Rests(l)
  <2>1. \A l \in Leds : msg'[l] = msg[l]
    BY <1>2, RolesLemma DEF Served
  <2> QED
    BY <1>1, <1>12, <2>1, DoneStays DEF Rests
<1> QED
  BY <1>1, <1>11, <1>14, <1>15, <1>16, CallsStay DEF Order, Effect

\* The processor decides the reading it holds, and calls both LEDs for it.
LEMMA DecideOrdered ==
    ASSUME ~OptimisedBuild, IInv, BInv, CarriedOK, Order, ProcessorDecide,
           UNCHANGED <<on, listener, simulatorVars, overridden>>
    PROVE  Order' /\ Effect
<1>0. PICK d : d = data[msg[Processor]]
  OBVIOUS
<1>1. /\ todo' = [todo EXCEPT ![Processor] = IF IsPressureSensorData(d)
                                             THEN Commands(d.pressure) ELSE <<>>]
      /\ UNCHANGED <<queue, data, msg, draft, waitDelay, listener, entered>>
      /\ todo \in [Threads -> Seq(Calls)]
      /\ msg[Processor] \in Message /\ msg[Processor] # nullptr
      /\ todo[Processor] = <<>> /\ pc[Processor] = "process" /\ pc'[Processor] = "finish"
      /\ Constructing' <=> Constructing
  BY <1>0, RolesLemma
  DEF ProcessorDecide, Read, Goto, Constructing, simulatorVars, IInv, TypeOK, VinciTypeOK,
      Handling, MsgInHand, CallsInHandler
<1>2. Numbers
  BY NumbersLemma
<1>3. Undecided = 1 /\ Undecided' = 0 /\ Deaf' = Deaf /\ ~Deaf /\ Early = 0 /\ Early' = 0
  <2>1. Undecided = 1 /\ Undecided' = 0 /\ Deaf' = Deaf
    BY <1>1 DEF Undecided, Deaf, Count
  <2>2. ~Deaf
    BY <2>1 DEF Order, Stages
  <2> QED
    BY <2>1, <2>2 DEF Early, Count
<1>4. PICK k : k = Taken
  OBVIOUS
<1>5. k \in 1 .. Len(entered) /\ d = PressureSensorData(entered[k])
  <2>1. k >= 1 /\ k \in Int
    BY <1>2, <1>3, <1>4 DEF Numbers, Order, Stages
  <2>2. Carries(d, k, entered)
    <3>1. At(Processor) = k /\ InOrder(Processor)
      BY <1>4, RolesLemma DEF At, Order, Served
    <3> QED
      BY <1>0, <1>1, <3>1, RolesLemma DEF InOrder, Suits
  <2> QED
    BY <2>1, <2>2 DEF Carries
<1>6. /\ todo'[Processor] = Commands(entered[k])
      /\ \A t \in Threads \ {Processor} : todo'[t] = todo[t]
  <2>1. IsPressureSensorData(d) /\ d.pressure = entered[k]
    BY <1>5 DEF IsPressureSensorData, PressureSensorData
  <2> QED
    BY <1>1, <2>1, RolesLemma
<1>7. /\ Len(Commands(entered[k])) = 2 /\ DOMAIN Commands(entered[k]) = 1 .. 2
      /\ Commands(entered[k])[1].to = Green /\ Commands(entered[k])[2].to = Red
      /\ \A i \in 1 .. 2 : RateOf(Commands(entered[k])[i].data)
                             = Commanded(entered[k], Commands(entered[k])[i].to)
  BY CommandsOfLemma
<1>8. 1 \in 1 .. 2 /\ 2 \in 1 .. 2 /\ \A i \in 1 .. 2 : i = 1 \/ i = 2
  OBVIOUS
<1>9. \A l \in Leds : ~Calling(Processor, l) /\ Calling(Processor, l)'
  <2>1. \A l \in Leds : l = Green \/ l = Red
    BY ProcessorAssumption
  <2>2. \A l \in Leds : Calling(Processor, l)'
    BY <1>6, <1>7, <1>8, <2>1 DEF Calling
  <2>3. \A l \in Leds : ~Calling(Processor, l)
    BY <1>1 DEF Calling
  <2> QED
    BY <2>2, <2>3
<1>10. /\ Entries' = Entries /\ CallsSensor(Main)' = CallsSensor(Main)
       /\ Size(Sensor)' = Size(Sensor) /\ Size(Processor)' = Size(Processor)
       /\ Handled' = Handled /\ Unconstructed' = Unconstructed
       /\ todo'[Main] = todo[Main]
  BY <1>1, <1>6, RolesLemma
  DEF Entries, CallsSensor, Size, Handled, Unconstructed, Count
<1>11. Heard' = Heard
  BY <1>10 DEF Heard
<1>12. Taken' = Taken
  BY <1>10, <1>11 DEF Taken
<1>13. Decided' = Decided + 1 /\ Decided' = k
  BY <1>2, <1>3, <1>4, <1>12 DEF Numbers, Decided
<1>14. \A l \in Leds : Opened(l)' = Opened(l)
  <2> SUFFICES ASSUME NEW l \in Leds PROVE Opened(l)' = Opened(l)
    OBVIOUS
  <2>1. PICK m : m = Count(Calling(Main, l)) /\ m \in 0 .. 1
    BY DEF Count
  <2>2. /\ Count(Calling(Processor, l)) = 0 /\ Count(Calling(Processor, l))' = 1
        /\ Count(Calling(Main, l))' = m /\ Size(l)' = Size(l)
    BY <1>1, <1>9, <1>10, <2>1 DEF Count, Calling, Size
  <2>3. /\ Opened(l) = Decided - Unconstructed - Size(l) - m - 0
        /\ Opened(l)' = (Decided + 1) - Unconstructed - Size(l) - m - 1
    BY <1>10, <1>13, <2>1, <2>2 DEF Opened
  <2>4. Decided \in Int /\ Unconstructed \in Int /\ Size(l) \in Int
    BY <1>2 DEF Numbers
  <2> QED
    BY <2>1, <2>3, <2>4
<1>15. \A a \in Served : At(a)' = At(a)
  BY <1>11, <1>12, <1>14 DEF At, Served
<1>16. \A a \in Served : InOrder(a)'
  BY <1>1, <1>15, InOrderStays DEF Order
<1>17. CallsInOrder'
  <2>1. \A i \in DOMAIN todo'[Processor] :
          Bids(todo'[Processor][i].data, k, entered, todo'[Processor][i].to)
    BY <1>5, <1>6, <1>7 DEF Bids
  <2>2. \A l \in Leds : Calling(Main, l)' <=> Calling(Main, l)
    BY <1>10 DEF Calling
  <2>3. k >= 1
    BY <1>5
  <2> QED
    BY <1>1, <1>10, <1>13, <2>1, <2>2, <2>3 DEF Order, CallsInOrder
<1>18. Once'
  <2>1. \A i, j \in DOMAIN todo'[Processor] :
          todo'[Processor][i].to = todo'[Processor][j].to => i = j
    BY <1>6, <1>7, <1>8, RolesLemma
  <2> QED
    BY <1>6, <2>1 DEF Order, Once
<1>19. Stages'
  BY <1>1, <1>2, <1>3, <1>10, <1>12 DEF Numbers, Order, Stages
<1>20. \A l \in Leds : Rests(l)
  BY <1>1, <1>14, DoneStays DEF Rests
<1> QED
  BY <1>1, <1>16, <1>17, <1>18, <1>19, <1>20 DEF Order, Effect

\* The end of the construction: main has the registration to send, number 0,
\* and a first command for each LED.
LEMMA OverrideOrdered ==
    ASSUME IInv, BInv, CarriedOK, Order, Override
    PROVE  Order' /\ Effect
<1>1. /\ UNCHANGED <<queue, data, msg, draft, waitDelay, listener, entered>>
      /\ todo \in [Threads -> Seq(Calls)] /\ Constructing
      /\ pc \in [Threads -> {"none", "wait", "process", "finish",
                             "base", "derived", "body", "run"}]
      /\ \/ pc' = [pc EXCEPT ![Main] = "base"] /\ todo' = todo
         \/ pc' = [pc EXCEPT ![Main] = "body"] /\ todo' = [todo EXCEPT ![Main] = Setup]
      /\ todo[Main] = <<>>
      /\ pc'[Processor] = pc[Processor]
  BY RolesLemma
  DEF Override, Goto, Constructing, simulatorVars, IInv, TypeOK, BInv, Callers
<1>2. CASE pc' = [pc EXCEPT ![Main] = "base"] /\ todo' = todo
  <2>1. Constructing'
    BY <1>1, <1>2, RolesLemma DEF Constructing
  <2> QED
    BY <1>1, <1>2, <2>1, OrderStays
<1>3. CASE pc' = [pc EXCEPT ![Main] = "body"] /\ todo' = [todo EXCEPT ![Main] = Setup]
  <2>1. /\ todo'[Main] = Setup /\ ~Constructing'
        /\ \A t \in Threads \ {Main} : todo'[t] = todo[t]
    BY <1>1, <1>3, RolesLemma DEF Constructing
  <2>2. /\ Deaf /\ Entries = 0 /\ Size(Sensor) = 0 /\ Handled = 0
        /\ Size(Processor) = 0 /\ Undecided = 0
    BY <1>1 DEF Order, Stages
  <2>3. /\ Deaf' /\ Entries' = 0 /\ Size(Sensor)' = 0 /\ Handled' = 0
        /\ Size(Processor)' = 0 /\ Undecided' = 0
        /\ Early' = 1 /\ Unconstructed = 1 /\ Unconstructed' = 0
    BY <1>1, <2>1, <2>2
    DEF Deaf, Entries, Size, Handled, Undecided, Early, Unconstructed, Count
  <2>4. Setup # <<>> /\ Head(Setup) = Setup[1]
    BY CommandsLemma, HeadTailProperties
  <2>5. CallsSensor(Main)' = 1
    BY <2>1, <2>4, SetupLemma, RolesLemma DEF CallsSensor, Count
  <2>6. Decided = 0
    BY <1>1, DecidedLemma
  <2>7. Heard' = -1
    BY <2>3, <2>5 DEF Heard
  <2>8. Taken' = -1
    BY <2>3, <2>7 DEF Taken
  <2>9. Decided' = 0
    BY <2>3, <2>8 DEF Decided
  <2>10. \A i \in 1 .. 3 : i = 1 \/ i = 2 \/ i = 3
    OBVIOUS
  <2>11. \A l \in Leds : ~Calling(Main, l) /\ Calling(Main, l)'
    <3>1. \A l \in Leds : l = Green \/ l = Red
      BY ProcessorAssumption
    <3>2. 2 \in 1 .. 3 /\ 3 \in 1 .. 3
      OBVIOUS
    <3> QED
      BY <1>1, <2>1, <3>1, <3>2, SetupLemma DEF Calling
  <2>12. \A l \in Leds : Opened(l)' = Opened(l)
    <3> SUFFICES ASSUME NEW l \in Leds PROVE Opened(l)' = Opened(l)
      OBVIOUS
    <3>1. PICK p : p = Count(Calling(Processor, l)) /\ p \in 0 .. 1
      BY DEF Count
    <3>2. todo'[Processor] = todo[Processor]
      BY <2>1, RolesLemma
    <3>3. /\ Count(Calling(Main, l)) = 0 /\ Count(Calling(Main, l))' = 1
          /\ Count(Calling(Processor, l))' = p /\ Size(l)' = Size(l)
      BY <1>1, <2>11, <3>1, <3>2 DEF Count, Calling, Size
    <3>4. Opened(l) = 0 - 1 - Size(l) - 0 - p /\ Opened(l)' = 0 - 0 - Size(l) - 1 - p
      BY <2>3, <2>6, <2>9, <3>1, <3>3 DEF Opened
    <3>5. Size(l) \in Int
      BY NumbersLemma DEF Numbers
    <3> QED
      BY <3>1, <3>4, <3>5
  <2>13. ASSUME NEW a \in Served PROVE InOrder(a)'
    <3>1. CASE a \in Leds
      <4>1. At(a)' = At(a)
        BY <2>12, <3>1, RolesLemma DEF At
      <4> QED
        BY <1>1, <4>1, InOrderStays DEF Order
    <3>2. CASE a \notin Leds
      <4>1. a = Sensor \/ a = Processor
        BY <3>2 DEF Served
      <4>2. queue[a] = <<>>
        <5>1. queue[a] \in Seq(Message) /\ Len(queue[a]) = 0
          BY <2>2, <4>1, RolesLemma DEF Size, IInv, TypeOK, VinciTypeOK
        <5> QED
          BY <5>1, EmptySeq
      <4>3. msg[a] = nullptr
        <5>1. msg[Sensor] = nullptr
          BY <2>2 DEF Handled, Count
        <5>2. msg[Processor] = nullptr
          BY <2>2 DEF BInv, Callers
        <5> QED
          BY <4>1, <5>1, <5>2
      <4>4. queue'[a] = <<>> /\ msg'[a] = nullptr
        BY <1>1, <4>2, <4>3
      <4> QED
        BY <4>4 DEF InOrder
    <3> QED
      BY <3>1, <3>2
  <2>14. CallsInOrder'
    <3>1. Carries(todo'[Main][1].data, 0, entered)
      BY <2>1, SetupLemma DEF Carries
    <3>2. todo'[Processor] = todo[Processor]
      BY <2>1, RolesLemma
    <3>3. \A i \in DOMAIN todo[Processor] : FALSE
      BY <2>6 DEF Order, CallsInOrder
    <3> QED
      BY <1>1, <2>3, <3>1, <3>2, <3>3 DEF CallsInOrder
  <2>15. Once'
    <3>1. \A i, j \in DOMAIN todo'[Main] : todo'[Main][i].to = todo'[Main][j].to => i = j
      BY <2>1, <2>10, SetupLemma, RolesLemma
    <3> QED
      BY <2>1, <3>1 DEF Order, Once
  <2>16. Stages'
    BY <2>1, <2>3, <2>7 DEF Stages
  <2>17. \A l \in Leds : Rests(l)
    BY <1>1, <2>12, DoneStays DEF Rests
  <2> QED
    BY <1>1, <2>13, <2>14, <2>15, <2>16, <2>17 DEF Order, Effect
<1> QED
  BY <1>1, <1>2, <1>3

\* A reading gets the next number, and main the call that passes it on.
LEMMA TakeReadingOrdered ==
    ASSUME Source = Main, IInv, BInv, CarriedOK, Order, TakeReading
    PROVE  Order' /\ Effect
<1>1. /\ UNCHANGED <<queue, data, msg, draft, waitDelay, listener, pc>>
      /\ todo \in [Threads -> Seq(Calls)] /\ entered \in Seq(Pressures \ {0})
      /\ todo[Main] = <<>> /\ ~Constructing /\ ~Constructing'
  BY RolesLemma
  DEF TakeReading, Display, Constructing, IInv, TypeOK, SimulatorTypeOK
<1>2. CASE UNCHANGED <<todo, entered>>
  BY <1>1, <1>2, OrderStays
<1>3. CASE panel' > 0
  <2>0. PICK v : v = panel'
    OBVIOUS
  <2> DEFINE c == Call(Sensor, PressureSensorData(v))
  <2>1. /\ todo' = [todo EXCEPT ![Main] = <<c>>] /\ entered' = Append(entered, v)
        /\ v \in Pressures \ {0}
    <3>1. panel' \in Pressures \cup {0}
      BY DEF TakeReading, Display, ReadNumber, ReadGarbage, ReadNothing, IInv, TypeOK,
             SimulatorTypeOK
    <3> QED
      BY <1>3, <2>0, <3>1 DEF TakeReading, Display
  <2>2. /\ todo'[Main] = <<c>> /\ Len(todo'[Main]) = 1 /\ DOMAIN todo'[Main] = 1 .. 1
        /\ todo'[Main][1] = c /\ todo'[Main] # <<>> /\ Head(todo'[Main]) = c
        /\ \A t \in Threads \ {Main} : todo'[t] = todo[t]
    BY <1>1, <2>1, RolesLemma
  <2>3. c.to = Sensor /\ c.data = PressureSensorData(v)
    BY DEF Call
  <2> HIDE DEF c
  <2>4. /\ Len(entered') = Len(entered) + 1 /\ Len(entered) \in Nat
        /\ entered'[Len(entered) + 1] = v
    BY <1>1, <2>1, AppendProperties, LenProperties
  <2>5. /\ Entries' = Entries + 1 /\ CallsSensor(Main) = 0 /\ CallsSensor(Main)' = 1
        /\ Size(Sensor)' = Size(Sensor) /\ Size(Processor)' = Size(Processor)
        /\ Handled' = Handled /\ Undecided' = Undecided /\ Early' = Early
        /\ Unconstructed' = Unconstructed /\ (Deaf' <=> Deaf)
    <3>1. CallsSensor(Main) = 0 /\ CallsSensor(Main)' = 1
      BY <1>1, <2>2, <2>3, RolesLemma DEF CallsSensor, Count
    <3> QED
      BY <1>1, <2>4, <3>1
      DEF Entries, Size, Handled, Undecided, Early, Unconstructed, Deaf, Count
  <2>6. Numbers
    BY NumbersLemma
  <2>7. Heard' = Heard
    BY <2>5, <2>6 DEF Numbers, Heard
  <2>8. Taken' = Taken
    BY <2>5, <2>7 DEF Taken
  <2>9. Decided' = Decided
    BY <2>5, <2>8 DEF Decided
  <2>10. /\ \A l \in Leds : ~Calling(Main, l) /\ ~Calling(Main, l)'
         /\ todo'[Processor] = todo[Processor]
    <3>1. \A i \in DOMAIN todo'[Main] : todo'[Main][i].to = Sensor
      BY <2>2, <2>3
    <3> QED
      BY <1>1, <2>2, <3>1, RolesLemma DEF Calling
  <2>11. \A l \in Leds : Opened(l)' = Opened(l)
    <3> SUFFICES ASSUME NEW l \in Leds PROVE Opened(l)' = Opened(l)
      OBVIOUS
    <3>1. /\ Count(Calling(Main, l)) = 0 /\ Count(Calling(Main, l))' = 0
          /\ Count(Calling(Processor, l))' = Count(Calling(Processor, l))
          /\ Size(l)' = Size(l)
      BY <1>1, <2>10 DEF Count, Calling, Size
    <3> QED
      BY <2>5, <2>9, <3>1 DEF Opened
  <2>12. \A a \in Served : At(a)' = At(a)
    BY <2>7, <2>8, <2>11 DEF At, Served
  <2>13. \A a, d, k : Suits(a, d, k, entered) => Suits(a, d, k, entered')
    BY <1>1, <2>1, SuitsLater
  <2>14. \A a \in Served : InOrder(a)'
    BY <1>1, <2>12, <2>13, InOrderStays DEF Order
  <2>15. CallsInOrder'
    <3>1. Carries(todo'[Main][1].data, Entries', entered')
      <4>1. Entries' = Len(entered') /\ Entries' = Len(entered) + 1
        BY <2>4 DEF Entries
      <4>2. Len(entered) + 1 \in 1 .. Len(entered')
        BY <2>4
      <4> QED
        BY <2>2, <2>3, <2>4, <4>1, <4>2 DEF Carries
    <3>2. ASSUME NEW i \in DOMAIN todo[Processor]
          PROVE  /\ Decided >= 1
                 /\ Bids(todo[Processor][i].data, Decided, entered', todo[Processor][i].to)
      <4>1. /\ Decided >= 1
            /\ Bids(todo[Processor][i].data, Decided, entered, todo[Processor][i].to)
        BY DEF Order, CallsInOrder
      <4>2. todo[Processor][i].to \in Leds
        BY RolesLemma DEF BInv, Callers
      <4> QED
        BY <2>13, <4>1, <4>2 DEF Suits
    <3> QED
      BY <2>9, <2>10, <3>1, <3>2 DEF CallsInOrder
  <2>16. Once'
    <3>1. \A i, j \in 1 .. 1 : i = j
      OBVIOUS
    <3> QED
      BY <2>2, <3>1 DEF Order, Once
  <2>17. Stages'
    BY <1>1, <2>5, <2>7, <2>8 DEF Order, Stages
  <2>18. \A l \in Leds : Rests(l)
    BY <1>1, <2>11, DoneStays DEF Rests
  <2> QED
    BY <2>1, <2>14, <2>15, <2>16, <2>17, <2>18 DEF Order, Effect
<1> QED
  BY <1>2, <1>3 DEF TakeReading, Display

\* A build writes a message that no actor has.
LEMMA BuildOrdered ==
    ASSUME IInv, SoleOwner, Order, NEW t \in Threads, Build(t),
           UNCHANGED <<on, listener, simulatorVars, overridden>>
    PROVE  Order' /\ Effect
<1>1. PICK m \in Message :
             /\ m # nullptr
             /\ draft' = [draft EXCEPT ![t] = m]
             /\ data' = [data EXCEPT ![m] = Head(todo[t]).data]
             /\ \A a \in Actors : /\ queue'[a] = queue[a] /\ msg[a] # m
                                  /\ \A i \in DOMAIN queue[a] : queue[a][i] # m
             /\ \A u \in Threads : draft[u] # m
  BY BuildWrites
<1>2. /\ UNCHANGED <<todo, pc, msg, waitDelay, entered, listener>>
      /\ data \in [Message -> Data(Actors, Pressures)]
      /\ \A a \in Actors : queue[a] \in Seq(Message) /\ msg[a] \in Message \cup {nullptr}
  BY RolesLemma DEF Build, simulatorVars, IInv, TypeOK, VinciTypeOK
<1>3. \A a \in Actors : \A i \in DOMAIN queue[a] : queue[a][i] \in Message
  BY <1>2, LenProperties
<1>4. \A a \in Served :
        /\ queue'[a] = queue[a] /\ msg'[a] = msg[a]
        /\ \A i \in DOMAIN queue[a] : data'[queue[a][i]] = data[queue[a][i]]
        /\ msg[a] # nullptr => data'[msg[a]] = data[msg[a]]
  BY <1>1, <1>2, <1>3, RolesLemma DEF Served
<1>5. Constructing' <=> Constructing
  BY <1>2 DEF Constructing
<1> QED
  BY <1>2, <1>4, <1>5, OrderStays

\* Every step keeps the order, and does to the readings and rates what the
\* abstract specification lets it do.
LEMMA StepKeepsOrder ==
    ASSUME ~OptimisedBuild, Source = Main, Main \notin Interrupts
    PROVE  IInv /\ BInv /\ SoleOwner /\ CarriedOK /\ Registration /\ Order /\ [Next]_vars
             => Order' /\ Effect
<1> SUFFICES ASSUME IInv, BInv, SoleOwner, CarriedOK, Registration, Order, [Next]_vars
             PROVE  Order' /\ Effect
  OBVIOUS
<1>0. ~SensorDrop
  BY StepKeepsRegistration
<1>1. ASSUME UNCHANGED <<queue, data, msg, todo, pc, waitDelay, listener, entered>>
      PROVE  Order' /\ Effect
  <2>1. Constructing' <=> Constructing
    BY <1>1 DEF Constructing
  <2> QED
    BY <1>1, <2>1, OrderStays
<1>2. ASSUME NEW t \in Threads, CallStep(t) PROVE Order' /\ Effect
  <2>1. CASE Build(t)
    BY <1>2, <2>1, BuildOrdered DEF CallStep
  <2>2. CASE BuildFromEmptyPool(t)
    BY <1>1, <1>2, <2>2 DEF CallStep, BuildFromEmptyPool, simulatorVars
  <2>3. CASE Send(t)
    BY <1>2, <2>3, SendOrdered DEF CallStep
  <2>4. ~SendFails(t)
    BY <1>2, SendRegisters DEF CallStep
  <2> QED
    BY <1>2, <2>1, <2>2, <2>3, <2>4 DEF CallStep
<1>3. ASSUME NEW a \in Actors, ReceiveStep(a) PROVE Order' /\ Effect
  BY <1>3, ReceiveOrdered DEF ReceiveStep
<1>4. ASSUME NEW l \in Leds, LedStep(l) PROVE Order' /\ Effect
  <2>1. CASE LedProcess(l)
    BY <1>4, <2>1, LedOrdered DEF LedStep
  <2>2. CASE LedToggle(l)
    BY <1>1, <1>4, <2>2 DEF LedStep, LedToggle, TimesOut, vinciVars, simulatorVars
  <2> QED
    BY <1>4, <2>1, <2>2 DEF LedStep
<1>5. CASE SensorStep
  BY <1>0, <1>5, ForwardOrdered, RegisterOrdered DEF SensorStep
<1>6. CASE ProcessorStep
  <2>1. CASE ProcessorDecide
    BY <1>6, <2>1, DecideOrdered DEF ProcessorStep
  <2>2. CASE ProcessorRelease
    <3>1. /\ UNCHANGED <<data, todo, waitDelay, listener, entered>>
          /\ queue' = [queue EXCEPT ![Pool] = Append(@, msg[Processor])]
          /\ msg' = [msg EXCEPT ![Processor] = nullptr]
          /\ pc' = [pc EXCEPT ![Processor] = "wait"] /\ pc[Processor] = "finish"
      BY <1>6, <2>2
      DEF ProcessorStep, ProcessorRelease, Dispose, Push, Goto, simulatorVars
    <3>2. \A a \in Served :
            /\ queue'[a] = queue[a]
            /\ msg'[a] = msg[a] \/ (a = Processor /\ msg'[a] = nullptr)
      BY <3>1, RolesLemma DEF Served, IInv, TypeOK, VinciTypeOK
    <3>3. /\ Constructing' <=> Constructing
          /\ pc'[Processor] = "process" <=> pc[Processor] = "process"
      BY <3>1, RolesLemma DEF Constructing, IInv, TypeOK
    <3> QED
      BY <3>1, <3>2, <3>3, OrderStays
  <2> QED
    BY <1>6, <2>1, <2>2 DEF ProcessorStep
<1>7. CASE StartThread
  <2>1. /\ UNCHANGED <<queue, data, msg, todo, waitDelay, listener, entered>>
        /\ pc[Main] = "base"
        /\ pc' = [pc EXCEPT ![Main] = "derived", ![Declared[overridden + 1]] = "wait"]
    BY <1>7 DEF StartThread, simulatorVars
  <2>2. overridden + 1 \in 1 .. 4
    BY <1>7, DeclaredLemma DEF StartThread, IInv, TypeOK, Handling, Construction
  <2>3. Declared[overridden + 1] # Main /\ pc[Declared[overridden + 1]] = "none"
    <3>1. overridden \in 0 .. 4 /\ overridden + 1 > overridden
      BY DeclaredLemma DEF IInv, TypeOK
    <3> QED
      BY <2>1, <2>2, <3>1, DeclaredLemma, RolesLemma DEF IInv, Handling, Construction
  <2>4. /\ Constructing' <=> Constructing
        /\ pc'[Processor] = "process" <=> pc[Processor] = "process"
    BY <2>1, <2>3, RolesLemma DEF Constructing, IInv, TypeOK
  <2> QED
    BY <2>1, <2>4, OrderStays
<1>8. ASSUME UNCHANGED vars PROVE Order' /\ Effect
  BY <1>1, <1>8 DEF vars, vinciVars, simulatorVars
<1>9. CASE Return
  <2>1. Constructing' <=> Constructing
    BY <1>9, ReturnLemma DEF Constructing
  <2>2. pc'[Processor] = pc[Processor]
    BY <1>9, ReturnLemma, RolesLemma
  <2> QED
    BY <1>9, <2>1, <2>2, ReturnLemma, OrderStays
<1>10. ASSUME NEW a \in Actors, ActorThread(a) PROVE Order' /\ Effect
  BY <1>2, <1>3, <1>4, <1>5, <1>6, <1>10 DEF ActorThread, Threads
<1>11. ASSUME NEW t \in Clients, ClientThread(t) PROVE Order' /\ Effect
  BY <1>2, <1>7, <1>9, <1>11, OverrideOrdered DEF ClientThread, Threads
<1> QED
  BY <1>8, <1>10, <1>11, TakeReadingOrdered DEF Next

\* Before anything is sent nothing is out of order.
LEMMA InitOrder == Init => Order
<1> SUFFICES ASSUME Init PROVE Order
  OBVIOUS
<1>1. /\ \A t \in Threads : todo[t] = <<>>
      /\ \A a \in Actors : queue[a] = <<>> /\ msg[a] = nullptr
      /\ Constructing /\ Deaf /\ entered = <<>> /\ pc[Processor] = "none"
  BY RolesLemma, ProcessorAssumption, ActorsAssumption
  DEF Init, VinciInit, SensorInit, SimulatorInit, Constructing, Deaf, Queues
<1>2. /\ Entries = 0 /\ Size(Sensor) = 0 /\ Size(Processor) = 0
      /\ Handled = 0 /\ Undecided = 0 /\ CallsSensor(Main) = 0
  BY <1>1, RolesLemma DEF Entries, Size, Handled, Undecided, CallsSensor, Count
<1>3. \A a \in Served : InOrder(a)
  BY <1>1, RolesLemma DEF InOrder, Served
<1>4. CallsInOrder /\ Once
  BY <1>1, <1>2, RolesLemma DEF CallsInOrder, Calling, Once
<1>5. Stages
  BY <1>1, <1>2 DEF Stages
<1> QED
  BY <1>3, <1>4, <1>5 DEF Order

\* What the processor does, it does for a reading, and main takes them after
\* the last constructor.
Begun ==
    /\ msg[Processor] # nullptr => entered # <<>>
    /\ entered # <<>> => pc[Main] = "run"

LEMMA StepKeepsBegun ==
    ASSUME Source = Main, IInv, Order, Begun, [Next]_vars
    PROVE  /\ Begun'
           /\ msg'[Processor] # msg[Processor] => pc[Main] = "run"
<1> USE RolesLemma
<1> DEFINE Mild == /\ entered' = entered /\ pc'[Main] = pc[Main]
                   /\ msg'[Processor] # msg[Processor] => entered # <<>>
<1>0. /\ msg \in [Actors -> Message \cup {nullptr}] /\ Main \in Threads
      /\ pc \in [Threads -> {"none", "wait", "process", "finish",
                             "base", "derived", "body", "run"}]
  BY DEF IInv, TypeOK, VinciTypeOK
<1>1. Mild => Begun' /\ (msg'[Processor] # msg[Processor] => pc[Main] = "run")
  BY DEF Begun
<1>2. ASSUME queue[Processor] # <<>> PROVE entered # <<>>
  <2>1. queue[Processor] \in Seq(Message)
    BY DEF IInv, TypeOK, VinciTypeOK
  <2>2. Size(Processor) \in Nat /\ Size(Processor) # 0
    BY <1>2, <2>1, EmptySeq, LenProperties DEF Size
  <2>3. Taken - Undecided >= 0
    BY <2>2 DEF Order, Stages
  <2>4. Entries - CallsSensor(Main) - Size(Sensor) - Handled - Size(Processor) - Undecided >= 0
    BY <2>3 DEF Taken, Heard
  <2>5. Entries # 0
    BY <2>2, <2>4, NumbersLemma DEF Numbers
  <2> QED
    BY <2>5 DEF Entries
<1>3. ASSUME NEW t \in Threads, CallStep(t) PROVE Mild
  BY <1>3 DEF CallStep, Build, BuildFromEmptyPool, Send, SendFails, simulatorVars
<1>4. ASSUME NEW a \in Actors, ReceiveStep(a) PROVE Mild
  <2>1. /\ entered' = entered /\ pc' = [pc EXCEPT ![a] = "process"] /\ queue[a] # <<>>
        /\ msg' = [msg EXCEPT ![a] = Head(queue[a])]
    BY <1>4 DEF ReceiveStep, Receive, Goto, simulatorVars
  <2>2. msg'[Processor] # msg[Processor] => a = Processor
    BY <1>0, <2>1
  <2> QED
    BY <1>0, <1>2, <2>1, <2>2
<1>5. ASSUME NEW a \in Actors, NEW q, Dispose(a, q), entered' = entered PROVE Mild
  <2>1. pc' = [pc EXCEPT ![a] = "wait"] /\ msg' = [msg EXCEPT ![a] = nullptr]
    BY <1>5 DEF Dispose, Goto
  <2>2. msg'[Processor] # msg[Processor] => msg[Processor] # nullptr
    BY <1>0, <2>1
  <2> QED
    BY <1>0, <1>5, <2>1, <2>2 DEF Begun
<1>6. ASSUME NEW l \in Leds, LedStep(l) PROVE Mild
  BY <1>5, <1>6 DEF LedStep, LedProcess, LedToggle, TimesOut, simulatorVars, vinciVars
<1>7. ASSUME SensorStep PROVE Mild
  <2>1. CASE SensorDrop
    BY <1>0, <1>7, <2>1 DEF SensorStep, SensorDrop, Goto, simulatorVars
  <2> QED
    BY <1>5, <1>7, <2>1 DEF SensorStep, SensorRegister, SensorForward, simulatorVars
<1>8. ASSUME ProcessorStep PROVE Mild
  <2>1. CASE ProcessorDecide
    BY <1>0, <1>8, <2>1 DEF ProcessorStep, ProcessorDecide, Goto, simulatorVars
  <2> QED
    BY <1>5, <1>8, <2>1 DEF ProcessorStep, ProcessorRelease, simulatorVars
<1>9. CASE StartThread \/ Override
  BY <1>9 DEF StartThread, Override, Begun, simulatorVars
<1>10. CASE Return
  BY <1>10, ReturnLemma DEF Begun
<1>11. CASE TakeReading
  BY <1>11 DEF TakeReading, Display, Begun
<1>12. CASE UNCHANGED vars
  BY <1>12 DEF vars, vinciVars, simulatorVars, Begun
<1> HIDE DEF Mild
<1>13. ASSUME NEW a \in Actors, ActorThread(a) PROVE Mild
  BY <1>3, <1>4, <1>6, <1>7, <1>8, <1>13 DEF ActorThread, Threads
<1>14. ASSUME NEW t \in Clients, ClientThread(t)
       PROVE  Mild \/ StartThread \/ Override \/ Return
  BY <1>3, <1>14 DEF ClientThread, Threads
<1> QED
  BY <1>1, <1>9, <1>10, <1>11, <1>12, <1>13, <1>14 DEF Next

\* When main takes the readings no actor runs processMsg before its
\* constructor has returned, not even the processor, whose constructor hands
\* out the object before: for any pool, any pressures and any number of readings.
THEOREM ConstructedBeforeDispatch ==
    ASSUME ~OptimisedBuild, Source = Main, Main \notin Interrupts
    PROVE  Spec => DispatchAfterConstruction
<1>1. Spec => [](IInv /\ BInv /\ SoleOwner /\ CarriedOK /\ Agreement)
  BY InitInv, StepKeepsInv, InitBudget, StepKeepsBudget, DemoOwnersSole,
     InitAgreement, StepKeepsAgreement, PTL DEF Spec
<1>2. Spec => [](Registration /\ Order)
  BY <1>1, InitRegistration, StepKeepsRegistration, InitOrder, StepKeepsOrder, PTL
  DEF Spec
<1>3. Init => Begun
  BY RolesLemma DEF Init, VinciInit, SimulatorInit, Begun
<1>4. Spec => [][\A a \in Actors : Dispatches(a) => Overridden(a)]_vars
  BY OverriddenBeforeDispatch DEF NoPureVirtualCall
<1>5. IInv /\ Order /\ Begun /\ [Next]_vars
        => Begun' /\ (msg'[Processor] # msg[Processor] => pc[Main] = "run")
  BY StepKeepsBegun
<1>6. (/\ [\A a \in Actors : Dispatches(a) => Overridden(a)]_vars
       /\ msg'[Processor] # msg[Processor] => pc[Main] = "run")
      => [\A a \in Actors :
            Dispatches(a) => /\ Overridden(a)
                             /\ a = Processor => pc[Main] = "run"]_vars
  BY RolesLemma DEF Dispatches
<1> QED
  BY <1>1, <1>2, <1>3, <1>4, <1>5, <1>6, PTL DEF Spec, DispatchAfterConstruction

\* The rates of the LEDs start and change as the regulator's do.
LEMMA InitRegulates ==
    IInv /\ Same /\ Init => Regulator!Init
<1> SUFFICES ASSUME IInv, Same, Init PROVE Regulator!Init
  OBVIOUS
<1>1. /\ entered = <<>> /\ \A a \in Actors : waitDelay[a] = 0
      /\ \A t \in Threads : todo[t] = <<>>
      /\ \A a \in Actors : queue[a] = <<>> /\ msg[a] = nullptr
      /\ Constructing /\ Deaf /\ pc[Processor] = "none"
  BY RolesLemma, ProcessorAssumption, ActorsAssumption
  DEF Init, VinciInit, SensorInit, SimulatorInit, Constructing, Deaf, Queues
<1>2. /\ Entries = 0 /\ Size(Sensor) = 0 /\ Size(Processor) = 0 /\ Early = 0
      /\ Handled = 0 /\ Undecided = 0 /\ CallsSensor(Main) = 0 /\ Unconstructed = 1
  BY <1>1, RolesLemma
  DEF Entries, Size, Handled, Undecided, CallsSensor, Early, Unconstructed, Count
<1>3. Decided = 0
  BY <1>2 DEF Decided, Taken, Heard
<1>4. ASSUME NEW l \in Leds PROVE Done(l) = 0
  <2>1. /\ Count(Calling(Main, l)) = 0 /\ Count(Calling(Processor, l)) = 0
        /\ Size(l) = 0 /\ Count(msg[l] # nullptr) = 0
    BY <1>1, RolesLemma DEF Count, Calling, Size
  <2> QED
    BY <1>2, <1>3, <2>1 DEF Done, Opened
<1>5. \A l \in Leds : Applied[l] = 0
  BY <1>4 DEF Same
<1>6. Applied = [l \in Leds |-> 0]
  BY <1>5 DEF Applied
<1> QED
  BY <1>1, <1>6, RolesLemma DEF Regulator!Init

\* Below and above 100 the branches of the processor follow the table.
LEMMA DocumentedLemma ==
    ASSUME NEW p \in Nat \ {100}, NEW l \in Leds
    PROVE  Commanded(p, l) = Documented(p, l)
<1>1. 1 \in 1 .. 2 /\ 2 \in 1 .. 2
  OBVIOUS
<1>2. /\ Commanded(p, Green) = RateOf(Commands(p)[1].data)
      /\ Commanded(p, Red) = RateOf(Commands(p)[2].data)
  BY <1>1, CommandsOfLemma
<1>3. /\ \A r : RateOf(start(Green, r).data) = r /\ RateOf(start(Red, r).data) = r
      /\ RateOf(stop(Green).data) = 0 /\ RateOf(stop(Red).data) = 0
  BY DEF RateOf, start, stop, Call, LedCmd
<1>4. CASE p < 50
  <2>1. Commands(p) = <<stop(Green), start(Red, 1000)>> /\ Table(p) = <<0, 1000>>
    BY <1>4 DEF Commands, Table
  <2> QED
    BY <1>2, <1>3, <2>1, ProcessorAssumption DEF Documented
<1>5. CASE p >= 50 /\ p < 100
  <2>1. Commands(p) = <<start(Green, 1000), stop(Red)>> /\ Table(p) = <<1000, 0>>
    BY <1>5 DEF Commands, Table
  <2> QED
    BY <1>2, <1>3, <2>1, ProcessorAssumption DEF Documented
<1>6. CASE p > 100
  <2>1. Commands(p) = <<start(Green, 4000), start(Red, 2000)>> /\ Table(p) = <<4000, 2000>>
    BY <1>6 DEF Commands, Table
  <2> QED
    BY <1>2, <1>3, <2>1, ProcessorAssumption DEF Documented
<1> QED
  BY <1>4, <1>5, <1>6

\* A step with such an effect is a step of the regulator, or none.
LEMMA EffectRegulates ==
    ASSUME Pressures \subseteq Nat \ {100}
    PROVE  IInv /\ Same /\ Same' /\ Effect => [Regulator!Next]_(Regulator!vars)
<1> SUFFICES ASSUME IInv, Same, Same', Effect
             PROVE  [Regulator!Next]_(Regulator!vars)
  OBVIOUS
<1>1. PICK a, b : a = Applied /\ b = Applied'
  OBVIOUS
<1>2. /\ a = [l \in Leds |-> a[l]] /\ b = [l \in Leds |-> b[l]]
      /\ \A l \in Leds : a[l] = Done(l) /\ b[l] = Done(l)'
  BY <1>1 DEF Same, Applied
<1> DEFINE r == [l \in Leds |-> waitDelay[l]]
<1>3. CASE \A l \in Leds : Rests(l)
  <2>1. b = a /\ r' = r
    <3>1. \A l \in Leds : b[l] = a[l] /\ waitDelay'[l] = waitDelay[l]
      BY <1>2, <1>3 DEF Rests
    <3>2. b = a
      BY <1>2, <3>1
    <3> QED
      BY <3>1, <3>2
  <2>2. CASE entered' = entered
    BY <1>1, <2>1, <2>2 DEF Regulator!vars
  <2>3. ASSUME NEW p \in Pressures \ {0}, entered' = Append(entered, p)
        PROVE  [Regulator!Next]_(Regulator!vars)
    <3>1. Regulator!Enter(p)
      BY <1>1, <2>1, <2>3 DEF Regulator!Enter
    <3> QED
      BY <3>1 DEF Regulator!Next
  <2>4. entered' = entered \/ \E p \in Pressures \ {0} : entered' = Append(entered, p)
    BY DEF Effect
  <2> QED
    BY <2>2, <2>3, <2>4
<1>4. ASSUME entered' = entered, NEW l \in Leds, Applies(l), \A k \in Leds \ {l} : Rests(k)
      PROVE  [Regulator!Next]_(Regulator!vars)
  <2>1. /\ a[l] \in 0 .. Len(entered) /\ Len(entered) \in Nat
        /\ Done(l) = a[l] /\ b[l] = a[l] + 1
    <3>1. Entries \in Nat /\ Entries = Len(entered)
      BY NumbersLemma DEF Numbers, Entries
    <3> QED
      BY <1>2, <1>4, <3>1 DEF Applies
  <2>2. b = [a EXCEPT ![l] = @ + 1]
    <3>1. \A k \in Leds \ {l} : b[k] = a[k]
      BY <1>2, <1>4 DEF Rests
    <3> QED
      BY <1>2, <2>1, <3>1
  <2> DEFINE R == IF a[l] = 0 THEN [k \in Leds |-> First(k)][l]
                  ELSE [p \in Pressures |-> [k \in Leds |-> Documented(p, k)]][entered[a[l]]][l]
  <2>3. waitDelay'[l] = R
    <3>1. CASE a[l] = 0
      BY <1>4, <2>1, <3>1 DEF Applies
    <3>2. CASE a[l] # 0
      <4>1. entered[a[l]] \in Pressures
        <5>1. entered \in Seq(Pressures \ {0}) /\ a[l] \in 1 .. Len(entered)
          BY <2>1, <3>2 DEF IInv, TypeOK, SimulatorTypeOK
        <5> QED
          BY <5>1, LenProperties
      <4>2. waitDelay'[l] = Commanded(entered[a[l]], l)
        BY <1>4, <2>1, <3>2 DEF Applies
      <4>3. waitDelay'[l] = Documented(entered[a[l]], l)
        BY <1>4, <4>1, <4>2, DocumentedLemma
      <4> QED
        BY <3>2, <4>1, <4>3
    <3> QED
      BY <3>1, <3>2
  <2>4. r' = [r EXCEPT ![l] = R]
    <3>1. \A k \in Leds \ {l} : waitDelay'[k] = waitDelay[k]
      BY <1>4 DEF Rests
    <3> HIDE DEF R
    <3> QED
      BY <2>3, <3>1
  <2>5. Regulator!Apply(l)
    BY <1>1, <1>4, <2>1, <2>2, <2>4 DEF Regulator!Apply, First
  <2> QED
    BY <2>5 DEF Regulator!Next
<1> QED
  BY <1>3, <1>4 DEF Effect

\* The LEDs take the rates of the pressures entered, all of them, once and in
\* their order, whatever way the threads are scheduled, when main takes the
\* readings: for any pool, any number of readings and any pressures but 100,
\* for which the table of main.cpp and its code differ.
THEOREM LedsRegulated ==
    ASSUME ~OptimisedBuild, Source = Main, Main \notin Interrupts,
           Pressures \subseteq Nat \ {100}
    PROVE  Spec => RegulatesLeds
<1>1. Spec => [](IInv /\ BInv /\ SoleOwner /\ CarriedOK /\ Agreement)
  BY InitInv, StepKeepsInv, InitBudget, StepKeepsBudget, DemoOwnersSole,
     InitAgreement, StepKeepsAgreement, PTL DEF Spec
<1>2. Spec => [](Registration /\ Order) /\ [][Effect]_vars
  BY <1>1, InitRegistration, StepKeepsRegistration, InitOrder, StepKeepsOrder, PTL
  DEF Spec
<1>3. Spec => []Same
  BY <1>1, <1>2, AppliedLemma, PTL
<1>4. Effect \/ UNCHANGED vars => Effect
  <2>1. UNCHANGED vars => Effect
    <3> SUFFICES ASSUME UNCHANGED vars PROVE Effect
      OBVIOUS
    <3>1. UNCHANGED <<entered, todo, pc, queue, msg, listener, waitDelay>>
      BY DEF vars, vinciVars, simulatorVars
    <3>2. Constructing' <=> Constructing
      BY <3>1 DEF Constructing
    <3>3. \A l : Opened(l)' = Opened(l)
      BY <3>1, <3>2, PlacesStay
    <3> QED
      BY <3>1, <3>3, DoneStays DEF Effect, Rests
  <2> QED
    BY <2>1
<1> QED
  BY <1>1, <1>2, <1>3, <1>4, InitRegulates, EffectRegulates, PTL
  DEF Spec, RegulatesLeds, Regulator!Spec
=============================================================================
