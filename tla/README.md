# Verification of the vinci actor library and its demo program

TLA+ models of the actor library (`src/vinci*`), the sensor-and-actuator layer
(`src/sal-cmsis`), the hardware simulator (`src/vinci-cmsis-simulation`) and the
demo program (`src/main.cpp`), the TLC configurations that check them, and proofs
of what holds for every number of actors and messages. Paths below are those of the
repository.

## The system

An *actor* is an object with a thread and a mailbox. Its thread runs `runBody`: take
the next message, hand it to `processMsg`, repeat. A *message* comes from a pool of
`MSG_POOL_SIZE = 10` objects; whoever sends it gives it up, and the actor that
processes it last releases it to the pool. Mailboxes and pool are the same class of
queue. The demo has one pressure sensor, one processor and two LEDs:

    main (simulator) --PressureSensorData--> sensor --same message--> processor
    processor --LedCmd--> green, red          every actor and main <--> pool

| Component | State | Operations | What makes it correct |
|---|---|---|---|
| Concurrent queue (`vinci-cpp/inc/ConcurrentQueueCpp.h`) | deque, mutex, sleepers | push, pop, pop(ticks), reset, count | each operation takes effect at once; FIFO; no lost wake-up; a timed pop returns |
| Message pool (`vinci-cmsis/inc/MsgPoolCmsis.h`, `vinci-cpp/inc/MsgPoolCpp.h`) | queue of free messages | acquire, release, nrOfFreeMsgs | a message is acquired by one thread at a time; none is lost |
| Actor (`vinci/inc/Actor.h`, `vinci-cmsis/inc/ActorCmsis.h`, `vinci-cpp/inc/ActorCpp.h`) | mailbox, thread, `waitDelay` | send/receive, message, message(ticks), runBody, join | sole ownership of the mailbox and of the message in hand; FIFO; no dispatch before the class has its members and its `processMsg`; no use after destruction; join returns |
| Message builder (`sal-cmsis/inc/Messages.h`) | none | build | never finds the pool empty |
| BlinkingLed | `_on`, `waitDelay` | start, stop, processMsg, toggle | takes every command, in order; releases its messages; toggles at its rate |
| PressureSensor | `_listener` | registerListener, processMsg | passes every reading on to its listener |
| ProcessorOne | none | processMsg | two commands per reading, of the same regime |
| Simulator | panel, standard input | display, setPressureSensor | each reading is sent once |
| main | position | construct, set up, loop, sleep | setup before the first reading; constructors done before the first dispatch |
| CMSIS-RTOS simulation (`cmsis_os2.h`) | global `message_size`, heap buffers | osMessageQueue*, osThread*, osMutex*, osKernel* | as the comments of its functions |

They interact only through queues, with two exceptions: `count()` reads a queue
without its lock, and `hardware` is written by the LED threads and read by main.

The hard parts: five threads whose steps interleave; a condition variable with
timeouts and spurious wake-ups; a finite pool whose exhaustion nobody handles; the
thread of an actor running before the actor's constructor is done; messages that must
be given up exactly once on every path; commands that must arrive in the order of the
readings; waits that start again with every message; ending a thread and destroying
the actor it runs on; standard input that fails; and pointers into temporaries.

## Modules

| Module | Models | Kind |
|---|---|---|
| `ConcurrentQueue` | what the queue promises (`vinci/inc/ConcurrentQueue.h`) | abstract specification |
| `ConcurrentQueueCpp` | the queue, step by step | implements `ConcurrentQueue` |
| `CmsisOs2` | the RTOS simulation's message queues and `ConcurrentQueueCmsis` | implements `ConcurrentQueue` twice |
| `MCConcurrentQueueCpp`, `MCCmsisOs2` | instances | |
| `MessageOwnership` | the ownership protocol of messages | abstract specification |
| `ActorCpp` | the life of actors over that protocol: construction, loop, end, join, destruction | specification |
| `OwnershipLemmas` | facts about queues whose contents are disjoint | lemmas |
| `MessageOwnershipProofs`, `ActorCppProofs` | theorems about the protocol and the life of actors | proofs |
| `ConcurrentQueueCppProofs`, `CmsisOs2Proofs` | theorems about the two queues | proofs |
| `Messages` | the variant a message carries | data |
| `Vinci` | the actor library: one operator per step of a thread | state, steps |
| `BlinkingLed`, `PressureSensor`, `ProcessorOne`, `Simulator` | one file of the demo each | actions |
| `DemoApp` | `main.cpp`: the composition, its properties | specification |
| `Regulation` | what `main.cpp` promises about the LEDs | abstract specification |
| `TimedDemo` | the demo with a clock | implements `DemoApp` |
| `MCDemoApp`, `MCTimedDemo` | instances | |
| `DemoAppProofs` | types, ownership and pool of the demo, in every build and for every source of readings | proofs |
| `DemoRegulationProofs` | what the demo does with the readings, in a build without optimisation | proofs |
| `TimedDemoProofs` | theorems about the demo with a clock | proofs |

### The queue

`ConcurrentQueueCpp` gives each thread a program counter `pc`. `Lock` is the
`unique_lock`; `PushBack` and `NotifyOne` are the two statements of `push`;
`TakeFront`, `Wait`, `WakeUp`, `Expire`, `Relock` and `GiveUp` unfold the two waits
with a predicate: the test under the lock, the sleep that gives the lock back, the
wake-up by a notification, spuriously or by the deadline, and the test after it.
`Swap` is `reset`. `count` takes no lock: `ReadFirst` and `ReadSecond` read the two
positions whose difference is the size of a deque, in either order. (`begin` goes on
counting over a `reset`; the real positions of the fresh deque are unrelated to the
old ones, which can only make `count` worse.) Inside the lock a step of the model may
stand for several instructions; nothing but `count` can tell.

`ImplementsQueue` maps a thread between its call and its effect to a call of
`ConcurrentQueue`, and a thread after its effect to one that is done. It justifies
that everything above the queue treats push and pop as atomic.

`CmsisOs2` is the layer between that queue and the actors: the demo's mailboxes and
pool are `ConcurrentQueueCmsis`, whose push and pops copy a pointer through a buffer of
the heap. `Copy` (allocate, copy in) and `Push` are `osMessageQueuePut`; `Pop`, `Save`
(copy out, free) and `GiveUp` are `osMessageQueueGet`; `New` sets the one global
`message_size` that all copies use. `allocated` is what new has returned and delete[]
has not, so a buffer's address can be used again. A message copied with another size
than its own is `Garbage`. `First` and `Second` show two queues side by side to be
atomic queues. That depends on both having messages of one size (`OnePointer`), as all
queues of the program do; with two sizes `ImplementsQueues` does not hold.

### The life of an actor

`ActorCpp` models the std port (`ActorCpp.h`, `MsgPoolCpp.h`) and `Actor.h` over it;
the CMSIS port makes the same calls (`osThreadNew`, `osThreadJoin`), and the demo never
ends an actor. `processMsg` is any handler that keeps the ownership protocol: it
acquires up to `SendBound` messages, sends each of the messages it holds to an actor
somebody knows or releases it, in any order, and returns with none left; it may change
the delay of the next wait. `phase` is the life of the object: *raw*, *members* (the
members of `Actor` and `ActorCpp` but the thread), *base* (the thread runs, the derived
class has neither its members nor its `processMsg`), *derived* (it has both, and the
body of its constructor runs: it may set a delay, and from now on the object is known to
others), *alive* (the constructor has returned), *stopping* (asked to end), *joined*,
*destroyed*. An actor may run `processMsg` while its constructor's body still does.
That no member initialiser sets a delay or hands out the object, which none in the
repository does, is an assumption. `run` is where its thread is; *loop* is the look at
`waitDelay` that chooses between the two waits, so a change of the delay between two
turns, or by the body of the constructor, is seen or not as in the code.

The code has no rule for ending a program of actors, so the owner's discipline is an
assumption and part of what the model says: it takes one message per actor for the
request to end before it constructs the first, asks each to end when it is done
working, joins all of them, and destroys them after the last join. Both halves matter.
Messages that reach an ended actor stay in its mailbox, and with the last ones of the
pool stranded there a request to end could never be built: `Shutdown` needs the reserve.
And an actor not asked to end yet may still send to one that has ended: destroying that
one early would break `UsedWithinLife`.

### The demo

`queue` holds mailboxes and pool, `msg[a]` is the pointer `processMsg` was given,
`draft[t]` the pointer `build` returned, `data[m]` the payload. `todo[t]` is the
straight-line code a thread still has to run before its next decision: calls of
`start`, `stop`, `registerListener` or `setPressureSensor`, each a `Build` (acquire
and store) followed by a `Send` (push). A handler's decision and the disposal of its
message are one step each, so that between any two operations on a queue every other
thread can run. Constructors are two steps per actor: the base class, which starts the
thread (`StartThread`), and the members and `processMsg` of the derived class
(`Override`). Only `ProcessorOne`'s has a body: main is at *body* while it registers the
processor, and `Return` comes when that call is made. With an interrupt routine that
takes readings the processor can be given one before its constructor has returned.

`Source` is the thread that takes readings. In the program it is main. main.cpp:76
says the simulator is equivalent to an interrupt routine; with `Source = "isr"` the
readings come from a thread of their own, from the construction of the simulator on.

`Interrupts` are the clients that are interrupt routines of a real RTOS. `push` waits
without limit for room in the mailbox and ignores the status of the put, while
`cmsis_os2.h:222` says a timeout in an ISR is `osErrorParameter`: `SendFails` is a
put of such a thread that fails, with the message in no queue.

`OptimisedBuild` is about `msg->data()`: it returns a copy, and the three handlers use
a pointer into it after it is dead. `FALSE` is a build as the repository configures it,
where the stack slot is intact: `Read(m)` is the payload. With `TRUE` only its type is:
`get_if` tests the live temporary, but the fields are read after its death. They may be
anything; the model takes the values a field of that type can have in the program, which
is enough for the finding. Compiled with g++ 12 at `-O1` and above (with the headers it
lacks included) the program indeed ignores readings and sets both LEDs to delay 0.

Standard input: a number is stored; anything else stores 0 and fails the stream; the
end of input, and every turn after a failure, keep the old value, which `display`
sends again if it is positive. (A number too large for an int, which stores the
largest one and fails the stream, is covered as a number followed by a failure.)

`KeepsOwnership` maps the demo to `MessageOwnership` (a thread holds `msg` and
`draft`). `RegulatesLeds` maps it to `Regulation`: the number of rates a LED has taken
is the number of readings entered, plus one for main's setup, less what is still under
way, counted over all the places a reading or a command can be. The rates it wants are
those of the table at the head of main.cpp (`Table`), not those of the code's branches.
The two differ at one pressure: 100 is in the table's second row ("between 50 and 100")
and in the code's third branch. The runs use 49, 75 and 101.

### The demo with a clock

`TimedDemo` adds to `DemoApp` what is left of each LED's timed wait (`left`), of main's
sleep (`nap`), and two histories. All times of `main.cpp` are multiples of 100 ms, the
unit. `StartWaits` is the argument of `message(waitDelay())` in `runBody`: each turn of
the loop starts a new wait, after a command as after a toggle. `Compute` is a step of a
thread and takes no time; a LED may toggle only when its wait is over. `Tick` lets a
unit pass when every thread waits: for a message, for a timeout, in the sleep, or in
`std::cin`, where main may stay as long as nobody enters a pressure. This assumes that
the threads are fast against 100 ms, which holds for this program on any idle machine;
what happens without the assumption is what `DemoApp`, which has no clock, shows.

Under this assumption the processing of a reading is over before main's sleep is, and
what follows from it is checked: five messages are enough for any number of readings
(`NoNullDereference` of the timed run), where without the clock 2n + 3 are needed.
`LateOnlyByReading` says when a LED may miss its period; `KeepsBlinking`, what
main.cpp:20 says of the LEDs, fails.

## Runs

| Run | Bounds | Shows |
|---|---|---|
| `lifecycle` | 2 actors, an owner, 4 messages, 2 acquired by a call of `processMsg` | no early dispatch, no use after destruction, no message shared or lost but late ones, shutdown ends |
| `queue` | 2 producers (one also resets and counts), 2 consumers (one also times out), 2 calls each | atomicity, no lost wake-up, nobody stranded, timed pops return |
| `cmsis_queues` | 2 queues, 3 threads (main, an actor, an interrupt routine) with 2, 2 and 1 calls, 4 buffers | both queues are atomic queues of whole messages; no buffer shared, freed twice or lost but by reset |
| `demo` | 2 readings of 2 regimes, 7 messages | ownership, order of the rates, no empty pool, no dispatch before the constructor has returned |
| `demo_liveness` | 2 readings, 7 messages | every reading reaches both LEDs, the pool refills |
| `interrupts` | readings from an interrupt routine, 2 readings, 3 messages | sole owner, losses in two places only, LEDs that agree, no pure virtual call, with failing puts, drops and crashes |
| `timed` | 2 readings of 2 regimes, 5 messages, times up to 1.1 s | five messages are enough; a LED is late only by a command |
| `pool_exhaustion` | 4 readings, 10 messages, LED threads not scheduled | violation |
| `zero_reading` | 2 readings, 0 among them | violation |
| `optimised_build` | 1 reading, optimised build | violation |
| `starved_led` | a reading of one regime every 900 ms | violation |
| `torn_count` | 1 pusher, 1 popper, 1 counter | violation |

Two calls per thread are enough for the queue: a lost wake-up takes two pushes and two
sleepers, a stale deadline one notification and one timeout. The producers push
different items, so that a change of order shows. Two readings are enough
for order and skips in the demo: the second overtakes or overwrites the first, or
does not. Two actors and four messages are enough for the life of actors: two for the
requests to end, one an actor has in hand while the other takes or is sent one. The
histories of `timed` saturate at `Horizon`, beyond one period of 1000 ms (for rates of
2 and 4 s the run says nothing about lateness; `starved_led` uses two periods).
Deadlock is checked in `demo`, `demo_liveness`, `timed` and the counterexample runs of
the demo: some LED always blinks. It is not in `lifecycle`, which ends, in `queue`,
`queue_count` and `cmsis_queues`, where threads stop after `MaxCalls` operations and an
untimed pop may rightly wait for ever, nor in `interrupts`, where the process may crash
and both LEDs can end up stopped.

*How large the pool must be.* With n readings the program needs 2n + 3 messages at
worst: two start commands and two commands per reading in the LEDs' mailboxes, and the
reading the processor has in hand. `demo` has n = 2 with exactly 7 messages and never
finds the pool empty; `pool_exhaustion` has n = 4, which needs 11, with the 10 of the
code. Readings come at 100 ms apart at the fastest (after the end of the input they
do), so this takes LED threads that are not scheduled for that long.

Fairness: in `demo_liveness` each thread is weakly fair, which is what an operating
system gives a thread that can run; entering readings is not fair. In `queue` each
thread is weakly fair inside an operation (a mutex that some thread always gets is
enough, because the calls are bounded), deadlines pass, and spurious wake-ups do not
go on for ever. Calling an operation is not fair. In `lifecycle` each actor's thread is
weakly fair, and the owner finishes what it began: it constructs, asks to end, joins and
destroys (its own work is not fair). The timed runs check safety only: a clock that may
stop needs no fairness there.

## Findings

The five violation runs are disagreements between code and documentation, described
with their lines in `PROJECT.json`: the null pointer of an empty pool (`Messages.h:85`),
the reading zero (`Simulator.h:55`), the dead temporary (`main.cpp:48`), the LED that
never blinks because each command starts its wait again (`Actor.h:135`), and the
unlocked count (`ConcurrentQueueCpp.h:87`). The compiled demo, fed the pressure 49 every
0.9 s, shows the fourth: its red LED stays as it was. Two losses of messages, at the
sensor without a listener (`PressureSensor.h:54`) and in a put that fails
(`ConcurrentQueueCmsis.h:54`), are what `KnownLosses` names: it documents them, it does
not exclude them.

The trace of `optimised_build` loses no message: the sensor reads a garbage listener, the
green LED, registers that and passes the reading to it. One more disagreement has no run
of its own, because reading the two places together is enough: at pressure 100 the table
at main.cpp:21 wants 1000 and stopped, and main.cpp:57-58 sets 4000 and 2000.

## Proofs

Each theorem is for every value of the constants, from the named assumptions of the
modules it is about.

*The queue* (`ConcurrentQueueCppProofs`), for any finite number of threads, any items
and any number of calls: `QueueTypeCorrect`, `QueueImplemented` (the refinement of
`ConcurrentQueue`) and `WakeupsKept`. The invariant `IInv` adds to `TypeOK` that where
a thread is tells in which operation it is (`Position`), that its argument is set and
its result is not until it returns (`Parameters`), and that only a thread in its wait is
asleep and only a timed pop expires (`Sleeping`). Four steps are seen from outside:
`PushBack`, `TakeFront`, `GiveUp` and `Swap` are where an operation takes effect; the
call and the return are the other two visible steps, and all the rest stutters.
`NoLostWakeup` is inductive given `IInv`: a push adds an item and a notification to
come, a notification turns into an awake thread, a pop takes an item and a thread, and
`Wait` happens with an empty queue. `FS_AddElement` and `FS_RemoveElement` count.

*The RTOS's queues* (`CmsisOs2Proofs`), for any number of queues, threads, calls and
addresses: `RtosTypeCorrect`, `BuffersSole`, `LeaksKnown` and `QueuesImplemented`. `IInv`
adds where a thread has a pointer (`PointerInUse`) and that a call has its queue and
argument. `SoleBuffer` is then inductive: a new buffer is one not allocated, hence in no
place.

`QueuesImplemented`, the refinement of `ConcurrentQueue` by two queues at once, assumes
that all messages have one size (`OneSize`), as the pointers of the program do. It needs
`SoleBuffer`, by which no put writes to a buffer in use (`BuffersStay`), and `Whole`:
from the creation of the first queue on, the one global `message_size` is the size of
every queue's messages and of every buffer in use. `StepImplements` is stated of any
queue `q`, and both instances follow from it. A put takes effect at its push, a get at its
pop; the copies in and out are not seen.

*The ownership protocol* (`MessageOwnershipProofs`), for any number of actors, clients
and messages, from `NamesAssumption` and `PoolAssumption`: `TypeCorrect`, `OwnersSole`
(no message has two owners), `NoMessageLost` (none is without one) and
`MailboxesNeverFull` (no mailbox holds more messages than the pool has). `TypeOK` is
inductive by itself. `SoleOwner` is inductive given `TypeOK`: taking the head of a queue
needs that the queue has no message twice, putting one needs that its holder is the
only one, and both are parts of `SoleOwner`. `MailboxesFit` follows from the absence of
repetitions by the pigeonhole principle: it is what makes the put of
`ActorCmsis::receive`, with its unlimited timeout, return.

*The life of actors* (`ActorCppProofs`), for any number of actors, clients and messages:
types, sole owners and mailboxes as above, and

- `LifeNoEarlyDispatch` and `LifeUsedWithinLife`, from the invariants `Stages` (what
  each phase says of the thread, the delay and the mailbox: before *derived* the wait is
  untimed and the mailbox empty; after *joined* the thread has ended) and
  `DestroyedLast` (an actor is destroyed only when all have been joined, so that no
  thread is left that could send);
- `LifeOnlyLateLost`, from `Ending` and `Stops`: an actor leaves its loop only after it
  took its request to end, which was sent after every message that is not late, and
  mailboxes are first-in first-out; so what is left in the mailbox is late.

*The demo* (`DemoAppProofs`), for any sets of actors, clients, interrupt routines and
pressures, any pool, any number of readings, taken by main or by an interrupt routine,
with and without optimisation: `DemoTypeCorrect`, `DemoOwnersSole`, `LossesKnown` and
`PoolSuffices`.
`TypeOK` is not inductive: that `Dispose` pushes a message and not a null pointer depends
on where the actor is. `IInv` adds `Handling`: an actor has a message in hand exactly
while it runs `processMsg` (`MsgInHand`), a message built belongs to a call its thread
still has to make (`DraftForCall`), an actor has calls to make only before its release
(`CallsInHandler`), and main starts no thread twice (`Construction`). `SoleOwner` and
`KnownLosses` are then proved step by step: each step of a thread takes the head of a
queue, gives a message to a queue, drops one, or does neither. `KnownLosses` is the
dual of `SoleOwner`: no step but the two it names leaves a message without an owner.

`PoolSuffices` is the bound of "How large the pool must be": with 2n + 3 messages
for n readings `build` never gets a null pointer. An invariant on the number of messages
in use would not do, because a message in the sensor's mailbox stands for two more to be
built later, and one dropped or lost stands for none. `Load` counts what is in use, what
the calls still to be made will build, and what each message not decided yet will cost,
less two for each reading entered; no step raises it, so it stays at the 2 of the start
(`Budget`). Before the sensor knows its listener another count, `Base`, bounds the same
by 3. That no step raises `Load` is used again under the clock.

*What the demo does with the readings* (`DemoRegulationProofs`). All its theorems assume
`~OptimisedBuild`, without which a handler may read anything, and are for any pool,
any pressures and any number of readings, with empty pools (a thread then stops for
good) included.

- `OverriddenBeforeDispatch`, for readings taken by main or by an interrupt routine: no
  actor takes a message or toggles before its class has its members and its own
  `processMsg`. The base class starts the thread, so nothing local makes this true. It
  is true because of a global order (`Sequence`): an actor without its own `processMsg`
  has an empty mailbox and an untimed wait (`Dormant`); until main is at the body of the
  last constructor the sensor has no listener (`Prelude`), so that the processor, the
  only one besides main to call the LEDs, gets no reading; and only main registers
  (`Senders`). The order of the declarations in main.cpp, sensor first, matters.
- `ConstructedBeforeDispatch`, if main takes the readings and is no interrupt routine: no
  actor runs before its constructor has returned. For the processor, whose constructor
  hands it out, that is because there is no reading before main's loop (`Begun`). With
  an interrupt routine it does not hold: a reading can reach the registered listener
  while main is still inside the constructor.
- `LedsAgreeHolds`, if main is no interrupt routine: once nothing is under way, the LEDs
  that are not at their first rates have those of one reading. `Agreement` speaks of
  `Last`, the rate a LED will have when it has taken what is in its mailbox: before the
  first decision all are on their way to the first rates, after one to the rates of
  the last reading decided or the processor still has to call them.
- `HandlersKeepOwnership` and `NothingLost`, if main takes the readings and is no
  interrupt routine: the demo implements `MessageOwnership`, and no message is lost.
  What it takes is that the sensor never drops a reading: as long as it has no listener,
  the next command that reaches it is the registration (`Registration`).
- `LedsRegulated`, under the same assumptions and without the pressure 100: the demo
  implements `Regulation` with the rates of main.cpp's table. The
  invariant `Order` numbers the readings as they are entered, with the registration, which
  goes the same way before them, as number 0. From where messages are it computes which
  number each actor has got to (`Heard`, `Taken`, `Decided`, `Opened`, `Done`), and says
  that the message at each place of each mailbox, in each hand and in each call carries
  what its number tells (`InOrder`, `CallsInOrder`), that a thread calls nobody twice
  (`Once`), and how the start-up goes (`Stages`). `RegulatesLeds` counts what a LED has
  applied in another way; `Same` says that the two agree. Nothing weaker is inductive:
  without the numbers a message in a mailbox could be anybody's.

`Source = Main` is the program as it is; `interrupts` shows what fails without it: an
interrupt routine's reading can overtake the registration and be dropped, and two of its
puts can fail. `Main \notin Interrupts` says that main is a thread, whose puts wait.

*The demo with a clock* (`TimedDemoProofs`): `TimedImplementsDemo`, by which the
theorems above hold under the clock, and

- `ClockTypeCorrect`: no wait has more time left than its LED's delay. That needs that a
  LED's delay changes only in its own `processMsg`, never in a wait (`DelayLemma`), and
  `IInv` of the demo.
- `LateByReadingsOnly`: when main takes a reading nothing is under way but the waits of
  the LEDs (`Calm`). That comes from the assumption that time only passes when every
  thread waits; what follows is that a wait can only be started again by a reading's
  command, once.
- `TimedPoolSuffices`, with `~OptimisedBuild`: five messages are enough for any number of
  readings. `Load` never rises, and when all is calm and nothing is lost every message
  is in the pool (`CalmPoolFull`), so that each reading starts from nothing again
  (`Surplus`). The code's ten are enough as long as the threads are fast.

All rest on `OwnershipLemmas`: what `Append` and `Tail` do to the range of a sequence
(`AppendLemma`, `TailLemma`, `HeadOrTailLemma`), and that the three moves `Takes`,
`Puts` and dropping keep a family of queues and sets disjoint (`TakeLemma`, `PutLemma`,
`DropLemma`).

Only model-checked: the liveness properties (`Shutdown`, `NoStrandedItem`,
`TimedPopReturns`, `EveryReadingApplied`, `PoolRefills`), which are out of the prover's
reach. The properties of the violation runs are false, so there is nothing to prove of
them.

## What is not modelled

- The mutexes (`osMutexNew` returns a null pointer, which `osMutexAcquire` would
  follow), the kernel state and the tick counter of the RTOS simulation: no code of the
  repository uses them.
- `msgSize`, names, thread attributes, and the text the simulator prints.
- Bounded queues of a real RTOS, but for the put of an interrupt routine:
  `MailboxesFit` says that a queue as large as the pool never fills.
- Threads that are slow against the clock: the demo without a clock allows any speed.
- `delay`, which only puts its caller to sleep and which no actor calls.
- The stubs PWM, GPIO, Valve and Motor, which have no behaviour; the unit tests, four
  straight-line sequences in one thread; and `doctest.h`, a vendored test framework.

`doctest.h` has 7106 of the 8884 lines of source, so the map covers a small share of
all lines, but most of the code that has state or control.

## Plan

1. *Done:* the queue and its abstract specification; the message queues of the RTOS
   simulation over it; the ownership protocol; the life of actors; the demo with its two
   abstract specifications, interrupt routines and a clock; types, ownership, losses,
   lifetime, dispatch, the size of the pool, the order of the readings, and the
   implementation of the atomic queue, of the ownership protocol and of the regulator,
   proved.
2. Every safety property and refinement that a run checks is proved. What could follow:
   `Regulation` when an interrupt routine takes the readings, with the readings it drops
   left out; and that the bounds of the pool are tight, which `pool_exhaustion` only shows
   for one number of readings.
