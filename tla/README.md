# DERA in TLA+

DERA ("Dynamic Event-driven Actors", `src/`) is a Java event engine.  *Actors*
subscribe to *event types*; events travel through one ring buffer to one
distributor thread, which notifies the subscribed actors; an actor may run a
piece of behaviour on a pool thread and then publish its output events.  This
directory models that engine in TLA+, checks it with TLC on small instances and
proves some of its properties with TLAPS.

## 1. The system

One `StandaloneExecutionDomain` is a process.  It owns the components below
(paths are under `src/src/main/java/dera/`).

| component | state | operations | calls |
|---|---|---|---|
| **Event channel** `runtime/EventChannel`, `ChannelItem` | a Disruptor ring of `ChannelItem`s, its sequencer and the distributor's sequence | `start`, `send`, `stop`; `onEvent` on the distributor thread | `notified` of every subscribed actor |
| **Task executor** `runtime/BoundedBlockingExecutor`, `ExecutionManager`, `ExecutableEntry` | a thread pool (core size 0, unbounded queue), a semaphore | `execute`, `beforeExecute`, `afterExecute`, `shutdownNow` | behaviours, `Action.fire` |
| **Actors** `core/Action`, `Barrier`, `Condition`, `extension/*` | inputs, outputs, the rounds of a barrier, a schedule (timer) | `notified`, `fire`, `addInput`, `addOutput` | the channel, the executor |
| **Registry** `runtime/EventActorManager`, `SubscriptionEntry` | actors, their states, event types with consumers and producers | `addEvent`, `removeEvent`, `register`, `deregister`, `bindInput`, `bindOutput`, `enable`, `disable` | the actors' input and output sets |
| **Applications** `runtime/ApplicationManager`, `Application`, `ApplicationInstance` | applications, running instances by start and end event | `addApplication`, `deleteApplication`, the monitor's `notified` | registry (it is a high-priority actor) |
| **Life cycle** `core/LifeCycle`, `runtime/StandaloneExecutionDomain`, `DomainServer` | a started and a stopped flag in every component | `init`, `start`, `stop` | all of the above |
| **Monitoring** `frontend/websocket/*` | one web-socket session per browser, dirty flags of the event types | `onConnect`, `onClose`, a periodic status task | registry |
| **Web user interface** `src/src/main/resources/web/js/dera*.js` | per page: the graph of types and actors, a terminal, the WebSocket | loading, `drawInitialGraph`, terminal commands, `onmessage` | REST interface, monitoring |
| **REST interface** `frontend/rest`, `frontend/command`, `frontend/mapping` | none of its own | HTTP requests | registry, applications, `publish` |
| **Bridges** `extension/SimpleEventBridge` | a target URL | `notified` posts to another domain | REST of the other domain |

The threads: application threads (`main`, Jetty's HTTP threads) call the
registry and `publish`; the *distributor* (a daemon thread) runs every
`notified`; pool threads run behaviours and publish outputs; timer threads
publish; a monitoring thread per browser reads the registry.

### What each component must get right

| component | what is hard | what makes it correct |
|---|---|---|
| Event channel | a single-producer ring used by many threads; a full ring; publishing from a handler; a clone that throws after the sequence was claimed; a handler that throws; stopping in a batch | events are handled once, whole and in the order they were sent; no slot is overwritten before it is handled; a send returns; an accepted event is handled |
| Task executor | no core threads: the last worker gives up while a task arrives; shutdown between the steps of a submission; a behaviour that kills its worker | no permit leaks; no task is stranded; tasks begin in order; a stopped pool keeps nothing; every accepted task ends |
| Barrier | rounds of several correlations open at once, repeated events, the interface changing meanwhile | one firing per complete round, none early, none missed; the barrier fires again |
| Registry | operations without locks, each a sequence of map operations; entries replaced while somebody holds them | nobody is paired with what it did not ask for; a call that nothing interferes with has its whole effect; pairings are not lost as long as no two calls about the same type meet |
| Applications | the distributor iterates sets that REST threads change; ends match starts only by application | an application is matched by all the events of its definition, and only by events of some definition; a start event makes one instance, an end event completes every instance the application has, of whatever correlation; a deletion leaves no instances, unless the monitor stores one meanwhile, and names in the matching sets, which must do no harm |
| Life cycle | flags set by a template method; parts started and stopped in any order | `stop()` stops the ring, the pool and the daemon executor, unless it overtakes `start()`; the web server and the applications it never stops, since their flags always say that they are; after `start()` there is a distributor |
| Monitoring | flags read and cleared by several threads; a session that is lost while the periodic task looks at it | every connected page is told of a type that stays dirty, as long as the task lives; a page that connects does not end it, though one that closes may |
| Web user interface | scripts, callbacks and answers in any order; two requests for one graph | what is missing in a graph was added too late for it; a page draws once it is answered |
| Other actors | a condition publishes on the distributor, a timer from a thread of its own, an action from the pool, all into the same bounded ring | effects follow their causes; work that was accepted is done; a stopped timer is silent |
| Bridges | a remote domain that is down or slow | an event is forwarded at most once; its loss is only logged, and the distributor waits without a bound for the answer, during which nobody is notified. The model has both and no property forbids either |

The complete list of hazards, each with its line and the properties that cover
it, is in `PROJECT.json`.

## 2. The modules

| module | what it is |
|---|---|
| `FifoChannel` | abstract: a bounded FIFO queue |
| `EventChannel` | the Disruptor ring, `send()` step by step, the distributor's loop; implements `FifoChannel` |
| `TaskPool` | abstract: a line of tasks, at most so many under way, each with one fate |
| `BoundedBlockingExecutor` | the semaphore, `ThreadPoolExecutor` with core size 0, `shutdownNow()`; implements `TaskPool` |
| `AndJoin` | abstract: per correlation, rounds that collect a set of types and close with one firing |
| `Barrier` | `notified()` on the distributor and the interface changes of another thread; implements `AndJoin` |
| `Registry` | abstract: the registry with every operation a single step |
| `EventActorManager` | the registry's operations, one action per operation on a concurrent map or on an entry; implements `Registry` as long as no calls meet |
| `ApplicationInstances` | abstract: the life of the instances of applications, whoever adds and deletes applications |
| `ApplicationManager` | `addApplication` and `deleteApplication` step by step, and the monitor's `notified` on the distributor; implements `ApplicationInstances` |
| `EventDelivery` | abstract: who was notified of which event; nobody of an effect before its cause |
| `ExecutionDomain` | the composition: channel, distributor, executor, actors of every kind, publishing threads, timers, and `start()` and `stop()` with the flags of `LifeCycle`; a send and the submission of a task are one step each here; implements `EventDelivery` |
| `WebConsole` | the pages, the requests they send, the dirty flags and the status sender |
| `MC...` | the small instances of the seven for TLC |
| `...Proofs` | the theorems of the seven |

Several modules hold *faulty variants*: operators, marked as such in their
comments, that change a definition the way a plausible mistake would.  No
specification uses them; `PROJECT.json` lists which property each of them
violates when it takes the place of the definition it follows.

### EventChannel

`slots`, `nextValue`, `cachedValue`, `cursor` and `consumed` are the ring's
entries, the two fields of `SingleProducerSequencer`, its cursor and the
distributor's sequence.  A thread in `send()` goes through `EnterSend`,
`NextRead` / `NextGate` / `NextTake` (`ringBuffer.next()`), `SetAttributes` /
`SetType` / `SetCorrelationId` (`ChannelItem.cloneEvent`) and `Publish`;
`SetAttributesThrows` is the exception of a null attribute, after which the
claimed sequence is never published by that send and its half-written item is
skipped by `onEvent`; an item that nobody has written at all has no map of
attributes, and the exception of `toEvent()` ends the distributor (only
overlapping sends get there).  The distributor's loop is `BeginBatch`, `OnEvent`,
`EventHandled`, `EndBatch`; `HandlerThrows` is an exception of an actor, which the
Disruptor's default handler makes fatal, and `DistributorHalts` the end after
`stop()`.  A handler may itself send: the distributor is one of `Threads`.  The
Disruptor is not part of the repository; its steps are modelled from how
`EventChannel` configures and calls it and marked external.  An event is only
the identity `<<thread, count>>`; which actors an event is delivered to is the
registry's matter.

### BoundedBlockingExecutor

Each submitter goes through `Acquire` (the semaphore), `Check`, `Offer`,
`RecheckRunning` or `RecheckStopped` (`ThreadPoolExecutor.execute`, external) and `Release` (the
`finally` clause).  Workers are interchangeable, so the model counts how many are
polling, timed out, about to leave, or killed by a behaviour; the busy ones are
the tasks in hand.  `Run` is `ExecutableEntry.run`, `AfterExecute` fires the
outputs.  `Stop` and `Drain` are the two halves of `shutdownNow()`.

`TaskPool` is what is left when the threads are taken away: a task is refused or
waits in line, begins when it is the oldest and fewer than `MaxPoolSize` others are
under way, and ends with its outputs fired or not.  The refinement mapping reads
the fate of a task off its status (`Fate`); permits, workers and the places of the
submitters are hidden.

### Barrier

`left` is `correlationIdToEventIds`; an empty set stands for no entry, since
`updateBarrier` treats the two alike.  Copying the inputs and publishing the
outputs are iterations of `synchronizedSet`s without their lock: they are separate
steps, and an addition during one makes it throw (`CopyThrows`,
`PublishThrows`), which ends the distributor.  `got`, `awaited` and `published` are
history variables of the properties.  `Deregister` and `Register` change what is
delivered, not the open rounds.

### EventActorManager

`types`, `actors` and `mode` are the three concurrent maps; `paired` is what the
`SubscriptionEntry` of a type holds, `None` where its lazily created set is
null; `wanted` is the actors' input and output sets.  A thread that looked an
entry up goes on with that object even if the map has another one by then;
what it does to a stale object nobody sees, so `holds` only tells whose object is
the current one.  `met` is a history variable: the calls that ran while another
call about the same actor or the same type did.  The first of the two checks
of `addEvent(String)` is merged with the second, which decides.  A field that
is read and written without synchronization is read sequentially consistently.

`Registry` has the calls without their steps.  In the mapping a call counts as
done from the step in which it decides whether it has an effect, its first one
(for `addInput` and `addOutput` the step that adds to the actor's own set):
`WholeTypes`, `WholeActors`, `WholeMode` and `WholePaired` are the four maps with
the rest of the decided calls carried out.  `wanted` and `inDomain` are
themselves.

### ApplicationManager

`defined`, `matched` and `instances` are the concurrent maps (`matched` holds both
`startEventToAppId` and `endEventToAppId`; `None` is a missing entry), `state` the
states of the instances.  `addApplication` is a check, a `put` and a loop that creates
or extends one set of names after the other; the sets are plain `HashSet`s, so that
two overlapping additions may lose a name and an addition during the monitor's
iteration may make it throw, which ends the distributor (`dpc = "dead"`).  The
monitor takes an event as a start or, only if nothing is started by it, as an
end, so that an event that starts one application never ends another.  `log`, `declared`, `absent`, `met` and `orphaned` are histories of the properties.

`ApplicationInstances` does not know the matching tables, the steps of an addition
or the place of the monitor in its loops: an instance is created by an event that
starts its application, at most one by each event, and completes with all others
an application keeps at an event that ends it.  The mapping reads `instances` as
a set (`kept`, empty where the map has no entry) and is the identity on the rest.

### ExecutionDomain

`queue`, `batch` and `used` are the ring as `EventChannel` shows it from outside: what is
waiting, what of it belongs to the batch, and the slots that stay taken until the
batch ends.  `dist` and `todo` are the distributor's place in `onEvent` and `deliver`:
first the actors of high priority, then the consumers of the type, then those of
low priority.  `Notify...` is `notified()` of a kind of actor; `loops` are the
publications under way, each with its cause, so that an event in the model
knows which event led to it.  `Start...` and `Stop...` are the parts of `start()` and
`stop()`; `SwitchState` is `LifeCycle.switchState`, which sets both flags to the value of
`stopped`.  `daemonExecutor` refuses tasks after `stop()`, which makes a `start()` that is
still going on fail (`Refused`).

`EventDelivery` has no ring, no threads and no flags, only the types that exist, the
events that were sent and the events each actor was notified of.  It says which
publications and notifications are allowed: an actor publishes because of an
event it was notified of, after the actors of high priority were, and with the
correlation of that event; nobody is notified twice, nor of an effect before its
cause if it was due the cause.  The mapping is the identity on these three variables.

### WebConsole

`types` and `dirty` are the registry's, `session` and `listeners` those of the WebSocket
monitors, `sender`, `visiting` and `sending` the place of `DomainStatusSender.run` in its
loop.  `onConnect()` sets the session and then adds the listener, even if the page is
closed in between, and only then `onClose()` follows.  A reset of the flags is a loop over a
concurrent map: `resets` holds what it has yet to visit, and it clears one flag
after the other while types are added and removed (the loops that read the types or the flags
for an answer are one step).  For every page, `page` says which scripts have been loaded (`deraDrawing.js` asks for
the graph before `deraAjax.js` has defined `resetDirtyEvents`), `events` and `actors` are
its two requests, `snapshot` and `painted` what it draws, `adding` the command its
terminal waits for without serving callbacks.  `Drawable` and `StatusType` are
modelled as they are: the server's vocabulary ("EventType", "Action") is not the
one the scripts compare with ("Event", "EventActor"), so that an update is only
mentioned in a log and actions are not drawn.

## 3. What the runs show

The runs with the expectation *violation* each check one sentence of the
repository's texts that the code does not keep.

| run | instance | shows | distinct states |
|---|---|---|---|
| `channel_single` | ring of 2, 4 sends by one thread, clones and handlers that may throw, a stop at any moment | `ExclusiveSlot`, `EventuallyReceived`, `SendReturns` and that the ring implements `FifoChannel` | 2 898 |
| `channel_racing` | ring of 2, two threads, one send each | **violation** of `NothingLost` | |
| `channel_selfblock` | ring of 2, one send from outside, five by handlers | **violation** of `SendReturns` | |
| `executor_run` | 2 submitters, 2 tasks, 2 threads, behaviours that throw, a stop at any moment | `PermitsConserved`, `NoTaskStranded`, `NothingLeftBehind`, `TaskEnds` and that it implements `TaskPool` | 12 909 |
| `executor_bounded` | 1 submitter, 3 tasks, 2 permits | **violation** of `Bounded` | |
| `barrier_changing` | 2 inputs and a third that may be added, 2 outputs and a third, 2 correlations, re-registration | `RemainderRight`, `PublishesAll`, `KeepsFiring` and that it implements `AndJoin` | 142 776 |
| `barrier_addoutput` | outputs may be added | **violation** of `DistributorSurvives` | |
| `registry_calls` | 2 threads, 2 actors, 2 types; one thread uses every operation, the other adds types and pairs | `NoStrangers`, `CallsTakeEffect`, `StaysPaired`, and `AtomicUnlessMet`: calls that do not meet are calls of `Registry` | 1.4 million |
| `registry_lazy` | 2 threads register 2 actors and pair them with one type | **violation** of `Subscribed` | |
| `applications` | 2 applications with a start event in common, 3 events, one thread that adds and deletes, one that adds | `DeletedLeavesNothing`, `AddTakesEffect`, `EndCompletesAll`, `StartCreatesAll` and that it implements `ApplicationInstances` | 1.0 million |
| `domain` | ring of 2, a pool of one thread; a monitor, an action, a condition on its output, a bridge, a logger; a thread and a timer publish once each; start and stop at any moment, a type is removed | `MonitorFirst`, `CausalDelivery`, `StopComplete`, `TimerSilent`, `AllWorkDone` and that it implements `EventDelivery` | 382 678 |
| `console` | 2 pages, one with a terminal and a user who may close it, a type, an action and a barrier linked to it | `MissingLinksAreLate`, `DiesOnlyByClosing`, `SeenBeforeCleared`, `Informed`, `GraphDrawn` | 274 441 |

### Findings

- **`channel_racing`** (`EventChannel.java:62`): the ring is created for a single
  producer, and application, pool, timer and distributor threads all call
  `send()`.  Two overlapping sends claim the same sequence; one event is lost.
- **`channel_selfblock`** (`EventChannel.java:38`): `Condition` and `Barrier` publish
  on the distributor.  In a full ring that send waits for the end of the batch
  it is itself part of, and the domain stops.
- **`executor_bounded`** (`BoundedBlockingExecutor.java:46`): the permit is given
  back when the task is enqueued, not when it has run; the queue is unbounded.
- **`barrier_addoutput`** (`AbstractEventActor.java:97`): an output added while the
  outputs are iterated ends the distributor with an exception.
- **`registry_lazy`** (`SubscriptionEntry.java:39`): two threads create the consumer
  set of a type; the actor in the overwritten one is never notified.

The properties of the passing runs are stated for what the code does, and some
excuse a case that the run reaches.  These cases are known and not excluded by
any property:

- two calls of `addEvent` for one type (`EventActorManager.java:69`): the later put
  drops the pairings made in between, and `addEvent(String)` puts twice by itself;
- two additions of applications with one start event (`ApplicationManager.java:69`), of
  which one is never started, and an addition to the set that the monitor iterates
  (`:161`), which ends the distributor;
- an event that starts one application and ends another (`:170`) only starts, and an
  instance stored during a deletion (`:91`) outlives its application;
- an event between the start of the channel and that of the executor
  (`StandaloneExecutionDomain.java:87`), and a predicate that throws (`Condition.java:122`),
  end the distributor;
- a `stop()` that overtakes `start()` in the shutdown hook skips what is not started
  yet (`LifeCycle.java:17`);
- a forwarded event waits without a bound for the other domain (`SimpleEventBridge.java:32`);
- a page that closes ends the status sender (`WebSocketMonitorServlet.java:99`), one
  page's reset clears the flags of another's types, and a graph that is answered before
  the scripts are loaded stays without actors (`deraDrawing.js:19`).

### Bounds

| bound | meaning | why it is enough |
|---|---|---|
| `MaxSends`, `RingSize` | events per thread, slots | four sends in two slots wrap the ring twice and reach a full ring, both sides of the cached gating sequence, a batch of two and of one |
| `Tasks`, `Submitters`, `MaxPoolSize` | tasks submitted once each | two tasks are enough for one to arrive while the last worker retires and for two workers (one replaced after a throw); order needs two |
| `Types`, `Outputs`, `Correlations` | of one barrier | two correlations interleave; a third type is one that is added in the middle of a round |
| `Wishes`, `Operations` | which pairs an actor may ask for, which operations a thread uses | one actor of two types makes the loop of `register` interleave between two pairs; a second of one type shares an entry with it |
| `MaxEvents`, `Definitions` | events the monitor sees, definitions of an application | a start, an end and another start around an addition or a deletion; a shared start event makes the monitor iterate a set of two while it is changed |
| `MaxPublished`, `RingSize`, `MaxPoolSize` | publications of each caller and timer | two chains of three events each fill a ring of two and a pool of one, so that publishers wait for the ring, the distributor for a condition, and a task behind another |
| `Types`, `Browsers` of `WebConsole` | what the registry holds, the pages | two pages that share one flag are all the code can confuse; one type, added, removed and added again, is late, dirty and clean in every order (a reset among several types is covered by the proofs alone) |

None of the variables needs another bound: each is finite by its type once the
constants are given.  Submitters, tasks and correlations are symmetric; the
reduction is used only in the violation runs of one invariant, where it is
sound, and never with a temporal property.

`CHECK_DEADLOCK FALSE` is set where the system may really stop: all sends and
tasks of the instance are done, the distributor or the pool has ended, or every
page is closed.  The runs of the registry and of the applications check
deadlock: a call can always go on or a new one begin.

### Fairness

- Channel: the distributor and a thread inside `send()` are scheduled (weak
  fairness of `DistributorStep`, `SendStep(t)`): the JVM schedules runnable
  threads, and both loops spin or wait on a condition that stays true.  Nothing
  forces a send, the start, the stop, or a handler to throw.  `EventHandled` is
  part of the distributor's step: a handler is assumed to return, except for
  what it sends.
- Executor: workers, submitters past the semaphore and `shutdownNow()` go on, and
  behaviours return.  Nothing is assumed of `Acquire`, since the semaphore is not
  fair, nor of time-outs.
- Barrier: a `notified()` that has begun goes on.  Nothing forces an event;
  `KeepsFiring` states which events its conclusion needs.
- Registry and applications: none; only safety is stated.
- Domain: one weak fairness for all steps of calls that have begun, of the
  distributor and of the pool (`Progress`): something of it happens as long as
  something can.  No call, no answer of another domain and no exception is
  forced; `AllWorkDone` says what it excuses.
- Console: the periodic task is scheduled and its loop goes on (weak), the
  server answers a terminal's command (weak; it needs nothing but a thread).
  `DrawGraph` has strong fairness: the callback is queued once both requests are
  answered, the queue of a page is served in order, and a terminal command only
  blocks it for a while.  The answers to the requests for the graph may never
  come: nothing in the scripts handles a failure.

## 4. What is proved

Every theorem below holds for all values of the constants that satisfy the
modules' named assumptions (a positive ring or pool size, finitely many
submitters, an initial interface within the types, distinct null values); the
ring size need not be a power of two.  What a theorem assumes beyond these is in
its statement and in the table.

| module | theorems | argument |
|---|---|---|
| `EventChannelProofs` | `TypeCorrect` | inductive by itself, with: a thread in `send()` has begun a message, and a batch lies beyond what is consumed and ends with what is available |
| | `FifoCorrect`, `ExclusiveSlotCorrect`, `ChannelRefinesFifo` | all from the inductive invariant `ChannelInv`, under `[]NoOverlap` |
| | `NothingLostCorrect` | under `[]NoOverlap`: `PublishedInv`, what was published is what was sent |
| | `OnlySelfBlocks` | under `[]NoOverlap`: `WaitInv`, what is known of a thread and of a distributor that wait |
| | `OnePublisherCorrect` | with one publishing thread `NoOverlap` is an invariant (a lemma), so what is conditional above holds outright |
| `BoundedBlockingExecutorProofs` | `PermitsCorrect` | permits plus threads inside is constant; lemmas on the cardinality of a set that gains or loses one element |
| | `TypeCorrect` | needs `PermitsCorrect` for the upper bound of `permits` |
| | `WakeUpsCorrect` | `NoTaskStranded` is inductive relative to the types: every step that removes the last one who would look at the queue looks itself, or leaves somebody |
| | `OrderCorrect` | invariant: while the pool runs, `accepted = begun \o queue` |
| | `StopCorrect` | the invariant `PlaceInv`: a task is in the queue once and marked so, each thread on its way to the queue holds a task of its own, and in a stopped pool whoever enqueued a task has yet to look again |
| | `ParallelBounded` | `WorkersInv`, relative to the types and `PlaceInv`: the workers in all their places are at most `MaxPoolSize` |
| | `ExecutorRefinesPool` | a step moves the fate of one task (`FateMoves`); that a task that begins finds room is `WorkersInv`, that it is the oldest and waits once is `PlaceInv` |
| `BarrierProofs` | `RemainderCorrect`, `NoEarlyFiring`, `NoMissedFiring`, `BarrierRefinesAndJoin`, `TypeCorrect` | all from the inductive invariant `IInv` |
| | `FiringPublishesAll` | the invariant `IterationInv`: what is published is what the iterator has passed |
| | `SteadySurvives` | `SteadyInv`: if nothing is added to the interface, no iteration of the distributor throws, whatever is registered and deregistered |
| `EventActorManagerProofs` | `TypeCorrect`, `StrangersCorrect` | the inductive invariant `Inv`, for any number of threads |
| | `EffectsCorrect`, `PairingsLast` | the inductive invariant `Alone`, relative to `Inv` |
| | `AtomicCorrect`, `RegistryRefined` | the inductive invariant `Steady`, relative to `Inv` and `Alone`; the second theorem is for behaviours in which no calls meet (`[](met = {})`) |
| | `SubscribedUnlessMet` | under `[](met = {})`, if all types exist from the start and none is removed: `Settled`, an invariant of the registry seen as a whole, from `AtomicCorrect` |
| `ApplicationManagerProofs` | `TypeCorrect` | with what each call has read at each of its places |
| | `MatchedFromDefinitions`, `InstancesFromEvents`, `DeletionLeavesNothing` | each inductive relative to the types and to what the calls and the monitor hold |
| | `EndCompletes`, `StartCreates`, `AddMatches` | action properties: what the loop has done so far, as an invariant of the loop |
| | `ManagerRefinesInstances` | `FreshInv`: an application the monitor has yet to visit has no instance created by the current event; relative to `JustifiedInv`, from which `InstancesFromEvents` follows |
| `ExecutionDomainProofs` | `CorrelationCorrect`, `MonitorIsFirst`, `TimersFallSilent` | from the invariant `PlaceInv` |
| | `StopCorrect` | the invariant `StopInv`: `stopped` is true of every part for ever, so that `stop()` does stop what it asks about |
| | `DomainRefinesDelivery` | from `DeliveryInv`, if the null value is no event (`NoneIsNoEvent`) |
| | `CausalCorrect` | from `DeliveryInv` and `OwnInv` or `AllExist`, if only observers have low priority or no type is ever removed |
| | `NoDeadlock` | `RestInv` and `LoopsGoOn`: what is known of a distributor and of publications that rest |
| | `TypeCorrect` | from `PlaceInv`, if the null value is no event |
| `WebConsoleProofs` | `TypeCorrect`, `SenderLives`, `LinksDrawn` | `Sessions` (who is a listener has had a session) and `GraphInv` (a type that exists is in the snapshot or late) |
| | `FlagsClearedInTime` | `GraphInv` and `ResetsFollow`: only a page that has drawn asks for a reset |

**`ChannelInv`.**  `Fifo` speaks of the histories only and is not inductive.  The
strengthening says where each item of `sent` that is not yet received lies in the
ring, that the sequences `consumed`, `dnext`, the cursor and the next claim
are in order and at most a ring apart, and that a thread in the middle of
`send()` holds the one claim beyond the last item sent.  That two sequences less than a ring
apart have different slots is the lemma `IndexApart`.  Without `NoOverlap` it is
false, as the run `channel_racing` shows, which is why `NoOverlap` is an
assumption of the theorems and not of the model.

**`IInv`.**  `RemainderRight` alone does not exclude that the distributor is in the
middle of opening or closing a round; the strengthening adds what is known of
the rounds at those two places (`OpeningRound`, `ClosingRound`) and that every other
open round still waits (`OpenRoundsWait`).  The two safety
properties and the refinement then follow without further induction.

Some theorems state properties that no run lists.  In the small instances
`FifoCorrect` is part of the refinement of `FifoChannel`, `NoEarlyFiring` and
`NoMissedFiring` of that of `AndJoin`, `OrderCorrect` and `ParallelBounded` of that of
`TaskPool`, `CorrelationCorrect` of that of `EventDelivery`, and `InstancesFromEvents` of
that of `ApplicationInstances`, which rests on `MatchedFromDefinitions`.
`SteadySurvives`,
`SubscribedUnlessMet` and `NothingLostCorrect` are the other side of the runs
`barrier_addoutput`, `registry_lazy` and `channel_racing`: what these find violated
holds without the addition, the calls that meet and the overlapping sends.

**`Inv`** (registry).  `NoStrangers` needs to know that a thread about to add an
actor to an entry does so for a pair the actor wants (`CallsKnow`), and that the
`wanted` sets only grow.

**`Alone`** (registry).  `CallsTakeEffect` and `StaysPaired` speak of calls that meet
no other call about their actor or one of their types.  The invariant says that
such a call has these for itself (`Apart`), that the entry it holds is the one in
the map and the set it missed is still missing (`EntryCurrent`), that nobody is
paired with a type about to get an entry (`TypeAlone`), and that whatever its loop
has yet to do is in `Pending` (`Entering`, `Leaving`).  Two lemmas carry the proof: a
step reaches no further than the actor and the types of its call (`StepReach`), so
that it does not disturb a call that has not met it (`OthersUndisturbed`).  They
need one assumption more, that the null value is not a set of actors
(`NoSetAssumption`).

**`Steady`** (registry).  A call acts on what it decided several steps before.  The
invariant says that this still holds when it acts: `leave` finds its actor, the
actor of an `addInput` stays one that was registered, and the set a loop of
`register` or `deregister` iterates is the one its actor has (so that the loop
does not throw).  With `Alone` it follows that the only call about a type or an actor
determines what `WholeTypes`, `WholeActors` and `WholePaired` say about it, whatever
other calls do; these are the lemmas `TypesSeen`, `ActorsSeen` and `PairedSeen`.  Every
step is then an operation of `Registry`, when it decides, or leaves the whole as it was.
`AtomicCorrect` is about single steps and holds in behaviours that met before;
`RegistryRefined` adds the initial state and is the refinement.

`Subscribed`, which the run `registry_lazy` finds violated, is proved in
`SubscribedUnlessMet` for calls that do not meet.  It needs types that exist from
the start and stay: an actor that is registered before its type is added, or
whose type is removed and added again, is not paired with it even by `Registry`.

**`PlaceInv`** (domain).  `MonitorFirst` and `CorrelationKept` speak of tasks, of
publications under way and of the events that were sent.  The invariant says
that each of these holds only events that were sent, with the correlation of
their cause, and that the distributor is between the stages of an event only if
that event is at the head of the queue.  What is newly acted on in a step is then
the event at the head, on behalf of an actor in `todo`; since only observers have high
priority (`PriorityAssumption`, `ApplicationManager.java:143`) the stage is a later one, and
the actors of high priority are done.

**`DeliveryInv`** (domain).  That no effect overtakes its cause is not a matter of the
ring's order alone: the cause is still being delivered while its effects are
published by other threads.  The invariant says that an event somebody acts on
has reached all who were due it, unless it is the current one and they are
still in `todo`, and that the cause of the current event has reached all of them.
`Delivery!Due` asks for the types that exist.  `CausalDelivery` asks for all inputs and
is false for arbitrary actors and removals: an actor of low priority may publish
because of an event whose type was removed before its own consumers were looked
up, who then receive the effect, of another type, without the cause.
`CausalCorrect` excludes that in either of two ways.  In the code the one actor of
low priority is the event logger (`DERA.newEventLogger`), which observes
(`LowObserves`); then an event is acted on only if its own consumers were looked up, all at
once (`OwnInv`).  Or no type is removed, and all that is sent is of a type that
exists (`AllExist`).

**Safety halves of liveness.**  Three of the liveness properties rest on a state
formula that is proved.  `NeverWedged` (for `SendReturns`): a thread, other than the
distributor, that waits for the ring waits for a distributor that goes on or has
ended.  What remains is a handler that sends on the distributor's own thread.
`NoTaskStranded` (for `TaskEnds`): while a task is queued, somebody will look at the
queue.  `NeverStuck` (for `AllWorkDone`): in a domain that is up and has work left, the
distributor, a publication or the pool may go on (`MayGoOn`), unless the distributor has
died, waits for itself or waits for another domain; the second is the
finding `channel_selfblock`, and what may end the distributor is listed in section 3.  That weak fairness then leads from "may" to "does" is what TLC checks.

Only model-checked: the seven liveness properties (`EventuallyReceived`, `SendReturns`,
`TaskEnds`, `KeepsFiring`, `AllWorkDone`, `Informed`, `GraphDrawn`), which need
fairness and `ENABLED` and are out of the prover's reach.

## 5. What is not modelled

- *JSON mapping and utilities*, *data access*, *examples*: conversions without
  state, a map nothing uses, scripts that use the engine.
- *REST interface*: requests are decoded into calls that are actions of
  `WebConsole`, `EventActorManager` and `ApplicationManager`; the composite command for an
  actor is a sequence of such calls by one thread.
- *Life cycle*: the second `init()` of `main`, the properties file, the set-up of
  Jetty.  `ApplicationManager.stop()` has no step of its own, because the flag `stop()`
  asks for it always says that it is stopped.
- *Bridges*: what the other domain does with a forwarded event, and
  `RequestReply`, which nothing calls.
- *Web user interface*: layout, styles, help texts, completion, windows, zoom
  and the log panel.  The terminal's "remove", "enable", "disable" and "update"
  print a message and ask nobody, and its "add" of an actor sends field names that the
  server does not read, so that nothing changes; none of them is a step.
  `onText` has no sender in the scripts.  The libraries beside these scripts (jQuery,
  jQuery UI, jquery.terminal, mxGraph: some 106 000 of the 107 550 lines of
  JavaScript) are third-party code and are not modelled; what is counted as
  covered of the JavaScript is therefore a small part of it, and the engine that
  most of this directory is about is written in Java.
- Inside the modules: logging and statistics; restarting a stopped channel;
  attribute values; how the JVM reorders unsynchronized accesses (each single
  read and write is atomic here).

## 6. Plan

1. Two domains and a lossy request between them (`SimpleEventBridge`, and the REST
   `publish` of the other side).
2. Changes of an actor's interface inside `ExecutionDomain`, which are in `Barrier` and
   `EventActorManager` only.
3. Proofs: the safety half of `Informed` (a page is told of a type as long as its
   flag is set and its session lives).
