-------------------------- MODULE ExecutionDomain --------------------------
(***************************************************************************)
(* dera.runtime.StandaloneExecutionDomain: the channel, the distributor,   *)
(* the executor, the actors and the publishing threads put together, from  *)
(* start() to stop().                                                      *)
(*                                                                         *)
(* An event that is published travels through the ring to the distributor, *)
(* which notifies its consumers; an Action's task runs on the pool and     *)
(* publishes its outputs, a Condition publishes on the distributor itself, *)
(* a bridge posts the event to another domain and waits for the answer.    *)
(* What EventChannel and BoundedBlockingExecutor do step by step is one    *)
(* step here: a send is atomic (the losses of overlapping sends are the    *)
(* subject of EventChannel), and so is handing a task to the pool.         *)
(***************************************************************************)
EXTENDS Naturals, Sequences, FiniteSets

CONSTANTS Types,        \* names of event types
          Removable,    \* those that removeEvent() may be called for
          Actors, Kind, \* the actors, and what each is
          Inputs,       \* what each consumes: types, or all events by priority
          Outputs,      \* what each publishes, per answer of its predicate
          Callers,      \* threads that call publish() or Trigger.start()
          Timers,       \* the timers; Outputs of one are not in Outputs but:
          Sources,      \* the sets of types a caller or a timer may publish
          RingSize, MaxPoolSize,
          MaxPublished, \* bound on the publications of a caller or a timer
          None

High == "EVENT_HIGH_PRIORITY"
Low == "EVENT_LOW_PRIORITY"

Publishers == Callers \cup Timers

ASSUME NoneAssumption == None \notin Types
ASSUME KindAssumption == Kind \in [Actors -> {"action", "condition", "bridge", "logger"}]
ASSUME InputsAssumption == Inputs \in [Actors -> SUBSET (Types \cup {High, Low})]
ASSUME OutputsAssumption == Outputs \in [Actors -> [BOOLEAN -> SUBSET Types]]
ASSUME SourcesAssumption == Sources \in [Publishers -> SUBSET ((SUBSET Types) \ {{}})]
ASSUME SizeAssumption == RingSize \in Nat \ {0} /\ MaxPoolSize \in Nat \ {0} /\ MaxPublished \in Nat
ASSUME DisjointAssumption == Actors \cap Publishers = {} /\ Callers \cap Timers = {}

(* The only actor the program gives high priority is the application monitor,
   which publishes nothing. *)
ASSUME PriorityAssumption == \A a \in Actors : High \in Inputs[a] => Kind[a] = "logger"

VARIABLES
  started, stopped, \* the two flags of LifeCycle, for each part
  starter, stopper, \* where start() and stop() are
  daemons,          \* whether daemonExecutor accepts tasks
  overlapped,       \* history: stop() was called before start() had returned
  ring,             \* "none" before start(), then "open", at last "halted"
  queue,            \* the events in the ring yet to be handled
  used,             \* the slots of the current batch that are handled already
  batch,            \* how many events of the queue belong to the batch
  dist, todo,       \* where the distributor is, and whom it has yet to notify
  remote,           \* whether it waits for the answer of another domain
  pool,             \* "none" before start(), then "up", at last "shut"
  waiting, running, \* the tasks of the pool: pairs of an event and an actor
  loops,            \* the publish() loops under way
  types,            \* the event types that exist
  published,        \* the publications of every caller and timer
  timer, scheduled, \* the timers: their executors, and which have a task
  sent,             \* history: every event that entered the ring
  got               \* history: the events each actor was notified of

life == <<started, stopped, starter, stopper, daemons, overlapped>>
channel == <<ring, queue, used, batch>>
distributor == <<dist, todo, remote>>
executor == <<pool, waiting, running>>
clocks == <<timer, scheduled>>
history == <<sent, got>>
vars == <<life, channel, distributor, executor, loops, types, published, clocks, history>>

(* An event knows its cause, the event whose task or predicate published it. *)
Event(l, t) == [type |-> t, corr |-> l.corr, cause |-> l.cause, by |-> l.by]

IsEvent(e) ==
  e.type \in Types /\ e.by \in Actors \cup Publishers /\ (e.cause = None <=> e.by \in Publishers)

(* A publish() loop: who publishes, for which cause, the types yet to be
   visited, and the one looked up and about to be sent. *)
Loop(by, cause, corr, S) ==
  IF S = {} THEN {}
  ELSE {[by |-> by, cause |-> cause, corr |-> corr, left |-> S, held |-> None]}

Parts == {"channel", "executor", "registry", "applications", "server", "domain"}

Tasks == {waiting[i] : i \in DOMAIN waiting} \cup running

TypeOK ==
  /\ started \in [Parts -> BOOLEAN] /\ stopped \in [Parts -> BOOLEAN]
  /\ {starter, stopper} \subseteq {"channel", "executor", "server", "domain", "idle", "returned", "failed"}
  /\ daemons \in {"up", "shut"} /\ overlapped \in BOOLEAN
  /\ ring \in {"none", "open", "halted"}
  /\ \A i \in DOMAIN queue : IsEvent(queue[i])
  /\ batch \in 0 .. Len(queue) /\ used \in 0 .. RingSize /\ Len(queue) + used <= RingSize
  /\ dist \in {"none", "idle", "next", "high", "own", "low", "dead", "ended"}
  /\ todo \subseteq Actors /\ remote \in BOOLEAN
  /\ pool \in {"none", "up", "shut"}
  /\ \A task \in Tasks : IsEvent(task[1]) /\ task[2] \in Actors
  /\ \A l \in loops : l.left \subseteq Types /\ l.held \in Types \cup {None}
  /\ types \subseteq Types /\ \A p \in Publishers : published[p] \in 0 .. MaxPublished
  /\ timer \in [Timers -> {"open", "shutdown", "terminated"}]
  /\ scheduled \subseteq Timers
  /\ \A e \in sent : IsEvent(e)
  /\ \A a \in Actors : \A e \in got[a] : IsEvent(e)

(* init() has run; LifeCycle initialises its flags like this. *)
Init ==
  /\ started = [x \in Parts |-> FALSE] /\ stopped = [x \in Parts |-> TRUE]
  /\ starter = "idle" /\ stopper = "idle" /\ daemons = "up" /\ overlapped = FALSE
  /\ ring = "none" /\ queue = <<>> /\ used = 0 /\ batch = 0
  /\ dist = "none" /\ todo = {} /\ remote = FALSE
  /\ pool = "none" /\ waiting = <<>> /\ running = {}
  /\ loops = {} /\ types = Types
  /\ published = [p \in Publishers |-> 0]
  /\ timer = [c \in Timers |-> "open"] /\ scheduled = {}
  /\ sent = {} /\ got = [a \in Actors |-> {}]

-----------------------------------------------------------------------------
(* Life cycle.  Parts whose start() or stop() only touches their own flags are
   started or stopped in one step with their neighbours. *)

(* Faulty variant: the flags are exchanged, as the name suggests. *)
SwitchStateToggles(X) ==
  /\ started' = [x \in Parts |-> IF x \in X THEN stopped[x] ELSE started[x]]
  /\ stopped' = [x \in Parts |-> IF x \in X THEN started[x] ELSE stopped[x]]

(* "started = stopped; stopped = started": both get the value of stopped. *)
SwitchState(X) ==
  /\ started' = [x \in Parts |-> IF x \in X THEN stopped[x] ELSE started[x]]
  /\ UNCHANGED stopped

StartUnchanged ==
  UNCHANGED <<stopper, daemons, overlapped, queue, used, batch, todo, remote, waiting, running,
              loops, types, published, clocks, history>>

BeginStart ==
  /\ starter = "idle" /\ starter' = "channel"
  /\ UNCHANGED <<started, stopped, ring, dist, pool>> /\ StartUnchanged

(* The distributor and the web server are tasks of daemonExecutor, which throws
   out of start() once it is shut down. *)
Refused == starter \in {"channel", "server"} /\ daemons = "shut"

StartFails ==
  /\ Refused /\ starter' = "failed"
  /\ UNCHANGED <<started, stopped, ring, dist, pool>> /\ StartUnchanged

StartChannel ==
  /\ starter = "channel" /\ ~Refused /\ starter' = "executor"
  /\ ring' = "open" /\ dist' = "idle"
  /\ SwitchState({"channel"})
  /\ UNCHANGED pool /\ StartUnchanged

StartExecutor ==
  /\ starter = "executor" /\ starter' = "server"
  /\ pool' = "up"
  /\ SwitchState({"executor", "registry", "applications"})
  /\ UNCHANGED <<ring, dist>> /\ StartUnchanged

StartServer ==
  /\ starter = "server" /\ ~Refused /\ starter' = "returned"
  /\ SwitchState({"server", "domain"})
  /\ UNCHANGED <<ring, dist, pool>> /\ StartUnchanged

StopUnchanged ==
  UNCHANGED <<starter, queue, used, batch, distributor, running, loops, types, published, clocks,
              history>>

BeginStop ==
  /\ stopper = "idle" /\ stopper' = "channel"
  /\ overlapped' = (starter # "returned")
  /\ UNCHANGED <<started, stopped, daemons, ring, pool, waiting>> /\ StopUnchanged

(* stop() asks for !isStopped() of the server and the applications, and for
   isStopped() of the others. *)
StopChannel ==
  /\ stopper = "channel" /\ stopper' = "executor"
  /\ SwitchState({x \in {"server"} : ~stopped[x]} \cup {x \in {"channel"} : stopped[x]})
  /\ ring' = IF stopped["channel"] /\ ring = "open" THEN "halted" ELSE ring
  /\ UNCHANGED <<daemons, overlapped, pool, waiting>> /\ StopUnchanged

StopExecutor ==
  /\ stopper = "executor" /\ stopper' = "domain"
  /\ SwitchState({x \in {"executor", "registry"} : stopped[x]})
  /\ IF stopped["executor"] /\ pool = "up"
       THEN pool' = "shut" /\ waiting' = <<>>
       ELSE UNCHANGED <<pool, waiting>>
  /\ UNCHANGED <<daemons, overlapped, ring>> /\ StopUnchanged

StopDaemons ==
  /\ stopper = "domain" /\ stopper' = "returned"
  /\ SwitchState({x \in {"applications"} : ~stopped[x]} \cup {"domain"})
  /\ daemons' = "shut"
  /\ UNCHANGED <<overlapped, ring, pool, waiting>> /\ StopUnchanged

-----------------------------------------------------------------------------
(* Publishing. *)

(* publish() by name, or Trigger.start(). *)
CallPublish(c) ==
  /\ published[c] < MaxPublished /\ ~\E l \in loops : l.by = c
  /\ published' = [published EXCEPT ![c] = @ + 1]
  /\ \E S \in Sources[c] : loops' = loops \cup Loop(c, None, <<c, published[c]>>, S)
  /\ UNCHANGED <<life, channel, distributor, executor, types, clocks, history>>

(* publish() of an instance: nobody asks whether its type exists. *)
CallSend(c) ==
  /\ published[c] < MaxPublished /\ ~\E l \in loops : l.by = c
  /\ published' = [published EXCEPT ![c] = @ + 1]
  /\ \E t \in UNION Sources[c] :
       loops' = loops \cup {[by |-> c, cause |-> None, corr |-> <<c, published[c]>>, left |-> {}, held |-> t]}
  /\ UNCHANGED <<life, channel, distributor, executor, types, clocks, history>>

Advance(l, left, held) ==
  loops' = (loops \ {l}) \cup (IF left = {} /\ held = None THEN {}
                               ELSE {[l EXCEPT !.left = left, !.held = held]})

(* getEvent(): a type that does not exist is logged and passed over. *)
LookUpType(l) ==
  /\ l.held = None
  /\ \E t \in l.left : Advance(l, l.left \ {t}, IF t \in types THEN t ELSE None)
  /\ UNCHANGED <<life, channel, distributor, executor, types, published, clocks, history>>

Full == Len(queue) + used >= RingSize

(* Faulty variant: the slots of the current batch count as free. *)
SendIntoBatch(l) ==
  /\ l.held # None /\ ring # "none" /\ Len(queue) < RingSize
  /\ queue' = Append(queue, Event(l, l.held)) /\ sent' = sent \cup {Event(l, l.held)}
  /\ Advance(l, l.left, None)
  /\ UNCHANGED <<life, ring, used, batch, distributor, executor, types, published, clocks, got>>

(* Faulty variant: every event gets a correlation identifier of its own. *)
SendUncorrelated(l) ==
  /\ l.held # None /\ ring # "none" /\ ~Full
  /\ LET e == [Event(l, l.held) EXCEPT !.corr = <<l.held, Cardinality(sent)>>]
     IN queue' = Append(queue, e) /\ sent' = sent \cup {e}
  /\ Advance(l, l.left, None)
  /\ UNCHANGED <<life, ring, used, batch, distributor, executor, types, published, clocks, got>>

(* EventChannel.send(): waits as long as the ring is full. *)
Send(l) ==
  /\ l.held # None /\ ring # "none" /\ ~Full
  /\ queue' = Append(queue, Event(l, l.held)) /\ sent' = sent \cup {Event(l, l.held)}
  /\ Advance(l, l.left, None)
  /\ UNCHANGED <<life, ring, used, batch, distributor, executor, types, published, clocks, got>>

(* There is no ring yet: the NullPointerException is caught. *)
SendDropped(l) ==
  /\ l.held # None /\ ring = "none"
  /\ Advance(l, l.left, None)
  /\ UNCHANGED <<life, channel, distributor, executor, types, published, clocks, history>>

RemoveType(t) ==
  /\ t \in Removable \cap types
  /\ types' = types \ {t}
  /\ UNCHANGED <<life, channel, distributor, executor, loops, published, clocks, history>>

PublishStep == \E l \in loops : LookUpType(l) \/ Send(l) \/ SendDropped(l)

-----------------------------------------------------------------------------
(* The distributor. *)

Stages == {"high", "own", "low"}

Current == Head(queue)

(* getConsumers(); of a type that does not exist there are none. *)
Consumers(x) ==
  {a \in Actors : x \in Inputs[a] /\ x \in types \cup {High, Low}}

Stage(step, x) == dist' = step /\ todo' = Consumers(x)

BeginBatch ==
  /\ dist = "idle" /\ ring = "open" /\ queue # <<>>
  /\ batch' = Len(queue) /\ dist' = "next"
  /\ UNCHANGED <<life, ring, queue, used, todo, remote, executor, loops, types, published,
                 clocks, history>>

Done(step) ==
  /\ queue' = Tail(queue) /\ batch' = batch - 1 /\ used' = used + 1 /\ dist' = step
  /\ todo' = {}

(* Faulty variant: delivery begins with the subscribed actors. *)
OnEventOwnFirst ==
  /\ dist = "next" /\ batch > 0
  /\ IF Current.type \in types
       THEN Stage("own", Current.type) /\ UNCHANGED <<queue, used, batch>>
       ELSE Done("next")
  /\ UNCHANGED <<life, ring, remote, executor, loops, types, published, clocks, history>>

(* toEvent() finds no type: the event is logged and passed over. *)
OnEvent ==
  /\ dist = "next" /\ batch > 0
  /\ IF Current.type \in types
       THEN Stage("high", High) /\ UNCHANGED <<queue, used, batch>>
       ELSE Done("next")
  /\ UNCHANGED <<life, ring, remote, executor, loops, types, published, clocks, history>>

(* Nothing that a notified() began on this thread is still going on. *)
Undisturbed ==
  ~remote /\ ~\E l \in loops : l.cause # None /\ l.by \in Actors /\ Kind[l.by] = "condition"

Visits(a) ==
  /\ dist \in Stages /\ a \in todo /\ Undisturbed
  /\ got' = [got EXCEPT ![a] = @ \cup {Current}]
  /\ UNCHANGED <<life, channel, types, published, clocks, sent>>

(* Faulty variant: the executor's permit is kept until the task has ended. *)
NotifyActionBounded(a) ==
  /\ Kind[a] = "action" /\ Visits(a)
  /\ pool = "up" => Cardinality(Tasks \cup {<<l.cause, l.by>> : l \in {l \in loops : l.cause # None}})
                      < MaxPoolSize
  /\ IF pool = "none"
       THEN dist' = "dead" /\ todo' = {} /\ UNCHANGED waiting
       ELSE /\ waiting' = IF pool = "up" THEN Append(waiting, <<Current, a>>) ELSE waiting
            /\ todo' = todo \ {a} /\ UNCHANGED dist
  /\ UNCHANGED <<remote, pool, running, loops>>

(* Action: a task for the pool.  A pool that is shut down rejects it, which the
   executor logs; before start() has made the pool there is none to ask, and
   the NullPointerException ends the distributor. *)
NotifyAction(a) ==
  /\ Kind[a] = "action" /\ Visits(a)
  /\ IF pool = "none"
       THEN dist' = "dead" /\ todo' = {} /\ UNCHANGED waiting
       ELSE /\ waiting' = IF pool = "up" THEN Append(waiting, <<Current, a>>) ELSE waiting
            /\ todo' = todo \ {a} /\ UNCHANGED dist
  /\ UNCHANGED <<remote, pool, running, loops>>

NotifyCondition(a) ==
  /\ Kind[a] = "condition" /\ Visits(a)
  /\ \E answer \in BOOLEAN :
       loops' = loops \cup Loop(a, Current, Current.corr, Outputs[a][answer])
  /\ todo' = todo \ {a}
  /\ UNCHANGED <<dist, remote, executor>>

(* A predicate that throws ends the distributor. *)
PredicateThrows(a) ==
  /\ Kind[a] = "condition" /\ Visits(a)
  /\ dist' = "dead" /\ todo' = {}
  /\ UNCHANGED <<remote, executor, loops>>

NotifyBridge(a) ==
  /\ Kind[a] = "bridge" /\ Visits(a)
  /\ remote' = TRUE /\ todo' = todo \ {a}
  /\ UNCHANGED <<dist, executor, loops>>

(* The other domain answers, or the request fails: nobody looks at which.
   Nothing bounds how long this takes. *)
RemoteAnswers ==
  /\ remote /\ remote' = FALSE
  /\ UNCHANGED <<life, channel, dist, todo, executor, loops, types, published, clocks, history>>

(* An actor that only looks: a logger, the application monitor. *)
NotifyLogger(a) ==
  /\ Kind[a] = "logger" /\ Visits(a)
  /\ todo' = todo \ {a}
  /\ UNCHANGED <<dist, remote, executor, loops>>

(* Faulty variant: low priority is taken to mean the end of a batch. *)
NextStageEndOfBatch ==
  /\ dist \in Stages /\ todo = {} /\ Undisturbed
  /\ CASE dist = "high" -> Stage("own", Current.type) /\ UNCHANGED <<queue, used, batch>>
       [] dist = "own" /\ batch = 1 -> Stage("low", Low) /\ UNCHANGED <<queue, used, batch>>
       [] OTHER -> Done("next")
  /\ UNCHANGED <<life, ring, remote, executor, loops, types, published, clocks, history>>

(* First the actors of high priority, then the subscribed ones, then those of
   low priority. *)
NextStage ==
  /\ dist \in Stages /\ todo = {} /\ Undisturbed
  /\ CASE dist = "high" -> Stage("own", Current.type) /\ UNCHANGED <<queue, used, batch>>
       [] dist = "own" -> Stage("low", Low) /\ UNCHANGED <<queue, used, batch>>
       [] dist = "low" -> Done("next")
  /\ UNCHANGED <<life, ring, remote, executor, loops, types, published, clocks, history>>

(* The slots of a batch are free again when all of it is handled. *)
EndBatch ==
  /\ dist = "next" /\ batch = 0
  /\ used' = 0 /\ dist' = "idle"
  /\ UNCHANGED <<life, ring, queue, batch, todo, remote, executor, loops, types, published,
                 clocks, history>>

DistributorHalts ==
  /\ dist = "idle" /\ ring = "halted"
  /\ dist' = "ended"
  /\ UNCHANGED <<life, channel, todo, remote, executor, loops, types, published, clocks, history>>

DistributorStep ==
  \/ BeginBatch \/ OnEvent \/ NextStage \/ EndBatch \/ DistributorHalts
  \/ \E a \in Actors : NotifyAction(a) \/ NotifyCondition(a) \/ NotifyBridge(a) \/ NotifyLogger(a)

-----------------------------------------------------------------------------
(* The pool. *)

Firing == {l \in loops : l.cause # None /\ Kind[l.by] = "action"}

BeginTask ==
  /\ pool = "up" /\ waiting # <<>>
  /\ Cardinality(running) + Cardinality(Firing) < MaxPoolSize
  /\ running' = running \cup {Head(waiting)} /\ waiting' = Tail(waiting)
  /\ UNCHANGED <<life, channel, distributor, pool, loops, types, published, clocks, history>>

(* The behaviour returns or throws; either way the outputs are fired. *)
BehaviourEnds(task) ==
  /\ task \in running
  /\ running' = running \ {task}
  /\ loops' = loops \cup Loop(task[2], task[1], task[1].corr, Outputs[task[2]][TRUE])
  /\ UNCHANGED <<life, channel, distributor, pool, waiting, types, published, clocks, history>>

(* calledAfterExecution() throws: the outputs are not fired. *)
HookThrows(task) ==
  /\ task \in running
  /\ running' = running \ {task}
  /\ UNCHANGED <<life, channel, distributor, pool, waiting, loops, types, published, clocks, history>>

PoolStep == BeginTask \/ \E task \in running : BehaviourEnds(task)

-----------------------------------------------------------------------------
(* Timers: each has an executor of one thread. *)

(* Timer.start(): rejected once the timer was stopped.  A second one schedules a
   second task, which makes the ticks of the one thread more frequent. *)
Schedule(c) ==
  /\ timer[c] = "open"
  /\ scheduled' = scheduled \cup {c}
  /\ UNCHANGED <<life, channel, distributor, executor, loops, types, published, timer, history>>

Tick(c) == c \in scheduled /\ timer[c] = "open" /\ CallPublish(c)

SetTimer(c, mode) ==
  /\ timer' = [timer EXCEPT ![c] = mode] /\ scheduled' = scheduled \ {c}
  /\ UNCHANGED <<life, channel, distributor, executor, loops, types, published, history>>

(* Timer.stop(): no tick begins any more; one under way is waited for. *)
Shutdown(c) == timer[c] = "open" /\ SetTimer(c, "shutdown")

(* Faulty variant: stop() does not wait. *)
TerminatedAtOnce(c) == timer[c] = "shutdown" /\ SetTimer(c, "terminated")

Terminated(c) ==
  /\ timer[c] = "shutdown" /\ ~\E l \in loops : l.by = c
  /\ SetTimer(c, "terminated")

-----------------------------------------------------------------------------
LifeStep ==
  \/ StartFails \/ StartChannel \/ StartExecutor \/ StartServer
  \/ StopChannel \/ StopExecutor \/ StopDaemons

(* Calls that have begun, the distributor and the pool go on: some step of
   theirs is taken as long as there is one.  Nothing forces a call, the other
   domain's answer, or an exception. *)
Progress == LifeStep \/ PublishStep \/ DistributorStep \/ PoolStep

Next ==
  \/ Progress
  \/ BeginStart \/ BeginStop \/ RemoteAnswers
  \/ \E c \in Callers : CallPublish(c) \/ CallSend(c)
  \/ \E c \in Timers : Schedule(c) \/ Tick(c) \/ Shutdown(c) \/ Terminated(c)
  \/ \E t \in Removable : RemoveType(t)
  \/ \E a \in Actors : PredicateThrows(a)
  \/ \E task \in running : HookThrows(task)

Spec == Init /\ [][Next]_vars /\ WF_vars(Progress)

-----------------------------------------------------------------------------
(* Properties. *)

(* Nothing is done about an event before every actor of high priority, above
   all the application monitor, was notified of it: an application's instance
   is there before the first task for its start event is. *)
ActedOn == {task[1] : task \in Tasks} \cup ({l.cause : l \in loops} \ {None})
             \cup ({e.cause : e \in sent} \ {None})

MonitorFirst ==
  \A e \in ActedOn : \A a \in Actors : High \in Inputs[a] => e \in got[a]

(* Whoever is notified of an event has been notified of its cause, if that is
   one of its inputs, although effects are published by pool threads while the
   cause is still being delivered. *)
CausalDelivery ==
  [][\A a \in Actors : \A e \in got'[a] \ got[a] :
       e.cause # None /\ Inputs[a] \cap {High, e.cause.type, Low} # {} => e.cause \in got[a]]_vars

(* All that follows from one publication carries its correlation identifier,
   and nothing else does: causes lead back to a publication of their own. *)
CorrelationKept ==
  \A e \in sent : e.cause # None => e.corr = e.cause.corr /\ e.cause \in sent

(* To its actors the domain is a delivery service that keeps causes before their
   effects and lets the actors of high priority see everything first. *)
Delivery == INSTANCE EventDelivery

ImplementsDelivery == Delivery!DeliverySpec

(* A stop() that did not overtake start() leaves nothing behind that would
   accept or begin work, in spite of the flags it asks. *)
StopComplete ==
  stopper = "returned" /\ ~overlapped =>
    ring = "halted" /\ pool = "shut" /\ daemons = "shut" /\ waiting = <<>>

(* A timer whose stop() has returned is not publishing. *)
TimerSilent ==
  \A c \in Timers : timer[c] = "terminated" => ~\E l \in loops : l.by = c

(* The distributor waits for itself: a condition publishes in a full ring. *)
SelfBlocked ==
  Full /\ \E l \in loops : l.held # None /\ l.cause # None /\ Kind[l.by] = "condition"

Settled == queue = <<>> /\ Tasks = {} /\ loops = {}

(* Tasks wait for room in the ring, the distributor for the executor: still
   all work that was accepted is done, unless the domain is not up, the
   distributor has ended, waits for itself, or waits for another domain. *)
AllWorkDone ==
  []<>(Settled \/ ring # "open" \/ pool # "up" \/ dist = "dead" \/ SelfBlocked \/ remote)
=============================================================================
