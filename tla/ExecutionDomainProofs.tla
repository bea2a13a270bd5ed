------------------------ MODULE ExecutionDomainProofs ------------------------
(***************************************************************************)
(* Theorems about ExecutionDomain for every set of actors, types, callers  *)
(* and timers, whatever they consume and publish, and every size of the    *)
(* ring and the pool.                                                      *)
(***************************************************************************)
EXTENDS ExecutionDomain, SequenceTheorems, FiniteSetTheorems, TLAPS

LEMMA SeqMonotone ==
  ASSUME NEW S, NEW T, S \subseteq T, NEW q \in Seq(S)
  PROVE  q \in Seq(T)
  <1>1. Len(q) \in Nat /\ q \in [1 .. Len(q) -> S]
        BY LenProperties
  <1>2. q \in [1 .. Len(q) -> T]
        BY <1>1
  <1> QED BY <1>1, <1>2, SeqDef

-----------------------------------------------------------------------------
(* What a step does to the events in the ring, to the tasks and to the
   publications under way: every step is one of a few, or leaves them alone. *)
LEMMA QueueSteps ==
  ASSUME [Next]_vars
  PROVE  \/ UNCHANGED <<queue, batch, sent>> /\ (dist' = dist \/ dist' \notin Stages)
         \/ BeginBatch \/ OnEvent \/ NextStage
         \/ \E l \in loops : Send(l)
  <1> USE DEF life, channel, distributor, executor, clocks, history, Stages
  <1>1. CASE UNCHANGED vars
        BY <1>1 DEF vars
  <1>2. CASE LifeStep
        BY <1>2 DEF LifeStep, StartFails, StartChannel, StartExecutor, StartServer, StopChannel, StopExecutor,
           StopDaemons, StartUnchanged, StopUnchanged
  <1>3. CASE PublishStep
        BY <1>3 DEF PublishStep, LookUpType, SendDropped
  <1>4. CASE DistributorStep
        BY <1>4 DEF DistributorStep, EndBatch, DistributorHalts, NotifyAction, NotifyCondition, NotifyBridge,
           NotifyLogger, Visits
  <1>5. CASE PoolStep \/ \E task \in running : HookThrows(task)
        BY <1>5 DEF PoolStep, BeginTask, BehaviourEnds, HookThrows
  <1>6. CASE BeginStart \/ BeginStop \/ RemoteAnswers \/ (\E t \in Removable : RemoveType(t))
             \/ (\E a \in Actors : PredicateThrows(a))
        BY <1>6 DEF BeginStart, BeginStop, RemoteAnswers, RemoveType, PredicateThrows, StartUnchanged, StopUnchanged,
           Visits
  <1>7. CASE (\E c \in Callers : CallPublish(c) \/ CallSend(c))
             \/ \E c \in Timers : Schedule(c) \/ Tick(c) \/ Shutdown(c) \/ Terminated(c)
        BY <1>7 DEF CallPublish, CallSend, Schedule, Tick, Shutdown, Terminated, SetTimer
  <1> QED BY <1>1, <1>2, <1>3, <1>4, <1>5, <1>6, <1>7 DEF Next, Progress

LEMMA LoopSteps ==
  ASSUME [Next]_vars
  PROVE  \/ loops' = loops
         \/ \E l \in loops : LookUpType(l) \/ Send(l) \/ SendDropped(l)
         \/ \E c \in Callers : CallPublish(c) \/ CallSend(c)
         \/ \E c \in Timers : Tick(c)
         \/ \E a \in Actors : NotifyCondition(a)
         \/ \E task \in running : BehaviourEnds(task)
  <1>1. CASE UNCHANGED vars
        BY <1>1 DEF vars
  <1>2. CASE LifeStep
        BY <1>2 DEF LifeStep, StartFails, StartChannel, StartExecutor, StartServer, StopChannel, StopExecutor,
           StopDaemons, StartUnchanged, StopUnchanged
  <1>3. CASE PublishStep
        BY <1>3 DEF PublishStep
  <1>4. CASE DistributorStep
        BY <1>4 DEF DistributorStep, BeginBatch, OnEvent, NextStage, EndBatch, DistributorHalts, NotifyAction,
           NotifyBridge, NotifyLogger, executor
  <1>5. CASE PoolStep \/ \E task \in running : HookThrows(task)
        BY <1>5 DEF PoolStep, BeginTask, HookThrows
  <1>6. CASE BeginStart \/ BeginStop \/ RemoteAnswers \/ (\E t \in Removable : RemoveType(t))
             \/ (\E a \in Actors : PredicateThrows(a))
        BY <1>6 DEF BeginStart, BeginStop, RemoteAnswers, RemoveType, PredicateThrows, StartUnchanged, StopUnchanged
  <1>7. CASE (\E c \in Callers : CallPublish(c) \/ CallSend(c))
             \/ \E c \in Timers : Schedule(c) \/ Tick(c) \/ Shutdown(c) \/ Terminated(c)
        BY <1>7 DEF Schedule, Shutdown, Terminated, SetTimer
  <1> QED BY <1>1, <1>2, <1>3, <1>4, <1>5, <1>6, <1>7 DEF Next, Progress

LEMMA TaskSteps ==
  ASSUME [Next]_vars
  PROVE  \/ waiting' \in {waiting, <<>>} /\ running' = running
         \/ \E a \in Actors : NotifyAction(a)
         \/ BeginTask
         \/ waiting' = waiting /\ running' \subseteq running
  <1> USE DEF executor
  <1>1. CASE UNCHANGED vars
        BY <1>1 DEF vars
  <1>2. CASE LifeStep
        BY <1>2 DEF LifeStep, StartFails, StartChannel, StartExecutor, StartServer, StopChannel, StopExecutor,
           StopDaemons, StartUnchanged, StopUnchanged
  <1>3. CASE PublishStep
        BY <1>3 DEF PublishStep, LookUpType, Send, SendDropped
  <1>4. CASE DistributorStep
        BY <1>4 DEF DistributorStep, BeginBatch, OnEvent, NextStage, EndBatch, DistributorHalts, NotifyCondition,
           NotifyBridge, NotifyLogger
  <1>5. CASE PoolStep \/ \E task \in running : HookThrows(task)
        BY <1>5 DEF PoolStep, BehaviourEnds, HookThrows
  <1>6. CASE BeginStart \/ BeginStop \/ RemoteAnswers \/ (\E t \in Removable : RemoveType(t))
             \/ (\E a \in Actors : PredicateThrows(a))
        BY <1>6 DEF BeginStart, BeginStop, RemoteAnswers, RemoveType, PredicateThrows, StartUnchanged, StopUnchanged
  <1>7. CASE (\E c \in Callers : CallPublish(c) \/ CallSend(c))
             \/ \E c \in Timers : Schedule(c) \/ Tick(c) \/ Shutdown(c) \/ Terminated(c)
        BY <1>7 DEF CallPublish, CallSend, Schedule, Tick, Shutdown, Terminated, SetTimer
  <1> QED BY <1>1, <1>2, <1>3, <1>4, <1>5, <1>6, <1>7 DEF Next, Progress

-----------------------------------------------------------------------------
(* Where events are: all that is in the ring, in a task, or the cause of a
   publication under way has been sent. *)
QueueInv ==
  /\ queue \in Seq(sent)
  /\ batch \in 0 .. Len(queue)
  /\ dist \in Stages => batch > 0

IsLoop(l) == l = [by |-> l.by, cause |-> l.cause, corr |-> l.corr, left |-> l.left, held |-> l.held]

LoopInv ==
  \A l \in loops :
    /\ IsLoop(l) /\ l.by \in Actors \cup Publishers
    /\ l.cause # None => l.cause \in sent /\ l.corr = l.cause.corr

TaskInv == waiting \in Seq(sent \X Actors) /\ running \subseteq sent \X Actors

LEMMA SentGrows == ASSUME [Next]_vars PROVE sent \subseteq sent'
  <1>1. CASE BeginBatch \/ OnEvent \/ NextStage
        BY <1>1 DEF BeginBatch, OnEvent, NextStage, history
  <1>2. CASE \E l \in loops : Send(l)
        BY <1>2 DEF Send
  <1> QED BY <1>1, <1>2, QueueSteps

LEMMA CurrentSent ==
  ASSUME QueueInv, batch > 0
  PROVE  /\ queue # <<>> /\ Len(queue) \in Nat /\ Len(queue) >= 1
         /\ Current = queue[1] /\ Current \in sent
  <1>1. Len(queue) \in Nat /\ Len(queue) >= 1 /\ queue \in Seq(sent)
        BY LenProperties DEF QueueInv
  <1>2. queue # <<>>
        BY <1>1, EmptySeq
  <1> QED BY <1>1, <1>2, HeadTailProperties, ElementOfSeq DEF Current

LEMMA SendQueue ==
  ASSUME QueueInv, NEW l \in loops, Send(l)
  PROVE  /\ queue' \in Seq(sent') /\ Len(queue) \in Nat /\ Len(queue') = Len(queue) + 1
         /\ \A i \in 1 .. Len(queue) : queue'[i] = queue[i]
         /\ Event(l, l.held) \in sent'
  <1>1. Event(l, l.held) \in sent' /\ sent \subseteq sent' /\ queue' = Append(queue, Event(l, l.held))
        BY DEF Send
  <1>2. queue \in Seq(sent') /\ Len(queue) \in Nat
        BY <1>1, SeqMonotone, LenProperties DEF QueueInv
  <1> QED BY <1>1, <1>2, AppendProperties

LEMMA DoneQueue ==
  ASSUME QueueInv, batch > 0, NEW step, step \notin Stages, Done(step), sent' = sent
  PROVE  QueueInv'
  <1>1. queue # <<>> /\ Len(queue) \in Nat /\ Len(queue) >= 1
        BY CurrentSent
  <1>2. queue' \in Seq(sent) /\ Len(queue') = Len(queue) - 1
        BY <1>1, HeadTailProperties DEF Done, QueueInv
  <1>3. batch' = batch - 1 /\ dist' = step
        BY DEF Done
  <1>4. batch \in Nat /\ batch <= Len(queue)
        BY <1>1 DEF QueueInv
  <1>5. batch - 1 \in 0 .. Len(queue) - 1
        BY <1>1, <1>4
  <1> QED BY <1>2, <1>3, <1>5 DEF QueueInv, Stages

LEMMA QueueStep == QueueInv /\ [Next]_vars => QueueInv'
  <1> SUFFICES ASSUME QueueInv, [Next]_vars PROVE QueueInv'
      OBVIOUS
  <1>0. Len(queue) \in Nat
        BY LenProperties DEF QueueInv
  <1>1. CASE UNCHANGED <<queue, batch, sent>> /\ (dist' = dist \/ dist' \notin Stages)
        BY <1>1 DEF QueueInv, Stages
  <1>2. CASE BeginBatch
        BY <1>0, <1>2 DEF BeginBatch, QueueInv, Stages, history
  <1>3. CASE OnEvent
        <2>1. batch > 0 /\ sent' = sent
              BY <1>3 DEF OnEvent, history
        <2>2. CASE Current.type \in types
              BY <1>3, <2>1, <2>2 DEF OnEvent, QueueInv
        <2>3. CASE Current.type \notin types
              BY <1>3, <2>1, <2>3, DoneQueue DEF OnEvent, Stages
        <2> QED BY <2>2, <2>3
  <1>4. CASE NextStage
        <2>1. dist \in Stages /\ batch > 0 /\ sent' = sent
              BY <1>4 DEF NextStage, QueueInv, history
        <2>2. CASE dist \in {"high", "own"}
              BY <1>4, <2>1, <2>2 DEF NextStage, QueueInv
        <2>3. CASE dist = "low"
              BY <1>4, <2>1, <2>3, DoneQueue DEF NextStage, Stages
        <2> QED BY <2>1, <2>2, <2>3 DEF Stages
  <1>5. ASSUME NEW l \in loops, Send(l) PROVE QueueInv'
        <2>1. batch' = batch /\ dist' = dist
              BY <1>5 DEF Send, distributor
        <2> QED BY <1>0, <1>5, <2>1, SendQueue DEF QueueInv, Stages
  <1> QED BY <1>1, <1>2, <1>3, <1>4, <1>5, QueueSteps

LEMMA TaskStep == QueueInv /\ TaskInv /\ [Next]_vars => TaskInv'
  <1> SUFFICES ASSUME QueueInv, TaskInv, [Next]_vars PROVE TaskInv'
      OBVIOUS
  <1>0. sent \subseteq sent' /\ sent \X Actors \subseteq sent' \X Actors
        BY SentGrows
  <1>1. SUFFICES waiting' \in Seq(sent \X Actors) /\ running' \subseteq sent \X Actors
        <2>1. waiting' \in Seq(sent' \X Actors)
              BY <1>0, <1>1, SeqMonotone
        <2> QED BY <1>0, <1>1, <2>1 DEF TaskInv
  <1>2. CASE waiting' \in {waiting, <<>>} /\ running' = running
        BY <1>2, EmptySeq DEF TaskInv
  <1>3. ASSUME NEW a \in Actors, NotifyAction(a)
        PROVE  waiting' \in Seq(sent \X Actors) /\ running' \subseteq sent \X Actors
        <2>1. <<Current, a>> \in sent \X Actors
              BY <1>3, CurrentSent DEF NotifyAction, Visits, QueueInv
        <2>2. waiting' \in {waiting, Append(waiting, <<Current, a>>)} /\ running' = running
              BY <1>3 DEF NotifyAction
        <2> QED BY <2>1, <2>2, AppendProperties DEF TaskInv
  <1>4. CASE BeginTask
        <2>1. Head(waiting) \in sent \X Actors /\ Tail(waiting) \in Seq(sent \X Actors)
              BY <1>4, HeadTailProperties DEF BeginTask, TaskInv
        <2> QED BY <1>4, <2>1 DEF BeginTask, TaskInv
  <1>5. CASE waiting' = waiting /\ running' \subseteq running
        BY <1>5 DEF TaskInv
  <1> QED BY <1>2, <1>3, <1>4, <1>5, TaskSteps

(* A publication under way that is new. *)
NewLoops == loops' \ loops

LEMMA AdvanceLoops ==
  ASSUME LoopInv, NEW l \in loops, NEW left, NEW held, Advance(l, left, held), NEW k \in NewLoops
  PROVE  k = [by |-> l.by, cause |-> l.cause, corr |-> l.corr, left |-> left, held |-> held]
  <1>1. k = [l EXCEPT !.left = left, !.held = held]
        BY DEF Advance, NewLoops
  <1>2. IsLoop(l)
        BY DEF LoopInv
  <1> QED BY <1>1, <1>2 DEF IsLoop

(* A new publication goes on with one that was under way, is one of a thread or
   a timer that has none, or has a cause: the current event, or that of a task. *)
LEMMA NewLoopKinds ==
  ASSUME QueueInv, TaskInv, LoopInv, [Next]_vars, NEW k \in NewLoops
  PROVE  /\ IsLoop(k)
         /\ \/ \E l \in loops : k.by = l.by /\ k.cause = l.cause /\ k.corr = l.corr
            \/ k.by \in Callers /\ k.cause = None
            \/ k.by \in Timers /\ k.cause = None /\ timer[k.by] = "open" /\ timer' = timer
            \/ k.by \in Actors /\ k.cause \in sent /\ k.corr = k.cause.corr /\ NotifyCondition(k.by) /\ k.cause = Current
            \/ k.by \in Actors /\ k.cause \in sent /\ k.corr = k.cause.corr /\ <<k.cause, k.by>> \in running
                /\ BehaviourEnds(<<k.cause, k.by>>)
  <1>1. ASSUME NEW l \in loops, LookUpType(l) \/ Send(l) \/ SendDropped(l)
        PROVE  IsLoop(k) /\ k.by = l.by /\ k.cause = l.cause /\ k.corr = l.corr
        <2>1. PICK left, held : Advance(l, left, held)
              BY <1>1 DEF LookUpType, Send, SendDropped
        <2>2. k = [by |-> l.by, cause |-> l.cause, corr |-> l.corr, left |-> left, held |-> held]
              BY <2>1, AdvanceLoops
        <2> QED BY <2>2 DEF IsLoop
  <1>2. ASSUME NEW c \in Callers, CallPublish(c) \/ CallSend(c)
        PROVE  IsLoop(k) /\ k.by = c /\ k.cause = None
        BY <1>2 DEF CallPublish, CallSend, Loop, NewLoops, IsLoop
  <1>3. ASSUME NEW c \in Timers, Tick(c)
        PROVE  IsLoop(k) /\ k.by = c /\ k.cause = None /\ timer[c] = "open" /\ timer' = timer
        BY <1>3 DEF Tick, CallPublish, Loop, NewLoops, IsLoop, clocks
  <1>4. ASSUME NEW a \in Actors, NotifyCondition(a)
        PROVE  IsLoop(k) /\ k.by = a /\ k.cause = Current /\ k.corr = Current.corr /\ Current \in sent
        <2>1. Current \in sent
              BY <1>4, CurrentSent DEF NotifyCondition, Visits, QueueInv
        <2> QED BY <1>4, <2>1 DEF NotifyCondition, Loop, NewLoops, IsLoop
  <1>5. ASSUME NEW task \in running, BehaviourEnds(task)
        PROVE  /\ IsLoop(k) /\ task = <<k.cause, k.by>> /\ k.by \in Actors /\ k.cause \in sent
               /\ k.corr = k.cause.corr
        <2>1. task \in sent \X Actors
              BY DEF TaskInv
        <2>2. task = <<task[1], task[2]>> /\ task[1] \in sent /\ task[2] \in Actors
              BY <2>1
        <2>3. k \in Loop(task[2], task[1], task[1].corr, Outputs[task[2]][TRUE])
              BY <1>5 DEF BehaviourEnds, NewLoops
        <2>4. k = [by |-> task[2], cause |-> task[1], corr |-> task[1].corr,
                   left |-> Outputs[task[2]][TRUE], held |-> None]
              BY <2>3 DEF Loop
        <2> QED BY <2>2, <2>4 DEF IsLoop
  <1>6. loops' # loops
        BY DEF NewLoops
  <1> QED BY <1>1, <1>2, <1>3, <1>4, <1>5, <1>6, LoopSteps

LEMMA LoopStep == QueueInv /\ TaskInv /\ LoopInv /\ [Next]_vars => LoopInv'
  <1> SUFFICES ASSUME QueueInv, TaskInv, LoopInv, [Next]_vars, NEW k \in loops'
               PROVE  /\ IsLoop(k) /\ k.by \in Actors \cup Publishers
                      /\ k.cause # None => k.cause \in sent' /\ k.corr = k.cause.corr
      BY DEF LoopInv
  <1>0. sent \subseteq sent'
        BY SentGrows
  <1>1. CASE k \in loops
        BY <1>0, <1>1 DEF LoopInv
  <1>2. CASE k \in NewLoops
        BY <1>0, <1>2, NewLoopKinds DEF LoopInv, Publishers
  <1> QED BY <1>1, <1>2 DEF NewLoops

PlaceInv == QueueInv /\ TaskInv /\ LoopInv

LEMMA PlaceInit == Init => PlaceInv
  BY EmptySeq DEF Init, PlaceInv, QueueInv, TaskInv, LoopInv, Stages

LEMMA PlaceStep == PlaceInv /\ [Next]_vars => PlaceInv'
  BY QueueStep, TaskStep, LoopStep DEF PlaceInv

-----------------------------------------------------------------------------
LEMMA NewEvents ==
  ASSUME [Next]_vars, NEW e \in sent', e \notin sent
  PROVE  \E l \in loops : Send(l) /\ e = Event(l, l.held)
  <1>1. sent' # sent
        OBVIOUS
  <1>2. PICK l \in loops : Send(l)
        BY <1>1, QueueSteps DEF BeginBatch, OnEvent, NextStage, history
  <1>3. e = Event(l, l.held)
        BY <1>2 DEF Send
  <1> QED BY <1>2, <1>3

(* All that follows from a publication carries its correlation identifier, and
   every cause was itself sent (Action.fire, Condition.notified). *)
THEOREM CorrelationCorrect == Spec => []CorrelationKept
  <1>1. Init => CorrelationKept
        BY DEF Init, CorrelationKept
  <1>2. ASSUME PlaceInv, CorrelationKept, [Next]_vars PROVE CorrelationKept'
        <2> SUFFICES ASSUME NEW e \in sent', e.cause # None
                     PROVE  e.corr = e.cause.corr /\ e.cause \in sent'
            BY DEF CorrelationKept
        <2>1. sent \subseteq sent'
              BY <1>2, SentGrows
        <2>2. CASE e \in sent
              BY <1>2, <2>1, <2>2 DEF CorrelationKept
        <2>3. CASE e \notin sent
              <3>1. PICK l \in loops : e = Event(l, l.held)
                    BY <1>2, <2>3, NewEvents
              <3>2. e.cause = l.cause /\ e.corr = l.corr
                    BY <3>1 DEF Event
              <3> QED BY <1>2, <2>1, <3>2 DEF PlaceInv, LoopInv
        <2> QED BY <2>2, <2>3
  <1> QED BY <1>1, <1>2, PlaceInit, PlaceStep, PTL DEF Spec

-----------------------------------------------------------------------------
(* The timers. *)
TimerInv == timer \in [Timers -> {"open", "shutdown", "terminated"}] /\ TimerSilent

LEMMA TimerSteps ==
  ASSUME [Next]_vars
  PROVE  timer' = timer \/ \E c \in Timers : Shutdown(c) \/ Terminated(c)
  <1> USE DEF clocks
  <1>1. CASE UNCHANGED vars
        BY <1>1 DEF vars
  <1>2. CASE LifeStep
        BY <1>2 DEF LifeStep, StartFails, StartChannel, StartExecutor, StartServer, StopChannel, StopExecutor,
           StopDaemons, StartUnchanged, StopUnchanged
  <1>3. CASE PublishStep
        BY <1>3 DEF PublishStep, LookUpType, Send, SendDropped
  <1>4. CASE DistributorStep
        BY <1>4 DEF DistributorStep, BeginBatch, OnEvent, NextStage, EndBatch, DistributorHalts, NotifyAction,
           NotifyCondition, NotifyBridge, NotifyLogger, Visits
  <1>5. CASE PoolStep \/ \E task \in running : HookThrows(task)
        BY <1>5 DEF PoolStep, BeginTask, BehaviourEnds, HookThrows
  <1>6. CASE BeginStart \/ BeginStop \/ RemoteAnswers \/ (\E t \in Removable : RemoveType(t))
             \/ (\E a \in Actors : PredicateThrows(a))
        BY <1>6 DEF BeginStart, BeginStop, RemoteAnswers, RemoveType, PredicateThrows, StartUnchanged, StopUnchanged,
           Visits
  <1>7. CASE (\E c \in Callers : CallPublish(c) \/ CallSend(c))
             \/ \E c \in Timers : Schedule(c) \/ Tick(c) \/ Shutdown(c) \/ Terminated(c)
        BY <1>7 DEF CallPublish, CallSend, Schedule, Tick
  <1> QED BY <1>1, <1>2, <1>3, <1>4, <1>5, <1>6, <1>7 DEF Next, Progress

LEMMA TimerStep == PlaceInv /\ TimerInv /\ [Next]_vars => TimerInv'
  <1> SUFFICES ASSUME PlaceInv, TimerInv, [Next]_vars PROVE TimerInv'
      OBVIOUS
  <1>1. ASSUME NEW c \in Timers, Shutdown(c) \/ Terminated(c) PROVE TimerInv'
        <2>1. loops' = loops
              BY <1>1 DEF Shutdown, Terminated, SetTimer
        <2>2. \E mode \in {"shutdown", "terminated"} :
                 timer' = [timer EXCEPT ![c] = mode] /\ (mode = "terminated" => ~\E l \in loops : l.by = c)
              BY <1>1 DEF Shutdown, Terminated, SetTimer
        <2> QED BY <2>1, <2>2 DEF TimerInv, TimerSilent
  <1>2. CASE timer' = timer
        <2> SUFFICES ASSUME NEW c \in Timers, timer[c] = "terminated", NEW k \in loops', k.by = c PROVE FALSE
            BY <1>2 DEF TimerInv, TimerSilent
        <2>1. \A l \in loops : l.by # c
              BY DEF TimerInv, TimerSilent
        <2>2. k \in NewLoops
              BY <2>1 DEF NewLoops
        <2>3. k.by \in Callers \cup Actors \/ timer[k.by] = "open"
              BY <2>1, <2>2, NewLoopKinds DEF PlaceInv
        <2> QED BY <2>3, DisjointAssumption DEF Publishers
  <1> QED BY <1>1, <1>2, TimerSteps

(* A timer whose stop() has returned publishes nothing any more (Timer.stop). *)
THEOREM TimersFallSilent == Spec => []TimerSilent
  <1>1. Init => TimerInv
        BY DEF Init, TimerInv, TimerSilent
  <1>2. TimerInv => TimerSilent
        BY DEF TimerInv
  <1> QED BY <1>1, <1>2, PlaceInit, PlaceStep, TimerStep, PTL DEF Spec

-----------------------------------------------------------------------------
(* Stopping.  The flag stop() asks for is never cleared, and a start() that has
   returned has made the ring and the pool. *)
StopInv ==
  /\ stopped = [x \in Parts |-> TRUE]
  /\ ring \in {"none", "open", "halted"} /\ pool \in {"none", "up", "shut"}
  /\ stopper \in {"idle", "channel", "executor", "domain", "returned"}
  /\ pool = "shut" => waiting = <<>>
  /\ starter \in {"executor", "server", "returned"} => ring # "none"
  /\ starter \in {"server", "returned"} => pool # "none"
  /\ stopper # "idle" /\ ~overlapped =>
       /\ starter = "returned"
       /\ stopper # "channel" => ring = "halted"
       /\ stopper \notin {"channel", "executor"} => pool = "shut" /\ waiting = <<>>
       /\ stopper = "returned" => daemons = "shut"

LEMMA LifeSteps ==
  ASSUME [Next]_vars
  PROVE  \/ LifeStep \/ BeginStart \/ BeginStop
         \/ /\ UNCHANGED life /\ UNCHANGED <<ring, pool>>
            /\ waiting' = waiting \/ pool = "up"
  <1> USE DEF channel, executor
  <1>1. CASE UNCHANGED vars
        BY <1>1 DEF vars
  <1>2. CASE PublishStep
        BY <1>2 DEF PublishStep, LookUpType, Send, SendDropped
  <1>3. CASE BeginBatch \/ OnEvent \/ NextStage \/ EndBatch \/ DistributorHalts
        BY <1>3 DEF BeginBatch, OnEvent, NextStage, EndBatch, DistributorHalts
  <1>4. CASE \E a \in Actors : NotifyAction(a) \/ NotifyCondition(a) \/ NotifyBridge(a) \/ NotifyLogger(a)
                              \/ PredicateThrows(a)
        BY <1>4 DEF NotifyAction, NotifyCondition, NotifyBridge, NotifyLogger, PredicateThrows, Visits
  <1>5. CASE PoolStep \/ (\E task \in running : HookThrows(task))
        BY <1>5 DEF PoolStep, BeginTask, BehaviourEnds, HookThrows
  <1>6. CASE RemoteAnswers \/ (\E t \in Removable : RemoveType(t))
        BY <1>6 DEF RemoteAnswers, RemoveType
  <1>7. CASE (\E c \in Callers : CallPublish(c) \/ CallSend(c))
             \/ \E c \in Timers : Schedule(c) \/ Tick(c) \/ Shutdown(c) \/ Terminated(c)
        BY <1>7 DEF CallPublish, CallSend, Schedule, Tick, Shutdown, Terminated, SetTimer
  <1> QED BY <1>1, <1>2, <1>3, <1>4, <1>5, <1>6, <1>7 DEF Next, Progress, DistributorStep

LEMMA StopStep == StopInv /\ [Next]_vars => StopInv'
  <1> SUFFICES ASSUME StopInv, [Next]_vars PROVE StopInv'
      OBVIOUS
  <1>1. CASE BeginStart \/ StartFails \/ StartChannel \/ StartExecutor \/ StartServer
        <2>1. stopped' = stopped /\ UNCHANGED <<stopper, daemons, overlapped, waiting>> /\ starter # "returned"
              BY <1>1 DEF BeginStart, StartFails, StartChannel, StartExecutor, StartServer, SwitchState,
                 StartUnchanged, Refused
        <2> QED BY <1>1, <2>1 DEF BeginStart, StartFails, StartChannel, StartExecutor, StartServer, StopInv
  <1>2. CASE BeginStop
        BY <1>2 DEF BeginStop, StopUnchanged, StopInv
  <1>3. CASE StopChannel
        BY <1>3 DEF StopChannel, SwitchState, StopUnchanged, StopInv, Parts
  <1>4. CASE StopExecutor
        <2>1. stopped' = stopped /\ stopped["executor"]
              BY <1>4 DEF StopExecutor, SwitchState, StopInv, Parts
        <2>2. /\ stopper = "executor" /\ stopper' = "domain" /\ UNCHANGED <<starter, ring, daemons, overlapped>>
              /\ IF pool = "up" THEN pool' = "shut" /\ waiting' = <<>> ELSE pool' = pool /\ waiting' = waiting
              BY <1>4, <2>1 DEF StopExecutor, StopUnchanged
        <2>3. pool = "shut" \/ ~overlapped => pool' = "shut"
              BY <2>2 DEF StopInv
        <2> QED BY <2>1, <2>2, <2>3 DEF StopInv
  <1>5. CASE StopDaemons
        BY <1>5 DEF StopDaemons, SwitchState, StopUnchanged, StopInv
  <1>6. CASE UNCHANGED life /\ UNCHANGED <<ring, pool>> /\ (waiting' = waiting \/ pool = "up")
        BY <1>6 DEF life, StopInv
  <1> QED BY <1>1, <1>2, <1>3, <1>4, <1>5, <1>6, LifeSteps DEF LifeStep

(* A stop() that did not overtake start() halts the ring, shuts the pool down,
   drops what waited, and leaves no daemon executor that accepts tasks, because
   the flag it asks is the one LifeCycle.switchState never clears. *)
THEOREM StopCorrect == Spec => []StopComplete
  <1>1. Init => StopInv
        BY DEF Init, StopInv
  <1>2. StopInv => StopComplete
        BY DEF StopInv, StopComplete
  <1> QED BY <1>1, <1>2, StopStep, PTL DEF Spec

-----------------------------------------------------------------------------
(* The monitor comes first. *)
Notifies(a) == NotifyAction(a) \/ NotifyCondition(a) \/ NotifyBridge(a) \/ NotifyLogger(a)

LEMMA DeliverySteps ==
  ASSUME [Next]_vars
  PROVE  \/ got' = got /\ (UNCHANGED <<dist, todo>> \/ dist' \notin Stages)
         \/ OnEvent \/ NextStage
         \/ \E a \in Actors : Notifies(a) \/ PredicateThrows(a)
  <1> USE DEF distributor, history, Stages
  <1>1. CASE UNCHANGED vars
        BY <1>1 DEF vars
  <1>2. CASE LifeStep
        BY <1>2 DEF LifeStep, StartFails, StartChannel, StartExecutor, StartServer, StopChannel, StopExecutor,
           StopDaemons, StartUnchanged, StopUnchanged
  <1>3. CASE PublishStep
        BY <1>3 DEF PublishStep, LookUpType, Send, SendDropped
  <1>4. CASE DistributorStep \/ \E a \in Actors : PredicateThrows(a)
        BY <1>4 DEF DistributorStep, BeginBatch, EndBatch, DistributorHalts, Notifies
  <1>5. CASE PoolStep \/ \E task \in running : HookThrows(task)
        BY <1>5 DEF PoolStep, BeginTask, BehaviourEnds, HookThrows
  <1>6. CASE BeginStart \/ BeginStop \/ RemoteAnswers \/ (\E t \in Removable : RemoveType(t))
        BY <1>6 DEF BeginStart, BeginStop, RemoteAnswers, RemoveType, StartUnchanged, StopUnchanged
  <1>7. CASE (\E c \in Callers : CallPublish(c) \/ CallSend(c))
             \/ \E c \in Timers : Schedule(c) \/ Tick(c) \/ Shutdown(c) \/ Terminated(c)
        BY <1>7 DEF CallPublish, CallSend, Schedule, Tick, Shutdown, Terminated, SetTimer
  <1> QED BY <1>1, <1>2, <1>3, <1>4, <1>5, <1>6, <1>7 DEF Next, Progress

LEMMA CurrentStays ==
  ASSUME QueueInv, [Next]_vars, dist \in Stages, ~NextStage
  PROVE  Current' = Current
  <1>1. CASE UNCHANGED queue
        BY <1>1 DEF Current
  <1>2. ASSUME NEW l \in loops, Send(l) PROVE Current' = Current
        <2>1. queue # <<>> /\ Len(queue) \in Nat /\ Len(queue) >= 1 /\ Current = queue[1]
              BY CurrentSent DEF QueueInv
        <2>2. queue' \in Seq(sent') /\ Len(queue') = Len(queue) + 1 /\ queue'[1] = queue[1]
              BY <1>2, <2>1, SendQueue
        <2>3. queue' # <<>>
              BY <2>1, <2>2, EmptySeq
        <2> QED BY <2>1, <2>2, <2>3, HeadTailProperties DEF Current
  <1> QED BY <1>1, <1>2, QueueSteps DEF BeginBatch, OnEvent, Stages

LEMMA NewTasks ==
  ASSUME TaskInv, [Next]_vars, NEW task \in Tasks', task \notin Tasks
  PROVE  \E a \in Actors : NotifyAction(a) /\ task = <<Current, a>>
  <1>0. /\ waiting \in Seq(sent \X Actors) /\ Len(waiting) \in Nat /\ DOMAIN waiting = 1 .. Len(waiting)
        /\ \A i \in 1 .. Len(waiting) : waiting[i] \in Tasks
        BY LenProperties DEF TaskInv, Tasks
  <1>1. CASE waiting' = <<>> /\ running' \subseteq running
        <2>1. DOMAIN waiting' = {}
              BY <1>1
        <2> QED BY <1>1, <2>1 DEF Tasks
  <1>4. CASE waiting' = waiting /\ running' \subseteq running
        BY <1>4 DEF Tasks
  <1>2. ASSUME NEW a \in Actors, NotifyAction(a) PROVE task = <<Current, a>>
        <2>1. running' = running /\ waiting' \in {waiting, Append(waiting, <<Current, a>>)}
              BY <1>2 DEF NotifyAction
        <2>2. PICK i \in DOMAIN waiting' : task = waiting'[i]
              BY <2>1 DEF Tasks
        <2>3. waiting' = Append(waiting, <<Current, a>>)
              BY <2>1 DEF Tasks
        <2>4. Append(waiting, <<Current, a>>) \in Seq((sent \X Actors) \cup {<<Current, a>>})
              /\ Len(waiting') = Len(waiting) + 1 /\ waiting'[Len(waiting) + 1] = <<Current, a>>
              /\ \A j \in 1 .. Len(waiting) : waiting'[j] = waiting[j]
              <3>1. waiting \in Seq((sent \X Actors) \cup {<<Current, a>>})
                    BY <1>0, SeqMonotone
              <3> QED BY <2>3, <3>1, AppendProperties
        <2>5. DOMAIN waiting' = 1 .. Len(waiting) + 1
              BY <2>3, <2>4, LenProperties
        <2>6. i = Len(waiting) + 1
              BY <1>0, <2>2, <2>4, <2>5
        <2> QED BY <2>2, <2>4, <2>6
  <1>3. CASE BeginTask
        <2>1. waiting # <<>> /\ waiting' = Tail(waiting) /\ running' = running \cup {Head(waiting)}
              BY <1>3 DEF BeginTask
        <2>2. Len(waiting) >= 1 /\ Head(waiting) = waiting[1] /\ Len(waiting') = Len(waiting) - 1
              /\ waiting' \in Seq(sent \X Actors)
              /\ \A j \in 1 .. Len(waiting) - 1 : waiting'[j] = waiting[j + 1]
              BY <1>0, <2>1, HeadTailProperties, EmptySeq
        <2>3. DOMAIN waiting' = 1 .. Len(waiting) - 1
              BY <2>2, LenProperties
        <2>4. Head(waiting) \in Tasks
              BY <1>0, <2>2
        <2>5. \A j \in DOMAIN waiting' : waiting'[j] \in Tasks
              <3> SUFFICES ASSUME NEW j \in DOMAIN waiting' PROVE waiting'[j] \in Tasks
                  OBVIOUS
              <3>1. j \in 1 .. Len(waiting) - 1 /\ j + 1 \in 1 .. Len(waiting)
                    BY <1>0, <2>3
              <3> QED BY <1>0, <2>2, <3>1
        <2> QED BY <2>1, <2>4, <2>5 DEF Tasks
  <1> QED BY <1>1, <1>2, <1>3, <1>4, TaskSteps

(* What is newly acted on is the current event, because of an actor that is
   being notified. *)
LEMMA NewlyActedOn ==
  ASSUME PlaceInv, [Next]_vars, NEW e \in ActedOn', e \notin ActedOn
  PROVE  e = Current /\ \E a \in Actors : NotifyAction(a) \/ NotifyCondition(a)
  <1>1. ASSUME NEW task \in Tasks', e = task[1]
        PROVE  e = Current /\ \E a \in Actors : NotifyAction(a) \/ NotifyCondition(a)
        <2>1. task \notin Tasks
              BY <1>1 DEF ActedOn
        <2> QED BY <1>1, <2>1, NewTasks DEF PlaceInv
  <1>2. ASSUME NEW k \in loops', e = k.cause, e # None
        PROVE  e = Current /\ \E a \in Actors : NotifyAction(a) \/ NotifyCondition(a)
        <2>1. \A l \in loops : l.cause # e
              BY <1>2 DEF ActedOn
        <2>2. k \in NewLoops
              BY <1>2, <2>1 DEF NewLoops
        <2>3. <<e, k.by>> \notin running
              <3>1. <<e, k.by>> \in running => <<e, k.by>>[1] \in ActedOn
                    BY DEF ActedOn, Tasks
              <3> QED BY <3>1
        <2> QED BY <1>2, <2>1, <2>2, <2>3, NewLoopKinds DEF PlaceInv
  <1>3. ASSUME NEW x \in sent', e = x.cause, e # None PROVE FALSE
        <2>1. x \notin sent
              BY <1>3 DEF ActedOn
        <2>2. PICK l \in loops : x = Event(l, l.held)
              BY <2>1, NewEvents
        <2>3. e = l.cause
              BY <1>3, <2>2 DEF Event
        <2> QED BY <1>3, <2>3 DEF ActedOn
  <1> QED BY <1>1, <1>2, <1>3 DEF ActedOn

Known(e) == \A a \in Actors : High \in Inputs[a] => e \in got[a]

MonitorInv ==
  /\ got = [a \in Actors |-> got[a]]
  /\ dist \in {"own", "low"} => Known(Current)
  /\ dist = "high" =>
       /\ \A a \in Actors : High \in Inputs[a] => a \in todo \/ Current \in got[a]
       /\ \A a \in todo : a \in Actors /\ High \in Inputs[a]
  /\ \A e \in ActedOn : Known(e)

LEMMA GotStep ==
  ASSUME MonitorInv, [Next]_vars
  PROVE  /\ got' = [a \in Actors |-> got'[a]]
         /\ \A a \in Actors : got[a] \subseteq got'[a]
         /\ \A a \in Actors : Notifies(a) => Current \in got'[a]
  <1>1. ASSUME NEW a \in Actors, Visits(a)
        PROVE  /\ got' = [b \in Actors |-> got'[b]] /\ Current \in got'[a]
               /\ \A b \in Actors : got[b] \subseteq got'[b]
        BY <1>1 DEF Visits, MonitorInv
  <1>2. \A a \in Actors : Notifies(a) \/ PredicateThrows(a) => Visits(a)
        BY DEF Notifies, NotifyAction, NotifyCondition, NotifyBridge, NotifyLogger, PredicateThrows
  <1>3. CASE got' = got
        BY <1>1, <1>2, <1>3 DEF MonitorInv
  <1>4. CASE OnEvent \/ NextStage
        BY <1>3, <1>4 DEF OnEvent, NextStage, history
  <1> QED BY <1>1, <1>2, <1>3, <1>4, DeliverySteps

LEMMA KnownStays ==
  ASSUME MonitorInv, [Next]_vars, NEW e, Known(e)
  PROVE  \A a \in Actors : High \in Inputs[a] => e \in got'[a]
  BY GotStep DEF Known

LEMMA MonitorStep == PlaceInv /\ MonitorInv /\ [Next]_vars => MonitorInv'
  <1> SUFFICES ASSUME PlaceInv, MonitorInv, [Next]_vars PROVE MonitorInv'
      OBVIOUS
  <1>1. got' = [a \in Actors |-> got'[a]] /\ \A a \in Actors : got[a] \subseteq got'[a]
        BY GotStep
  <1>2. ASSUME NEW e \in ActedOn' PROVE Known(e)'
        <2>1. CASE e \in ActedOn
              BY <2>1, KnownStays DEF MonitorInv, Known
        <2>2. CASE e \notin ActedOn
              <3>1. PICK a \in Actors : NotifyAction(a) \/ NotifyCondition(a)
                    BY <2>2, NewlyActedOn
              <3>2. e = Current
                    BY <2>2, NewlyActedOn
              <3>3. dist \in Stages /\ a \in todo /\ Kind[a] # "logger"
                    BY <3>1 DEF NotifyAction, NotifyCondition, Visits
              <3>4. dist # "high"
                    BY <3>3, PriorityAssumption DEF MonitorInv
              <3>5. Known(e)
                    BY <3>2, <3>3, <3>4 DEF MonitorInv, Stages
              <3> QED BY <3>5, KnownStays DEF Known
        <2> QED BY <2>1, <2>2
  <1>3. CASE OnEvent
        <2>1. dist' \notin {"own", "low"}
              BY <1>3 DEF OnEvent, Stage, Done
        <2>2. dist' = "high" => todo' = {a \in Actors : High \in Inputs[a]}
              BY <1>3 DEF OnEvent, Stage, Done, Consumers
        <2> QED BY <1>1, <1>2, <2>1, <2>2 DEF MonitorInv
  <1>4. CASE NextStage
        <2>1. dist \in Stages /\ todo = {} /\ got' = got
              BY <1>4 DEF NextStage, history
        <2>2. Known(Current)
              BY <2>1 DEF MonitorInv, Known, Stages
        <2>3. dist' # "high"
              BY <1>4 DEF NextStage, Stage, Done, Stages
        <2>4. dist' \in {"own", "low"} => Current' = Current
              BY <1>4 DEF NextStage, Stage, Done, Stages, Current
        <2> QED BY <1>1, <1>2, <2>1, <2>2, <2>3, <2>4 DEF MonitorInv, Known
  <1>5. CASE dist' \notin Stages
        BY <1>1, <1>2, <1>5 DEF MonitorInv, Stages
  <1>6. CASE dist' = dist /\ dist \in Stages /\ ~NextStage
             /\ \/ todo' = todo
                \/ \E a \in Actors : Notifies(a) /\ todo' = todo \ {a}
        <2>1. Current' = Current
              BY <1>6, CurrentStays DEF PlaceInv
        <2>2. dist \in {"own", "low"} => Known(Current)'
              BY <2>1, KnownStays DEF MonitorInv, Known
        <2>3. dist = "high" => \A a \in Actors : High \in Inputs[a] => a \in todo' \/ Current \in got'[a]
              BY <1>6, GotStep DEF MonitorInv
        <2>4. dist = "high" => \A a \in todo' : a \in Actors /\ High \in Inputs[a]
              BY <1>6 DEF MonitorInv
        <2> QED BY <1>1, <1>2, <1>6, <2>1, <2>2, <2>3, <2>4 DEF MonitorInv
  <1>7. ASSUME NEW a \in Actors, Notifies(a) \/ PredicateThrows(a)
        PROVE  dist \in Stages /\ (dist' \notin Stages \/ (Notifies(a) /\ dist' = dist /\ todo' = todo \ {a}))
        BY <1>7 DEF Notifies, NotifyAction, NotifyCondition, NotifyBridge, NotifyLogger, PredicateThrows, Visits,
           Stages
  <1> QED BY <1>3, <1>4, <1>5, <1>6, <1>7, DeliverySteps

(* No task runs, and nothing is published, because of an event of which an
   actor of high priority has not yet been notified (EventChannel.onEvent). *)
THEOREM MonitorIsFirst == Spec => []MonitorFirst
  <1>1. Init => MonitorInv
        <2> SUFFICES ASSUME Init PROVE MonitorInv
            OBVIOUS
        <2>1. Tasks = {} /\ ActedOn = {}
              BY EmptySeq DEF Init, Tasks, ActedOn
        <2> QED BY <2>1 DEF Init, MonitorInv
  <1>2. MonitorInv => MonitorFirst
        BY DEF MonitorInv, MonitorFirst, Known
  <1> QED BY <1>1, <1>2, PlaceInit, PlaceStep, MonitorStep, PTL DEF Spec

-----------------------------------------------------------------------------
(* Types.  That an event has a cause exactly if an actor published it needs
   None to be no event, indeed no record with the fields of one. *)
NoneIsNoEvent ==
  \A t, corr, cause, by : None # [type |-> t, corr |-> corr, cause |-> cause, by |-> by]

EventInv == (\A e \in sent : e # None) /\ \A l \in loops : l.cause = None <=> l.by \in Publishers

TypeInv ==
  /\ TypeOK /\ EventInv
  /\ published \in [Publishers -> Nat]
  /\ got = [a \in Actors |-> got[a]]

LEMMA FreshLoops ==
  ASSUME PlaceInv, EventInv, [Next]_vars, NEW k \in loops'
  PROVE  k.cause = None <=> k.by \in Publishers
  <1>1. CASE k \in loops
        BY <1>1 DEF EventInv
  <1>2. CASE k \in NewLoops
        <2>1. CASE k.cause \in sent /\ k.by \in Actors
              BY <2>1, DisjointAssumption DEF EventInv
        <2> QED BY <1>2, <2>1, NewLoopKinds DEF PlaceInv, EventInv, Publishers
  <1> QED BY <1>1, <1>2 DEF NewLoops

LEMMA EventStep ==
  ASSUME NoneIsNoEvent
  PROVE  PlaceInv /\ EventInv /\ [Next]_vars => EventInv'
  <1> SUFFICES ASSUME PlaceInv, EventInv, [Next]_vars PROVE EventInv'
      OBVIOUS
  <1>1. ASSUME NEW e \in sent' PROVE e # None
        <2>1. CASE e \in sent
              BY <2>1 DEF EventInv
        <2>2. CASE e \notin sent
              BY <2>2, NewEvents DEF Event, NoneIsNoEvent
        <2> QED BY <2>1, <2>2
  <1>2. \A k \in loops' : k.cause = None <=> k.by \in Publishers
        BY FreshLoops
  <1> QED BY <1>1, <1>2 DEF EventInv

(* The types still to be visited by a publication, and the one held. *)
LoopTyped(l) == l.left \subseteq Types /\ l.held \in Types \cup {None}

LoopTypes == \A l \in loops : LoopTyped(l)

LEMMA FreshLoopTypes ==
  ASSUME PlaceInv, LoopTypes, [Next]_vars, NEW k \in loops'
  PROVE  LoopTyped(k)
  <1>1. CASE k \in loops
        BY <1>1 DEF LoopTypes
  <1>2. CASE k \in NewLoops
        <2>1. ASSUME NEW l \in loops, LookUpType(l) \/ Send(l) \/ SendDropped(l) PROVE LoopTyped(k)
              <3>1. PICK left \in SUBSET l.left, held \in l.left \cup {None} : Advance(l, left, held)
                    BY <2>1 DEF LookUpType, Send, SendDropped
              <3>2. k = [by |-> l.by, cause |-> l.cause, corr |-> l.corr, left |-> left, held |-> held]
                    BY <1>2, <3>1, AdvanceLoops DEF PlaceInv
              <3> QED BY <3>2 DEF LoopTypes, LoopTyped
        <2>2. ASSUME NEW by, NEW cause, NEW corr, NEW S \in SUBSET Types, k \in Loop(by, cause, corr, S)
              PROVE  LoopTyped(k)
              BY <2>2 DEF Loop, LoopTyped
        <2>3. ASSUME NEW c \in Publishers, CallPublish(c) PROVE LoopTyped(k)
              <3>1. PICK S \in Sources[c] : k \in Loop(c, None, <<c, published[c]>>, S)
                    BY <1>2, <2>3 DEF CallPublish, NewLoops
              <3>2. S \in SUBSET Types
                    BY <3>1, SourcesAssumption
              <3> QED BY <3>1, <3>2, <2>2
        <2>4. ASSUME NEW c \in Publishers, CallSend(c) PROVE LoopTyped(k)
              <3>1. PICK t \in UNION Sources[c] :
                      k = [by |-> c, cause |-> None, corr |-> <<c, published[c]>>, left |-> {}, held |-> t]
                    BY <1>2, <2>4 DEF CallSend, NewLoops
              <3>2. t \in Types
                    BY <3>1, SourcesAssumption
              <3> QED BY <3>1, <3>2 DEF LoopTyped
        <2>5. ASSUME NEW a \in Actors, NotifyCondition(a) PROVE LoopTyped(k)
              <3>1. PICK answer \in BOOLEAN : k \in Loop(a, Current, Current.corr, Outputs[a][answer])
                    BY <1>2, <2>5 DEF NotifyCondition, NewLoops
              <3>2. Outputs[a][answer] \in SUBSET Types
                    BY OutputsAssumption
              <3> QED BY <3>1, <3>2, <2>2
        <2>6. ASSUME NEW task \in running, BehaviourEnds(task) PROVE LoopTyped(k)
              <3>1. k \in Loop(task[2], task[1], task[1].corr, Outputs[task[2]][TRUE])
                    BY <1>2, <2>6 DEF BehaviourEnds, NewLoops
              <3>2. task[2] \in Actors
                    BY DEF PlaceInv, TaskInv
              <3>3. Outputs[task[2]][TRUE] \in SUBSET Types
                    BY <3>2, OutputsAssumption
              <3> QED BY <3>1, <3>3, <2>2
        <2> QED BY <1>2, <2>1, <2>3, <2>4, <2>5, <2>6, LoopSteps DEF NewLoops, Tick, Publishers
  <1> QED BY <1>1, <1>2 DEF NewLoops

LEMMA SentTyped ==
  ASSUME PlaceInv, TypeOK, EventInv, [Next]_vars, NEW e \in sent'
  PROVE  IsEvent(e)
  <1>1. CASE e \in sent
        BY <1>1 DEF TypeOK
  <1>2. CASE e \notin sent
        <2>1. PICK l \in loops : Send(l) /\ e = Event(l, l.held)
              BY <1>2, NewEvents
        <2>2. e.type = l.held /\ e.by = l.by /\ e.cause = l.cause
              BY <2>1 DEF Event
        <2>3. l.held \in Types
              BY <2>1 DEF Send, TypeOK
        <2> QED BY <2>2, <2>3 DEF IsEvent, EventInv, PlaceInv, LoopInv
  <1> QED BY <1>1, <1>2

(* The slots: those handled in the batch and those still in the queue are never
   more than the ring has. *)
Slots == used \in 0 .. RingSize /\ Len(queue) + used <= RingSize

LEMMA UsedSteps ==
  ASSUME [Next]_vars
  PROVE  used' \in {used, 0} \/ OnEvent \/ NextStage
  <1> USE DEF channel
  <1>1. CASE UNCHANGED vars
        BY <1>1 DEF vars
  <1>2. CASE LifeStep \/ BeginStart \/ BeginStop \/ RemoteAnswers \/ (\E t \in Removable : RemoveType(t))
        BY <1>2 DEF LifeStep, StartFails, StartChannel, StartExecutor, StartServer, StopChannel, StopExecutor,
           StopDaemons, StartUnchanged, StopUnchanged, BeginStart, BeginStop, RemoteAnswers, RemoveType
  <1>3. CASE PublishStep \/ PoolStep \/ \E task \in running : HookThrows(task)
        BY <1>3 DEF PublishStep, LookUpType, Send, SendDropped, PoolStep, BeginTask, BehaviourEnds, HookThrows
  <1>4. CASE DistributorStep \/ \E a \in Actors : PredicateThrows(a)
        BY <1>4 DEF DistributorStep, BeginBatch, EndBatch, DistributorHalts, NotifyAction, NotifyCondition,
           NotifyBridge, NotifyLogger, PredicateThrows, Visits
  <1>5. CASE (\E c \in Callers : CallPublish(c) \/ CallSend(c))
             \/ \E c \in Timers : Schedule(c) \/ Tick(c) \/ Shutdown(c) \/ Terminated(c)
        BY <1>5 DEF CallPublish, CallSend, Schedule, Tick, Shutdown, Terminated, SetTimer
  <1> QED BY <1>1, <1>2, <1>3, <1>4, <1>5 DEF Next, Progress

LEMMA SlotsStep == QueueInv /\ Slots /\ [Next]_vars => Slots'
  <1> SUFFICES ASSUME QueueInv, Slots, [Next]_vars PROVE Slots'
      OBVIOUS
  <1>0. RingSize \in Nat /\ RingSize >= 1 /\ Len(queue) \in Nat /\ batch \in Nat /\ batch <= Len(queue)
        BY SizeAssumption, LenProperties DEF QueueInv
  <1> USE DEF Slots
  <1>1. ASSUME batch > 0, NEW step, Done(step) PROVE Slots'
        <2>1. queue # <<>> /\ queue \in Seq(sent)
              BY <1>1, CurrentSent DEF QueueInv
        <2>2. Len(queue') = Len(queue) - 1 /\ used' = used + 1 /\ Len(queue) >= 1
              BY <1>0, <1>1, <2>1, HeadTailProperties DEF Done
        <2> QED BY <1>0, <2>2
  <1>2. CASE OnEvent \/ NextStage
        <2>1. batch > 0
              BY <1>2 DEF OnEvent, NextStage, QueueInv
        <2>2. UNCHANGED <<queue, used>> \/ Done("next")
              BY <1>2 DEF OnEvent, NextStage, Stages
        <2> QED BY <1>0, <1>1, <2>1, <2>2
  <1>3. ASSUME NEW l \in loops, Send(l) PROVE Slots'
        <2>1. Len(queue') = Len(queue) + 1 /\ used' = used /\ ~Full
              BY <1>3, SendQueue DEF Send
        <2> QED BY <1>0, <2>1 DEF Full
  <1>4. CASE UNCHANGED queue /\ used' \in {used, 0}
        BY <1>0, <1>4
  <1>5. used' \in {used, 0} \/ OnEvent \/ NextStage
        BY UsedSteps
  <1>6. UNCHANGED queue \/ OnEvent \/ NextStage \/ \E l \in loops : Send(l)
        BY QueueSteps DEF BeginBatch
  <1> QED BY <1>2, <1>3, <1>4, <1>5, <1>6

LEMMA GotTyped ==
  ASSUME PlaceInv, TypeInv, [Next]_vars
  PROVE  got' = [a \in Actors |-> got'[a]] /\ \A a \in Actors : \A e \in got'[a] : IsEvent(e)
  <1>1. CASE got' = got
        BY <1>1 DEF TypeInv, TypeOK
  <1>2. ASSUME NEW a \in Actors, Visits(a)
        PROVE  got' = [b \in Actors |-> got'[b]] /\ \A b \in Actors : \A e \in got'[b] : IsEvent(e)
        <2>1. Current \in sent
              BY <1>2, CurrentSent DEF Visits, PlaceInv, QueueInv
        <2>2. IsEvent(Current)
              BY <2>1, SentTyped DEF TypeInv, TypeOK
        <2>3. got' = [got EXCEPT ![a] = @ \cup {Current}]
              BY <1>2 DEF Visits
        <2>4. \A b \in Actors : got'[b] \subseteq got[b] \cup {Current}
              BY <2>3 DEF TypeInv
        <2> QED BY <2>2, <2>3, <2>4 DEF TypeInv, TypeOK
  <1>3. CASE OnEvent \/ NextStage
        BY <1>1, <1>3 DEF OnEvent, NextStage, history
  <1> QED BY <1>1, <1>2, <1>3, DeliverySteps DEF Notifies, NotifyAction, NotifyCondition, NotifyBridge, NotifyLogger,
             PredicateThrows

(* The life cycle's variables. *)
LifeTyped ==
  /\ started \in [Parts -> BOOLEAN] /\ stopped \in [Parts -> BOOLEAN]
  /\ {starter, stopper} \subseteq {"channel", "executor", "server", "domain", "idle", "returned", "failed"}
  /\ daemons \in {"up", "shut"} /\ overlapped \in BOOLEAN
  /\ ring \in {"none", "open", "halted"} /\ pool \in {"none", "up", "shut"}

LEMMA SwitchTyped ==
  ASSUME started \in [Parts -> BOOLEAN], stopped \in [Parts -> BOOLEAN], NEW X, SwitchState(X)
  PROVE  started' \in [Parts -> BOOLEAN] /\ stopped' \in [Parts -> BOOLEAN]
  <1>1. \A x \in Parts : (IF x \in X THEN stopped[x] ELSE started[x]) \in BOOLEAN
        BY Zenon
  <1> QED BY <1>1, Zenon DEF SwitchState

LEMMA LifeStepTyped == LifeTyped /\ [Next]_vars => LifeTyped'
  <1> SUFFICES ASSUME LifeTyped, [Next]_vars PROVE LifeTyped'
      OBVIOUS
  <1>1. started \in [Parts -> BOOLEAN] /\ stopped \in [Parts -> BOOLEAN]
        BY DEF LifeTyped
  <1>2. CASE BeginStart \/ StartFails
        BY <1>2 DEF BeginStart, StartFails, StartUnchanged, LifeTyped
  <1>3. CASE StartChannel \/ StartExecutor \/ StartServer
        <2>1. started' \in [Parts -> BOOLEAN] /\ stopped' \in [Parts -> BOOLEAN]
              BY <1>1, <1>3, SwitchTyped DEF StartChannel, StartExecutor, StartServer
        <2> QED BY <1>3, <2>1 DEF StartChannel, StartExecutor, StartServer, StartUnchanged, LifeTyped
  <1>4. CASE BeginStop
        <2>1. overlapped' \in BOOLEAN
              BY <1>4, Zenon DEF BeginStop
        <2> QED BY <1>4, <2>1 DEF BeginStop, StopUnchanged, LifeTyped
  <1>5. CASE StopChannel \/ StopExecutor \/ StopDaemons
        <2>1. started' \in [Parts -> BOOLEAN] /\ stopped' \in [Parts -> BOOLEAN]
              BY <1>1, <1>5, SwitchTyped DEF StopChannel, StopExecutor, StopDaemons
        <2>2. overlapped' = overlapped /\ starter' = starter
              BY <1>5 DEF StopChannel, StopExecutor, StopDaemons, StopUnchanged
        <2> QED BY <1>5, <2>1, <2>2 DEF StopChannel, StopExecutor, StopDaemons, StopUnchanged, LifeTyped
  <1>6. CASE UNCHANGED life /\ UNCHANGED <<ring, pool>>
        BY <1>6 DEF life, LifeTyped
  <1> QED BY <1>2, <1>3, <1>4, <1>5, <1>6, LifeSteps DEF LifeStep

(* The distributor's own variables, the types, the callers and the timers. *)
RestTyped ==
  /\ dist \in {"none", "idle", "next", "high", "own", "low", "dead", "ended"}
  /\ todo \subseteq Actors /\ remote \in BOOLEAN
  /\ types \subseteq Types
  /\ published \in [Publishers -> Nat] /\ \A p \in Publishers : published[p] \in 0 .. MaxPublished
  /\ timer \in [Timers -> {"open", "shutdown", "terminated"}] /\ scheduled \subseteq Timers

LEMMA RestStepTyped == RestTyped /\ [Next]_vars => RestTyped'
  <1> SUFFICES ASSUME RestTyped, [Next]_vars PROVE RestTyped'
      OBVIOUS
  <1> USE DEF RestTyped, distributor, clocks
  <1>1. CASE UNCHANGED vars
        BY <1>1 DEF vars
  <1>2. CASE LifeStep \/ BeginStart \/ BeginStop
        BY <1>2 DEF LifeStep, StartFails, StartChannel, StartExecutor, StartServer, StopChannel, StopExecutor,
           StopDaemons, StartUnchanged, StopUnchanged, BeginStart, BeginStop
  <1>3. CASE PublishStep \/ PoolStep \/ \E task \in running : HookThrows(task)
        BY <1>3 DEF PublishStep, LookUpType, Send, SendDropped, PoolStep, BeginTask, BehaviourEnds, HookThrows
  <1>4. CASE BeginBatch \/ OnEvent \/ NextStage \/ EndBatch \/ DistributorHalts
        <2>1. UNCHANGED <<remote, types, published, timer, scheduled>>
              BY <1>4 DEF BeginBatch, OnEvent, NextStage, EndBatch, DistributorHalts
        <2>2. ASSUME NEW step, NEW x, Stage(step, x) PROVE dist' = step /\ todo' \subseteq Actors
              BY <2>2 DEF Stage, Consumers
        <2>3. ASSUME NEW step, Done(step) PROVE dist' = step /\ todo' \subseteq Actors
              BY <2>3 DEF Done
        <2>4. CASE BeginBatch \/ EndBatch \/ DistributorHalts
              BY <2>1, <2>4 DEF BeginBatch, EndBatch, DistributorHalts
        <2>5. CASE OnEvent
              BY <2>1, <2>2, <2>3, <2>5 DEF OnEvent
        <2>6. CASE NextStage
              BY <2>1, <2>2, <2>3, <2>6 DEF NextStage, Stages
        <2> QED BY <1>4, <2>4, <2>5, <2>6
  <1>5. ASSUME NEW a \in Actors, Notifies(a) \/ PredicateThrows(a) PROVE RestTyped'
        <2>1. types' = types /\ published' = published /\ timer' = timer /\ scheduled' = scheduled
              BY <1>5 DEF Notifies, NotifyAction, NotifyCondition, NotifyBridge, NotifyLogger, PredicateThrows, Visits
        <2>2. dist' \in {dist, "dead"} /\ todo' \subseteq todo /\ remote' \in BOOLEAN
              BY <1>5 DEF Notifies, NotifyAction, NotifyCondition, NotifyBridge, NotifyLogger, PredicateThrows
        <2> QED BY <2>1, <2>2
  <1>6. CASE RemoteAnswers \/ \E t \in Removable : RemoveType(t)
        BY <1>6 DEF RemoteAnswers, RemoveType
  <1>7. ASSUME NEW c \in Publishers, CallPublish(c) \/ CallSend(c) PROVE RestTyped'
        <2>1. published' = [published EXCEPT ![c] = @ + 1] /\ published[c] < MaxPublished
              BY <1>7 DEF CallPublish, CallSend
        <2>2. published' \in [Publishers -> Nat] /\ \A p \in Publishers : published'[p] \in 0 .. MaxPublished
              BY <2>1, SizeAssumption
        <2> QED BY <1>7, <2>2 DEF CallPublish, CallSend
  <1>8. ASSUME NEW c \in Timers, Schedule(c) \/ Shutdown(c) \/ Terminated(c) PROVE RestTyped'
        BY <1>8 DEF Schedule, Shutdown, Terminated, SetTimer
  <1> QED BY <1>1, <1>2, <1>3, <1>4, <1>5, <1>6, <1>7, <1>8
      DEF Next, Progress, DistributorStep, Notifies, Tick, Publishers

LEMMA TypeStep ==
  ASSUME NoneIsNoEvent
  PROVE  PlaceInv /\ TypeInv /\ [Next]_vars => TypeInv'
  <1> SUFFICES ASSUME PlaceInv, TypeInv, [Next]_vars PROVE TypeInv'
      OBVIOUS
  <1>1. PlaceInv'
        BY PlaceStep
  <1>2. LifeTyped' /\ RestTyped'
        BY LifeStepTyped, RestStepTyped DEF TypeInv, TypeOK, LifeTyped, RestTyped
  <1>3. Slots'
        BY SlotsStep DEF TypeInv, TypeOK, PlaceInv, Slots
  <1>4. \A e \in sent' : IsEvent(e)
        BY SentTyped DEF TypeInv
  <1>5. \A i \in DOMAIN queue' : IsEvent(queue'[i])
        <2>1. queue' \in Seq(sent')
              BY <1>1 DEF PlaceInv, QueueInv
        <2>2. \A i \in DOMAIN queue' : queue'[i] \in sent'
              BY <2>1, ElementOfSeq, LenProperties
        <2> QED BY <1>4, <2>2
  <1>6. \A task \in Tasks' : IsEvent(task[1]) /\ task[2] \in Actors
        <2>1. waiting' \in Seq(sent' \X Actors) /\ running' \subseteq sent' \X Actors
              BY <1>1 DEF PlaceInv, TaskInv
        <2>2. \A i \in DOMAIN waiting' : waiting'[i] \in sent' \X Actors
              BY <2>1, ElementOfSeq, LenProperties
        <2>3. \A task \in Tasks' : task \in sent' \X Actors
              BY <2>1, <2>2 DEF Tasks
        <2>4. \A task \in Tasks' : task[1] \in sent' /\ task[2] \in Actors
              BY <2>3
        <2> QED BY <1>4, <2>4
  <1>7. \A l \in loops' : l.left \subseteq Types /\ l.held \in Types \cup {None}
        BY FreshLoopTypes DEF TypeInv, TypeOK, LoopTypes, LoopTyped
  <1>8. EventInv'
        BY EventStep DEF TypeInv
  <1>9. batch' \in 0 .. Len(queue')
        BY <1>1 DEF PlaceInv, QueueInv
  <1>10. TypeOK'
        BY <1>2, <1>3, <1>4, <1>5, <1>6, <1>7, <1>9, GotTyped DEF TypeOK, LifeTyped, RestTyped, Slots
  <1> QED BY <1>2, <1>8, <1>10, GotTyped DEF TypeInv, RestTyped

(* Every variable keeps its type, if None is no event; in particular the events
   handled in a batch and those waiting never fill more slots than there are,
   and an event has a cause exactly if an actor published it. *)
THEOREM TypeCorrect ==
  ASSUME NoneIsNoEvent
  PROVE  Spec => []TypeOK
  <1>1. Init => TypeInv
        <2> SUFFICES ASSUME Init PROVE TypeInv
            OBVIOUS
        <2>1. Tasks = {} /\ Len(queue) = 0 /\ DOMAIN queue = {}
              BY EmptySeq DEF Init, Tasks
        <2>2. started \in [Parts -> BOOLEAN] /\ stopped \in [Parts -> BOOLEAN]
              BY DEF Init
        <2>3. RestTyped
              <3>1. published \in [Publishers -> Nat] /\ \A p \in Publishers : published[p] = 0
                    BY DEF Init
              <3>2. timer \in [Timers -> {"open", "shutdown", "terminated"}]
                    BY DEF Init
              <3>3. \A p \in Publishers : published[p] \in 0 .. MaxPublished
                    BY <3>1, SizeAssumption
              <3>4. dist = "none" /\ todo = {} /\ remote = FALSE /\ types = Types /\ scheduled = {}
                    BY DEF Init
              <3> QED BY <3>1, <3>2, <3>3, <3>4 DEF RestTyped
        <2>4. EventInv /\ got = [a \in Actors |-> got[a]]
              BY DEF Init, EventInv
        <2>5. LifeTyped
              BY <2>2 DEF Init, LifeTyped
        <2>6. Slots /\ batch \in 0 .. Len(queue)
              BY <2>1, SizeAssumption DEF Init, Slots
        <2>7. loops = {} /\ sent = {} /\ \A a \in Actors : got[a] = {}
              BY DEF Init
        <2>8. TypeOK
              BY <2>1, <2>3, <2>5, <2>6, <2>7 DEF TypeOK, LifeTyped, RestTyped, Slots
        <2> QED BY <2>3, <2>4, <2>8 DEF TypeInv, RestTyped
  <1>2. TypeInv => TypeOK
        BY DEF TypeInv
  <1> QED BY <1>1, <1>2, PlaceInit, PlaceStep, TypeStep, PTL DEF Spec

-----------------------------------------------------------------------------
(* Delivery.  Before start() has made the channel there is no distributor, and a
   distributor that has ended stays so. *)
DistInv == starter \in {"idle", "channel"} => dist = "none"

(* Whoever acts on an event was notified of it. *)
SourceInv ==
  /\ \A task \in Tasks : task[1] \in got[task[2]]
  /\ \A l \in loops : l.cause # None => l.by \in Actors /\ l.cause \in got[l.by]

(* All who had to be notified of an event were. *)
Reached(e) == \A a \in Actors : Delivery!Due(a, e) => e \in got[a]

(* Whoever is to be notified in a stage consumes the event; who was due in an
   earlier stage has it, who is due in this one has it or is yet to be notified. *)
StageInv ==
  /\ dist \in Stages => \A a \in todo : a \in Actors /\ Delivery!Consumes(a, Current)
  /\ dist = "own" => \A a \in Actors : Current.type \in Inputs[a] \cap types => a \in todo \/ Current \in got[a]
  /\ dist = "low" => \A a \in Actors : Current.type \in Inputs[a] \cap types => Current \in got[a]
  /\ dist = "low" => \A a \in Actors : Low \in Inputs[a] => a \in todo \/ Current \in got[a]

(* What is acted on has reached everybody, or is the event being delivered; the
   cause of the event being delivered has reached everybody. *)
CausalInv ==
  /\ dist # "dead" => \A e \in ActedOn : Reached(e) \/ (dist \in Stages /\ e = Current)
  /\ dist \in Stages /\ Current.cause # None => Reached(Current.cause)

(* If only observers have low priority, the same holds of those who consume the
   type of an event even if the type is removed: somebody acts on the event
   only if its own consumers were looked up, all of them at once. *)
LowObserves == \A a \in Actors : Low \in Inputs[a] => Kind[a] \notin {"action", "condition"}

ReachedOwn(e) == \A a \in Actors : e.type \in Inputs[a] => e \in got[a]

OwnInv ==
  /\ dist = "own" /\ todo # {} => \A a \in Actors : Current.type \in Inputs[a] => a \in todo \/ Current \in got[a]
  /\ dist = "low" => \A a \in todo : Low \in Inputs[a]
  /\ dist # "dead" =>
       \A e \in ActedOn : \A a \in Actors :
         e.type \in Inputs[a] => e \in got[a] \/ (dist = "own" /\ e = Current /\ a \in todo)
  /\ dist \in Stages /\ Current.cause # None => ReachedOwn(Current.cause)

LEMMA DistSteps ==
  ASSUME [Next]_vars, dist' # dist
  PROVE  \/ StartChannel
         \/ BeginBatch \/ OnEvent \/ NextStage \/ EndBatch \/ DistributorHalts
         \/ \E a \in Actors : Notifies(a) \/ PredicateThrows(a)
  <1> USE DEF distributor
  <1>1. CASE UNCHANGED vars
        BY <1>1 DEF vars
  <1>2. CASE LifeStep \/ BeginStart \/ BeginStop
        BY <1>2 DEF LifeStep, StartFails, StartExecutor, StartServer, StopChannel, StopExecutor,
           StopDaemons, StartUnchanged, StopUnchanged, BeginStart, BeginStop
  <1>3. CASE PublishStep \/ PoolStep \/ \E task \in running : HookThrows(task)
        BY <1>3 DEF PublishStep, LookUpType, Send, SendDropped, PoolStep, BeginTask, BehaviourEnds, HookThrows
  <1>4. CASE DistributorStep \/ \E a \in Actors : PredicateThrows(a)
        BY <1>4 DEF DistributorStep, Notifies
  <1>5. CASE RemoteAnswers \/ \E t \in Removable : RemoveType(t)
        BY <1>5 DEF RemoteAnswers, RemoveType
  <1>6. CASE (\E c \in Callers : CallPublish(c) \/ CallSend(c))
             \/ \E c \in Timers : Schedule(c) \/ Tick(c) \/ Shutdown(c) \/ Terminated(c)
        BY <1>6 DEF CallPublish, CallSend, Schedule, Tick, Shutdown, Terminated, SetTimer
  <1> QED BY <1>1, <1>2, <1>3, <1>4, <1>5, <1>6 DEF Next, Progress

LEMMA NotifiesSteps ==
  ASSUME NEW a \in Actors, Notifies(a) \/ PredicateThrows(a)
  PROVE  /\ Visits(a) /\ dist \in Stages /\ a \in todo
         /\ dist' = "dead" \/ (Notifies(a) /\ dist' = dist /\ todo' = todo \ {a})
  BY DEF Notifies, NotifyAction, NotifyCondition, NotifyBridge, NotifyLogger, PredicateThrows, Visits

LEMMA DistStep == DistInv /\ [Next]_vars => DistInv'
  <1> SUFFICES ASSUME DistInv, [Next]_vars PROVE DistInv'
      OBVIOUS
  <1>1. starter' \in {"idle", "channel"} => starter \in {"idle", "channel"} /\ ~StartChannel
        BY LifeSteps DEF LifeStep, StartFails, StartChannel, StartExecutor, StartServer, StopChannel, StopExecutor,
           StopDaemons, StopUnchanged, BeginStart, BeginStop, life
  <1>2. dist = "none" /\ ~StartChannel => dist' = "none"
        BY DistSteps, NotifiesSteps DEF BeginBatch, OnEvent, NextStage, EndBatch, DistributorHalts, Stages
  <1> QED BY <1>1, <1>2 DEF DistInv

LEMMA TypeSteps == ASSUME [Next]_vars PROVE types' = types \/ \E t \in Removable : RemoveType(t)
  <1>1. CASE UNCHANGED vars
        BY <1>1 DEF vars
  <1>2. CASE LifeStep \/ BeginStart \/ BeginStop
        BY <1>2 DEF LifeStep, StartFails, StartChannel, StartExecutor, StartServer, StopChannel, StopExecutor,
           StopDaemons, StartUnchanged, StopUnchanged, BeginStart, BeginStop
  <1>3. CASE PublishStep \/ PoolStep \/ \E task \in running : HookThrows(task)
        BY <1>3 DEF PublishStep, LookUpType, Send, SendDropped, PoolStep, BeginTask, BehaviourEnds, HookThrows
  <1>4. CASE DistributorStep \/ \E a \in Actors : PredicateThrows(a)
        BY <1>4 DEF DistributorStep, BeginBatch, OnEvent, NextStage, EndBatch, DistributorHalts, NotifyAction,
           NotifyCondition, NotifyBridge, NotifyLogger, PredicateThrows, Visits
  <1>5. CASE RemoteAnswers \/ \E t \in Removable : RemoveType(t)
        BY <1>5 DEF RemoteAnswers
  <1>6. CASE (\E c \in Callers : CallPublish(c) \/ CallSend(c))
             \/ \E c \in Timers : Schedule(c) \/ Tick(c) \/ Shutdown(c) \/ Terminated(c)
        BY <1>6 DEF CallPublish, CallSend, Schedule, Tick, Shutdown, Terminated, SetTimer
  <1> QED BY <1>1, <1>2, <1>3, <1>4, <1>5, <1>6 DEF Next, Progress

LEMMA TypesShrink == ASSUME [Next]_vars PROVE types' \subseteq types
  BY TypeSteps DEF RemoveType

(* A step that notifies nobody and enters or leaves no stage is not taken while
   the event at the head is being delivered. *)
LEMMA BetweenEvents ==
  ASSUME DistInv, [Next]_vars, dist' \notin Stages, dist' # "dead"
  PROVE  OnEvent \/ NextStage \/ (got' = got /\ dist \notin Stages /\ dist # "dead")
  <1>1. CASE dist' = dist
        <2>1. ~\E a \in Actors : Notifies(a) \/ PredicateThrows(a)
              BY <1>1, NotifiesSteps
        <2> QED BY <1>1, <2>1, DeliverySteps
  <1>2. CASE StartChannel
        BY <1>2 DEF StartChannel, StartUnchanged, history, DistInv, Stages
  <1>3. CASE BeginBatch \/ EndBatch \/ DistributorHalts
        BY <1>3 DEF BeginBatch, EndBatch, DistributorHalts, history, Stages
  <1> QED BY <1>1, <1>2, <1>3, DistSteps, NotifiesSteps

LEMMA SourceStep == PlaceInv /\ MonitorInv /\ SourceInv /\ [Next]_vars => SourceInv'
  <1> SUFFICES ASSUME PlaceInv, MonitorInv, SourceInv, [Next]_vars PROVE SourceInv'
      OBVIOUS
  <1>0. (\A a \in Actors : got[a] \subseteq got'[a]) /\ \A a \in Actors : Notifies(a) => Current \in got'[a]
        BY GotStep
  <1>1. ASSUME NEW task \in Tasks' PROVE task[1] \in got'[task[2]]
        <2>1. CASE task \in Tasks
              <3>1. task \in sent \X Actors
                    <4>1. \A i \in DOMAIN waiting : waiting[i] \in sent \X Actors
                          BY ElementOfSeq, LenProperties DEF PlaceInv, TaskInv
                    <4> QED BY <2>1, <4>1 DEF PlaceInv, TaskInv, Tasks
              <3> QED BY <1>0, <2>1, <3>1 DEF SourceInv
        <2>2. CASE task \notin Tasks
              <3>1. PICK a \in Actors : NotifyAction(a) /\ task = <<Current, a>>
                    BY <2>2, NewTasks DEF PlaceInv
              <3>2. task[1] = Current /\ task[2] = a
                    BY <3>1
              <3> QED BY <1>0, <3>1, <3>2 DEF Notifies
        <2> QED BY <2>1, <2>2
  <1>2. ASSUME NEW k \in loops', k.cause # None PROVE k.by \in Actors /\ k.cause \in got'[k.by]
        <2>1. CASE \E l \in loops : k.by = l.by /\ k.cause = l.cause
              BY <1>0, <1>2, <2>1 DEF SourceInv
        <2>2. CASE k.by \in Actors /\ NotifyCondition(k.by) /\ k.cause = Current
              BY <1>0, <2>2 DEF Notifies
        <2>3. CASE k.by \in Actors /\ <<k.cause, k.by>> \in running
              <3>1. <<k.cause, k.by>>[1] \in got[<<k.cause, k.by>>[2]]
                    BY <2>3 DEF SourceInv, Tasks
              <3> QED BY <1>0, <2>3, <3>1
        <2>4. CASE k \notin loops
              BY <1>2, <2>1, <2>2, <2>3, <2>4, NewLoopKinds DEF NewLoops, PlaceInv
        <2> QED BY <2>1, <2>4
  <1> QED BY <1>1, <1>2 DEF SourceInv

LEMMA ReachedStays ==
  ASSUME MonitorInv, [Next]_vars, NEW e, Reached(e)
  PROVE  Reached(e)'
  <1>1. \A a \in Actors : got[a] \subseteq got'[a]
        BY GotStep
  <1>2. \A a \in Actors : Delivery!Due(a, e)' => Delivery!Due(a, e)
        BY TypesShrink DEF Delivery!Due
  <1> QED BY <1>1, <1>2 DEF Reached

(* A step changes the stage, or at most one actor is notified in it. *)
LEMMA WithinStage ==
  ASSUME QueueInv, [Next]_vars, dist' \in Stages, ~OnEvent, ~NextStage
  PROVE  /\ dist' = dist /\ Current' = Current
         /\ todo' = todo \/ \E a \in Actors : Notifies(a) /\ todo' = todo \ {a}
  <1>1. dist' = dist /\ (todo' = todo \/ \E a \in Actors : Notifies(a) /\ todo' = todo \ {a})
        BY DeliverySteps, NotifiesSteps DEF Stages
  <1> QED BY <1>1, CurrentStays

LEMMA StageStep == PlaceInv /\ MonitorInv /\ StageInv /\ [Next]_vars => StageInv'
  <1> SUFFICES ASSUME PlaceInv, MonitorInv, StageInv, [Next]_vars PROVE StageInv'
      OBVIOUS
  <1>1. CASE OnEvent
        <2>1. dist' \notin {"own", "low"}
              BY <1>1 DEF OnEvent, Stage, Done
        <2>2. dist' = "high" => todo' = {a \in Actors : High \in Inputs[a]}
              BY <1>1 DEF OnEvent, Stage, Done, Consumers
        <2> QED BY <2>1, <2>2 DEF StageInv, Stages, Delivery!Consumes
  <1>2. CASE NextStage
        <2>1. dist \in Stages /\ todo = {} /\ got' = got /\ types' = types
              BY <1>2 DEF NextStage, history
        <2>2. CASE dist = "high"
              <3>1. dist' = "own" /\ todo' = Consumers(Current.type) /\ queue' = queue
                    BY <1>2, <2>2 DEF NextStage, Stage
              <3> QED BY <2>1, <3>1 DEF StageInv, Stages, Current, Consumers, Delivery!Consumes
        <2>3. CASE dist = "own"
              <3>1. dist' = "low" /\ todo' = Consumers(Low) /\ queue' = queue
                    BY <1>2, <2>3 DEF NextStage, Stage
              <3> QED BY <2>1, <2>3, <3>1 DEF StageInv, Stages, Current, Consumers, Delivery!Consumes
        <2>4. CASE dist = "low"
              BY <1>2, <2>4 DEF NextStage, Done, StageInv, Stages
        <2> QED BY <2>1, <2>2, <2>3, <2>4 DEF Stages
  <1>3. CASE dist' \notin Stages
        BY <1>3 DEF StageInv, Stages
  <1>4. CASE dist' \in Stages /\ ~OnEvent /\ ~NextStage
        <2>1. /\ dist' = dist /\ Current' = Current
              /\ todo' = todo \/ \E a \in Actors : Notifies(a) /\ todo' = todo \ {a}
              BY <1>4, WithinStage DEF PlaceInv
        <2>2. todo' \subseteq todo /\ types' \subseteq types /\ \A a \in todo : a \in todo' \/ Notifies(a)
              BY <2>1, TypesShrink
        <2>3. /\ \A a \in Actors : got[a] \subseteq got'[a]
              /\ \A a \in Actors : Notifies(a) => Current \in got'[a]
              BY GotStep
        <2>4. dist \in Stages => \A a \in todo : a \in Actors
              BY DEF StageInv
        <2> QED BY <1>4, <2>1, <2>2, <2>3, <2>4 DEF StageInv, Delivery!Consumes
  <1> QED BY <1>1, <1>2, <1>3, <1>4

LEMMA CausalStep ==
  PlaceInv /\ MonitorInv /\ DistInv /\ StageInv /\ CausalInv /\ [Next]_vars => CausalInv'
  <1> SUFFICES ASSUME PlaceInv, MonitorInv, DistInv, StageInv, CausalInv, [Next]_vars PROVE CausalInv'
      OBVIOUS
  <1>1. ASSUME NEW e \in ActedOn', e \notin ActedOn
        PROVE  e = Current /\ dist \in Stages /\ (dist' = dist \/ dist' = "dead") /\ ~OnEvent /\ ~NextStage
        <2>1. PICK a \in Actors : NotifyAction(a) \/ NotifyCondition(a)
              BY <1>1, NewlyActedOn
        <2>2. e = Current
              BY <1>1, NewlyActedOn
        <2>3. a \in todo /\ (dist' = "dead" \/ todo' = todo \ {a})
              BY <2>1 DEF NotifyAction, NotifyCondition, Visits
        <2> QED BY <2>1, <2>2, <2>3, NotifiesSteps DEF Notifies, OnEvent, NextStage, Stage, Done, Stages
  <1>2. CASE OnEvent
        <2>1. dist = "next" /\ batch > 0 /\ (dist' = "next" \/ (dist' = "high" /\ queue' = queue))
              BY <1>2 DEF OnEvent, Stage, Done
        <2>2. \A e \in ActedOn : Reached(e)
              BY <2>1 DEF CausalInv, Stages
        <2>3. Current.cause # None => Current.cause \in ActedOn
              BY <2>1, CurrentSent DEF PlaceInv, ActedOn
        <2>4. dist' \in Stages => Current' = Current
              BY <2>1 DEF Current, Stages
        <2>5. \A e \in ActedOn' : e \in ActedOn
              BY <1>1, <1>2
        <2>6. \A e \in ActedOn : Reached(e)'
              BY <2>2, ReachedStays
        <2> QED BY <2>3, <2>4, <2>5, <2>6 DEF CausalInv
  <1>3. CASE NextStage
        <2>1. dist \in Stages /\ todo = {}
              BY <1>3 DEF NextStage
        <2>2. \A e \in ActedOn' : e \in ActedOn
              BY <1>1, <1>3
        <2>3. CASE dist = "low"
              <3>1. dist' = "next"
                    BY <1>3, <2>3 DEF NextStage, Done
              <3>2. Reached(Current)
                    BY <2>1, <2>3 DEF Reached, MonitorInv, Known, StageInv, Delivery!Due
              <3>3. \A e \in ActedOn : Reached(e)
                    BY <2>3, <3>2 DEF CausalInv
              <3>4. \A e \in ActedOn : Reached(e)'
                    BY <3>3, ReachedStays
              <3> QED BY <2>2, <3>1, <3>4 DEF CausalInv, Stages
        <2>4. CASE dist \in {"high", "own"}
              <3>1. dist' \in Stages /\ Current' = Current
                    BY <1>3, <2>4 DEF NextStage, Stage, Stages, Current
              <3>2. dist # "dead"
                    BY <2>4
              <3>3. \A e \in ActedOn : Reached(e)' \/ e = Current
                    BY <3>2, ReachedStays DEF CausalInv
              <3>4. Current.cause # None => Reached(Current.cause)'
                    BY <2>1, <3>1, ReachedStays DEF CausalInv
              <3> QED BY <2>2, <3>1, <3>3, <3>4 DEF CausalInv
        <2> QED BY <2>1, <2>3, <2>4 DEF Stages
  <1>4. CASE dist' \notin Stages /\ ~OnEvent /\ ~NextStage
        <2>1. CASE dist' = "dead"
              BY <1>4, <2>1 DEF CausalInv
        <2>2. CASE dist' # "dead"
              <3>1. dist \notin Stages /\ dist # "dead"
                    BY <1>4, <2>2, BetweenEvents
              <3>2. \A e \in ActedOn : Reached(e)'
                    BY <3>1, ReachedStays DEF CausalInv
              <3>3. \A e \in ActedOn' : e \in ActedOn
                    BY <1>1, <3>1
              <3> QED BY <1>4, <3>2, <3>3 DEF CausalInv
        <2> QED BY <2>1, <2>2
  <1>5. CASE dist' \in Stages /\ ~OnEvent /\ ~NextStage
        <2>1. dist' = dist /\ Current' = Current
              BY <1>5, WithinStage DEF PlaceInv
        <2>2. dist # "dead"
              BY <1>5, <2>1 DEF Stages
        <2>3. \A e \in ActedOn : Reached(e)' \/ e = Current
              BY <2>2, ReachedStays DEF CausalInv
        <2>4. Current.cause # None => Reached(Current.cause)'
              BY <1>5, <2>1, ReachedStays DEF CausalInv
        <2>5. \A e \in ActedOn' : e \in ActedOn \/ e = Current
              BY <1>1
        <2> QED BY <1>5, <2>1, <2>3, <2>4, <2>5 DEF CausalInv
  <1> QED BY <1>2, <1>3, <1>4, <1>5

LEMMA OwnStep ==
  ASSUME LowObserves
  PROVE  PlaceInv /\ MonitorInv /\ DistInv /\ StageInv /\ OwnInv /\ [Next]_vars => OwnInv'
  <1> SUFFICES ASSUME PlaceInv, MonitorInv, DistInv, StageInv, OwnInv, [Next]_vars PROVE OwnInv'
      OBVIOUS
  <1>0. (\A a \in Actors : got[a] \subseteq got'[a]) /\ \A a \in Actors : Notifies(a) => Current \in got'[a]
        BY GotStep
  <1>1. ASSUME NEW e \in ActedOn', e \notin ActedOn
        PROVE  /\ e = Current /\ ~OnEvent /\ ~NextStage
               /\ dist' = "dead" \/ (dist = "own" /\ dist' = "own" /\ todo # {})
        <2>1. PICK a \in Actors : NotifyAction(a) \/ NotifyCondition(a)
              BY <1>1, NewlyActedOn
        <2>2. e = Current
              BY <1>1, NewlyActedOn
        <2>3. a \in todo /\ Kind[a] \in {"action", "condition"} /\ dist \in Stages /\ (dist' = dist \/ dist' = "dead")
              BY <2>1 DEF NotifyAction, NotifyCondition, Visits
        <2>4. dist # "high"
              BY <2>3, PriorityAssumption DEF MonitorInv
        <2>5. dist # "low"
              BY <2>3 DEF OwnInv, LowObserves
        <2>6. ~OnEvent /\ ~NextStage
              BY <2>1, <2>3, NotifiesSteps DEF Notifies, OnEvent, NextStage, Stages
        <2> QED BY <2>2, <2>3, <2>4, <2>5, <2>6 DEF Stages
  <1>2. \A e \in ActedOn : \A a \in Actors : e \in got[a] => e \in got'[a]
        BY <1>0
  <1>3. CASE OnEvent
        <2>1. dist = "next" /\ batch > 0 /\ (dist' = "next" \/ (dist' = "high" /\ queue' = queue))
              BY <1>3 DEF OnEvent, Stage, Done
        <2>2. \A e \in ActedOn : ReachedOwn(e)
              BY <2>1 DEF OwnInv, ReachedOwn
        <2>3. Current.cause # None => Current.cause \in ActedOn
              BY <2>1, CurrentSent DEF PlaceInv, ActedOn
        <2>4. dist' \in Stages => Current' = Current
              BY <2>1 DEF Current, Stages
        <2>5. \A e \in ActedOn' : e \in ActedOn
              BY <1>1, <1>3
        <2> QED BY <1>0, <2>1, <2>2, <2>3, <2>4, <2>5 DEF OwnInv, ReachedOwn
  <1>4. CASE NextStage
        <2>1. dist \in Stages /\ todo = {} /\ dist # "dead"
              BY <1>4 DEF NextStage, Stages
        <2>2. \A e \in ActedOn : ReachedOwn(e)
              BY <2>1 DEF OwnInv, ReachedOwn
        <2>3. \A e \in ActedOn' : e \in ActedOn
              BY <1>1, <1>4
        <2>4. \A e \in ActedOn' : \A a \in Actors : e.type \in Inputs[a] => e \in got'[a]
              BY <1>0, <2>2, <2>3 DEF ReachedOwn
        <2>5. Current.cause # None => \A a \in Actors : Current.cause.type \in Inputs[a] => Current.cause \in got'[a]
              BY <1>0, <2>1 DEF OwnInv, ReachedOwn
        <2>6. CASE dist = "high"
              <3>1. dist' = "own" /\ todo' = Consumers(Current.type) /\ Current' = Current
                    BY <1>4, <2>6 DEF NextStage, Stage, Current
              <3>2. todo' # {} => \A a \in Actors : Current.type \in Inputs[a] => a \in todo'
                    BY <3>1 DEF Consumers
              <3> QED BY <2>4, <2>5, <3>1, <3>2 DEF OwnInv, ReachedOwn, Stages
        <2>7. CASE dist = "own"
              <3>1. dist' = "low" /\ todo' = Consumers(Low) /\ Current' = Current
                    BY <1>4, <2>7 DEF NextStage, Stage, Current
              <3>2. \A a \in todo' : Low \in Inputs[a]
                    BY <3>1 DEF Consumers
              <3> QED BY <2>4, <2>5, <3>1, <3>2 DEF OwnInv, ReachedOwn, Stages
        <2>8. CASE dist = "low"
              <3>1. dist' = "next"
                    BY <1>4, <2>8 DEF NextStage, Done
              <3> QED BY <2>4, <3>1 DEF OwnInv, Stages
        <2> QED BY <2>1, <2>6, <2>7, <2>8 DEF Stages
  <1>5. CASE dist' \notin Stages /\ ~OnEvent /\ ~NextStage
        <2>1. CASE dist' = "dead"
              BY <1>5, <2>1 DEF OwnInv, Stages
        <2>2. CASE dist' # "dead"
              <3>1. dist \notin Stages /\ dist # "dead"
                    BY <1>5, <2>2, BetweenEvents
              <3>2. \A e \in ActedOn : ReachedOwn(e)
                    BY <3>1 DEF OwnInv, ReachedOwn, Stages
              <3>3. \A e \in ActedOn' : e \in ActedOn
                    BY <1>1, <2>2, <3>1 DEF Stages
              <3>4. \A e \in ActedOn' : \A a \in Actors : e.type \in Inputs[a] => e \in got'[a]
                    BY <1>0, <3>2, <3>3 DEF ReachedOwn
              <3> QED BY <1>5, <3>4 DEF OwnInv, Stages
        <2> QED BY <2>1, <2>2
  <1>6. CASE dist' \in Stages /\ ~OnEvent /\ ~NextStage
        <2>1. /\ dist' = dist /\ Current' = Current
              /\ todo' = todo \/ \E a \in Actors : Notifies(a) /\ todo' = todo \ {a}
              BY <1>6, WithinStage DEF PlaceInv
        <2>2. todo' \subseteq todo /\ \A a \in todo : a \in todo' \/ Notifies(a)
              BY <2>1
        <2>3. dist # "dead" /\ dist \in Stages
              BY <1>6, <2>1 DEF Stages
        <2>4. \A a \in Actors : a \in todo => a \in todo' \/ Current \in got'[a]
              BY <1>0, <2>2
        <2>5. ASSUME dist = "own", todo # {}, NEW a \in Actors, Current.type \in Inputs[a]
              PROVE  a \in todo' \/ Current \in got'[a]
              BY <1>0, <2>4, <2>5 DEF OwnInv
        <2>6. ASSUME NEW e \in ActedOn', NEW a \in Actors, e.type \in Inputs[a]
              PROVE  e \in got'[a] \/ (dist = "own" /\ e = Current /\ a \in todo')
              <3>1. CASE e \in ActedOn
                    BY <1>0, <2>3, <2>4, <2>6, <3>1 DEF OwnInv
              <3>2. CASE e \notin ActedOn
                    <4>1. e = Current /\ dist = "own" /\ todo # {}
                          BY <1>1, <2>1, <2>3, <3>2
                    <4> QED BY <2>5, <2>6, <4>1
              <3> QED BY <3>1, <3>2
        <2>7. Current.cause # None => \A a \in Actors : Current.cause.type \in Inputs[a] => Current.cause \in got'[a]
              BY <1>0, <2>3 DEF OwnInv, ReachedOwn
        <2>8. dist = "low" => \A a \in todo' : Low \in Inputs[a]
              BY <2>2 DEF OwnInv
        <2>9. dist = "own" /\ todo' # {} => todo # {}
              BY <2>2
        <2> QED BY <2>1, <2>5, <2>6, <2>7, <2>8, <2>9 DEF OwnInv, ReachedOwn
  <1> QED BY <1>3, <1>4, <1>5, <1>6

DeliveryInv == PlaceInv /\ MonitorInv /\ DistInv /\ SourceInv /\ StageInv /\ CausalInv

LEMMA DeliveryInit == Init => DeliveryInv
  <1> SUFFICES ASSUME Init PROVE DeliveryInv
      OBVIOUS
  <1>1. Tasks = {} /\ ActedOn = {}
        BY EmptySeq DEF Init, Tasks, ActedOn
  <1>2. MonitorInv /\ DistInv /\ SourceInv /\ StageInv /\ CausalInv
        BY <1>1 DEF Init, MonitorInv, DistInv, SourceInv, StageInv, CausalInv, Stages
  <1> QED BY <1>2, PlaceInit DEF DeliveryInv

LEMMA DeliveryStep == DeliveryInv /\ [Next]_vars => DeliveryInv'
  BY PlaceStep, MonitorStep, DistStep, SourceStep, StageStep, CausalStep DEF DeliveryInv

(* Every step of the domain is one of the delivery service, or changes nothing
   an actor could tell. *)
LEMMA DeliveryNextStep ==
  DeliveryInv /\ EventInv /\ [Next]_vars => [Delivery!DeliveryNext]_(Delivery!deliveryVars)
  <1> SUFFICES ASSUME DeliveryInv, EventInv, [Next]_vars
               PROVE  Delivery!DeliveryNext \/ UNCHANGED <<types, sent, got>>
      BY DEF Delivery!deliveryVars
  <1>1. ASSUME NEW l \in loops, Send(l), sent' # sent PROVE Delivery!Publish
        <2>1. sent' = sent \cup {Event(l, l.held)} /\ UNCHANGED <<types, got>>
              BY <1>1 DEF Send
        <2> DEFINE e == Event(l, l.held)
        <2>2. e.by = l.by /\ e.cause = l.cause /\ e.corr = l.corr
              BY DEF Event
        <2> HIDE DEF e
        <2>3. e \in sent' \ sent /\ sent' = sent \cup {e}
              BY <1>1, <2>1 DEF e
        <2>4. CASE l.cause = None
              <3>1. e.by \in Publishers /\ e.cause = None
                    BY <2>2, <2>4 DEF EventInv
              <3> QED BY <2>1, <2>3, <3>1 DEF Delivery!Publish
        <2>5. CASE l.cause # None
              <3>1. e.by \in Actors /\ e.cause \in got[e.by]
                    BY <2>2, <2>5 DEF DeliveryInv, SourceInv
              <3>2. e.corr = e.cause.corr
                    BY <2>2, <2>5 DEF DeliveryInv, PlaceInv, LoopInv
              <3>3. Delivery!DeliveredToFirst(e.cause)
                    BY <2>2, <2>5 DEF DeliveryInv, MonitorInv, Known, ActedOn, Delivery!DeliveredToFirst
              <3> QED BY <2>1, <2>3, <3>1, <3>2, <3>3 DEF Delivery!Publish
        <2> QED BY <2>4, <2>5
  <1>2. ASSUME NEW a \in Actors, Visits(a), got' # got PROVE Delivery!Deliver(a)
        <2>1. dist \in Stages /\ a \in todo /\ got' = [got EXCEPT ![a] = @ \cup {Current}] /\ UNCHANGED <<types, sent>>
              BY <1>2 DEF Visits
        <2>2. Current \in sent
              BY <2>1, CurrentSent DEF DeliveryInv, PlaceInv, QueueInv
        <2>3. Current \notin got[a]
              BY <1>2, <2>1 DEF DeliveryInv, MonitorInv
        <2>4. Delivery!Consumes(a, Current)
              BY <2>1 DEF DeliveryInv, StageInv
        <2>5. High \notin Inputs[a] => Delivery!DeliveredToFirst(Current)
              BY <2>1 DEF DeliveryInv, MonitorInv, Known, Stages, Delivery!DeliveredToFirst
        <2>6. Current.cause # None /\ Delivery!Due(a, Current.cause) => Current.cause \in got[a]
              BY <2>1 DEF DeliveryInv, CausalInv, Reached
        <2> QED BY <2>1, <2>2, <2>3, <2>4, <2>5, <2>6 DEF Delivery!Deliver
  <1>3. ASSUME NEW t \in Removable, RemoveType(t) PROVE Delivery!DeliveryNext
        BY <1>3 DEF RemoveType, history, Delivery!DeliveryNext, Delivery!Remove
  <1>4. CASE \E l \in loops : Send(l)
        BY <1>1, <1>4 DEF Send, Delivery!DeliveryNext
  <1>5. CASE \E a \in Actors : Notifies(a) \/ PredicateThrows(a)
        BY <1>2, <1>5, NotifiesSteps DEF Visits, Delivery!DeliveryNext
  <1>6. CASE \E t \in Removable : RemoveType(t)
        BY <1>3, <1>6
  <1>7. sent' = sent \/ \E l \in loops : Send(l)
        BY QueueSteps DEF BeginBatch, OnEvent, NextStage, history
  <1>8. got' = got \/ \E a \in Actors : Notifies(a) \/ PredicateThrows(a)
        BY DeliverySteps DEF OnEvent, NextStage, history
  <1>9. types' = types \/ \E t \in Removable : RemoveType(t)
        BY TypeSteps
  <1> QED BY <1>4, <1>5, <1>6, <1>7, <1>8, <1>9

(* Whoever is notified of what, and in which order, is what a delivery service
   promises that keeps causes before effects and the actors of high priority
   before all others; and nobody publishes but because of an event it was
   notified of (EventChannel.onEvent, Action.fire, Condition.notified). *)
THEOREM DomainRefinesDelivery ==
  ASSUME NoneIsNoEvent
  PROVE  Spec => ImplementsDelivery
  <1>1. Init => Delivery!DeliveryInit
        BY DEF Init, Delivery!DeliveryInit
  <1>2. Init => EventInv
        BY DEF Init, EventInv
  <1> QED BY <1>1, <1>2, DeliveryInit, DeliveryStep, EventStep, DeliveryNextStep, PTL
          DEF Spec, ImplementsDelivery, Delivery!DeliverySpec, DeliveryInv

(* As long as no type is removed, all that is sent is of a type that exists. *)
AllExist == types = Types /\ LoopTypes /\ \A e \in sent : e.type \in Types

LEMMA AllExistStep ==
  ASSUME Removable = {}
  PROVE  PlaceInv /\ AllExist /\ [Next]_vars => AllExist'
  <1> SUFFICES ASSUME PlaceInv, AllExist, [Next]_vars PROVE AllExist'
      OBVIOUS
  <1>1. types' = Types
        BY TypeSteps DEF AllExist
  <1>2. LoopTypes'
        BY FreshLoopTypes DEF AllExist, LoopTypes, LoopTyped
  <1>3. ASSUME NEW e \in sent' PROVE e.type \in Types
        <2>1. CASE e \in sent
              BY <2>1 DEF AllExist
        <2>2. CASE e \notin sent
              <3>1. PICK l \in loops : Send(l) /\ e = Event(l, l.held)
                    BY <2>2, NewEvents
              <3>2. e.type = l.held /\ l.held # None
                    BY <3>1 DEF Send, Event
              <3> QED BY <3>2 DEF AllExist, LoopTypes, LoopTyped
        <2> QED BY <2>1, <2>2
  <1> QED BY <1>1, <1>2, <1>3 DEF AllExist

LEMMA CausalOrder ==
  ASSUME DeliveryInv, CorrelationKept, OwnInv \/ AllExist, [Next]_vars,
         NEW a \in Actors, NEW e \in got'[a] \ got[a],
         e.cause # None, Inputs[a] \cap {High, e.cause.type, Low} # {}
  PROVE  e.cause \in got[a]
  <1>1. PICK b \in Actors : Visits(b)
        <2>1. got' # got
              OBVIOUS
        <2> QED BY <2>1, DeliverySteps, NotifiesSteps DEF OnEvent, NextStage, history
  <1>2. e = Current /\ dist \in Stages
        BY <1>1 DEF Visits, DeliveryInv, MonitorInv
  <1>3. Reached(e.cause)
        BY <1>2 DEF DeliveryInv, CausalInv
  <1>4. CASE High \in Inputs[a] \/ Low \in Inputs[a]
        BY <1>3, <1>4 DEF Reached, Delivery!Due
  <1>5. CASE e.cause.type \in Inputs[a]
        <2>1. CASE OwnInv
              BY <1>2, <1>5, <2>1 DEF OwnInv, ReachedOwn
        <2>2. CASE AllExist
              <3>1. e.cause \in sent
                    BY <1>2, CurrentSent DEF CorrelationKept, DeliveryInv, PlaceInv, QueueInv
              <3>2. e.cause.type \in types
                    BY <2>2, <3>1 DEF AllExist
              <3> QED BY <1>3, <1>5, <3>2 DEF Reached, Delivery!Due
        <2> QED BY <2>1, <2>2
  <1> QED BY <1>4, <1>5

(* Whoever is notified of an event was notified of its cause before, if that is
   one of its inputs; provided that only observers have low priority, as is the
   case of all actors the program makes itself (DERA.newEventLogger), or that
   no type is removed. *)
THEOREM CausalCorrect ==
  ASSUME LowObserves \/ Removable = {}
  PROVE  Spec => CausalDelivery
  <1>1. DeliveryInv /\ CorrelationKept /\ (OwnInv \/ AllExist) /\ [Next]_vars =>
          [\A a \in Actors : \A e \in got'[a] \ got[a] :
             e.cause # None /\ Inputs[a] \cap {High, e.cause.type, Low} # {} => e.cause \in got[a]]_vars
        BY CausalOrder
  <1>2. CASE LowObserves
        <2>1. Init => OwnInv
              <3>1. Init => ActedOn = {}
                    BY EmptySeq DEF Init, Tasks, ActedOn
              <3> QED BY <3>1 DEF Init, OwnInv, Stages
        <2>2. DeliveryInv /\ OwnInv /\ [Next]_vars => OwnInv'
              BY <1>2, OwnStep DEF DeliveryInv
        <2> QED BY <1>1, <2>1, <2>2, DeliveryInit, DeliveryStep, CorrelationCorrect, PTL DEF Spec, CausalDelivery
  <1>3. CASE Removable = {}
        <2>1. Init => AllExist
              BY DEF Init, AllExist, LoopTypes
        <2>2. DeliveryInv /\ AllExist /\ [Next]_vars => AllExist'
              BY <1>3, AllExistStep DEF DeliveryInv
        <2> QED BY <1>1, <2>1, <2>2, DeliveryInit, DeliveryStep, CorrelationCorrect, PTL DEF Spec, CausalDelivery
  <1> QED BY <1>2, <1>3

-----------------------------------------------------------------------------
(* No deadlock.  A distributor that rests has freed its batch; the only one that
   runs no longer belongs to a ring that is halted; a publish() loop that is not
   over has a type to look up or an event to send. *)
RestInv ==
  /\ dist \in {"none", "idle"} => used = 0
  /\ ring = "open" => dist \notin {"none", "ended"}
  /\ dist \in {"none", "idle", "next", "dead", "ended"} \cup Stages

LoopsGoOn == \A l \in loops : l.held # None \/ l.left # {}

(* What some part of the domain may do next: the distributor, a publish() loop,
   a thread of the pool. *)
MayGoOn ==
  \/ dist = "idle" /\ queue # <<>>
  \/ dist = "next"
  \/ dist \in Stages /\ Undisturbed
  \/ \E l \in loops : IF l.held = None THEN l.left # {} ELSE ~Full
  \/ waiting # <<>> /\ Cardinality(running) + Cardinality(Firing) < MaxPoolSize
  \/ running # {}

(* Work that is left in a domain that is up can be gone on with, unless the
   distributor has died, waits for itself or waits for another domain. *)
NeverStuck ==
  ring = "open" /\ pool = "up" /\ ~Settled =>
    MayGoOn \/ dist = "dead" \/ SelfBlocked \/ remote

LEMMA RestStep == DistInv /\ RestInv /\ [Next]_vars => RestInv'
  <1> SUFFICES ASSUME DistInv, RestInv, [Next]_vars PROVE RestInv'
      OBVIOUS
  <1>1. CASE StartChannel
        BY <1>1 DEF StartChannel, StartUnchanged, DistInv, RestInv
  <1>2. CASE BeginBatch \/ OnEvent \/ NextStage \/ EndBatch \/ DistributorHalts
        BY <1>2 DEF BeginBatch, OnEvent, NextStage, EndBatch, DistributorHalts, Stage, Done, Stages, channel, RestInv
  <1>3. CASE \E a \in Actors : Notifies(a) \/ PredicateThrows(a)
        BY <1>3, NotifiesSteps DEF Visits, Stages, channel, RestInv
  <1>4. CASE dist' = dist /\ ~OnEvent /\ ~NextStage /\ ~StartChannel
        <2>1. used' \in {used, 0}
              BY <1>4, UsedSteps
        <2>2. ring' = "open" => ring = "open"
              BY <1>4, LifeSteps DEF LifeStep, StartFails, StartExecutor, StartServer, StopChannel, StopExecutor,
                 StopDaemons, StartUnchanged, BeginStart, BeginStop
        <2> QED BY <1>4, <2>1, <2>2 DEF RestInv
  <1> QED BY <1>1, <1>2, <1>3, <1>4, DistSteps

LEMMA LoopsGoOnStep == PlaceInv /\ LoopsGoOn /\ [Next]_vars => LoopsGoOn'
  <1> SUFFICES ASSUME PlaceInv, LoopsGoOn, [Next]_vars, NEW l \in loops' \ loops
               PROVE  l.held # None \/ l.left # {}
      BY DEF LoopsGoOn
  <1>1. ASSUME NEW k \in loops, LookUpType(k) \/ Send(k) \/ SendDropped(k)
        PROVE  l.held # None \/ l.left # {}
        <2>1. PICK left, held : Advance(k, left, held)
              BY <1>1 DEF LookUpType, Send, SendDropped
        <2>2. ~(left = {} /\ held = None)
              BY <2>1 DEF Advance
        <2>3. l = [by |-> k.by, cause |-> k.cause, corr |-> k.corr, left |-> left, held |-> held]
              BY <2>1, AdvanceLoops DEF PlaceInv, NewLoops
        <2> QED BY <2>2, <2>3
  <1>2. ASSUME NEW by, NEW cause, NEW corr, NEW S, l \in Loop(by, cause, corr, S) PROVE l.left # {}
        BY <1>2 DEF Loop
  <1>3. ASSUME NEW c \in Publishers, CallPublish(c) PROVE l.left # {}
        BY <1>2, <1>3 DEF CallPublish
  <1>4. ASSUME NEW c \in Callers, CallSend(c) PROVE l.held # None
        <2>1. PICK t \in UNION Sources[c] :
                l = [by |-> c, cause |-> None, corr |-> <<c, published[c]>>, left |-> {}, held |-> t]
              BY <1>4 DEF CallSend
        <2>2. t \in Types
              BY <2>1, SourcesAssumption DEF Publishers
        <2> QED BY <2>1, <2>2, NoneAssumption
  <1>5. ASSUME NEW a \in Actors, NotifyCondition(a) PROVE l.left # {}
        BY <1>2, <1>5 DEF NotifyCondition
  <1>6. ASSUME NEW task \in running, BehaviourEnds(task) PROVE l.left # {}
        BY <1>2, <1>6 DEF BehaviourEnds
  <1> QED BY <1>1, <1>3, <1>4, <1>5, <1>6, LoopSteps DEF Tick, Publishers

(* Tasks that wait for room in the ring, a distributor that waits for the events
   of a condition, and the pool behind both never wait for each other in a
   circle: the safety half of AllWorkDone, for every size of ring and pool. *)
THEOREM NoDeadlock == Spec => []NeverStuck
  <1>1. Init => RestInv /\ LoopsGoOn /\ DistInv
        BY DEF Init, RestInv, LoopsGoOn, DistInv
  <1>2. RestInv /\ LoopsGoOn => NeverStuck
        <2> SUFFICES ASSUME RestInv, LoopsGoOn, ring = "open", pool = "up", ~Settled, dist # "dead",
                            ~SelfBlocked, ~remote, ~MayGoOn
                     PROVE  FALSE
            BY DEF NeverStuck
        <2>1. \A l \in loops : l.held # None /\ Full
              BY DEF LoopsGoOn, MayGoOn
        <2>2. dist \notin Stages
              BY <2>1 DEF MayGoOn, Undisturbed, SelfBlocked
        <2>3. dist = "idle" /\ used = 0 /\ queue = <<>>
              BY <2>2 DEF RestInv, MayGoOn
        <2>4. ~Full
              BY <2>3, SizeAssumption, EmptySeq DEF Full
        <2>5. loops = {}
              BY <2>1, <2>4
        <2>6. running = {} /\ Firing = {}
              BY <2>5 DEF MayGoOn, Firing
        <2>7. waiting # <<>>
              BY <2>3, <2>5, <2>6, EmptySeq DEF Settled, Tasks
        <2>8. Cardinality({}) = 0
              BY FS_EmptySet
        <2> QED BY <2>6, <2>7, <2>8, SizeAssumption DEF MayGoOn
  <1> QED BY <1>1, <1>2, PlaceInit, PlaceStep, RestStep, LoopsGoOnStep, DistStep, PTL DEF Spec
=============================================================================
