---------------------- MODULE BoundedBlockingExecutor ----------------------
(***************************************************************************)
(* dera.runtime.BoundedBlockingExecutor and its owner ExecutionManager: the *)
(* pool on which the behaviours of actors run.  A task pairs an actor with *)
(* the event it was notified of (ExecutableEntry).  execute() takes a      *)
(* permit of a semaphore, hands the task to java.util.concurrent's         *)
(* ThreadPoolExecutor and gives the permit back; a pool thread runs the    *)
(* behaviour and then, in afterExecute(), fires the actor's outputs.       *)
(*                                                                         *)
(* The pool has core size 0, MaxPoolSize threads at most and an unbounded  *)
(* queue.  Its own steps (check, enqueue, recheck, add a worker, time out, *)
(* exit) are those of ThreadPoolExecutor; they matter because a task must  *)
(* not be left in the queue when the last worker gives up.  Pool threads   *)
(* are interchangeable: the model counts how many are in each place.       *)
(***************************************************************************)
EXTENDS Integers, SequencesExt, FiniteSets

CONSTANTS Submitters,    \* threads that call execute()
          Tasks,         \* the tasks they submit, each once
          MaxPoolSize,   \* DomainConfiguration.getMaxPoolSize()
          MayThrow,      \* may behaviours and their callbacks throw?
          MayStop,       \* may the execution manager be stopped?
          NoTask         \* a submitter has no task in hand

ASSUME PoolAssumption == MaxPoolSize \in Nat \ {0}
ASSUME FiniteAssumption == IsFiniteSet(Submitters)
ASSUME NoTaskAssumption == NoTask \notin Tasks
ASSUME SwitchAssumption == MayThrow \in BOOLEAN /\ MayStop \in BOOLEAN

VARIABLES
  runState,  \* of the pool: running, stopping (interrupted), stopped (drained)
  permits,   \* of the semaphore
  pc,        \* where each submitter is in execute()
  job,       \* the task each submitter holds
  queue,     \* the work queue
  status,    \* what became of each task
  idle,      \* workers polling the queue
  expired,   \* workers whose poll timed out
  sawEmpty,  \* the last worker, having found the queue empty
  dying,     \* workers leaving because a behaviour threw
  replacing, \* such workers no longer counted
  leaving,   \* workers no longer counted, in processWorkerExit()
  accepted,  \* history: the tasks in the order they were enqueued
  begun      \* history: the tasks in the order they were taken

pool == <<idle, expired, sawEmpty, dying, replacing, leaving>>
vars == <<runState, permits, pc, job, queue, status, pool, accepted, begun>>

(* Tasks a worker has in hand. *)
InHand == {"taken", "ran", "threw"}
(* Tasks the pool is done with: outputs fired, outputs not fired because a
   callback threw, rejected, or removed by shutdownNow(). *)
Ended == {"fired", "silent", "rejected", "dropped"}

TypeOK ==
  /\ runState \in {"running", "stopping", "stopped"}
  /\ permits \in 0 .. MaxPoolSize
  /\ pc \in [Submitters -> {"idle", "check", "offer", "recheck", "release"}]
  /\ job \in [Submitters -> Tasks \cup {NoTask}]
  /\ queue \in Seq(Tasks)
  /\ status \in [Tasks -> {"new", "held", "queued"} \cup InHand \cup Ended]
  /\ idle \in Nat /\ expired \in Nat /\ sawEmpty \in Nat /\ dying \in Nat
  /\ replacing \in Nat /\ leaving \in Nat
  /\ accepted \in Seq(Tasks) /\ begun \in Seq(Tasks)

Init ==
  /\ runState = "running"
  /\ permits = MaxPoolSize
  /\ pc = [s \in Submitters |-> "idle"]
  /\ job = [s \in Submitters |-> NoTask]
  /\ queue = <<>>
  /\ status = [t \in Tasks |-> "new"]
  /\ idle = 0 /\ expired = 0 /\ sawEmpty = 0
  /\ dying = 0 /\ replacing = 0 /\ leaving = 0
  /\ accepted = <<>> /\ begun = <<>>

(* The pool's worker count. *)
Busy == Cardinality({t \in Tasks : status[t] \in InHand})
WorkerCount == idle + expired + sawEmpty + dying + Busy

Goto(s, label) == pc' = [pc EXCEPT ![s] = label]
Becomes(t, st) == status' = [status EXCEPT ![t] = st]

-----------------------------------------------------------------------------
(* execute(), on a submitting thread. *)

(* submitTask() and semaphore.acquire().  An interrupt only makes it retry. *)
Acquire(s) ==
  /\ pc[s] = "idle" /\ permits > 0
  /\ \E t \in Tasks :
       /\ status[t] = "new"
       /\ job' = [job EXCEPT ![s] = t]
       /\ Becomes(t, "held")
  /\ permits' = permits - 1
  /\ Goto(s, "check")
  /\ UNCHANGED <<runState, queue, pool, accepted, begun>>

(* Faulty variants: a rejection gives the permit back on its own, before the
   finally clause does; a rejection returns without giving it back. *)
CheckReleasesToo(s) ==
  /\ pc[s] = "check"
  /\ IF runState = "running"
       THEN Goto(s, "offer") /\ UNCHANGED <<status, permits>>
       ELSE Goto(s, "release") /\ Becomes(job[s], "rejected") /\ permits' = permits + 1
  /\ UNCHANGED <<runState, job, queue, pool, accepted, begun>>

CheckLeaks(s) ==
  /\ pc[s] = "check"
  /\ IF runState = "running"
       THEN Goto(s, "offer") /\ UNCHANGED <<status, job>>
       ELSE /\ Goto(s, "idle") /\ Becomes(job[s], "rejected")
            /\ job' = [job EXCEPT ![s] = NoTask]
  /\ UNCHANGED <<runState, permits, queue, pool, accepted, begun>>

(* super.execute(): a pool that is shutting down rejects the task; the
   exception is caught and logged. *)
Check(s) ==
  /\ pc[s] = "check"
  /\ IF runState = "running"
       THEN Goto(s, "offer") /\ UNCHANGED status
       ELSE Goto(s, "release") /\ Becomes(job[s], "rejected")
  /\ UNCHANGED <<runState, permits, job, queue, pool, accepted, begun>>

(* Faulty variant: the newest task goes first. *)
OfferFirst(s) ==
  /\ pc[s] = "offer"
  /\ queue' = <<job[s]>> \o queue
  /\ accepted' = Append(accepted, job[s])
  /\ Becomes(job[s], "queued")
  /\ Goto(s, "recheck")
  /\ UNCHANGED <<runState, permits, job, pool, begun>>

Offer(s) ==
  /\ pc[s] = "offer"
  /\ queue' = Append(queue, job[s])
  /\ accepted' = Append(accepted, job[s])
  /\ Becomes(job[s], "queued")
  /\ Goto(s, "recheck")
  /\ UNCHANGED <<runState, permits, job, pool, begun>>

(* Faulty variant: the second look is left out. *)
RecheckStoppedSkipped(s) ==
  /\ pc[s] = "recheck" /\ runState # "running"
  /\ Goto(s, "release")
  /\ UNCHANGED <<runState, permits, job, queue, status, pool, accepted, begun>>

(* The pool looks again: if it was shut down meanwhile it takes the task back,
   and if no worker is left it adds one. *)
RecheckStopped(s) ==
  /\ pc[s] = "recheck" /\ runState # "running"
  /\ IF status[job[s]] = "queued"
       THEN /\ \E i \in 1 .. Len(queue) : queue[i] = job[s] /\ queue' = RemoveAt(queue, i)
            /\ Becomes(job[s], "rejected")
       ELSE UNCHANGED <<queue, status>>
  /\ Goto(s, "release")
  /\ UNCHANGED <<runState, permits, job, pool, accepted, begun>>

RecheckRunning(s) ==
  /\ pc[s] = "recheck" /\ runState = "running"
  /\ idle' = IF WorkerCount = 0 THEN idle + 1 ELSE idle
  /\ Goto(s, "release")
  /\ UNCHANGED <<runState, permits, job, queue, status, expired, sawEmpty, dying,
                 replacing, leaving, accepted, begun>>

(* The finally clause: the permit returns as soon as the task is enqueued. *)
Release(s) ==
  /\ pc[s] = "release"
  /\ permits' = permits + 1
  /\ job' = [job EXCEPT ![s] = NoTask]
  /\ Goto(s, "idle")
  /\ UNCHANGED <<runState, queue, status, pool, accepted, begun>>

Execute(s) == Check(s) \/ Offer(s) \/ RecheckStopped(s) \/ RecheckRunning(s) \/ Release(s)

-----------------------------------------------------------------------------
(* The workers. *)
Outside == <<runState, permits, pc, job, accepted>>

(* A polling worker gets the oldest task, also while the pool is being stopped
   and the interrupt has not reached it; beforeExecute() swallows what its
   callback throws. *)
Take ==
  /\ idle > 0 /\ queue # <<>> /\ runState # "stopped"
  /\ queue' = Tail(queue)
  /\ Becomes(Head(queue), "taken")
  /\ begun' = Append(begun, Head(queue))
  /\ idle' = idle - 1
  /\ UNCHANGED <<Outside, expired, sawEmpty, dying, replacing, leaving>>

(* ExecutableEntry.run() runs the behaviour. *)
Run(t) ==
  /\ status[t] = "taken"
  /\ \/ Becomes(t, "ran")
     \/ MayThrow /\ Becomes(t, "threw")
  /\ UNCHANGED <<Outside, queue, pool, begun>>

(* Faulty variant: nothing happens after a behaviour that threw. *)
AfterExecuteOnSuccess(t) ==
  /\ status[t] = "ran"
  /\ \/ Becomes(t, "fired")
     \/ MayThrow /\ Becomes(t, "silent")
  /\ idle' = idle + 1
  /\ UNCHANGED <<Outside, queue, expired, sawEmpty, dying, replacing, leaving, begun>>

(* afterExecute() runs whether or not the behaviour threw: it calls the
   behaviour back and fires the outputs.  Whatever is thrown here is swallowed,
   and then nothing is fired.  A behaviour that threw takes its worker along. *)
AfterExecute(t) ==
  /\ status[t] \in {"ran", "threw"}
  /\ \/ Becomes(t, "fired")
     \/ MayThrow /\ Becomes(t, "silent")
  /\ IF status[t] = "ran"
       THEN idle' = idle + 1 /\ UNCHANGED dying
       ELSE dying' = dying + 1 /\ UNCHANGED idle
  /\ UNCHANGED <<Outside, queue, expired, sawEmpty, replacing, leaving, begun>>

(* The keep-alive time passes and poll() finds the queue empty. *)
PollTimesOut ==
  /\ idle > 0 /\ queue = <<>>
  /\ idle' = idle - 1 /\ expired' = expired + 1
  /\ UNCHANGED <<Outside, queue, status, sawEmpty, dying, replacing, leaving, begun>>

(* getTask() lets an expired worker go if others remain ... *)
RetireOneOfMany ==
  /\ expired > 0 /\ WorkerCount > 1
  /\ expired' = expired - 1 /\ leaving' = leaving + 1
  /\ UNCHANGED <<Outside, queue, status, idle, sawEmpty, dying, replacing, begun>>

(* ... or if the queue is empty: it looks at the queue first ... *)
SeeEmpty ==
  /\ expired > 0 /\ WorkerCount = 1 /\ queue = <<>>
  /\ expired' = expired - 1 /\ sawEmpty' = sawEmpty + 1
  /\ UNCHANGED <<Outside, queue, status, idle, dying, replacing, leaving, begun>>

(* ... and polls again if it is not. *)
PollAgain ==
  /\ expired > 0 /\ WorkerCount = 1 /\ queue # <<>>
  /\ expired' = expired - 1 /\ idle' = idle + 1
  /\ UNCHANGED <<Outside, queue, status, sawEmpty, dying, replacing, leaving, begun>>

(* ... and then decrements the count, if nobody changed it meanwhile; a task
   may have been enqueued in between. *)
RetireLast ==
  /\ sawEmpty > 0
  /\ sawEmpty' = sawEmpty - 1
  /\ IF WorkerCount = 1
       THEN leaving' = leaving + 1 /\ UNCHANGED expired
       ELSE expired' = expired + 1 /\ UNCHANGED leaving
  /\ UNCHANGED <<Outside, queue, status, idle, dying, replacing, begun>>

(* Faulty variant: a leaving worker does not look at the queue again. *)
LeaveBlindly ==
  /\ leaving > 0
  /\ leaving' = leaving - 1
  /\ UNCHANGED <<Outside, queue, status, idle, expired, sawEmpty, dying, replacing, begun>>

(* processWorkerExit(): the worker is replaced if it would leave tasks behind
   with nobody to run them ... *)
Leave ==
  /\ leaving > 0
  /\ leaving' = leaving - 1
  /\ idle' = IF runState = "running" /\ queue # <<>> /\ WorkerCount = 0 THEN idle + 1 ELSE idle
  /\ UNCHANGED <<Outside, queue, status, expired, sawEmpty, dying, replacing, begun>>

(* ... and in any case if a behaviour killed it: it is discounted ... *)
Die ==
  /\ dying > 0
  /\ dying' = dying - 1 /\ replacing' = replacing + 1
  /\ UNCHANGED <<Outside, queue, status, idle, expired, sawEmpty, leaving, begun>>

(* ... and a new one is added unless the pool has refilled meanwhile. *)
Replace ==
  /\ replacing > 0
  /\ replacing' = replacing - 1
  /\ idle' = IF runState = "running" /\ WorkerCount < MaxPoolSize THEN idle + 1 ELSE idle
  /\ UNCHANGED <<Outside, queue, status, expired, sawEmpty, dying, leaving, begun>>

(* Interrupted by shutdownNow(), a polling worker leaves. *)
Interrupted ==
  /\ runState # "running" /\ idle + expired > 0
  /\ IF idle > 0 THEN idle' = idle - 1 /\ UNCHANGED expired
                 ELSE expired' = expired - 1 /\ UNCHANGED idle
  /\ leaving' = leaving + 1
  /\ UNCHANGED <<Outside, queue, status, sawEmpty, dying, replacing, begun>>

GetTask == RetireOneOfMany \/ SeeEmpty \/ PollAgain \/ RetireLast \/ Leave \/ Die \/ Replace \/ Interrupted

-----------------------------------------------------------------------------
(* ExecutionManager.stop(): shutdownNow() first moves the pool to STOP and
   interrupts the workers, then drains the queue. *)
Stop ==
  /\ MayStop /\ runState = "running"
  /\ runState' = "stopping"
  /\ UNCHANGED <<permits, pc, job, queue, status, pool, accepted, begun>>

Drain ==
  /\ runState = "stopping"
  /\ runState' = "stopped"
  /\ queue' = <<>>
  /\ status' = [t \in Tasks |-> IF status[t] = "queued" THEN "dropped" ELSE status[t]]
  /\ UNCHANGED <<permits, pc, job, pool, accepted, begun>>

-----------------------------------------------------------------------------
Next ==
  \/ \E s \in Submitters : Acquire(s) \/ Execute(s)
  \/ Take \/ PollTimesOut \/ GetTask
  \/ \E t \in Tasks : Run(t) \/ AfterExecute(t)
  \/ Stop \/ Drain

(* Pool threads and submitting threads are scheduled, and behaviours return.
   The semaphore is not fair: nothing is assumed of Acquire. *)
Fairness ==
  /\ WF_vars(Take) /\ WF_vars(GetTask) /\ WF_vars(Drain)
  /\ \A s \in Submitters : WF_vars(Execute(s))
  /\ \A t \in Tasks : WF_vars(Run(t)) /\ WF_vars(AfterExecute(t))

Spec == Init /\ [][Next]_vars /\ Fairness

-----------------------------------------------------------------------------
(* Properties. *)

(* Every permit of the semaphore is either free or held by a thread inside
   execute(), whatever is rejected or thrown: none leaks, none is made up. *)
PermitsConserved ==
  permits + Cardinality({s \in Submitters : pc[s] # "idle"}) = MaxPoolSize

(* No lost wake-up: while tasks wait, someone is there to see them - a worker,
   a worker on its way out that will look again, or a submitter about to. *)
NoTaskStranded ==
  (runState = "running" /\ queue # <<>>) =>
    \/ idle + expired + sawEmpty + dying + replacing + leaving > 0
    \/ \E t \in Tasks : status[t] \in InHand
    \/ \E s \in Submitters : pc[s] = "recheck"

(* Until the pool is stopped tasks begin in the order in which they were
   accepted, each once. *)
BegunInOrder ==
  runState = "running" =>
    /\ Len(begun) <= Len(accepted)
    /\ \A i \in 1 .. Len(begun) : begun[i] = accepted[i]

(* To its submitters the executor is a pool that begins tasks in order. *)
Fate(st) ==
  IF st \in {"new", "held"} THEN "outside" ELSE IF st \in InHand THEN "running" ELSE st

Pool == INSTANCE TaskPool WITH
          Threads <- MaxPoolSize,
          open    <- runState = "running",
          line    <- queue,
          fate    <- [t \in Tasks |-> Fate(status[t])]

ImplementsPool == Pool!PoolSpec

(* When the manager is stopped and every execute() has returned, no task is
   left behind in the queue. *)
NothingLeftBehind ==
  (runState = "stopped" /\ \A s \in Submitters : pc[s] # "recheck") => queue = <<>>

(* Every task accepted eventually ends: its outputs are fired unless a callback
   threw or the pool was stopped. *)
TaskEnds == \A t \in Tasks : status[t] = "queued" ~> status[t] \in Ended

(* The name of the class and README.md:15 speak of bounded executors: no more
   tasks in the pool than it has permits. *)
Bounded == Len(queue) + Busy <= MaxPoolSize
=============================================================================
