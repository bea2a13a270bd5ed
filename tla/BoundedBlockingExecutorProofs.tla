------------------- MODULE BoundedBlockingExecutorProofs -------------------
(***************************************************************************)
(* Theorems about BoundedBlockingExecutor for every set of submitters and  *)
(* tasks and every pool size.                                              *)
(***************************************************************************)
EXTENDS BoundedBlockingExecutor, SequenceTheorems, FiniteSetTheorems, TLAPS

-----------------------------------------------------------------------------
(* Permits.  The submitters inside execute() are counted one by one. *)
Inside(f) == {s \in Submitters : f[s] # "idle"}

LEMMA InsideFinite ==
  ASSUME NEW f
  PROVE  IsFiniteSet(Inside(f)) /\ Cardinality(Inside(f)) \in Nat
  <1>1. Inside(f) \in SUBSET Submitters
        BY DEF Inside
  <1>2. IsFiniteSet(Inside(f))
        BY <1>1, FiniteAssumption, FS_Subset
  <1> QED BY <1>2, FS_CardinalityType

(* A submitter that moves on inside execute() does not change the count; one
   that enters or leaves changes it by one. *)
LEMMA InsideMove ==
  ASSUME NEW f, DOMAIN f = Submitters, NEW s \in Submitters, NEW l, l # "idle", f[s] # "idle"
  PROVE  Inside([f EXCEPT ![s] = l]) = Inside(f)
  BY DEF Inside

LEMMA InsideEnter ==
  ASSUME NEW f, DOMAIN f = Submitters, NEW s \in Submitters, NEW l, l # "idle", f[s] = "idle"
  PROVE  Cardinality(Inside([f EXCEPT ![s] = l])) = Cardinality(Inside(f)) + 1
  <1>1. Inside([f EXCEPT ![s] = l]) = Inside(f) \cup {s} /\ s \notin Inside(f)
        BY DEF Inside
  <1> QED BY <1>1, InsideFinite, FS_AddElement

LEMMA InsideLeave ==
  ASSUME NEW f, DOMAIN f = Submitters, NEW s \in Submitters, f[s] # "idle"
  PROVE  Cardinality(Inside([f EXCEPT ![s] = "idle"])) = Cardinality(Inside(f)) - 1
  <1>1. Inside([f EXCEPT ![s] = "idle"]) = Inside(f) \ {s} /\ s \in Inside(f)
        BY DEF Inside
  <1> QED BY <1>1, InsideFinite, FS_RemoveElement

(* What the count rests on. *)
PermitInv ==
  /\ permits \in Nat
  /\ DOMAIN pc = Submitters
  /\ permits + Cardinality(Inside(pc)) = MaxPoolSize

LEMMA PermitInit == Init => PermitInv
  <1> SUFFICES ASSUME Init PROVE PermitInv
      OBVIOUS
  <1>1. Inside(pc) = {}
        BY DEF Init, Inside
  <1>2. Cardinality(Inside(pc)) = 0
        BY <1>1, FS_EmptySet
  <1> QED BY <1>2, PoolAssumption DEF Init, PermitInv

LEMMA PermitStep == PermitInv /\ [Next]_vars => PermitInv'
  <1> SUFFICES ASSUME PermitInv, [Next]_vars PROVE PermitInv'
      OBVIOUS
  <1>0. Cardinality(Inside(pc)) \in Nat /\ MaxPoolSize \in Nat
        BY InsideFinite, PoolAssumption
  <1>1. ASSUME NEW s \in Submitters, Acquire(s) PROVE PermitInv'
        <2>1. pc' = [pc EXCEPT ![s] = "check"] /\ pc[s] = "idle" /\ permits > 0 /\ permits' = permits - 1
              BY <1>1 DEF Acquire, Goto
        <2>2. Cardinality(Inside(pc')) = Cardinality(Inside(pc)) + 1
              BY <2>1, InsideEnter DEF PermitInv
        <2> QED BY <2>1, <2>2, <1>0 DEF PermitInv
  <1>2. ASSUME NEW s \in Submitters, Release(s) PROVE PermitInv'
        <2>1. pc' = [pc EXCEPT ![s] = "idle"] /\ pc[s] # "idle" /\ permits' = permits + 1
              BY <1>2 DEF Release, Goto
        <2>2. Cardinality(Inside(pc')) = Cardinality(Inside(pc)) - 1
              BY <2>1, InsideLeave DEF PermitInv
        <2> QED BY <2>1, <2>2, <1>0 DEF PermitInv
  <1>3. ASSUME NEW s \in Submitters, NEW l \in {"offer", "recheck", "release"},
               pc[s] # "idle", pc' = [pc EXCEPT ![s] = l], permits' = permits
        PROVE  PermitInv'
        <2>1. Inside(pc') = Inside(pc)
              BY <1>3, InsideMove DEF PermitInv
        <2> QED BY <2>1, <1>3 DEF PermitInv
  <1>4. ASSUME NEW s \in Submitters, Check(s) \/ Offer(s) \/ RecheckStopped(s) \/ RecheckRunning(s)
        PROVE  PermitInv'
        <2>1. pc[s] # "idle" /\ permits' = permits
              /\ \E l \in {"offer", "recheck", "release"} : pc' = [pc EXCEPT ![s] = l]
              BY <1>4 DEF Check, Offer, RecheckStopped, RecheckRunning, Goto
        <2> QED BY <2>1, <1>3
  <1>5. ASSUME permits' = permits, pc' = pc PROVE PermitInv'
        BY <1>5 DEF PermitInv
  <1>6. CASE UNCHANGED vars \/ Take \/ PollTimesOut \/ GetTask \/ Stop \/ Drain
                \/ \E t \in Tasks : Run(t) \/ AfterExecute(t)
        BY <1>5, <1>6 DEF vars, Take, PollTimesOut, GetTask, Stop, Drain, Run, AfterExecute, Outside,
           RetireOneOfMany, SeeEmpty, PollAgain, RetireLast, Leave, Die, Replace, Interrupted
  <1> QED BY <1>1, <1>2, <1>4, <1>6 DEF Next, Execute

(* No permit leaks and none is made up, whatever is rejected, thrown or stopped
   (BoundedBlockingExecutor.execute). *)
THEOREM PermitsCorrect == Spec => []PermitsConserved
  <1>1. PermitInv => PermitsConserved
        BY DEF PermitInv, PermitsConserved, Inside
  <1> QED BY <1>1, PermitInit, PermitStep, PTL DEF Spec

-----------------------------------------------------------------------------
(* Types.  A submitter inside execute() holds a task; the permits are typed by
   PermitInv. *)
Counts == /\ idle \in Nat /\ expired \in Nat /\ sawEmpty \in Nat
          /\ dying \in Nat /\ replacing \in Nat /\ leaving \in Nat

Threaded ==
  /\ runState \in {"running", "stopping", "stopped"}
  /\ pc \in [Submitters -> {"idle", "check", "offer", "recheck", "release"}]
  /\ job \in [Submitters -> Tasks \cup {NoTask}]
  /\ \A s \in Submitters : pc[s] # "idle" => job[s] \in Tasks
  /\ status \in [Tasks -> {"new", "held", "queued"} \cup InHand \cup Ended]

Queues == queue \in Seq(Tasks) /\ accepted \in Seq(Tasks) /\ begun \in Seq(Tasks)

LEMMA RemoveType ==
  ASSUME NEW T, NEW q \in Seq(T), NEW i \in 1 .. Len(q)
  PROVE  RemoveAt(q, i) \in Seq(T)
  <1>1. Len(q) \in Nat /\ \A j \in 1 .. Len(q) : q[j] \in T
        BY ElementOfSeq, LenProperties
  <1>2. SubSeq(q, 1, i - 1) \in Seq(T)
        BY <1>1, SubSeqProperties
  <1>3. SubSeq(q, i + 1, Len(q)) \in Seq(T)
        BY <1>1, SubSeqProperties
  <1> QED BY <1>2, <1>3, ConcatProperties DEF RemoveAt

LEMMA CountsStep == Counts /\ [Next]_vars => Counts'
  <1> SUFFICES ASSUME Counts, [Next]_vars PROVE Counts'
      OBVIOUS
  <1> USE DEF Counts
  <1>1. CASE UNCHANGED pool
        BY <1>1 DEF pool
  <1>2. CASE UNCHANGED vars \/ Stop \/ Drain \/ (\E t \in Tasks : Run(t))
             \/ \E s \in Submitters : Acquire(s) \/ Check(s) \/ Offer(s) \/ RecheckStopped(s) \/ Release(s)
        BY <1>2, <1>1 DEF vars, Stop, Drain, Run, Acquire, Check, Offer, RecheckStopped, Release
  <1>3. CASE \E s \in Submitters : RecheckRunning(s)
        BY <1>3 DEF RecheckRunning
  <1>4. CASE Take \/ PollTimesOut \/ \E t \in Tasks : AfterExecute(t)
        BY <1>4 DEF Take, PollTimesOut, AfterExecute
  <1>5. CASE RetireOneOfMany \/ SeeEmpty \/ PollAgain \/ RetireLast
        BY <1>5 DEF RetireOneOfMany, SeeEmpty, PollAgain, RetireLast
  <1>6. CASE Leave \/ Die \/ Replace \/ Interrupted
        BY <1>6 DEF Leave, Die, Replace, Interrupted
  <1> QED BY <1>2, <1>3, <1>4, <1>5, <1>6 DEF Next, Execute, GetTask

LEMMA ThreadedStep == Threaded /\ Queues /\ [Next]_vars => Threaded'
  <1> SUFFICES ASSUME Threaded, Queues, [Next]_vars PROVE Threaded'
      OBVIOUS
  <1> USE DEF Threaded, InHand, Ended
  <1>1. ASSUME NEW s \in Submitters, Acquire(s) PROVE Threaded'
        BY <1>1 DEF Acquire, Goto, Becomes
  <1>2. ASSUME NEW s \in Submitters, Check(s) PROVE Threaded'
        BY <1>2 DEF Check, Goto, Becomes
  <1>3. ASSUME NEW s \in Submitters, Offer(s) PROVE Threaded'
        BY <1>3 DEF Offer, Goto, Becomes
  <1>4. ASSUME NEW s \in Submitters, RecheckStopped(s) PROVE Threaded'
        BY <1>4 DEF RecheckStopped, Goto, Becomes
  <1>5. ASSUME NEW s \in Submitters, RecheckRunning(s) PROVE Threaded'
        BY <1>5 DEF RecheckRunning, Goto
  <1>6. ASSUME NEW s \in Submitters, Release(s) PROVE Threaded'
        BY <1>6, NoTaskAssumption DEF Release, Goto
  <1>7. CASE Take
        BY <1>7 DEF Take, Becomes, Outside
  <1>8. ASSUME NEW t \in Tasks, Run(t) \/ AfterExecute(t) PROVE Threaded'
        BY <1>8 DEF Run, AfterExecute, Becomes, Outside
  <1>9. CASE Stop
        BY <1>9 DEF Stop
  <1>10. CASE Drain
        BY <1>10 DEF Drain
  <1>11. CASE UNCHANGED <<Outside, status>>
        BY <1>11 DEF Outside
  <1>12. CASE UNCHANGED vars \/ PollTimesOut \/ GetTask
        BY <1>12, <1>11 DEF vars, PollTimesOut, GetTask, Outside, RetireOneOfMany, SeeEmpty, PollAgain,
           RetireLast, Leave, Die, Replace, Interrupted
  <1> QED BY <1>1, <1>2, <1>3, <1>4, <1>5, <1>6, <1>7, <1>8, <1>9, <1>10, <1>12 DEF Next, Execute

LEMMA QueuesStep == Threaded /\ Queues /\ [Next]_vars => Queues'
  <1> SUFFICES ASSUME Threaded, Queues, [Next]_vars PROVE Queues'
      OBVIOUS
  <1> USE DEF Queues
  <1>1. ASSUME NEW s \in Submitters, Offer(s) PROVE Queues'
        <2>1. job[s] \in Tasks
              BY <1>1 DEF Offer, Threaded
        <2> QED BY <1>1, <2>1, AppendProperties DEF Offer
  <1>2. ASSUME NEW s \in Submitters, RecheckStopped(s) PROVE Queues'
        BY <1>2, RemoveType DEF RecheckStopped
  <1>3. CASE Take
        <2>1. Head(queue) \in Tasks /\ Tail(queue) \in Seq(Tasks)
              BY <1>3, HeadTailProperties DEF Take
        <2> QED BY <1>3, <2>1, AppendProperties DEF Take, Outside
  <1>4. CASE Drain
        BY <1>4 DEF Drain
  <1>5. CASE UNCHANGED <<queue, accepted, begun>>
        BY <1>5
  <1>6. CASE UNCHANGED vars \/ Stop \/ PollTimesOut \/ GetTask \/ (\E t \in Tasks : Run(t) \/ AfterExecute(t))
             \/ \E s \in Submitters : Acquire(s) \/ Check(s) \/ RecheckRunning(s) \/ Release(s)
        BY <1>6, <1>5 DEF vars, Stop, PollTimesOut, GetTask, Run, AfterExecute, Acquire, Check, RecheckRunning,
           Release, Outside, RetireOneOfMany, SeeEmpty, PollAgain, RetireLast, Leave, Die, Replace, Interrupted
  <1> QED BY <1>1, <1>2, <1>3, <1>4, <1>6 DEF Next, Execute

TypeInv == Counts /\ Threaded /\ Queues

LEMMA TypeInit == Init => TypeInv
  BY DEF Init, TypeInv, Counts, Threaded, Queues

LEMMA TypeStep == TypeInv /\ [Next]_vars => TypeInv'
  BY CountsStep, ThreadedStep, QueuesStep DEF TypeInv

LEMMA TypeAndPermits == TypeInv /\ PermitInv => TypeOK
  <1> SUFFICES ASSUME TypeInv, PermitInv PROVE TypeOK
      OBVIOUS
  <1>1. permits \in 0 .. MaxPoolSize
        <2>1. Cardinality(Inside(pc)) \in Nat /\ MaxPoolSize \in Nat
              BY InsideFinite, PoolAssumption
        <2>2. permits \in Nat /\ permits + Cardinality(Inside(pc)) = MaxPoolSize
              BY DEF PermitInv
        <2>3. permits <= MaxPoolSize
              BY <2>1, <2>2
        <2> QED BY <2>2, <2>3
  <1> QED BY <1>1 DEF TypeInv, TypeOK, Counts, Threaded, Queues

(* Every variable keeps its type; in particular the semaphore never goes below
   zero or above its initial value. *)
THEOREM TypeCorrect == Spec => []TypeOK
  BY TypeInit, TypeStep, PermitInit, PermitStep, TypeAndPermits, PTL DEF Spec

-----------------------------------------------------------------------------
(* No lost wake-up.  NoTaskStranded is inductive once everything is typed: the
   two places that decide not to add a worker look at WorkerCount, and a count
   that is not zero means that somebody will look at the queue. *)
SomeoneLooks ==
  \/ idle + expired + sawEmpty + dying + replacing + leaving > 0
  \/ \E t \in Tasks : status[t] \in InHand
  \/ \E s \in Submitters : pc[s] = "recheck"

LEMMA WorkersLook ==
  ASSUME Counts, WorkerCount # 0
  PROVE  \/ idle + expired + sawEmpty + dying > 0
         \/ \E t \in Tasks : status[t] \in InHand
  <1> SUFFICES ASSUME ~(\E t \in Tasks : status[t] \in InHand)
               PROVE  idle + expired + sawEmpty + dying > 0
      OBVIOUS
  <1>1. {t \in Tasks : status[t] \in InHand} = {}
        OBVIOUS
  <1>2. Busy = 0
        BY <1>1, FS_EmptySet DEF Busy
  <1> QED BY <1>2 DEF WorkerCount, Counts

LEMMA NobodyStranded == TypeInv /\ NoTaskStranded /\ [Next]_vars => NoTaskStranded'
  <1> SUFFICES ASSUME TypeInv, NoTaskStranded, [Next]_vars, (runState = "running" /\ queue # <<>>)'
               PROVE  SomeoneLooks'
      BY DEF NoTaskStranded, SomeoneLooks
  <1>0. Counts /\ Threaded /\ Queues
        BY DEF TypeInv
  <1>1. ASSUME NEW s \in Submitters, Acquire(s) \/ Check(s) \/ Release(s) PROVE SomeoneLooks'
        <2>1. SomeoneLooks
              BY <1>1 DEF NoTaskStranded, SomeoneLooks, Acquire, Check, Release
        <2>2. ASSUME NEW r \in Submitters, pc[r] = "recheck" PROVE pc'[r] = "recheck"
              BY <1>0, <1>1, <2>2 DEF Acquire, Check, Release, Goto, Threaded
        <2>3. ASSUME NEW t \in Tasks, status[t] \in InHand PROVE status'[t] \in InHand
              <3>1. CASE UNCHANGED status
                    BY <3>1, <2>3
              <3>2. CASE Acquire(s)
                    BY <3>2, <1>0, <2>3 DEF Acquire, Becomes, Threaded, InHand
              <3>3. CASE Check(s)
                    BY <3>3, <1>0, <1>1, <2>3 DEF Check, Becomes, Threaded, InHand
              <3> QED BY <1>1, <3>1, <3>2, <3>3 DEF Release
        <2> QED BY <1>1, <2>1, <2>2, <2>3 DEF SomeoneLooks, Acquire, Check, Release, pool
  <1>2. ASSUME NEW s \in Submitters, Offer(s) PROVE SomeoneLooks'
        BY <1>2, <1>0 DEF Offer, Goto, Threaded, SomeoneLooks
  <1>3. ASSUME NEW s \in Submitters, RecheckStopped(s) PROVE SomeoneLooks'
        BY <1>3 DEF RecheckStopped
  <1>4. ASSUME NEW s \in Submitters, RecheckRunning(s) PROVE SomeoneLooks'
        <2>1. CASE WorkerCount = 0
              BY <1>4, <2>1, <1>0 DEF RecheckRunning, SomeoneLooks, Counts
        <2>2. CASE WorkerCount # 0
              BY <1>4, <2>2, <1>0, WorkersLook DEF RecheckRunning, SomeoneLooks, Counts
        <2> QED BY <2>1, <2>2
  <1>5. CASE Take
        <2>1. Head(queue) \in Tasks
              BY <1>5, <1>0, HeadTailProperties DEF Take, Queues
        <2>2. status'[Head(queue)] \in InHand
              BY <1>5, <1>0, <2>1 DEF Take, Becomes, Threaded, InHand
        <2> QED BY <2>1, <2>2 DEF SomeoneLooks
  <1>6. ASSUME NEW t \in Tasks, Run(t) PROVE SomeoneLooks'
        <2>1. status'[t] \in InHand
              BY <1>6, <1>0 DEF Run, Becomes, Threaded, InHand
        <2> QED BY <2>1 DEF SomeoneLooks
  <1>7. ASSUME NEW t \in Tasks, AfterExecute(t) PROVE SomeoneLooks'
        BY <1>7, <1>0 DEF AfterExecute, SomeoneLooks, Counts
  <1>8. CASE PollTimesOut \/ RetireOneOfMany \/ SeeEmpty \/ PollAgain \/ RetireLast \/ Die
        <2>1. CASE PollTimesOut
              BY <2>1, <1>0 DEF PollTimesOut, SomeoneLooks, Counts
        <2>2. CASE RetireOneOfMany
              BY <2>2, <1>0 DEF RetireOneOfMany, SomeoneLooks, Counts
        <2>3. CASE SeeEmpty
              BY <2>3, <1>0 DEF SeeEmpty, SomeoneLooks, Counts
        <2>4. CASE PollAgain
              BY <2>4, <1>0 DEF PollAgain, SomeoneLooks, Counts
        <2>5. CASE RetireLast
              BY <2>5, <1>0 DEF RetireLast, SomeoneLooks, Counts
        <2>6. CASE Die
              BY <2>6, <1>0 DEF Die, SomeoneLooks, Counts
        <2> QED BY <1>8, <2>1, <2>2, <2>3, <2>4, <2>5, <2>6
  <1>9. CASE Leave
        <2>1. runState = "running" /\ queue # <<>>
              BY <1>9 DEF Leave, Outside
        <2>2. CASE WorkerCount = 0
              BY <1>9, <2>1, <2>2, <1>0 DEF Leave, SomeoneLooks, Counts
        <2>3. CASE WorkerCount # 0
              BY <1>9, <2>3, <1>0, WorkersLook DEF Leave, SomeoneLooks, Counts
        <2> QED BY <2>2, <2>3
  <1>10. CASE Replace
        <2>1. runState = "running"
              BY <1>10 DEF Replace, Outside
        <2>2. CASE WorkerCount < MaxPoolSize
              BY <1>10, <2>1, <2>2, <1>0 DEF Replace, SomeoneLooks, Counts
        <2>3. CASE ~(WorkerCount < MaxPoolSize)
              <3>1. WorkerCount # 0
                    BY <2>3, PoolAssumption
              <3> QED BY <1>10, <2>3, <3>1, <1>0, WorkersLook DEF Replace, SomeoneLooks, Counts
        <2> QED BY <2>2, <2>3
  <1>11. CASE Interrupted \/ Stop \/ Drain
        BY <1>11 DEF Interrupted, Stop, Drain, Outside
  <1>12. CASE UNCHANGED vars
        BY <1>12 DEF vars, pool, NoTaskStranded, SomeoneLooks
  <1> QED BY <1>1, <1>2, <1>3, <1>4, <1>5, <1>6, <1>7, <1>8, <1>9, <1>10, <1>11, <1>12
         DEF Next, Execute, GetTask

(* A task is never left in the queue with nobody to see it, although the pool
   keeps no core threads and its last worker may give up at any moment
   (BoundedBlockingExecutor, keep-alive 60 ms). *)
THEOREM WakeUpsCorrect == Spec => []NoTaskStranded
  <1>1. Init => NoTaskStranded
        BY DEF Init, NoTaskStranded
  <1> QED BY <1>1, TypeInit, TypeStep, NobodyStranded, PTL DEF Spec

-----------------------------------------------------------------------------
(* Order.  While the pool runs, what was accepted is what has begun followed by
   what waits. *)
OrderInv == runState = "running" => accepted = begun \o queue

LEMMA OrderStep == TypeInv /\ OrderInv /\ [Next]_vars => OrderInv'
  <1> SUFFICES ASSUME TypeInv, OrderInv, [Next]_vars, runState' = "running"
               PROVE  (accepted = begun \o queue)'
      BY DEF OrderInv
  <1>0. Threaded /\ queue \in Seq(Tasks) /\ accepted \in Seq(Tasks) /\ begun \in Seq(Tasks)
        BY DEF TypeInv, Queues
  <1>1. ASSUME NEW s \in Submitters, Offer(s) PROVE (accepted = begun \o queue)'
        <2>1. job[s] \in Tasks /\ <<job[s]>> \in Seq(Tasks)
              BY <1>0, <1>1 DEF Offer, Threaded
        <2>2. accepted = begun \o queue
              BY <1>1 DEF Offer, OrderInv
        <2>3. accepted' = (begun \o queue) \o <<job[s]>>
              BY <1>0, <1>1, <2>1, <2>2, AppendIsConcat DEF Offer
        <2>4. queue' = queue \o <<job[s]>>
              BY <1>0, <1>1, <2>1, AppendIsConcat DEF Offer
        <2>5. accepted' = begun \o (queue \o <<job[s]>>)
              BY <1>0, <2>1, <2>3, ConcatAssociative
        <2> QED BY <1>1, <2>4, <2>5 DEF Offer
  <1>2. CASE Take
        <2>1. Head(queue) \in Tasks /\ Tail(queue) \in Seq(Tasks) /\ <<Head(queue)>> \in Seq(Tasks)
              BY <1>0, <1>2, HeadTailProperties DEF Take
        <2>2. queue = <<Head(queue)>> \o Tail(queue)
              BY <1>0, <1>2 DEF Take
        <2>3. accepted = begun \o queue
              BY <1>2 DEF Take, Outside, OrderInv
        <2>4. accepted = (begun \o <<Head(queue)>>) \o Tail(queue)
              BY <1>0, <2>1, <2>2, <2>3, ConcatAssociative
        <2>5. begun' = begun \o <<Head(queue)>>
              BY <1>0, <1>2, <2>1, AppendIsConcat DEF Take
        <2> QED BY <1>2, <2>4, <2>5 DEF Take, Outside
  <1>3. CASE UNCHANGED <<runState, accepted, begun, queue>>
        BY <1>3 DEF OrderInv
  <1>4. CASE UNCHANGED vars \/ PollTimesOut \/ GetTask \/ (\E t \in Tasks : Run(t) \/ AfterExecute(t))
             \/ \E s \in Submitters : Acquire(s) \/ Check(s) \/ RecheckRunning(s) \/ Release(s)
        BY <1>4, <1>3 DEF vars, PollTimesOut, GetTask, Run, AfterExecute, Acquire, Check, RecheckRunning,
           Release, Outside, RetireOneOfMany, SeeEmpty, PollAgain, RetireLast, Leave, Die, Replace, Interrupted
  <1>5. CASE Stop \/ Drain \/ \E s \in Submitters : RecheckStopped(s)
        BY <1>5 DEF Stop, Drain, RecheckStopped
  <1> QED BY <1>1, <1>2, <1>4, <1>5 DEF Next, Execute

(* Tasks begin in the order in which they were enqueued until the manager is
   stopped. *)
THEOREM OrderCorrect == Spec => []BegunInOrder
  <1>1. Init => OrderInv
        BY DEF Init, OrderInv
  <1>2. TypeInv /\ OrderInv => BegunInOrder
        <2> SUFFICES ASSUME TypeInv, OrderInv, runState = "running"
                     PROVE  /\ Len(begun) <= Len(accepted)
                            /\ \A i \in 1 .. Len(begun) : begun[i] = accepted[i]
            BY DEF BegunInOrder
        <2>1. begun \in Seq(Tasks) /\ queue \in Seq(Tasks) /\ accepted = begun \o queue
              BY DEF TypeInv, Queues, OrderInv
        <2>2. Len(begun) \in Nat /\ Len(queue) \in Nat /\ Len(accepted) = Len(begun) + Len(queue)
              BY <2>1, ConcatProperties, LenProperties
        <2>3. \A i \in 1 .. Len(begun) : begun[i] = accepted[i]
              BY <2>1, <2>2, ConcatProperties
        <2> QED BY <2>2, <2>3
  <1> QED BY <1>1, <1>2, TypeInit, TypeStep, OrderStep, PTL DEF Spec

-----------------------------------------------------------------------------
(* What a stopped pool keeps.  A task is in the queue at most once and is then
   marked so; a thread on its way to the queue holds a task of its own; and in a
   stopped pool whoever put a task in the queue has yet to look again. *)
Marked == \A i \in 1 .. Len(queue) : status[queue[i]] = "queued"

Once == \A i, j \in 1 .. Len(queue) : queue[i] = queue[j] => i = j

OnTheWay == {s \in Submitters : pc[s] \in {"check", "offer"}}

Holding ==
  /\ \A s \in OnTheWay : status[job[s]] = "held"
  /\ \A s, r \in OnTheWay : job[s] = job[r] => s = r

WillLookAgain ==
  runState = "stopped" =>
    \A i \in 1 .. Len(queue) : \E s \in Submitters : pc[s] = "recheck" /\ job[s] = queue[i]

PlaceInv == Marked /\ Once /\ Holding /\ WillLookAgain

LEMMA RemoveElements ==
  ASSUME NEW T, NEW q \in Seq(T), NEW i \in 1 .. Len(q)
  PROVE  /\ Len(RemoveAt(q, i)) = Len(q) - 1
         /\ \A j \in 1 .. Len(q) - 1 : RemoveAt(q, i)[j] = IF j < i THEN q[j] ELSE q[j + 1]
  <1> DEFINE a == SubSeq(q, 1, i - 1)
             b == SubSeq(q, i + 1, Len(q))
  <1>1. Len(q) \in Nat /\ \A j \in 1 .. Len(q) : q[j] \in T
        BY ElementOfSeq, LenProperties
  <1>2. a \in Seq(T) /\ Len(a) = i - 1 /\ \A j \in 1 .. i - 1 : a[j] = q[j]
        BY <1>1, SubSeqProperties
  <1>3. b \in Seq(T) /\ Len(b) = Len(q) - i /\ \A j \in 1 .. Len(q) - i : b[j] = q[i + j]
        BY <1>1, SubSeqProperties
  <1>4. RemoveAt(q, i) = a \o b
        BY DEF RemoveAt
  <1> HIDE DEF a, b
  <1>5. Len(a \o b) = Len(q) - 1
        <2>1. Len(a \o b) = Len(a) + Len(b)
              BY <1>2, <1>3, ConcatProperties
        <2> QED BY <1>1, <1>2, <1>3, <2>1
  <1>6. \A j \in 1 .. Len(q) - 1 : (a \o b)[j] = IF j < i THEN q[j] ELSE q[j + 1]
        <2> SUFFICES ASSUME NEW j \in 1 .. Len(q) - 1
                     PROVE  (a \o b)[j] = IF j < i THEN q[j] ELSE q[j + 1]
            OBVIOUS
        <2>1. CASE j < i
              BY <1>1, <1>2, <1>3, <2>1, ConcatProperties
        <2>2. CASE j >= i
              <3>1. (a \o b)[j] = b[j - (i - 1)]
                    BY <1>1, <1>2, <1>3, <2>2, ConcatProperties
              <3>2. j - (i - 1) \in 1 .. Len(q) - i /\ i + (j - (i - 1)) = j + 1
                    BY <1>1, <2>2
              <3>3. b[j - (i - 1)] = q[j + 1]
                    BY <1>3, <3>2
              <3> QED BY <1>1, <2>2, <3>1, <3>3
        <2>3. j < i \/ j >= i
              BY <1>1
        <2> QED BY <2>1, <2>2, <2>3
  <1> QED BY <1>4, <1>5, <1>6

LEMMA PlaceInit == Init => PlaceInv
  BY DEF Init, PlaceInv, Marked, Once, Holding, OnTheWay, WillLookAgain

LEMMA PlaceAcquire ==
  ASSUME TypeInv, PlaceInv, NEW s \in Submitters, Acquire(s)
  PROVE  PlaceInv'
  <1>1. PICK t \in Tasks : status[t] = "new" /\ job' = [job EXCEPT ![s] = t]
                           /\ status' = [status EXCEPT ![t] = "held"]
        BY DEF Acquire, Becomes
  <1>2. pc[s] = "idle" /\ pc' = [pc EXCEPT ![s] = "check"] /\ queue' = queue /\ runState' = runState
        BY DEF Acquire, Goto
  <1>3. \A i \in 1 .. Len(queue) : queue[i] \in Tasks
        BY ElementOfSeq DEF TypeInv, Queues
  <1>4. Marked' /\ Once'
        BY <1>1, <1>2, <1>3 DEF PlaceInv, Marked, Once, TypeInv, Threaded
  <1>5. \A r \in OnTheWay' \ {s} : r \in OnTheWay /\ job'[r] = job[r] /\ job[r] \in Tasks
        BY <1>1, <1>2 DEF OnTheWay, TypeInv, Threaded
  <1>6. job'[s] = t /\ status'[t] = "held"
        BY <1>1 DEF TypeInv, Threaded
  <1>7. \A r \in OnTheWay' \ {s} : status[job[r]] = "held" /\ job[r] # t
        BY <1>1, <1>5 DEF PlaceInv, Holding
  <1>8. Holding'
        BY <1>1, <1>5, <1>6, <1>7 DEF PlaceInv, Holding, TypeInv, Threaded
  <1>9. WillLookAgain'
        BY <1>1, <1>2 DEF PlaceInv, WillLookAgain, TypeInv, Threaded
  <1> QED BY <1>4, <1>8, <1>9 DEF PlaceInv

LEMMA PlaceCheck ==
  ASSUME TypeInv, PlaceInv, NEW s \in Submitters, Check(s)
  PROVE  PlaceInv'
  <1>1. pc[s] = "check" /\ queue' = queue /\ runState' = runState /\ job' = job
        /\ \/ pc' = [pc EXCEPT ![s] = "offer"] /\ status' = status
           \/ pc' = [pc EXCEPT ![s] = "release"] /\ status' = [status EXCEPT ![job[s]] = "rejected"]
        BY DEF Check, Goto, Becomes
  <1>2. s \in OnTheWay /\ job[s] \in Tasks /\ status[job[s]] = "held"
        BY <1>1 DEF OnTheWay, PlaceInv, Holding, TypeInv, Threaded
  <1>3. \A i \in 1 .. Len(queue) : queue[i] \in Tasks /\ queue[i] # job[s]
        BY <1>2, ElementOfSeq DEF TypeInv, Queues, PlaceInv, Marked
  <1>4. Marked' /\ Once'
        BY <1>1, <1>2, <1>3 DEF PlaceInv, Marked, Once, TypeInv, Threaded
  <1>5. WillLookAgain'
        BY <1>1 DEF PlaceInv, WillLookAgain, TypeInv, Threaded
  <1>6. OnTheWay' \subseteq OnTheWay /\ (status' = status \/ s \notin OnTheWay')
        BY <1>1 DEF OnTheWay, TypeInv, Threaded
  <1>7. \A r \in OnTheWay' : job[r] \in Tasks /\ (status' = status \/ job[r] # job[s])
        BY <1>2, <1>6 DEF PlaceInv, Holding, OnTheWay, TypeInv, Threaded
  <1>8. Holding'
        BY <1>1, <1>6, <1>7 DEF PlaceInv, Holding, TypeInv, Threaded
  <1> QED BY <1>4, <1>5, <1>8 DEF PlaceInv

LEMMA PlaceOffer ==
  ASSUME TypeInv, PlaceInv, NEW s \in Submitters, Offer(s)
  PROVE  PlaceInv'
  <1>1. pc[s] = "offer" /\ queue' = Append(queue, job[s]) /\ runState' = runState /\ job' = job
        /\ pc' = [pc EXCEPT ![s] = "recheck"] /\ status' = [status EXCEPT ![job[s]] = "queued"]
        BY DEF Offer, Goto, Becomes
  <1>2. s \in OnTheWay /\ job[s] \in Tasks /\ status[job[s]] = "held"
        BY <1>1 DEF OnTheWay, PlaceInv, Holding, TypeInv, Threaded
  <1>3. \A i \in 1 .. Len(queue) : queue[i] \in Tasks /\ queue[i] # job[s]
        BY <1>2, ElementOfSeq DEF TypeInv, Queues, PlaceInv, Marked
  <1>4. Len(queue) \in Nat /\ Len(queue') = Len(queue) + 1 /\ queue'[Len(queue) + 1] = job[s]
        /\ \A i \in 1 .. Len(queue) : queue'[i] = queue[i]
        BY <1>1, <1>2, AppendProperties, LenProperties DEF TypeInv, Queues
  <1>5. status'[job[s]] = "queued" /\ \A t \in Tasks \ {job[s]} : status'[t] = status[t]
        BY <1>1, <1>2 DEF TypeInv, Threaded
  <1>6. Marked'
        BY <1>3, <1>4, <1>5 DEF PlaceInv, Marked
  <1>7. Once'
        BY <1>3, <1>4 DEF PlaceInv, Once
  <1>8. \A r \in OnTheWay' : r \in OnTheWay /\ r # s /\ job[r] \in Tasks /\ job[r] # job[s]
        BY <1>1, <1>2 DEF OnTheWay, PlaceInv, Holding, TypeInv, Threaded
  <1>9. Holding'
        BY <1>1, <1>5, <1>8 DEF PlaceInv, Holding
  <1>10. pc'[s] = "recheck" /\ \A r \in Submitters : pc[r] = "recheck" => pc'[r] = "recheck"
        BY <1>1 DEF TypeInv, Threaded
  <1>11. WillLookAgain'
        BY <1>1, <1>4, <1>10 DEF PlaceInv, WillLookAgain
  <1> QED BY <1>6, <1>7, <1>9, <1>11 DEF PlaceInv

LEMMA PlaceRecheckStopped ==
  ASSUME TypeInv, PlaceInv, NEW s \in Submitters, RecheckStopped(s)
  PROVE  PlaceInv'
  <1>1. pc[s] = "recheck" /\ runState' = runState /\ job' = job /\ pc' = [pc EXCEPT ![s] = "release"]
        /\ job[s] \in Tasks
        BY DEF RecheckStopped, Goto, TypeInv, Threaded
  <1>2. OnTheWay' = OnTheWay
        BY <1>1 DEF OnTheWay, TypeInv, Threaded
  <1>3. \A i \in 1 .. Len(queue) : queue[i] \in Tasks
        BY ElementOfSeq DEF TypeInv, Queues
  <1>4. \A r \in Submitters \ {s} : pc'[r] = pc[r]
        BY <1>1 DEF TypeInv, Threaded
  <1>5. CASE status[job[s]] # "queued"
        <2>1. queue' = queue /\ status' = status
              BY <1>5 DEF RecheckStopped
        <2>2. \A i \in 1 .. Len(queue) : queue[i] # job[s]
              BY <1>5 DEF PlaceInv, Marked
        <2>3. Marked' /\ Once' /\ Holding'
              BY <1>1, <1>2, <2>1 DEF PlaceInv, Marked, Once, Holding
        <2>4. WillLookAgain'
              BY <1>1, <1>4, <2>1, <2>2 DEF PlaceInv, WillLookAgain
        <2> QED BY <2>3, <2>4 DEF PlaceInv
  <1>6. CASE status[job[s]] = "queued"
        <2>1. PICK k \in 1 .. Len(queue) : queue[k] = job[s] /\ queue' = RemoveAt(queue, k)
              BY <1>6 DEF RecheckStopped
        <2>2. status' = [status EXCEPT ![job[s]] = "rejected"]
              BY <1>6 DEF RecheckStopped, Becomes
        <2>3. Len(queue) \in Nat /\ Len(queue') = Len(queue) - 1
              /\ \A j \in 1 .. Len(queue) - 1 : queue'[j] = IF j < k THEN queue[j] ELSE queue[j + 1]
              BY <2>1, RemoveElements, LenProperties DEF TypeInv, Queues
        <2>4. \A j \in 1 .. Len(queue') : \E i \in 1 .. Len(queue) : i # k /\ queue'[j] = queue[i]
              <3> SUFFICES ASSUME NEW j \in 1 .. Len(queue')
                           PROVE \E i \in 1 .. Len(queue) : i # k /\ queue'[j] = queue[i]
                  OBVIOUS
              <3>1. CASE j < k
                    <4>1. queue'[j] = queue[j] /\ j \in 1 .. Len(queue) /\ j # k
                          BY <2>3, <3>1
                    <4> QED BY <4>1
              <3>2. CASE j >= k
                    <4>1. queue'[j] = queue[j + 1] /\ j + 1 \in 1 .. Len(queue) /\ j + 1 # k
                          BY <2>3, <3>2
                    <4> QED BY <4>1
              <3> QED BY <2>3, <3>1, <3>2
        <2>5. \A j \in 1 .. Len(queue') : \E i \in 1 .. Len(queue) : queue'[j] = queue[i] /\ queue[i] # job[s]
              BY <2>1, <2>4 DEF PlaceInv, Once
        <2>6. Marked'
              BY <1>1, <1>3, <2>2, <2>5 DEF PlaceInv, Marked, TypeInv, Threaded
        <2>7. Once'
              <3> SUFFICES ASSUME NEW i \in 1 .. Len(queue'), NEW j \in 1 .. Len(queue'), queue'[i] = queue'[j]
                           PROVE  i = j
                  BY DEF Once
              <3> DEFINE at(x) == IF x < k THEN x ELSE x + 1
              <3>1. at(i) \in 1 .. Len(queue) /\ at(j) \in 1 .. Len(queue)
                    BY <2>3
              <3>2. queue'[i] = queue[at(i)] /\ queue'[j] = queue[at(j)]
                    BY <2>3
              <3>3. at(i) = at(j)
                    BY <3>1, <3>2 DEF PlaceInv, Once
              <3> QED BY <2>3, <3>3
        <2>8. \A r \in OnTheWay : job[r] \in Tasks /\ job[r] # job[s]
              BY <1>6 DEF PlaceInv, Holding, OnTheWay, TypeInv, Threaded
        <2>9. Holding'
              BY <1>1, <1>2, <2>2, <2>8 DEF PlaceInv, Holding, TypeInv, Threaded
        <2>10. WillLookAgain'
              <3> SUFFICES ASSUME runState' = "stopped", NEW j \in 1 .. Len(queue')
                           PROVE  \E r \in Submitters : pc'[r] = "recheck" /\ job'[r] = queue'[j]
                  BY DEF WillLookAgain
              <3>1. PICK i \in 1 .. Len(queue) : queue'[j] = queue[i] /\ queue[i] # job[s]
                    BY <2>5
              <3>2. PICK r \in Submitters : pc[r] = "recheck" /\ job[r] = queue[i]
                    BY <1>1 DEF PlaceInv, WillLookAgain
              <3>3. r # s
                    BY <3>1, <3>2
              <3> QED BY <1>1, <1>4, <3>1, <3>2, <3>3
        <2> QED BY <2>6, <2>7, <2>9, <2>10 DEF PlaceInv
  <1> QED BY <1>5, <1>6

LEMMA PlaceTake == TypeInv /\ PlaceInv /\ Take => PlaceInv'
  <1> SUFFICES ASSUME TypeInv, PlaceInv, Take PROVE PlaceInv'
      OBVIOUS
  <1>1. queue \in Seq(Tasks) /\ queue # <<>> /\ queue' = Tail(queue) /\ runState' # "stopped"
        /\ pc' = pc /\ job' = job /\ status' = [status EXCEPT ![Head(queue)] = "taken"]
        BY DEF Take, Outside, Becomes, TypeInv, Queues
  <1>2. Len(queue) \in Nat /\ Len(queue) >= 1 /\ Head(queue) = queue[1] /\ Len(queue') = Len(queue) - 1
        /\ \A j \in 1 .. Len(queue) - 1 : queue'[j] = queue[j + 1]
        BY <1>1, HeadTailProperties, EmptySeq, LenProperties
  <1>3. \A i \in 1 .. Len(queue) : queue[i] \in Tasks
        BY <1>1, ElementOfSeq
  <1>4. \A j \in 1 .. Len(queue') : j + 1 \in 1 .. Len(queue) /\ queue'[j] = queue[j + 1] /\ j + 1 # 1
        BY <1>2
  <1>5. \A j \in 1 .. Len(queue') : queue'[j] # Head(queue)
        BY <1>2, <1>4 DEF PlaceInv, Once
  <1>6. Marked'
        BY <1>1, <1>3, <1>4, <1>5 DEF PlaceInv, Marked, TypeInv, Threaded
  <1>7. Once'
        BY <1>2, <1>4 DEF PlaceInv, Once
  <1>8. status[Head(queue)] = "queued" /\ OnTheWay' = OnTheWay
        BY <1>1, <1>2 DEF PlaceInv, Marked, OnTheWay
  <1>9. \A r \in OnTheWay : job[r] \in Tasks /\ job[r] # Head(queue)
        BY <1>8 DEF PlaceInv, Holding, OnTheWay, TypeInv, Threaded
  <1>10. Holding'
        BY <1>1, <1>8, <1>9 DEF PlaceInv, Holding, TypeInv, Threaded
  <1> QED BY <1>1, <1>6, <1>7, <1>10 DEF PlaceInv, WillLookAgain

LEMMA PlaceBehaviour ==
  ASSUME TypeInv, PlaceInv, NEW t \in Tasks, Run(t) \/ AfterExecute(t)
  PROVE  PlaceInv'
  <1>1. PICK st : status' = [status EXCEPT ![t] = st]
        BY DEF Run, AfterExecute, Becomes
  <1>2. status[t] # "queued" /\ status[t] # "held" /\ queue' = queue /\ pc' = pc /\ job' = job
        /\ runState' = runState
        BY DEF Run, AfterExecute, Outside
  <1>3. \A i \in 1 .. Len(queue) : queue[i] \in Tasks
        BY ElementOfSeq DEF TypeInv, Queues
  <1>4. Marked' /\ Once' /\ WillLookAgain'
        BY <1>1, <1>2, <1>3 DEF PlaceInv, Marked, Once, WillLookAgain, TypeInv, Threaded
  <1>5. \A r \in OnTheWay : job[r] \in Tasks /\ job[r] # t
        BY <1>2 DEF PlaceInv, Holding, OnTheWay, TypeInv, Threaded
  <1>6. OnTheWay' = OnTheWay
        BY <1>2 DEF OnTheWay
  <1>7. Holding'
        BY <1>1, <1>2, <1>5, <1>6 DEF PlaceInv, Holding, TypeInv, Threaded
  <1> QED BY <1>4, <1>7 DEF PlaceInv

LEMMA PlaceRecheckRunning ==
  ASSUME TypeInv, PlaceInv, NEW s \in Submitters, RecheckRunning(s)
  PROVE  PlaceInv'
  <1>1. pc[s] = "recheck" /\ runState' = "running" /\ job' = job /\ queue' = queue /\ status' = status
        /\ pc' = [pc EXCEPT ![s] = "release"]
        BY DEF RecheckRunning, Goto
  <1>2. OnTheWay' = OnTheWay
        BY <1>1 DEF OnTheWay, TypeInv, Threaded
  <1> QED BY <1>1, <1>2 DEF PlaceInv, Marked, Once, Holding, WillLookAgain

LEMMA PlaceRelease ==
  ASSUME TypeInv, PlaceInv, NEW s \in Submitters, Release(s)
  PROVE  PlaceInv'
  <1>1. pc[s] = "release" /\ runState' = runState /\ job' = [job EXCEPT ![s] = NoTask] /\ queue' = queue
        /\ status' = status /\ pc' = [pc EXCEPT ![s] = "idle"]
        BY DEF Release, Goto
  <1>2. OnTheWay' = OnTheWay /\ \A r \in OnTheWay : job'[r] = job[r]
        BY <1>1 DEF OnTheWay, TypeInv, Threaded
  <1>3. \A r \in Submitters : pc[r] = "recheck" => pc'[r] = "recheck" /\ job'[r] = job[r]
        BY <1>1 DEF TypeInv, Threaded
  <1>4. Marked' /\ Once' /\ Holding'
        BY <1>1, <1>2 DEF PlaceInv, Marked, Once, Holding
  <1>5. WillLookAgain'
        BY <1>1, <1>3 DEF PlaceInv, WillLookAgain
  <1> QED BY <1>4, <1>5 DEF PlaceInv

LEMMA PlaceDrain == TypeInv /\ PlaceInv /\ Drain => PlaceInv'
  <1> SUFFICES ASSUME TypeInv, PlaceInv, Drain PROVE PlaceInv'
      OBVIOUS
  <1>1. queue' = <<>> /\ Len(queue') = 0 /\ pc' = pc /\ job' = job
        /\ status' = [t \in Tasks |-> IF status[t] = "queued" THEN "dropped" ELSE status[t]]
        BY EmptySeq DEF Drain
  <1>2. OnTheWay' = OnTheWay /\ \A r \in OnTheWay : job[r] \in Tasks
        BY <1>1 DEF OnTheWay, TypeInv, Threaded
  <1>3. Holding'
        BY <1>1, <1>2 DEF PlaceInv, Holding
  <1> QED BY <1>1, <1>3 DEF PlaceInv, Marked, Once, WillLookAgain

LEMMA PlaceStep == TypeInv /\ PlaceInv /\ [Next]_vars => PlaceInv'
  <1> SUFFICES ASSUME TypeInv, PlaceInv, [Next]_vars PROVE PlaceInv'
      OBVIOUS
  <1>1. CASE UNCHANGED <<queue, status, pc, job>> /\ (runState' = runState \/ runState' # "stopped")
        BY <1>1 DEF PlaceInv, Marked, Once, Holding, OnTheWay, WillLookAgain
  <1>2. CASE UNCHANGED vars \/ PollTimesOut \/ GetTask \/ Stop
        BY <1>1, <1>2 DEF vars, PollTimesOut, GetTask, Stop, Outside, RetireOneOfMany, SeeEmpty, PollAgain,
           RetireLast, Leave, Die, Replace, Interrupted
  <1> QED BY <1>2, PlaceAcquire, PlaceCheck, PlaceOffer, PlaceRecheckStopped, PlaceRecheckRunning,
             PlaceRelease, PlaceTake, PlaceBehaviour, PlaceDrain DEF Next, Execute

(* A stopped pool keeps no task once every execute() has looked again, although
   submissions go on during shutdownNow() (ExecutionManager.stop). *)
THEOREM StopCorrect == Spec => []NothingLeftBehind
  <1>1. TypeInv /\ PlaceInv => NothingLeftBehind
        <2> SUFFICES ASSUME TypeInv, PlaceInv, runState = "stopped", \A s \in Submitters : pc[s] # "recheck"
                     PROVE  queue = <<>>
            BY DEF NothingLeftBehind
        <2>1. queue \in Seq(Tasks) /\ Len(queue) \in Nat
              BY LenProperties DEF TypeInv, Queues
        <2>2. \A i \in 1 .. Len(queue) : FALSE
              BY DEF PlaceInv, WillLookAgain
        <2>3. Len(queue) = 0
              BY <2>1, <2>2
        <2> QED BY <2>1, <2>3, EmptySeq
  <1> QED BY <1>1, TypeInit, TypeStep, PlaceInit, PlaceStep, PTL DEF Spec

-----------------------------------------------------------------------------
(* How many tasks run at once.  A worker is added only to a pool that has none
   or fewer than its maximum, and every other step moves one at most from one
   count to another. *)
InWork == {t \in Tasks : status[t] \in InHand}

WorkersInv == IsFiniteSet(InWork) /\ WorkerCount <= MaxPoolSize

(* The tasks in hand change when one is taken and when one has ended. *)
LEMMA WorkSteps ==
  ASSUME TypeInv, PlaceInv, [Next]_vars
  PROVE  \/ Take /\ Head(queue) \in Tasks \ InWork /\ InWork' = InWork \cup {Head(queue)}
         \/ \E t \in InWork : AfterExecute(t) /\ InWork' = InWork \ {t}
         \/ InWork' = InWork /\ ~Take /\ ~\E t \in Tasks : AfterExecute(t)
  <1> USE DEF TypeInv, Threaded, InHand
  <1>1. CASE Take
        <2>1. Head(queue) \in Tasks /\ status[Head(queue)] = "queued"
              BY <1>1, HeadTailProperties, EmptySeq, LenProperties DEF Take, Queues, PlaceInv, Marked
        <2>2. status' = [status EXCEPT ![Head(queue)] = "taken"]
              BY <1>1 DEF Take, Becomes
        <2> QED BY <1>1, <2>1, <2>2 DEF InWork
  <1>2. ASSUME NEW t \in Tasks, AfterExecute(t)
        PROVE  t \in InWork /\ InWork' = InWork \ {t}
        BY <1>2 DEF AfterExecute, Becomes, InWork
  <1>3. ASSUME NEW t \in Tasks, Run(t) PROVE InWork' = InWork
        BY <1>3 DEF Run, Becomes, InWork
  <1>4. ASSUME NEW s \in Submitters, Acquire(s) PROVE InWork' = InWork
        BY <1>4 DEF Acquire, Becomes, InWork
  <1>5. ASSUME NEW s \in Submitters, Check(s) \/ Offer(s) PROVE InWork' = InWork
        <2>1. job[s] \in Tasks /\ status[job[s]] = "held"
              BY <1>5 DEF Check, Offer, PlaceInv, Holding, OnTheWay
        <2> QED BY <1>5, <2>1 DEF Check, Offer, Becomes, InWork
  <1>6. ASSUME NEW s \in Submitters, RecheckStopped(s) PROVE InWork' = InWork
        BY <1>6 DEF RecheckStopped, Becomes, InWork
  <1>7. CASE Drain
        <2>1. \A t \in Tasks : status'[t] \in InHand <=> status[t] \in InHand
              BY <1>7 DEF Drain
        <2>2. InWork' = InWork
              BY <2>1 DEF InWork
        <2>3. ~Take /\ ~\E t \in Tasks : AfterExecute(t)
              BY <1>7 DEF Drain, Take, AfterExecute, Outside
        <2> QED BY <2>2, <2>3
  <1>8. CASE UNCHANGED vars \/ PollTimesOut \/ GetTask \/ Stop \/ \E s \in Submitters : RecheckRunning(s) \/ Release(s)
        <2>1. status' = status
              BY <1>8 DEF vars, PollTimesOut, GetTask, Stop, RecheckRunning, Release, RetireOneOfMany, SeeEmpty,
                 PollAgain, RetireLast, Leave, Die, Replace, Interrupted
        <2>2. InWork' = InWork
              BY <2>1 DEF InWork
        <2> QED BY <1>1, <1>2, <2>2
  <1> QED BY <1>1, <1>2, <1>3, <1>4, <1>5, <1>6, <1>7, <1>8 DEF Next, Execute

LEMMA SumOfFour ==
  ASSUME NEW a \in Nat, NEW b \in Nat, NEW c \in Nat, NEW d \in Nat
  PROVE  a + b + c + d \in Nat
  OBVIOUS

LEMMA WorkersStep == TypeInv /\ PlaceInv /\ WorkersInv /\ [Next]_vars => WorkersInv'
  <1> SUFFICES ASSUME TypeInv, PlaceInv, WorkersInv, [Next]_vars PROVE WorkersInv'
      OBVIOUS
  <1>0. /\ Cardinality(InWork) \in Nat /\ MaxPoolSize \in Nat /\ MaxPoolSize >= 1 /\ Counts
        /\ idle + expired + sawEmpty + dying + Cardinality(InWork) <= MaxPoolSize
        BY FS_CardinalityType, PoolAssumption DEF WorkersInv, TypeInv, WorkerCount, Busy, InWork
  <1> SUFFICES IsFiniteSet(InWork') /\ idle' + expired' + sawEmpty' + dying' + Cardinality(InWork') <= MaxPoolSize
      BY DEF WorkersInv, WorkerCount, Busy, InWork
  <1> USE DEF Counts
  <1>1. CASE Take /\ Head(queue) \in Tasks \ InWork /\ InWork' = InWork \cup {Head(queue)}
        <2>1. IsFiniteSet(InWork') /\ Cardinality(InWork') = Cardinality(InWork) + 1
              BY <1>1, FS_AddElement DEF WorkersInv
        <2> QED BY <1>0, <1>1, <2>1 DEF Take
  <1>2. ASSUME NEW t \in InWork, AfterExecute(t), InWork' = InWork \ {t}
        PROVE  IsFiniteSet(InWork') /\ idle' + expired' + sawEmpty' + dying' + Cardinality(InWork') <= MaxPoolSize
        <2>1. IsFiniteSet(InWork') /\ Cardinality(InWork') = Cardinality(InWork) - 1
              BY <1>2, FS_RemoveElement DEF WorkersInv
        <2>2. /\ expired' = expired /\ sawEmpty' = sawEmpty
              /\ (idle' = idle + 1 /\ dying' = dying) \/ (idle' = idle /\ dying' = dying + 1)
              BY <1>2 DEF AfterExecute
        <2> QED BY <1>0, <2>1, <2>2
  <1>3. CASE InWork' = InWork /\ ~Take /\ ~\E t \in Tasks : AfterExecute(t)
        <2>1. WorkerCount = idle + expired + sawEmpty + dying + Cardinality(InWork)
              BY DEF WorkerCount, Busy, InWork
        <2>2. \/ idle' + expired' + sawEmpty' + dying' <= idle + expired + sawEmpty + dying
              \/ idle' + expired' + sawEmpty' + dying' + Cardinality(InWork) <= MaxPoolSize
              <3>1. CASE UNCHANGED pool
                    BY <1>0, <3>1 DEF pool
              <3>2. CASE UNCHANGED vars \/ Stop \/ Drain \/ (\E t \in Tasks : Run(t))
                         \/ \E s \in Submitters : Acquire(s) \/ Check(s) \/ Offer(s) \/ RecheckStopped(s) \/ Release(s)
                    BY <3>1, <3>2 DEF vars, Stop, Drain, Run, Acquire, Check, Offer, RecheckStopped, Release
              <3>3. CASE (\E s \in Submitters : RecheckRunning(s)) \/ Leave \/ Replace
                    BY <1>0, <2>1, <3>3 DEF RecheckRunning, Leave, Replace
              <3>4. CASE PollTimesOut \/ RetireOneOfMany \/ SeeEmpty \/ PollAgain
                    BY <1>0, <3>4 DEF PollTimesOut, RetireOneOfMany, SeeEmpty, PollAgain
              <3>5. CASE RetireLast \/ Die \/ Interrupted
                    BY <1>0, <3>5 DEF RetireLast, Die, Interrupted
              <3> QED BY <1>3, <3>2, <3>3, <3>4, <3>5 DEF Next, Execute, GetTask
        <2>3. idle' \in Nat /\ expired' \in Nat /\ sawEmpty' \in Nat /\ dying' \in Nat
              BY CountsStep DEF TypeInv
        <2>4. IsFiniteSet(InWork') /\ Cardinality(InWork') = Cardinality(InWork)
              BY <1>3 DEF WorkersInv
        <2>5. idle' + expired' + sawEmpty' + dying' \in Nat /\ idle + expired + sawEmpty + dying \in Nat
              BY <1>0, <2>3, SumOfFour
        <2>6. idle' + expired' + sawEmpty' + dying' + Cardinality(InWork) <= MaxPoolSize
              BY <1>0, <2>2, <2>5
        <2> QED BY <2>4, <2>6
  <1> QED BY <1>1, <1>2, <1>3, WorkSteps

LEMMA WorkersInit == Init => WorkersInv
  <1> SUFFICES ASSUME Init PROVE WorkersInv
      OBVIOUS
  <1>1. InWork = {}
        BY DEF Init, InWork, InHand
  <1>2. IsFiniteSet(InWork) /\ Cardinality(InWork) = 0
        BY <1>1, FS_EmptySet
  <1> QED BY <1>2, PoolAssumption DEF Init, WorkersInv, WorkerCount, Busy, InWork

(* No more tasks are in hand than the domain was configured for, although a
   worker that a behaviour killed is replaced before it has left. *)
Parallel == Busy <= MaxPoolSize

THEOREM ParallelBounded == Spec => []Parallel
  <1>1. TypeInv /\ WorkersInv => Parallel
        <2> SUFFICES ASSUME TypeInv, WorkersInv PROVE Parallel
            OBVIOUS
        <2>1. Busy \in Nat /\ MaxPoolSize \in Nat
              BY FS_CardinalityType, PoolAssumption DEF WorkersInv, Busy, InWork
        <2> QED BY <2>1 DEF WorkersInv, WorkerCount, Parallel, TypeInv, Counts
  <1> QED BY <1>1, TypeInit, TypeStep, PlaceInit, PlaceStep, WorkersInit, WorkersStep, PTL DEF Spec

-----------------------------------------------------------------------------
(* The executor implements the pool.  The tasks the pool counts as running are
   those in hand. *)
LEMMA RunningInWork == TypeInv => Pool!Running = InWork
  <1> SUFFICES ASSUME TypeInv, NEW t \in Tasks PROVE Fate(status[t]) = "running" <=> status[t] \in InHand
      BY DEF Pool!Running, InWork
  <1> QED BY DEF TypeInv, Threaded, Fate, InHand, Ended

Fates == [t \in Tasks |-> Fate(status[t])]

(* One task moves: the others keep their fate. *)
LEMMA FateMoves ==
  ASSUME TypeInv, NEW t \in Tasks, NEW st, status' = [status EXCEPT ![t] = st]
  PROVE  /\ Pool!Meets(t, Fate(st))
         /\ Fate(st) = Fate(status[t]) => Fates' = Fates
  <1>1. status'[t] = st /\ \A u \in Tasks \ {t} : status'[u] = status[u]
        BY DEF TypeInv, Threaded
  <1>2. Fates' = [Fates EXCEPT ![t] = Fate(st)]
        <2>1. \A u \in Tasks : Fate(status'[u]) = IF u = t THEN Fate(st) ELSE Fate(status[u])
              BY <1>1
        <2> QED BY <2>1 DEF Fates
  <1>3. Fate(st) = Fate(status[t]) => Fates' = Fates
        BY <1>2 DEF Fates
  <1> QED BY <1>2, <1>3 DEF Pool!Meets, Fates

LEMMA PoolInit == Init => Pool!PoolInit
  BY DEF Init, Pool!PoolInit, Fate

LEMMA PoolStep ==
  TypeInv /\ PlaceInv /\ WorkersInv /\ [Next]_vars => [Pool!PoolNext]_(Pool!poolVars)
  <1> SUFFICES ASSUME TypeInv, PlaceInv, WorkersInv, [Next]_vars
               PROVE  Pool!PoolNext \/ UNCHANGED <<runState, queue, Fates>>
      BY DEF Pool!poolVars, Fates
  <1> USE DEF Fate, InHand
  <1>1. ASSUME NEW s \in Submitters, Acquire(s) PROVE UNCHANGED <<runState, queue, Fates>>
        <2>1. PICK t \in Tasks : status[t] = "new" /\ status' = [status EXCEPT ![t] = "held"]
              BY <1>1 DEF Acquire, Becomes
        <2>2. Fates' = Fates
              BY <2>1, FateMoves
        <2> QED BY <1>1, <2>2 DEF Acquire
  <1>2. ASSUME NEW s \in Submitters, Check(s) \/ Offer(s)
        PROVE  Pool!PoolNext \/ UNCHANGED <<runState, queue, Fates>>
        <2>1. PICK t \in Tasks : t = job[s] /\ status[t] = "held"
              BY <1>2 DEF Check, Offer, TypeInv, Threaded, PlaceInv, Holding, OnTheWay
        <2>2. CASE Check(s) /\ runState = "running"
              BY <2>2 DEF Check, Fates
        <2>3. CASE Check(s) /\ runState # "running"
              <3>1. Pool!Meets(t, "rejected") /\ UNCHANGED <<runState, queue>>
                    BY <2>1, <2>3, FateMoves DEF Check, Becomes, Ended
              <3>2. Pool!Refuse(t)
                    BY <2>1, <2>3, <3>1 DEF Pool!Refuse
              <3> QED BY <3>2 DEF Pool!PoolNext
        <2>4. CASE Offer(s)
              <3>1. Pool!Meets(t, "queued") /\ queue' = Append(queue, t) /\ UNCHANGED runState
                    BY <2>1, <2>4, FateMoves DEF Offer, Becomes
              <3>2. Pool!Accept(t)
                    BY <2>1, <3>1 DEF Pool!Accept
              <3> QED BY <3>2 DEF Pool!PoolNext
        <2> QED BY <1>2, <2>2, <2>3, <2>4
  <1>3. ASSUME NEW s \in Submitters, RecheckStopped(s)
        PROVE  Pool!PoolNext \/ UNCHANGED <<runState, queue, Fates>>
        <2>1. runState # "running" /\ UNCHANGED runState
              BY <1>3 DEF RecheckStopped
        <2>2. PICK t \in Tasks : t = job[s]
              BY <1>3 DEF RecheckStopped, TypeInv, Threaded
        <2>3. CASE status[t] # "queued"
              BY <1>3, <2>2, <2>3 DEF RecheckStopped, Fates
        <2>4. CASE status[t] = "queued"
              <3>1. Pool!Meets(t, "rejected")
                    BY <1>3, <2>2, <2>4, FateMoves DEF RecheckStopped, Becomes
              <3>2. \E i \in 1 .. Len(queue) : queue[i] = t /\ queue' = Pool!RemoveAt(queue, i)
                    BY <1>3, <2>2, <2>4 DEF RecheckStopped, RemoveAt, Pool!RemoveAt
              <3>3. Pool!TakeBack(t)
                    BY <2>1, <2>4, <3>1, <3>2 DEF Pool!TakeBack
              <3> QED BY <3>3 DEF Pool!PoolNext
        <2> QED BY <2>3, <2>4
  <1>4. CASE Take
        <2>1. PICK t \in Tasks : t = Head(queue) /\ status[t] = "queued"
              BY <1>4, HeadTailProperties, EmptySeq, LenProperties DEF Take, TypeInv, Queues, PlaceInv, Marked
        <2>2. Pool!Meets(t, "running")
              BY <1>4, <2>1, FateMoves DEF Take, Becomes
        <2>3. Pool!Cardinality(Pool!Running) < MaxPoolSize
              <3>1. Cardinality(InWork) \in Nat /\ MaxPoolSize \in Nat /\ Counts /\ idle > 0
                    BY <1>4, FS_CardinalityType, PoolAssumption DEF WorkersInv, TypeInv, Take
              <3>2. idle + expired + sawEmpty + dying + Cardinality(InWork) <= MaxPoolSize
                    BY DEF WorkersInv, WorkerCount, Busy, InWork
              <3>3. Cardinality(InWork) < MaxPoolSize
                    BY <3>1, <3>2 DEF Counts
              <3>4. Cardinality(Pool!Running) < MaxPoolSize
                    BY <3>3, RunningInWork
              <3> QED BY <3>4 DEF Cardinality, Pool!Cardinality
        <2>4. Pool!Begin(t)
              BY <1>4, <2>1, <2>2, <2>3 DEF Take, Outside, Pool!Begin
        <2> QED BY <2>4 DEF Pool!PoolNext
  <1>5. ASSUME NEW t \in Tasks, Run(t) PROVE UNCHANGED <<runState, queue, Fates>>
        BY <1>5, FateMoves DEF Run, Becomes, Outside
  <1>6. ASSUME NEW t \in Tasks, AfterExecute(t) PROVE Pool!PoolNext
        <2>1. Pool!Meets(t, "fired") \/ Pool!Meets(t, "silent")
              BY <1>6, FateMoves DEF AfterExecute, Becomes
        <2>2. Pool!End(t)
              BY <1>6, <2>1 DEF AfterExecute, Outside, Pool!End
        <2> QED BY <2>2 DEF Pool!PoolNext
  <1>7. CASE Stop
        <2>1. Pool!Close
              BY <1>7 DEF Stop, Pool!Close
        <2> QED BY <2>1 DEF Pool!PoolNext
  <1>8. CASE Drain
        <2>1. Fates' = [t \in Tasks |-> IF Fates[t] = "queued" THEN "dropped" ELSE Fates[t]]
              BY <1>8 DEF Drain, Fates, TypeInv, Threaded
        <2>2. Pool!Drop
              BY <1>8, <2>1 DEF Drain, Fates, Pool!Drop
        <2> QED BY <2>2 DEF Pool!PoolNext
  <1>9. CASE UNCHANGED vars \/ PollTimesOut \/ GetTask \/ \E s \in Submitters : RecheckRunning(s) \/ Release(s)
        <2>1. UNCHANGED <<runState, queue, status>>
              BY <1>9 DEF vars, PollTimesOut, GetTask, RecheckRunning, Release, RetireOneOfMany, SeeEmpty,
                 PollAgain, RetireLast, Leave, Die, Replace, Interrupted, Outside
        <2> QED BY <2>1 DEF Fates
  <1> QED BY <1>1, <1>2, <1>3, <1>4, <1>5, <1>6, <1>7, <1>8, <1>9 DEF Next, Execute

(* The semaphore, the second look of a submitter, the workers that retire, die
   and are replaced, and the two halves of shutdownNow() add up to a pool that
   begins tasks in order, each at most once and no more at a time than it was
   configured for, and loses none unless it is stopped. *)
THEOREM ExecutorRefinesPool == Spec => ImplementsPool
  BY PoolInit, PoolStep, WorkersInit, WorkersStep, TypeInit, TypeStep, PlaceInit, PlaceStep, PTL
     DEF Spec, ImplementsPool, Pool!PoolSpec
=============================================================================
