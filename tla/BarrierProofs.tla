---------------------------- MODULE BarrierProofs ----------------------------
(***************************************************************************)
(* Theorems about Barrier for all sets of types, outputs and correlations. *)
(***************************************************************************)
EXTENDS Barrier, TLAPS

(* Types, as far as the rounds need them. *)
Typed ==
  /\ input \subseteq Types
  /\ left \in [Correlations -> SUBSET Types]
  /\ awaited \in [Correlations -> SUBSET Types]
  /\ got \in [Correlations -> SUBSET Types]
  /\ pc \in {"idle", "copying", "firing", "dead"}
  /\ pc # "idle" => event \in Types \X Correlations
  /\ pc = "copying" => seen \subseteq Types

(* Only inputs are bound, so the event that opens a round is one the round
   awaits. *)
BoundAreInputs ==
  /\ bound \subseteq input
  /\ adding # None => adding \in input
  /\ pc = "copying" => event[1] \in seen

(* The event of a notified() that copies the inputs is all that has come for
   its correlation; one that fires has nothing left to await. *)
OpeningRound ==
  pc = "copying" => /\ awaited[event[2]] = {}
                    /\ left[event[2]] = {}
                    /\ got[event[2]] = {event[1]}

ClosingRound == pc = "firing" => awaited[event[2]] # {} /\ left[event[2]] = {}

(* Between two events an open round has something left, and what has come
   without a round is nothing. *)
OpenRoundsWait ==
  \A c \in Correlations : pc = "idle" \/ event[2] # c =>
    /\ left[c] = {} => awaited[c] = {}
    /\ awaited[c] = {} => got[c] = {}

IInv == Typed /\ BoundAreInputs /\ OpeningRound /\ ClosingRound /\ OpenRoundsWait /\ RemainderRight

-----------------------------------------------------------------------------
LEMMA InvInit == Init => IInv
  BY InterfaceAssumption DEF Init, IInv, Typed, BoundAreInputs, OpeningRound, ClosingRound,
     OpenRoundsWait, RemainderRight

(* Striking an event off what is open. *)
LEMMA StrikeStep ==
  ASSUME IInv, pc # "dead", NEW e \in Types, NEW c \in Correlations, NEW open \in SUBSET Types,
         event' = <<e, c>>, Strike(e, c, open), input' = input, bound' = bound, adding' = adding,
         got' \in [Correlations -> SUBSET Types], awaited' \in [Correlations -> SUBSET Types],
         \A d \in Correlations \ {c} : got'[d] = got[d] /\ awaited'[d] = awaited[d] /\ (pc = "idle" \/ event[2] # d),
         awaited'[c] # {}, open \ {e} = awaited'[c] \ got'[c]
  PROVE  IInv'
  <1>1. left' = [left EXCEPT ![c] = open \ {e}] /\ left' \in [Correlations -> SUBSET Types]
        BY DEF Strike, IInv, Typed
  <1>2. left'[c] = open \ {e} /\ \A d \in Correlations \ {c} : left'[d] = left[d]
        BY <1>1 DEF IInv, Typed
  <1>3. pc' = IF open \ {e} = {} THEN "firing" ELSE "idle"
        BY DEF Strike
  <1>4. Typed'
        BY <1>1, <1>3 DEF Typed, IInv
  <1>5. BoundAreInputs' /\ OpeningRound'
        BY <1>3 DEF BoundAreInputs, OpeningRound, IInv
  <1>6. ClosingRound'
        BY <1>2, <1>3 DEF ClosingRound
  <1>7. OpenRoundsWait'
        BY <1>2, <1>3 DEF OpenRoundsWait, IInv
  <1>8. RemainderRight'
        BY <1>2 DEF RemainderRight, IInv
  <1> QED BY <1>4, <1>5, <1>6, <1>7, <1>8 DEF IInv

LEMMA InvNotified ==
  ASSUME IInv, NEW e \in Types, NEW c \in Correlations, Notified(e, c)
  PROVE  IInv'
  <1>1. got' \in [Correlations -> SUBSET Types] /\ got'[c] = got[c] \cup {e}
        /\ \A d \in Correlations \ {c} : got'[d] = got[d]
        BY DEF Notified, IInv, Typed
  <1>2. pc = "idle" /\ e \in bound /\ event' = <<e, c>> /\ awaited' = awaited
        /\ input' = input /\ bound' = bound /\ adding' = adding
        BY DEF Notified, interface
  <1>3. CASE left[c] = {}
        <2>1. pc' = "copying" /\ seen' = input /\ left' = left
              BY <1>3 DEF Notified
        <2>2. awaited[c] = {} /\ got[c] = {}
              BY <1>2, <1>3 DEF IInv, OpenRoundsWait
        <2>3. Typed' /\ BoundAreInputs'
              BY <1>1, <1>2, <2>1 DEF Typed, BoundAreInputs, IInv
        <2>4. OpeningRound' /\ ClosingRound'
              BY <1>1, <1>2, <1>3, <2>1, <2>2 DEF OpeningRound, ClosingRound
        <2>5. OpenRoundsWait'
              BY <1>1, <1>2, <2>1 DEF OpenRoundsWait, IInv
        <2>6. RemainderRight'
              BY <1>1, <1>2, <1>3, <2>1, <2>2 DEF RemainderRight, IInv
        <2> QED BY <2>3, <2>4, <2>5, <2>6 DEF IInv
  <1>4. CASE left[c] # {}
        <2>1. Strike(e, c, left[c])
              BY <1>4 DEF Notified
        <2>2. left[c] \in SUBSET Types /\ awaited \in [Correlations -> SUBSET Types]
              BY DEF IInv, Typed
        <2>3. left[c] = awaited[c] \ got[c]
              BY DEF IInv, RemainderRight
        <2>4. left[c] \ {e} = awaited'[c] \ got'[c] /\ awaited'[c] # {}
              BY <1>1, <1>2, <1>4, <2>3
        <2> QED BY <1>1, <1>2, <2>1, <2>2, <2>4, StrikeStep
  <1> QED BY <1>3, <1>4

LEMMA InvCopyEnds == IInv /\ CopyEnds => IInv'
  <1> SUFFICES ASSUME IInv, CopyEnds PROVE IInv'
      OBVIOUS
  <1> DEFINE e == event[1]
             c == event[2]
  <1>1. pc = "copying" /\ Strike(e, c, seen) /\ event' = event /\ got' = got
        /\ awaited' = [awaited EXCEPT ![c] = seen]
        /\ input' = input /\ bound' = bound /\ adding' = adding
        BY DEF CopyEnds, interface
  <1>2. event = <<e, c>> /\ e \in Types /\ c \in Correlations /\ seen \in SUBSET Types
        BY <1>1 DEF IInv, Typed
  <1>3. e \in seen /\ got[c] = {e}
        BY <1>1 DEF IInv, BoundAreInputs, OpeningRound
  <1>4. awaited' \in [Correlations -> SUBSET Types] /\ awaited'[c] = seen
        /\ \A d \in Correlations \ {c} : awaited'[d] = awaited[d]
        BY <1>1, <1>2 DEF IInv, Typed
  <1>5. got' \in [Correlations -> SUBSET Types]
        BY <1>1 DEF IInv, Typed
  <1>6. awaited'[c] # {} /\ seen \ {e} = awaited'[c] \ got'[c]
        BY <1>1, <1>3, <1>4
  <1>7. event' = <<e, c>>
        BY <1>1, <1>2
  <1> HIDE DEF e, c
  <1>8. \A d \in Correlations \ {c} : got'[d] = got[d] /\ awaited'[d] = awaited[d] /\ (pc = "idle" \/ event[2] # d)
        BY <1>1, <1>4 DEF c
  <1> QED BY <1>1, <1>2, <1>4, <1>5, <1>6, <1>7, <1>8, StrikeStep

LEMMA InvFireEnds == IInv /\ FireEnds => IInv'
  <1> SUFFICES ASSUME IInv, FireEnds PROVE IInv'
      OBVIOUS
  <1> DEFINE c == event[2]
  <1>1. pc = "firing" /\ pc' = "idle" /\ left' = left
        /\ awaited' = [awaited EXCEPT ![c] = {}] /\ got' = [got EXCEPT ![c] = {}]
        /\ input' = input /\ bound' = bound /\ adding' = adding /\ event' = event
        BY DEF FireEnds, interface
  <1>2. c \in Correlations /\ left[c] = {}
        BY <1>1 DEF IInv, Typed, ClosingRound
  <1>3. awaited'[c] = {} /\ got'[c] = {}
        /\ \A d \in Correlations \ {c} : awaited'[d] = awaited[d] /\ got'[d] = got[d]
        BY <1>1, <1>2 DEF IInv, Typed
  <1>4. Typed' /\ BoundAreInputs' /\ OpeningRound' /\ ClosingRound'
        BY <1>1, <1>2 DEF IInv, Typed, BoundAreInputs, OpeningRound, ClosingRound
  <1>5. OpenRoundsWait'
        BY <1>1, <1>3 DEF IInv, OpenRoundsWait
  <1>6. RemainderRight'
        BY <1>1, <1>2, <1>3 DEF IInv, RemainderRight
  <1> QED BY <1>4, <1>5, <1>6 DEF IInv

(* Steps that leave the rounds alone. *)
LEMMA InvOther ==
  ASSUME IInv, rounds' = rounds, event' = event, seen' = seen,
         pc' = pc \/ (pc # "idle" /\ pc' = "dead"),
         input' \subseteq Types, input \subseteq input', bound' \subseteq input',
         adding' # None => adding' \in input'
  PROVE  IInv'
  <1>1. left' = left /\ awaited' = awaited /\ got' = got
        BY DEF rounds
  <1>2. Typed'
        BY <1>1 DEF IInv, Typed
  <1>4. BoundAreInputs'
        BY DEF IInv, BoundAreInputs
  <1>5. OpeningRound' /\ ClosingRound'
        BY <1>1 DEF IInv, OpeningRound, ClosingRound
  <1>3. OpenRoundsWait' /\ RemainderRight'
        BY <1>1 DEF IInv, OpenRoundsWait, RemainderRight
  <1> QED BY <1>2, <1>3, <1>4, <1>5 DEF IInv

LEMMA InvStep == IInv /\ [Next]_vars => IInv'
  <1> SUFFICES ASSUME IInv, [Next]_vars PROVE IInv'
      OBVIOUS
  <1>0. input \subseteq Types /\ bound \subseteq input /\ (adding # None => adding \in input)
        BY DEF IInv, Typed, BoundAreInputs
  <1>1. CASE CopyThrows \/ Publish \/ PublishThrows
        BY <1>0, <1>1, InvOther DEF CopyThrows, Publish, PublishThrows, interface, iteration, rounds
  <1>2. ASSUME NEW e \in Types, AddInput(e) PROVE IInv'
        BY <1>0, <1>2, InvOther DEF AddInput, iteration
  <1>3. CASE BindInput
        BY <1>0, <1>3, InvOther DEF BindInput, iteration
  <1>4. ASSUME NEW o \in Outputs, AddOutput(o) PROVE IInv'
        BY <1>0, <1>4, InvOther DEF AddOutput, iteration
  <1>5. CASE Deregister \/ Register
        BY <1>0, <1>5, InvOther DEF Deregister, Register, iteration
  <1>6. CASE UNCHANGED vars
        BY <1>0, <1>6, InvOther DEF vars, interface, iteration
  <1> QED BY <1>1, <1>2, <1>3, <1>4, <1>5, <1>6, InvNotified, InvCopyEnds, InvFireEnds DEF Next, Return

LEMMA InvAlways == Spec => []IInv
  BY InvInit, InvStep, PTL DEF Spec

-----------------------------------------------------------------------------
(* A round awaits what it awaited at its start less what has come for its
   correlation (Barrier.updateBarrier), whatever the interface does meanwhile. *)
THEOREM RemainderCorrect == Spec => []RemainderRight
  <1>1. IInv => RemainderRight
        BY DEF IInv
  <1> QED BY <1>1, InvAlways, PTL

(* The barrier never publishes before everything its round awaited has come. *)
THEOREM NoEarlyFiring == Spec => []FiresOnlyWhenComplete
  <1>1. IInv => FiresOnlyWhenComplete
        BY DEF IInv, FiresOnlyWhenComplete, ClosingRound, RemainderRight, Typed
  <1> QED BY <1>1, InvAlways, PTL

(* It never leaves a round open for which everything has come. *)
THEOREM NoMissedFiring == Spec => []NoCompleteRoundLeft
  <1>1. IInv => NoCompleteRoundLeft
        BY DEF IInv, NoCompleteRoundLeft, OpenRoundsWait, RemainderRight
  <1> QED BY <1>1, InvAlways, PTL

(* Every variable keeps its type; what is left of the iterations are types and
   outputs of the barrier's interface, which stays within its bounds. *)
THEOREM TypeCorrect == Spec => []TypeOK
  <1>1. Init => TypeOK
        BY InterfaceAssumption DEF Init, TypeOK
  <1>2. ASSUME IInv, TypeOK, [Next]_vars PROVE TypeOK'
        <2> USE DEF TypeOK
        <2>1. event' \in (Types \X Correlations) \cup {<<None, None>>}
              BY <1>2 DEF Next, Return, Notified, CopyEnds, CopyThrows, Publish, PublishThrows, FireEnds, AddInput,
                 AddOutput, BindInput, Deregister, Register, vars
        <2>2. left' \in [Correlations -> SUBSET Types] /\ awaited' \in [Correlations -> SUBSET Types]
              /\ got' \in [Correlations -> SUBSET Types]
              /\ pc' \in {"idle", "copying", "firing", "dead"}
              BY <1>2, InvStep DEF IInv, Typed
        <2>3. input' \subseteq Types /\ output' \subseteq Outputs /\ bound' \subseteq Types
              /\ adding' \in Types \cup {None}
              BY <1>2 DEF Next, Return, Notified, CopyEnds, CopyThrows, Publish, PublishThrows, FireEnds, AddInput,
                 AddOutput, BindInput, Deregister, Register, vars, interface
        <2>4. /\ seen' \subseteq Types \cup Outputs
              /\ rest' \subseteq Outputs /\ published' \subseteq Outputs
              BY <1>2 DEF Next, Return, Notified, Strike, CopyEnds, CopyThrows, Publish, PublishThrows, FireEnds,
                 AddInput, AddOutput, BindInput, Deregister, Register, vars, iteration
        <2> QED BY <2>1, <2>2, <2>3, <2>4
  <1> QED BY <1>1, <1>2, InvAlways, PTL DEF Spec

-----------------------------------------------------------------------------
(* Refinement: the barrier's map of remaining types implements an AND-join that
   accumulates what has come. *)
Collected == [c \in Correlations |-> awaited[c] \ left[c]]

LEMMA CollectedAt ==
  ASSUME NEW c \in Correlations
  PROVE  Collected[c] = awaited[c] \ left[c] /\ (Collected')[c] = awaited'[c] \ left'[c]
  BY DEF Collected

LEMMA JoinInit == Init => Join!Init
  BY DEF Init, Join!Init

LEMMA JoinNotified ==
  ASSUME IInv, NEW e \in Types, NEW c \in Correlations, Notified(e, c)
  PROVE  [Join!Next]_<<awaited, Collected>>
  <1>1. awaited' = awaited
        BY DEF Notified
  <1>2. CASE left[c] = {}
        <2>1. left' = left
              BY <1>2 DEF Notified
        <2> QED BY <1>1, <2>1 DEF Collected
  <1>3. CASE left[c] # {}
        <2>1. left' = [left EXCEPT ![c] = left[c] \ {e}]
              BY <1>3 DEF Notified, Strike
        <2>2. left \in [Correlations -> SUBSET Types] /\ left[c] \subseteq awaited[c]
              BY DEF IInv, Typed, RemainderRight
        <2>3. CASE e \notin left[c]
              <3>1. left' = left
                    BY <2>1, <2>2, <2>3
              <3> QED BY <1>1, <3>1 DEF Collected
        <2>4. CASE e \in left[c]
              <3>1. e \in awaited[c] /\ awaited[c] # Collected[c]
                    BY <2>2, <2>4, CollectedAt
              <3>2. Collected' = [Collected EXCEPT ![c] = @ \cup {e}]
                    BY <1>1, <2>1, <2>2, <2>4 DEF Collected
              <3>3. Join!Collect(c, e)
                    BY <1>1, <3>1, <3>2 DEF Join!Collect, Collected
              <3> QED BY <3>3 DEF Join!Next
        <2> QED BY <2>3, <2>4
  <1> QED BY <1>2, <1>3

LEMMA JoinCopyEnds ==
  ASSUME IInv, CopyEnds, NEW e \in Types, NEW c \in Correlations, event = <<e, c>>
  PROVE  [Join!Next]_<<awaited, Collected>>
  <1>1. pc = "copying" /\ left' = [left EXCEPT ![c] = seen \ {e}]
        /\ awaited' = [awaited EXCEPT ![c] = seen]
        BY DEF CopyEnds, Strike
  <1>2. seen \subseteq Types /\ e \in seen
        BY <1>1 DEF IInv, Typed, BoundAreInputs
  <1>3. awaited[c] = {}
        BY <1>1 DEF IInv, OpeningRound
  <1>4. left \in [Correlations -> SUBSET Types] /\ awaited \in [Correlations -> SUBSET Types]
        BY DEF IInv, Typed
  <1>5. Collected' = [Collected EXCEPT ![c] = seen \cap {e}]
        BY <1>1, <1>2, <1>4 DEF Collected
  <1>6. \E S \in (SUBSET Types) \ {{}} : /\ awaited' = [awaited EXCEPT ![c] = S]
                                       /\ Collected' = [Collected EXCEPT ![c] = S \cap {e}]
        <2>1. seen \in (SUBSET Types) \ {{}}
              BY <1>2
        <2>2. WITNESS seen \in (SUBSET Types) \ {{}}
        <2> QED BY <1>1, <1>5
  <1>7. Join!Open(c, e)
        BY <1>3, <1>6 DEF Join!Open, Collected
  <1> QED BY <1>7 DEF Join!Next

LEMMA JoinFireEnds ==
  ASSUME IInv, FireEnds, NEW c \in Correlations, event[2] = c
  PROVE  [Join!Next]_<<awaited, Collected>>
  <1>1. pc = "firing" /\ left' = left /\ awaited' = [awaited EXCEPT ![c] = {}]
        BY DEF FireEnds
  <1>2. awaited[c] # {} /\ left[c] = {}
        BY <1>1 DEF IInv, ClosingRound
  <1>3. awaited \in [Correlations -> SUBSET Types]
        BY DEF IInv, Typed
  <1>4. Collected[c] = awaited[c]
        BY <1>2, CollectedAt
  <1>5. Collected' = [Collected EXCEPT ![c] = {}]
        BY <1>1, <1>2, <1>3 DEF Collected
  <1>6. Join!Fire(c)
        BY <1>1, <1>2, <1>4, <1>5 DEF Join!Fire, Collected
  <1> QED BY <1>6 DEF Join!Next

LEMMA JoinStep == IInv /\ [Next]_vars => [Join!Next]_<<awaited, Collected>>
  <1> SUFFICES ASSUME IInv, [Next]_vars PROVE [Join!Next]_<<awaited, Collected>>
      OBVIOUS
  <1>1. CASE UNCHANGED <<left, awaited>>
        BY <1>1 DEF Collected
  <1>2. CASE CopyThrows \/ Publish \/ PublishThrows \/ (\E e \in Types : AddInput(e)) \/ BindInput
             \/ (\E o \in Outputs : AddOutput(o)) \/ Deregister \/ Register \/ UNCHANGED vars
        BY <1>1, <1>2 DEF CopyThrows, Publish, PublishThrows, AddInput, BindInput, AddOutput, Deregister,
           Register, vars, rounds
  <1>3. CASE CopyEnds \/ FireEnds
        <2>1. event \in Types \X Correlations
              BY <1>3 DEF CopyEnds, FireEnds, IInv, Typed
        <2>2. PICK e \in Types, c \in Correlations : event = <<e, c>>
              BY <2>1
        <2> QED BY <1>3, <2>2, JoinCopyEnds, JoinFireEnds
  <1> QED BY <1>2, <1>3, JoinNotified DEF Next, Return

(* Barrier implements AndJoin: rounds open with the first event, collect each
   awaited event once and close by one firing (Barrier.java:13-15). *)
THEOREM BarrierRefinesAndJoin == Spec => ImplementsAndJoin
  <1>1. IInv /\ [Next]_vars => [Join!Next]_<<awaited, [c \in Correlations |-> awaited[c] \ left[c]]>>
        BY JoinStep DEF Collected
  <1> QED BY <1>1, JoinInit, InvAlways, PTL DEF Spec, ImplementsAndJoin, Join!Spec

-----------------------------------------------------------------------------
(* What a firing has published is what its iterator has passed. *)
IterationInv == pc = "firing" => rest \subseteq seen /\ published = seen \ rest

LEMMA IterationStep == IterationInv /\ [Next]_vars => IterationInv'
  <1> SUFFICES ASSUME IterationInv, [Next]_vars PROVE IterationInv'
      OBVIOUS
  <1>1. ASSUME NEW e, NEW c, NEW open, Strike(e, c, open) PROVE IterationInv'
        BY <1>1 DEF Strike, IterationInv
  <1>2. ASSUME NEW e \in Types, NEW c \in Correlations, Notified(e, c) PROVE IterationInv'
        BY <1>1, <1>2 DEF Notified, IterationInv
  <1>3. CASE Publish
        BY <1>3 DEF Publish, IterationInv
  <1>4. CASE Return
        BY <1>1, <1>3, <1>4 DEF Return, CopyEnds, CopyThrows, PublishThrows, FireEnds, IterationInv
  <1>5. CASE UNCHANGED vars \/ (\E e \in Types : AddInput(e)) \/ (\E o \in Outputs : AddOutput(o))
             \/ BindInput \/ Deregister \/ Register
        BY <1>5 DEF vars, AddInput, AddOutput, BindInput, Deregister, Register, iteration, IterationInv
  <1> QED BY <1>2, <1>4, <1>5 DEF Next

(* A firing that ends has published each output the barrier had when it began,
   whatever outputs other threads have added (AbstractEventActor.publish). *)
THEOREM FiringPublishesAll == Spec => PublishesAll
  <1>1. Init => IterationInv
        BY DEF Init, IterationInv
  <1>2. IterationInv => [FireEnds => published = seen]_vars
        BY DEF IterationInv, FireEnds
  <1> QED BY <1>1, <1>2, IterationStep, PTL DEF Spec, PublishesAll

-----------------------------------------------------------------------------
(* Only additions end the distributor: an iteration that nothing was added to
   sees what its iterator saw when it was made. *)
SteadyInv ==
  /\ adding = None /\ pc # "dead"
  /\ pc = "copying" => seen = input
  /\ pc = "firing" => seen = output

LEMMA SteadyStep ==
  ASSUME ~MayAddInput, ~MayAddOutput
  PROVE  SteadyInv /\ [Next]_vars => SteadyInv'
  <1> SUFFICES ASSUME SteadyInv, [Next]_vars PROVE SteadyInv'
      OBVIOUS
  <1>1. ASSUME NEW e, NEW c, NEW open, Strike(e, c, open), UNCHANGED <<input, output, adding>>
        PROVE  SteadyInv'
        BY <1>1 DEF Strike, SteadyInv
  <1>2. ASSUME NEW e \in Types, NEW c \in Correlations, Notified(e, c) PROVE SteadyInv'
        BY <1>1, <1>2 DEF Notified, SteadyInv, interface
  <1>3. CASE Return
        BY <1>1, <1>3 DEF Return, CopyEnds, CopyThrows, Publish, PublishThrows, FireEnds, interface, SteadyInv
  <1>4. CASE UNCHANGED vars \/ Deregister \/ Register
        BY <1>4 DEF vars, interface, iteration, Deregister, Register, SteadyInv
  <1>5. ~BindInput /\ ~(\E e \in Types : AddInput(e)) /\ ~(\E o \in Outputs : AddOutput(o))
        BY DEF BindInput, AddInput, AddOutput, SteadyInv
  <1> QED BY <1>2, <1>3, <1>4, <1>5 DEF Next

(* A barrier whose interface is complete before it is used never ends the
   distributor, also when it is deregistered and registered again in the middle
   of a round: the run on added outputs needs the addition. *)
THEOREM SteadySurvives ==
  ASSUME ~MayAddInput, ~MayAddOutput
  PROVE  Spec => []DistributorSurvives
  <1>1. Init => SteadyInv
        BY DEF Init, SteadyInv
  <1>2. SteadyInv => DistributorSurvives
        BY DEF SteadyInv, DistributorSurvives
  <1> QED BY <1>1, <1>2, SteadyStep, PTL DEF Spec
=============================================================================
