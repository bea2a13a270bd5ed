------------------------------ MODULE Barrier ------------------------------
(***************************************************************************)
(* dera.core.Barrier: an actor that waits, per correlation identifier, for *)
(* one event of each of its input types and then publishes all its output  *)
(* types.  notified() runs on the distributor thread; addInput() and       *)
(* addOutput() may be called at any time by another thread, and the actor  *)
(* may be deregistered and registered again.                               *)
(*                                                                         *)
(* The input and output sets are synchronizedSets, whose iteration is not  *)
(* synchronized: an addition during the iteration makes the iterator throw *)
(* at its next element (ConcurrentModificationException).  On the          *)
(* distributor thread an exception is fatal.                               *)
(***************************************************************************)
CONSTANTS Types,         \* event types the barrier may await
          Outputs,       \* event types it may publish
          Correlations,  \* correlation identifiers
          InitialInput, InitialOutput,
          MayAddInput, MayAddOutput, MayReregister,
          None           \* no type, no correlation

ASSUME InterfaceAssumption == InitialInput \subseteq Types /\ InitialOutput \subseteq Outputs
ASSUME NoneAssumption == None \notin Types /\ None \notin Correlations
ASSUME SwitchAssumption == {MayAddInput, MayAddOutput, MayReregister} \subseteq BOOLEAN

VARIABLES
  input, output,  \* the sets of Action
  bound,          \* types of which the barrier is a consumer in the registry
  adding,         \* a type already in input and not yet bound
  left,           \* correlationIdToEventIds: what the open round still awaits
  pc,             \* where the distributor is in notified()
  event,          \* the event being handled, <<type, correlation>>
  seen,           \* the set being iterated, as it was when the iterator was made
  rest,           \* the outputs the iterator has not yet reached
  awaited,        \* history: what the open round awaited at its start
  got,            \* history: the types delivered since the last firing
  published       \* history: the outputs published in this firing

rounds == <<left, awaited, got>>
iteration == <<seen, rest, published>>
interface == <<input, output, bound, adding>>
vars == <<interface, rounds, pc, event, iteration>>

TypeOK ==
  /\ input \subseteq Types /\ output \subseteq Outputs /\ bound \subseteq Types
  /\ adding \in Types \cup {None}
  /\ left \in [Correlations -> SUBSET Types]
  /\ awaited \in [Correlations -> SUBSET Types]
  /\ got \in [Correlations -> SUBSET Types]
  /\ pc \in {"idle", "copying", "firing", "dead"}
  /\ event \in (Types \X Correlations) \cup {<<None, None>>}
  /\ seen \subseteq Types \cup Outputs
  /\ rest \subseteq Outputs /\ published \subseteq Outputs

Init ==
  /\ input = InitialInput /\ output = InitialOutput
  /\ bound = InitialInput /\ adding = None
  /\ left = [c \in Correlations |-> {}]
  /\ awaited = [c \in Correlations |-> {}]
  /\ got = [c \in Correlations |-> {}]
  /\ pc = "idle" /\ event = <<None, None>>
  /\ seen = {} /\ rest = {} /\ published = {}

-----------------------------------------------------------------------------
(* notified(), on the distributor. *)

(* Faulty variant: one set of awaited events for all correlations. *)
StrikeForAll(e, c, open) ==
  /\ left' = [d \in Correlations |-> open \ {e}]
  /\ IF open \ {e} = {}
       THEN pc' = "firing" /\ seen' = output /\ rest' = output
       ELSE pc' = "idle" /\ UNCHANGED <<seen, rest>>
  /\ published' = {}

(* Faulty variant: the entry is put back with its full set when it is empty. *)
StrikeRefills(e, c, open) ==
  /\ left' = [left EXCEPT ![c] = IF open \ {e} = {} THEN input ELSE open \ {e}]
  /\ IF open \ {e} = {}
       THEN pc' = "firing" /\ seen' = output /\ rest' = output
       ELSE pc' = "idle" /\ UNCHANGED <<seen, rest>>
  /\ published' = {}

(* The rest of updateBarrier(): the event is struck off the awaited ones; the
   barrier passes when none is left, and then the entry of the correlation is
   removed, here the same as an empty one. *)
Strike(e, c, open) ==
  /\ left' = [left EXCEPT ![c] = open \ {e}]
  /\ IF open \ {e} = {}
       THEN pc' = "firing" /\ seen' = output /\ rest' = output
       ELSE pc' = "idle" /\ UNCHANGED <<seen, rest>>
  /\ published' = {}

(* An event of a bound type is delivered; a correlation without awaited events
   begins a round with a fresh copy of the inputs. *)
Notified(e, c) ==
  /\ pc = "idle" /\ e \in bound
  /\ event' = <<e, c>>
  /\ got' = [got EXCEPT ![c] = @ \cup {e}]
  /\ IF left[c] = {}
       THEN pc' = "copying" /\ seen' = input /\ UNCHANGED <<left, rest, published>>
       ELSE Strike(e, c, left[c])
  /\ UNCHANGED <<interface, awaited>>

(* addAll(input) ends: the copy is what the iterator saw. *)
CopyEnds ==
  /\ pc = "copying"
  /\ Strike(event[1], event[2], seen)
  /\ awaited' = [awaited EXCEPT ![event[2]] = seen]
  /\ UNCHANGED <<interface, event, got>>

(* ... or it is cut short by an addition. *)
CopyThrows ==
  /\ pc = "copying" /\ input # seen /\ seen # {}
  /\ pc' = "dead"
  /\ UNCHANGED <<interface, rounds, event, iteration>>

(* Faulty variant: only one output is published. *)
PublishOnce ==
  /\ pc = "firing" /\ rest # {} /\ output = seen
  /\ \E o \in rest : published' = published \cup {o}
  /\ rest' = {}
  /\ UNCHANGED <<interface, rounds, pc, event, seen>>

(* publish(correlationId, attributes, getOutput()) *)
Publish ==
  /\ pc = "firing" /\ rest # {} /\ output = seen
  /\ \E o \in rest : published' = published \cup {o} /\ rest' = rest \ {o}
  /\ UNCHANGED <<interface, rounds, pc, event, seen>>

PublishThrows ==
  /\ pc = "firing" /\ rest # {} /\ output # seen
  /\ pc' = "dead"
  /\ UNCHANGED <<interface, rounds, event, iteration>>

(* notified() returns; the history of the round ends with it. *)
FireEnds ==
  /\ pc = "firing" /\ rest = {}
  /\ pc' = "idle"
  /\ awaited' = [awaited EXCEPT ![event[2]] = {}]
  /\ got' = [got EXCEPT ![event[2]] = {}]
  /\ UNCHANGED <<interface, left, event, iteration>>

-----------------------------------------------------------------------------
(* The interface changes, by calls of one other thread. *)

(* Faulty variant: a name that is null is not filtered out. *)
AddInputUnchecked(e) ==
  /\ MayAddInput /\ adding = None
  /\ \E n \in {e, None} : input' = input \cup {n} /\ adding' = n
  /\ UNCHANGED <<output, bound, rounds, pc, event, iteration>>

(* addInput(): the type enters the set ... *)
AddInput(e) ==
  /\ MayAddInput /\ adding = None
  /\ input' = input \cup {e}
  /\ adding' = e
  /\ UNCHANGED <<output, bound, rounds, pc, event, iteration>>

(* ... and then the domain binds it. *)
BindInput ==
  /\ adding # None
  /\ bound' = bound \cup {adding}
  /\ adding' = None
  /\ UNCHANGED <<input, output, rounds, pc, event, iteration>>

AddOutput(o) ==
  /\ MayAddOutput
  /\ output' = output \cup {o}
  /\ UNCHANGED <<input, bound, adding, rounds, pc, event, iteration>>

(* deregister() and register(): the open rounds stay as they are. *)
Deregister ==
  /\ MayReregister /\ adding = None /\ bound # {}
  /\ bound' = {}
  /\ UNCHANGED <<input, output, adding, rounds, pc, event, iteration>>

Register ==
  /\ MayReregister /\ adding = None /\ bound = {}
  /\ bound' = input
  /\ UNCHANGED <<input, output, adding, rounds, pc, event, iteration>>

-----------------------------------------------------------------------------
Return == CopyEnds \/ CopyThrows \/ Publish \/ PublishThrows \/ FireEnds

Next ==
  \/ \E e \in Types, c \in Correlations : Notified(e, c)
  \/ Return
  \/ \E e \in Types : AddInput(e)
  \/ \E o \in Outputs : AddOutput(o)
  \/ BindInput \/ Deregister \/ Register

(* The distributor goes on with a notified() it has begun. *)
Spec == Init /\ [][Next]_vars /\ WF_vars(Return)

-----------------------------------------------------------------------------
(* Properties. *)

(* What a round still awaits is what it awaited at its start, less what has
   been delivered since: nothing is struck off by another correlation, by a
   repetition or by a change of the inputs, and nothing is forgotten. *)
RemainderRight ==
  \A c \in Correlations : left[c] = awaited[c] \ got[c]

(* No early firing: while the barrier publishes, every event its round awaited
   has been delivered, for that correlation. *)
FiresOnlyWhenComplete == pc = "firing" => awaited[event[2]] \subseteq got[event[2]]

(* No missed firing: no round is left open once everything it awaited has
   been delivered. *)
NoCompleteRoundLeft ==
  pc = "idle" => \A c \in Correlations : awaited[c] # {} => ~(awaited[c] \subseteq got[c])

(* A firing that ends has published every output the barrier had at its start,
   and no other. *)
PublishesAll == [][FireEnds => published = seen]_vars

(* If events of every input, also of inputs added meanwhile, come again and
   again for a correlation, the barrier fires again and again for it. *)
KeepsFiring ==
  \A c \in Correlations :
    (\A e \in Types : []<>(e \in input => event = <<e, c>>)) => []<>(pc = "firing" /\ event[2] = c)

(* The barrier is an AND-join. *)
Join == INSTANCE AndJoin WITH
  awaited <- awaited,
  collected <- [c \in Correlations |-> awaited[c] \ left[c]]

ImplementsAndJoin == Join!Spec

(* DERA-theoretical-part.md:10: "actors' interfaces can be changed at any point in
   time": a change does not stop the distributor. *)
DistributorSurvives == pc # "dead"
=============================================================================
