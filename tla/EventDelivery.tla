---------------------------- MODULE EventDelivery ----------------------------
(***************************************************************************)
(* What the actors of a domain may rely on, wherever events wait and       *)
(* whichever threads publish them: nobody is notified of an effect before  *)
(* its cause, of any event before the actors of high priority are, or of   *)
(* what nobody had a reason to publish.  That an event is delivered at all *)
(* is not promised.                                                        *)
(***************************************************************************)
CONSTANTS Actors, Publishers, \* who is notified, and who publishes of its own accord
          Inputs,             \* what each actor consumes: types, or by priority
          High, Low,          \* the two inputs that stand for every event
          Types,              \* the event types there are at first
          None                \* the cause of an event that has none

VARIABLES types,  \* the event types that exist
          sent,   \* the events published so far
          got     \* the events each actor was notified of

deliveryVars == <<types, sent, got>>

Consumes(a, e) == Inputs[a] \cap {High, e.type, Low} # {}

(* Who has to be notified of an event: those that consume its type may miss it
   if the type is removed. *)
Due(a, e) == Inputs[a] \cap ({High, Low} \cup ({e.type} \cap types)) # {}

DeliveredToFirst(e) == \A a \in Actors : High \in Inputs[a] => e \in got[a]

DeliveryInit == types = Types /\ sent = {} /\ got = [a \in Actors |-> {}]

(* An actor publishes because of an event it was notified of, after those of
   high priority, and passes its correlation identifier on. *)
Publish ==
  /\ \E e \in sent' \ sent :
       /\ sent' = sent \cup {e}
       /\ \/ e.by \in Publishers /\ e.cause = None
          \/ /\ e.by \in Actors /\ e.cause \in got[e.by] /\ DeliveredToFirst(e.cause)
             /\ e.corr = e.cause.corr
  /\ UNCHANGED <<types, got>>

Deliver(a) ==
  /\ \E e \in sent \ got[a] :
       /\ Consumes(a, e)
       /\ High \notin Inputs[a] => DeliveredToFirst(e)
       /\ e.cause # None /\ Due(a, e.cause) => e.cause \in got[a]
       /\ got' = [got EXCEPT ![a] = @ \cup {e}]
  /\ UNCHANGED <<types, sent>>

Remove(t) == types' = types \ {t} /\ UNCHANGED <<sent, got>>

DeliveryNext ==
  \/ Publish
  \/ \E a \in Actors : Deliver(a)
  \/ \E t \in types : Remove(t)

DeliverySpec == DeliveryInit /\ [][DeliveryNext]_deliveryVars
=============================================================================
