------------------------ MODULE ApplicationInstances ------------------------
(***************************************************************************)
(* What the instances of the applications are, whoever adds and deletes    *)
(* applications meanwhile: an event creates at most one instance of each   *)
(* application it starts; an instance runs until a later event that ends   *)
(* its application completes all of them at once, and never runs again.    *)
(***************************************************************************)
EXTENDS Naturals

CONSTANTS Apps, Types, \* names of applications and of event types
          MaxEvents,   \* bound on the events
          None         \* no event, no instance

VARIABLES declared,     \* the names, each with a role and a type it was defined by
          handled, log, \* how many events there were, and their types
          state,        \* of each application, per event that may have created
                        \* an instance: the state of that instance
          kept          \* the instances an application still has

instanceVars == <<declared, handled, log, state, kept>>

Events == 1 .. MaxEvents

(* The current event is one by which the application was defined. *)
Current(a, role) == handled \in Events /\ <<a, <<role, log[handled]>>>> \in declared

InstancesInit ==
  /\ declared = {} /\ handled = 0
  /\ log = [n \in Events |-> None]
  /\ state = [a \in Apps |-> [n \in Events |-> None]]
  /\ kept = [a \in Apps |-> {}]

Defined(a) ==
  /\ declared \subseteq declared'
  /\ declared' \ declared \subseteq {a} \X ({"start", "end"} \X Types)
  /\ UNCHANGED <<handled, log, state, kept>>

Occurs(t) ==
  /\ handled + 1 \in Events
  /\ handled' = handled + 1 /\ log' = [log EXCEPT ![handled + 1] = t]
  /\ UNCHANGED <<declared, state, kept>>

Starts(a) ==
  /\ Current(a, "start") /\ state[a][handled] = None
  /\ state' = [state EXCEPT ![a][handled] = "RUNNING"]
  /\ kept' = [kept EXCEPT ![a] = @ \cup {handled}]
  /\ UNCHANGED <<declared, handled, log>>

(* An event that created an instance, of any application, ends none. *)
Ends(a) ==
  /\ Current(a, "end") /\ \A b \in Apps : state[b][handled] = None
  /\ state' = [state EXCEPT ![a] =
                 [n \in Events |-> IF n \in kept[a] /\ @[n] = "RUNNING" THEN "COMPLETED" ELSE @[n]]]
  /\ UNCHANGED <<declared, handled, log, kept>>

Forgets(a) ==
  /\ kept' = [kept EXCEPT ![a] = {}]
  /\ UNCHANGED <<declared, handled, log, state>>

InstancesNext ==
  \/ \E a \in Apps : Defined(a) \/ Starts(a) \/ Ends(a) \/ Forgets(a)
  \/ \E t \in Types : Occurs(t)

InstancesSpec == InstancesInit /\ [][InstancesNext]_instanceVars
=============================================================================
