------------------------ MODULE ApplicationManager ------------------------
(***************************************************************************)
(* dera.runtime.ApplicationManager with its ApplicationMonitor.  An        *)
(* application is a name with start and end events.  The monitor is an     *)
(* actor of high priority, so the distributor hands it every event: a      *)
(* start event creates an instance of each application it starts, an end   *)
(* event completes the running instances of each application it ends.      *)
(* Meanwhile other threads add and delete applications.                    *)
(*                                                                         *)
(* The maps are concurrent, but the sets of application names in them are  *)
(* plain HashSets: two additions that overlap may lose one of the two, and *)
(* an iteration that meets an addition throws, or does not.                *)
(***************************************************************************)
EXTENDS Naturals, FiniteSets

CONSTANTS Threads,      \* threads that add and delete applications
          Apps,         \* names of applications
          Types,        \* names of event types
          Definitions,  \* the definitions an application may be added with
          Operations,   \* the calls each thread makes: <<operation, application>>
          MaxEvents,    \* bound on the events the monitor is notified of
          None          \* no application, no set, no instance

(* An application's event types are given as pairs of a map and a key of it:
   startEventToAppId and endEventToAppId. *)
Keys == {"start", "end"} \X Types

Numbers == 1 .. MaxEvents

ASSUME DefinitionsAssumption == Definitions \in [Apps -> SUBSET SUBSET Keys]
ASSUME OperationsAssumption == Operations \in [Threads -> SUBSET ({"add", "delete"} \X Apps)]
ASSUME MaxEventsAssumption == MaxEvents \in Nat
ASSUME NoneAssumption ==
  /\ None \notin Apps \cup Types \cup {"RUNNING", "COMPLETED"}
  /\ \A S \in (SUBSET Apps) \cup (SUBSET Keys) \cup (SUBSET Numbers) : S # None

VARIABLES
  defined,   \* idToApplication: the definition of an application, or None
  matched,   \* the names a key of one of the two maps leads to, None if absent
  instances, \* appIdToInstance: the numbers of its instances, None if absent
  state,     \* the state of each instance ever created; an instance has the
             \* number of the event that created it
  pc,        \* where each thread is in its call
  call,      \* the call: operation, application and definition
  rest,      \* the keys yet to be visited
  at,        \* the key being visited
  holds,     \* the threads whose looked-up set is the one in the map
  met,       \* history: the threads whose call has met another one
  dpc,       \* where the distributor is in notified()
  log,       \* history: the types of the events notified so far
  handled,   \* how many those are
  todo,      \* the applications the distributor has yet to visit
  seen,      \* the set it iterates, as it was when the iteration began
  current,   \* the application it creates an instance of
  absent,    \* history: the applications it has not found
  declared,  \* history: the names and keys of every definition ever added
  orphaned   \* history: applications an instance was stored for while they
             \* were being deleted

maps == <<defined, matched, instances, state>>
admin == <<pc, call, rest, at, holds, met>>
monitor == <<dpc, log, handled, todo, seen, current, absent>>
vars == <<maps, admin, monitor, declared, orphaned>>

NoCall == [op |-> None, app |-> None, keys |-> {}]
AnyCall ==
  [op : {"add", "delete", None}, app : Apps \cup {None}, keys : SUBSET Keys]

NoKey == <<"start", None>>

TypeOK ==
  /\ defined \in [Apps -> (SUBSET Keys) \cup {None}]
  /\ matched \in [Keys -> (SUBSET Apps) \cup {None}]
  /\ instances \in [Apps -> (SUBSET Numbers) \cup {None}]
  /\ state \in [Apps -> [Numbers -> {"RUNNING", "COMPLETED", None}]]
  /\ pc \in [Threads -> {"idle", "check", "put", "loop", "create", "add",
                         "removeInstances", "removeApp"}]
  /\ call \in [Threads -> AnyCall]
  /\ rest \in [Threads -> SUBSET Keys] /\ at \in [Threads -> Keys \cup {NoKey}]
  /\ holds \subseteq Threads /\ met \subseteq Threads
  /\ dpc \in {"idle", "matchEnd", "start", "store", "end", "dead"}
  /\ handled \in 0 .. MaxEvents /\ log \in [Numbers -> Types \cup {None}]
  /\ todo \subseteq Apps /\ seen \subseteq Apps
  /\ current \in Apps \cup {None} /\ absent \subseteq Apps
  /\ declared \subseteq Apps \X Keys /\ orphaned \subseteq Apps

Init ==
  /\ defined = [a \in Apps |-> None] /\ matched = [k \in Keys |-> None]
  /\ instances = [a \in Apps |-> None]
  /\ state = [a \in Apps |-> [n \in Numbers |-> None]]
  /\ pc = [p \in Threads |-> "idle"] /\ call = [p \in Threads |-> NoCall]
  /\ rest = [p \in Threads |-> {}] /\ at = [p \in Threads |-> NoKey]
  /\ holds = {} /\ met = {}
  /\ dpc = "idle" /\ handled = 0 /\ log = [n \in Numbers |-> None]
  /\ todo = {} /\ seen = {} /\ current = None /\ absent = {}
  /\ declared = {} /\ orphaned = {}

-----------------------------------------------------------------------------
(* Adding an application. *)

Others(p) == {q \in Threads \ {p} : pc[q] # "idle"}

Begin(p, c, step) ==
  /\ pc[p] = "idle" /\ <<c.op, c.app>> \in Operations[p]
  /\ pc' = [pc EXCEPT ![p] = step] /\ call' = [call EXCEPT ![p] = c]
  /\ met' = met \cup Others(p) \cup (IF Others(p) = {} THEN {} ELSE {p})
  /\ UNCHANGED <<maps, rest, at, holds, monitor, declared, orphaned>>

BeginAdd(p) ==
  \E a \in Apps : \E d \in Definitions[a] :
    Begin(p, [op |-> "add", app |-> a, keys |-> d], "check")

(* The call returns; what it has not visited is forgotten. *)
Return(p) ==
  /\ pc' = [pc EXCEPT ![p] = "idle"] /\ call' = [call EXCEPT ![p] = NoCall]
  /\ rest' = [rest EXCEPT ![p] = {}] /\ at' = [at EXCEPT ![p] = NoKey]
  /\ holds' = holds \ {p} /\ met' = met \ {p}

Goto(p, step) ==
  pc' = [pc EXCEPT ![p] = step] /\ UNCHANGED <<call, rest, at, met>>

CheckApplication(p) ==
  /\ pc[p] = "check"
  /\ IF defined[call[p].app] # None
       THEN Return(p)
       ELSE Goto(p, "put") /\ UNCHANGED holds
  /\ UNCHANGED <<maps, monitor, declared, orphaned>>

PutApplication(p) ==
  /\ pc[p] = "put"
  /\ defined' = [defined EXCEPT ![call[p].app] = call[p].keys]
  /\ declared' = declared \cup ({call[p].app} \X call[p].keys)
  /\ pc' = [pc EXCEPT ![p] = "loop"]
  /\ rest' = [rest EXCEPT ![p] = call[p].keys]
  /\ UNCHANGED <<matched, instances, state, call, at, holds, met, monitor, orphaned>>

(* The next key: those of the start events come first. *)
LookUp(p) ==
  /\ pc[p] = "loop"
  /\ \E k \in rest[p] :
       /\ k[1] = "end" => \A l \in rest[p] : l[1] = "end"
       /\ at' = [at EXCEPT ![p] = k]
       /\ pc' = [pc EXCEPT ![p] = IF matched[k] = None THEN "create" ELSE "add"]
  /\ holds' = holds \cup {p}
  /\ UNCHANGED <<maps, call, rest, met, monitor, declared, orphaned>>

(* "first time?": a new set takes the place of what is in the map by now. *)
CreateSet(p) ==
  /\ pc[p] = "create"
  /\ matched' = [matched EXCEPT ![at[p]] = {}]
  /\ holds' = (holds \ {q \in Threads : at[q] = at[p] /\ pc[q] # "create"}) \cup {p}
  /\ Goto(p, "add")
  /\ UNCHANGED <<defined, instances, state, monitor, declared, orphaned>>

(* HashSet.add() may undo what another thread that is in it with the same set
   has added, or be undone by it. *)
Overlapped(p) ==
  \E q \in Threads \ {p} : pc[q] = "add" /\ at[q] = at[p] /\ {p, q} \subseteq holds

AddId(p) ==
  /\ pc[p] = "add"
  /\ \E kept \in {TRUE, ~Overlapped(p)} :
       matched' = IF p \in holds /\ kept
                    THEN [matched EXCEPT ![at[p]] = @ \cup {call[p].app}]
                    ELSE matched
  /\ pc' = [pc EXCEPT ![p] = "loop"] /\ rest' = [rest EXCEPT ![p] = @ \ {at[p]}]
  /\ at' = [at EXCEPT ![p] = NoKey] /\ holds' = holds \ {p}
  /\ UNCHANGED <<defined, instances, state, call, met, monitor, declared, orphaned>>

(* Faulty variant: addApplication() returns after the start events. *)
AddEndsEarly(p) ==
  /\ pc[p] = "loop" /\ \A k \in rest[p] : k[1] = "end"
  /\ Return(p)
  /\ UNCHANGED <<maps, monitor, declared, orphaned>>

AddEnds(p) ==
  /\ pc[p] = "loop" /\ rest[p] = {}
  /\ Return(p)
  /\ UNCHANGED <<maps, monitor, declared, orphaned>>

-----------------------------------------------------------------------------
(* Deleting an application: its name stays under the keys it was added to. *)

BeginDelete(p) ==
  \E a \in Apps :
    Begin(p, [op |-> "delete", app |-> a, keys |-> {}], "removeInstances")

(* Faulty variant: the instances are kept. *)
RemoveInstancesNot(p) ==
  /\ pc[p] = "removeInstances"
  /\ Goto(p, "removeApp")
  /\ UNCHANGED <<maps, holds, monitor, declared, orphaned>>

RemoveInstances(p) ==
  /\ pc[p] = "removeInstances"
  /\ instances' = [instances EXCEPT ![call[p].app] = None]
  /\ Goto(p, "removeApp")
  /\ UNCHANGED <<defined, matched, state, holds, monitor, declared, orphaned>>

RemoveApp(p) ==
  /\ pc[p] = "removeApp"
  /\ defined' = [defined EXCEPT ![call[p].app] = None]
  /\ Return(p)
  /\ UNCHANGED <<matched, instances, state, monitor, declared, orphaned>>

-----------------------------------------------------------------------------
(* The monitor, on the distributor thread. *)

Key == IF handled = 0 THEN NoKey
       ELSE <<IF dpc \in {"end", "matchEnd"} THEN "end" ELSE "start", log[handled]>>

(* notified() returns; what it knew of the event is forgotten. *)
Leave(step) ==
  dpc' = step /\ todo' = {} /\ seen' = {} /\ absent' = {}

Iterate(key, step) ==
  /\ todo' = matched[key] /\ seen' = matched[key]
  /\ dpc' = step

(* The next event: an event that starts an application ends none. *)
Notified(t) ==
  /\ dpc = "idle" /\ handled < MaxEvents
  /\ handled' = handled + 1 /\ log' = [log EXCEPT ![handled + 1] = t]
  /\ IF matched[<<"start", t>>] # None
       THEN Iterate(<<"start", t>>, "start")
       ELSE dpc' = "matchEnd" /\ UNCHANGED <<todo, seen>>
  /\ UNCHANGED <<maps, admin, current, absent, declared, orphaned>>

MatchEnd ==
  /\ dpc = "matchEnd"
  /\ IF matched[Key] # None
       THEN Iterate(Key, "end") /\ UNCHANGED absent
       ELSE Leave("idle")
  /\ UNCHANGED <<maps, admin, log, handled, current, declared, orphaned>>

(* ConcurrentModificationException: a name was added to the set, or whoever
   replaced it left somebody adding to it.  Nobody catches it, and the
   distributor ends. *)
IterationThrows ==
  /\ dpc \in {"start", "end"} /\ todo # {} /\ matched[Key] # seen
  /\ Leave("dead")
  /\ UNCHANGED <<maps, admin, log, handled, current, declared, orphaned>>

(* Faulty variant: an application that is not there ends the loop. *)
FindApplicationStops(a) ==
  /\ dpc = "start" /\ a \in todo
  /\ IF defined[a] # None
       THEN todo' = todo \ {a} /\ dpc' = "store" /\ current' = a /\ UNCHANGED absent
       ELSE todo' = {} /\ absent' = absent \cup {a} /\ UNCHANGED <<dpc, current>>
  /\ UNCHANGED <<maps, admin, log, handled, seen, declared, orphaned>>

(* createInstance(): nothing for an application that is not there.  The channel
   gives every event a correlation identifier, so that the check for one always
   succeeds. *)
FindApplication(a) ==
  /\ dpc = "start" /\ a \in todo
  /\ todo' = todo \ {a}
  /\ IF defined[a] # None
       THEN dpc' = "store" /\ current' = a /\ UNCHANGED absent
       ELSE absent' = absent \cup {a} /\ UNCHANGED <<dpc, current>>
  /\ UNCHANGED <<maps, admin, log, handled, seen, declared, orphaned>>

(* Faulty variant: instances are counted from zero. *)
StoreInstanceFromZero ==
  /\ dpc = "store"
  /\ state' = [state EXCEPT ![current][handled] = "RUNNING"]
  /\ instances' = [instances EXCEPT ![current] = (IF @ = None THEN {} ELSE @) \cup {handled - 1}]
  /\ dpc' = "start" /\ current' = None
  /\ UNCHANGED <<defined, matched, admin, log, handled, todo, seen, absent, declared, orphaned>>

(* The rest of createInstance().  Only the distributor adds instances, so that
   looking up or creating the set and adding to it is one step. *)
StoreInstance ==
  /\ dpc = "store"
  /\ state' = [state EXCEPT ![current][handled] = "RUNNING"]
  /\ instances' = [instances EXCEPT ![current] = (IF @ = None THEN {} ELSE @) \cup {handled}]
  /\ orphaned' = IF \/ defined[current] = None
                    \/ \E p \in Threads : pc[p] = "removeApp" /\ call[p].app = current
                   THEN orphaned \cup {current} ELSE orphaned
  /\ dpc' = "start" /\ current' = None
  /\ UNCHANGED <<defined, matched, admin, log, handled, todo, seen, absent, declared>>

(* Faulty variant: only one instance is completed. *)
CompleteOne(a) ==
  /\ dpc = "end" /\ a \in todo
  /\ todo' = todo \ {a}
  /\ IF instances[a] \in {None, {}} THEN UNCHANGED state
     ELSE \E n \in instances[a] : state' = [state EXCEPT ![a][n] = "COMPLETED"]
  /\ UNCHANGED <<defined, matched, instances, admin, dpc, log, handled, seen,
                 current, absent, declared, orphaned>>

(* Faulty variant: the end event of any application completes every one. *)
CompleteEverywhere(a) ==
  /\ dpc = "end" /\ a \in todo
  /\ todo' = todo \ {a}
  /\ state' = [b \in Apps |-> [n \in Numbers |->
                 IF state[b][n] = "RUNNING" THEN "COMPLETED" ELSE state[b][n]]]
  /\ UNCHANGED <<defined, matched, instances, admin, dpc, log, handled, seen,
                 current, absent, declared, orphaned>>

(* Every running instance of the application ends, whatever its correlation. *)
CompleteInstances(a) ==
  /\ dpc = "end" /\ a \in todo
  /\ todo' = todo \ {a}
  /\ state' = [state EXCEPT ![a] = [n \in Numbers |->
                 IF instances[a] # None /\ n \in instances[a] /\ state[a][n] = "RUNNING"
                   THEN "COMPLETED" ELSE state[a][n]]]
  /\ UNCHANGED <<defined, matched, instances, admin, dpc, log, handled, seen,
                 current, absent, declared, orphaned>>

NotifiedEnds ==
  /\ dpc \in {"start", "end"} /\ todo = {}
  /\ Leave("idle")
  /\ UNCHANGED <<maps, admin, log, handled, current, declared, orphaned>>

-----------------------------------------------------------------------------
MonitorStep ==
  \/ MatchEnd \/ IterationThrows \/ StoreInstance \/ NotifiedEnds
  \/ \E a \in Apps : FindApplication(a) \/ CompleteInstances(a)

AdminStep(p) ==
  \/ BeginAdd(p) \/ CheckApplication(p) \/ PutApplication(p) \/ LookUp(p) \/ CreateSet(p)
  \/ AddId(p) \/ AddEnds(p)
  \/ BeginDelete(p) \/ RemoveInstances(p) \/ RemoveApp(p)

Next ==
  \/ MonitorStep
  \/ \E t \in Types : Notified(t)
  \/ \E p \in Threads : AdminStep(p)

Spec == Init /\ [][Next]_vars

-----------------------------------------------------------------------------
(* Properties. *)

(* An application is only matched by an event type that some definition added
   under its name gave in that role; an instance exists only if the event of
   its number was such a start event, and is completed only if such an end
   event came after.  The names that deleteApplication() leaves in the maps, and
   two definitions added under one name at the same time, do not break this. *)
MatchedAsDeclared ==
  \A k \in Keys : matched[k] # None => \A a \in matched[k] : <<a, k>> \in declared

InstancesJustified ==
  \A a \in Apps, n \in Numbers : state[a][n] # None =>
    /\ <<a, <<"start", log[n]>>>> \in declared
    /\ state[a][n] = "COMPLETED" =>
         \E m \in Numbers : n < m /\ m <= handled /\ <<a, <<"end", log[m]>>>> \in declared

(* The same of every step: to its users the manager keeps instances that are
   created at most once per event, end all at once and never run again. *)
Lives == INSTANCE ApplicationInstances WITH
  kept <- [a \in Apps |-> IF instances[a] = None THEN {} ELSE instances[a]]

ImplementsInstances == Lives!InstancesSpec

(* addApplication() that met no other call leaves its application matched by all
   its start and end events, whatever calls came before. *)
AddTakesEffect ==
  [][\A p \in Threads :
       pc[p] = "loop" /\ pc'[p] = "idle" /\ p \notin met
         => \A k \in call[p].keys : matched'[k] # None /\ call[p].app \in matched'[k]]_vars

(* When the monitor is done with an end event, no instance that a visited
   application still has is running, even if applications were added and
   deleted while it iterated. *)
EndCompletesAll ==
  [][dpc = "end" /\ dpc' = "idle"
       => \A a \in seen : instances[a] # None =>
            \A n \in instances[a] : state[a][n] # "RUNNING"]_vars

(* A deleted application leaves no instances behind for one added later under
   its name, unless the monitor stored one during the deletion. *)
DeletedLeavesNothing ==
  \A a \in Apps \ orphaned :
    (/\ defined[a] = None
     /\ ~\E p \in Threads : pc[p] = "removeApp" /\ call[p].app = a)
    => instances[a] = None

(* When the monitor is done with a start event, every application it visited
   and found has a running instance of it: the names that deleted applications
   leave in the set keep none of the others from starting, and nor does what is
   added and deleted while the monitor iterates. *)
StartCreatesAll ==
  [][dpc = "start" /\ dpc' = "idle"
       => \A a \in seen \ absent : state[a][handled] = "RUNNING"]_vars
=============================================================================
