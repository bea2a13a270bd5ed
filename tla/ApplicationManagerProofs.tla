--------------------- MODULE ApplicationManagerProofs ---------------------
(***************************************************************************)
(* Theorems about ApplicationManager, for any number of threads,           *)
(* applications, event types and events.  TypeInv adds to the types what a *)
(* call and the monitor know of what they read earlier; the other          *)
(* invariants are inductive relative to it.                                *)
(***************************************************************************)
EXTENDS ApplicationManager, TLAPS

Busy == {"matchEnd", "start", "store", "end"}

CallKnows(p) ==
  /\ pc[p] # "idle" => call[p].app \in Apps
  /\ pc[p] \in {"create", "add"} => at[p] \in rest[p]
  /\ pc[p] = "add" /\ p \in holds => matched[at[p]] \in SUBSET Apps

CallsKnow == \A p \in Threads : CallKnows(p)

MonitorKnows ==
  /\ dpc \in Busy => handled \in Numbers /\ log[handled] \in Types
  /\ dpc = "store" => current \in Apps

TypeInv == TypeOK /\ CallsKnow /\ MonitorKnows

MapsType ==
  /\ defined \in [Apps -> (SUBSET Keys) \cup {None}]
  /\ matched \in [Keys -> (SUBSET Apps) \cup {None}]
  /\ instances \in [Apps -> (SUBSET Numbers) \cup {None}]
  /\ state \in [Apps -> [Numbers -> {"RUNNING", "COMPLETED", None}]]

AdminType ==
  /\ pc \in [Threads -> {"idle", "check", "put", "loop", "create", "add",
                         "removeInstances", "removeApp"}]
  /\ call \in [Threads -> AnyCall]
  /\ rest \in [Threads -> SUBSET Keys] /\ at \in [Threads -> Keys \cup {NoKey}]
  /\ holds \subseteq Threads /\ met \subseteq Threads

-----------------------------------------------------------------------------
(* The steps of an administrating thread. *)

LEMMA CallTypes ==
  ASSUME DefinitionsAssumption
  PROVE  /\ NoCall \in AnyCall
         /\ \A a \in Apps : \A d \in Definitions[a] : [op |-> "add", app |-> a, keys |-> d] \in AnyCall
         /\ \A a \in Apps : [op |-> "delete", app |-> a, keys |-> {}] \in AnyCall
BY DEF DefinitionsAssumption, NoCall, AnyCall

LEMMA BeginTypes ==
  ASSUME TypeInv, NEW p \in Threads, NEW c \in AnyCall, c.app \in Apps,
         NEW step \in {"check", "removeInstances"}, Begin(p, c, step)
  PROVE  TypeInv'
<1>1. AdminType'
  BY DEF Begin, TypeInv, TypeOK, AdminType, Others
<1>2. TypeOK'
  BY <1>1 DEF Begin, TypeInv, TypeOK, AdminType, maps, monitor
<1>3. CallsKnow'
  BY DEF Begin, TypeInv, TypeOK, CallsKnow, CallKnows, maps
<1>4. MonitorKnows'
  BY DEF Begin, TypeInv, MonitorKnows, monitor
<1> QED
  BY <1>2, <1>3, <1>4 DEF TypeInv

LEMMA ReturnTypes ==
  ASSUME DefinitionsAssumption, TypeInv, NEW p \in Threads, Return(p)
  PROVE  AdminType' /\ (matched' = matched => CallsKnow')
<1>1. AdminType'
  BY CallTypes DEF Return, TypeInv, TypeOK, AdminType
<1>2. ASSUME matched' = matched PROVE CallsKnow'
  BY <1>2 DEF Return, TypeInv, TypeOK, CallsKnow, CallKnows
<1> QED
  BY <1>1, <1>2

LEMMA AdminTypes ==
  ASSUME DefinitionsAssumption, TypeInv, NEW p \in Threads, AdminStep(p)
  PROVE  TypeInv'
<1> USE DEF TypeInv
<1>1. CASE BeginAdd(p)
  <2> PICK a \in Apps : \E d \in Definitions[a] :
           Begin(p, [op |-> "add", app |-> a, keys |-> d], "check")
    BY <1>1 DEF BeginAdd
  <2> QED
    BY CallTypes, BeginTypes
<1>2. CASE BeginDelete(p)
  <2> PICK a \in Apps : Begin(p, [op |-> "delete", app |-> a, keys |-> {}], "removeInstances")
    BY <1>2 DEF BeginDelete
  <2> QED
    BY CallTypes, BeginTypes
<1>3. CASE CheckApplication(p)
  <2>1. AdminType' /\ CallsKnow'
    <3>1. CASE Return(p)
      BY <1>3, <3>1, ReturnTypes DEF CheckApplication, maps
    <3>2. CASE Goto(p, "put") /\ UNCHANGED holds
      BY <1>3, <3>2 DEF CheckApplication, Goto, TypeOK, AdminType, CallsKnow, CallKnows, maps
    <3> QED
      BY <1>3, <3>1, <3>2 DEF CheckApplication
  <2> QED
    BY <1>3, <2>1 DEF CheckApplication, TypeOK, AdminType, MonitorKnows, maps, monitor
<1>4. CASE PutApplication(p)
  <2>1. call[p] \in AnyCall /\ call[p].app \in Apps /\ call[p].keys \in SUBSET Keys
    BY <1>4 DEF PutApplication, TypeOK, CallsKnow, CallKnows, AnyCall
  <2>2. TypeOK'
    BY <1>4, <2>1 DEF PutApplication, TypeOK, monitor
  <2>3. CallsKnow'
    BY <1>4 DEF PutApplication, TypeOK, CallsKnow, CallKnows
  <2>4. MonitorKnows'
    BY <1>4 DEF PutApplication, MonitorKnows, monitor
  <2> QED
    BY <2>2, <2>3, <2>4
<1>5. CASE LookUp(p)
  <2> PICK k \in rest[p] :
         /\ at' = [at EXCEPT ![p] = k]
         /\ pc' = [pc EXCEPT ![p] = IF matched[k] = None THEN "create" ELSE "add"]
    BY <1>5 DEF LookUp
  <2>1. k \in Keys
    BY DEF TypeOK
  <2>2. TypeOK'
    BY <1>5, <2>1 DEF LookUp, TypeOK, maps, monitor
  <2>3. CallsKnow'
    BY <1>5, <2>1 DEF LookUp, TypeOK, CallsKnow, CallKnows, maps
  <2>4. MonitorKnows'
    BY <1>5 DEF LookUp, MonitorKnows, monitor
  <2> QED
    BY <2>2, <2>3, <2>4
<1>6. CASE CreateSet(p)
  <2>1. at[p] \in Keys
    BY <1>6 DEF CreateSet, TypeOK, CallsKnow, CallKnows
  <2>2. TypeOK'
    BY <1>6, <2>1 DEF CreateSet, Goto, TypeOK, monitor
  <2>3. CallsKnow'
    BY <1>6, <2>1 DEF CreateSet, Goto, TypeOK, CallsKnow, CallKnows
  <2>4. MonitorKnows'
    BY <1>6 DEF CreateSet, MonitorKnows, monitor
  <2> QED
    BY <2>2, <2>3, <2>4
<1>7. CASE AddId(p)
  <2>1. at[p] \in Keys /\ call[p].app \in Apps
    BY <1>7 DEF AddId, TypeOK, CallsKnow, CallKnows
  <2>2. matched' = matched \/ ( /\ p \in holds
                               /\ matched' = [matched EXCEPT ![at[p]] = @ \cup {call[p].app}])
    BY <1>7 DEF AddId
  <2>3. p \in holds => matched[at[p]] \in SUBSET Apps
    BY <1>7 DEF AddId, CallsKnow, CallKnows
  <2>4. matched' \in [Keys -> (SUBSET Apps) \cup {None}]
    BY <2>1, <2>2, <2>3 DEF TypeOK
  <2>5. TypeOK'
    BY <1>7, <2>4 DEF AddId, TypeOK, monitor
  <2>6. \A k \in Keys : matched[k] \in SUBSET Apps => matched'[k] \in SUBSET Apps
    BY <2>1, <2>2, <2>3 DEF TypeOK
  <2>7. CallsKnow'
    BY <1>7, <2>6 DEF AddId, TypeOK, CallsKnow, CallKnows
  <2>8. MonitorKnows'
    BY <1>7 DEF AddId, MonitorKnows, monitor
  <2> QED
    BY <2>5, <2>7, <2>8
<1>8. CASE AddEnds(p)
  BY <1>8, ReturnTypes DEF AddEnds, TypeOK, AdminType, MonitorKnows, maps, monitor
<1>9. CASE RemoveInstances(p)
  <2>1. TypeOK'
    BY <1>9 DEF RemoveInstances, Goto, TypeOK, monitor
  <2>2. CallsKnow' /\ MonitorKnows'
    BY <1>9 DEF RemoveInstances, Goto, TypeOK, CallsKnow, CallKnows, MonitorKnows, monitor
  <2> QED
    BY <2>1, <2>2
<1>10. CASE RemoveApp(p)
  <2>1. defined' \in [Apps -> (SUBSET Keys) \cup {None}]
    BY <1>10 DEF RemoveApp, TypeOK
  <2> QED
    BY <1>10, <2>1, ReturnTypes DEF RemoveApp, TypeOK, AdminType, MonitorKnows, monitor
<1> QED
  BY <1>1, <1>2, <1>3, <1>4, <1>5, <1>6, <1>7, <1>8, <1>9, <1>10 DEF AdminStep

-----------------------------------------------------------------------------
(* The steps of the monitor. *)

LEMMA KeyTypes ==
  ASSUME MaxEventsAssumption, TypeInv, dpc \in Busy
  PROVE  /\ Key \in Keys /\ handled # 0
         /\ Key[2] = log[handled]
         /\ dpc \in {"start", "store"} => Key = <<"start", log[handled]>>
         /\ dpc \in {"matchEnd", "end"} => Key = <<"end", log[handled]>>
BY DEF MaxEventsAssumption, TypeInv, MonitorKnows, Busy, Key, Keys, Numbers

MonitorType ==
  /\ dpc \in {"idle", "matchEnd", "start", "store", "end", "dead"}
  /\ handled \in 0 .. MaxEvents /\ log \in [Numbers -> Types \cup {None}]
  /\ todo \subseteq Apps /\ seen \subseteq Apps
  /\ current \in Apps \cup {None} /\ absent \subseteq Apps

LEMMA MonitorOnly ==
  ASSUME TypeInv, MonitorType', MonitorKnows', UNCHANGED <<maps, admin, declared, orphaned>>
  PROVE  TypeInv'
BY DEF TypeInv, TypeOK, MonitorType, CallsKnow, CallKnows, maps, admin

LEMMA NotifiedTypes ==
  ASSUME MaxEventsAssumption, TypeInv, NEW t \in Types, Notified(t)
  PROVE  TypeInv'
<1>1. handled + 1 \in Numbers /\ handled' = handled + 1 /\ log'[handled + 1] = t
  BY DEF Notified, TypeInv, TypeOK, MaxEventsAssumption, Numbers
<1>2. <<"start", t>> \in Keys
  BY DEF Keys
<1>3. MonitorType'
  BY <1>1, <1>2 DEF Notified, Iterate, TypeInv, TypeOK, MonitorType, maps, Numbers
<1>4. MonitorKnows'
  BY <1>1 DEF Notified, Iterate, MonitorKnows, Busy
<1> QED
  BY <1>3, <1>4, MonitorOnly DEF Notified

LEMMA MonitorTypes ==
  ASSUME MaxEventsAssumption, TypeInv, MonitorStep
  PROVE  TypeInv'
<1> USE DEF TypeInv, TypeOK, MonitorType, MonitorKnows, Busy
<1>1. CASE MatchEnd
  <2>1. Key \in Keys
    BY <1>1, KeyTypes DEF MatchEnd
  <2> QED
    BY <1>1, <2>1, MonitorOnly DEF MatchEnd, Iterate, Leave
<1>2. CASE IterationThrows
  BY <1>2, MonitorOnly DEF IterationThrows, Leave
<1>3. CASE NotifiedEnds
  BY <1>3, MonitorOnly DEF NotifiedEnds, Leave
<1>4. ASSUME NEW a \in Apps, FindApplication(a) PROVE TypeInv'
  BY <1>4, MonitorOnly DEF FindApplication
<1>5. CASE StoreInstance
  <2>1. current \in Apps /\ handled \in Numbers
    BY <1>5 DEF StoreInstance
  <2>2. state' \in [Apps -> [Numbers -> {"RUNNING", "COMPLETED", None}]]
    BY <1>5, <2>1 DEF StoreInstance
  <2>3. instances' \in [Apps -> (SUBSET Numbers) \cup {None}]
    BY <1>5, <2>1 DEF StoreInstance
  <2>4. CallsKnow'
    BY <1>5 DEF StoreInstance, CallsKnow, CallKnows, admin
  <2>5. orphaned' \subseteq Apps
    BY <1>5, <2>1 DEF StoreInstance
  <2>6. TypeOK'
    BY <1>5, <2>1, <2>2, <2>3, <2>5 DEF StoreInstance, admin
  <2> QED
    BY <1>5, <2>4, <2>6 DEF StoreInstance
<1>6. ASSUME NEW a \in Apps, CompleteInstances(a) PROVE TypeInv'
  <2>1. state' \in [Apps -> [Numbers -> {"RUNNING", "COMPLETED", None}]]
    BY <1>6 DEF CompleteInstances
  <2>2. CallsKnow'
    BY <1>6 DEF CompleteInstances, CallsKnow, CallKnows, admin
  <2>3. TypeOK'
    BY <1>6, <2>1 DEF CompleteInstances, admin
  <2> QED
    BY <1>6, <2>2, <2>3 DEF CompleteInstances
<1> QED
  BY <1>1, <1>2, <1>3, <1>4, <1>5, <1>6 DEF MonitorStep

-----------------------------------------------------------------------------
LEMMA InitTypes ==
  ASSUME MaxEventsAssumption, Init
  PROVE  TypeInv
BY DEF MaxEventsAssumption, Init, TypeInv, TypeOK, CallsKnow, CallKnows, MonitorKnows, Busy,
       NoCall, AnyCall

LEMMA StutterTypes ==
  ASSUME TypeInv, UNCHANGED vars
  PROVE  TypeInv'
BY DEF TypeInv, TypeOK, CallsKnow, CallKnows, MonitorKnows, vars, maps, admin, monitor

(* The variables keep their types, and what the calls and the monitor have read
   is still what they act on: a thread adds a name only to a set that exists. *)
THEOREM TypesKept == Spec => []TypeInv
<1>1. Init => TypeInv
  BY InitTypes, MaxEventsAssumption
<1>2. TypeInv /\ [Next]_vars => TypeInv'
  BY AdminTypes, NotifiedTypes, MonitorTypes, StutterTypes, MaxEventsAssumption,
     DefinitionsAssumption DEF Next
<1> QED
  BY <1>1, <1>2, PTL DEF Spec

THEOREM TypeCorrect == Spec => []TypeOK
<1>1. TypeInv => TypeOK
  BY DEF TypeInv
<1> QED
  BY <1>1, TypesKept, PTL

-----------------------------------------------------------------------------
(* What the steps of the one side leave alone of the other's. *)

LEMMA AdminFrame ==
  ASSUME TypeInv, NEW p \in Threads, AdminStep(p)
  PROVE  /\ UNCHANGED <<monitor, state, orphaned>> /\ declared \subseteq declared'
         /\ \A a \in Apps : instances'[a] = instances[a] \/ instances'[a] = None
<1> USE DEF TypeInv, TypeOK, maps, monitor
<1>1. CASE BeginAdd(p)
  BY <1>1 DEF BeginAdd, Begin
<1>2. CASE BeginDelete(p)
  BY <1>2 DEF BeginDelete, Begin
<1>3. CASE RemoveInstances(p)
  BY <1>3 DEF RemoveInstances
<1> QED
  BY <1>1, <1>2, <1>3 DEF AdminStep, CheckApplication, PutApplication, LookUp, CreateSet,
     AddId, AddEnds, RemoveApp

LEMMA MonitorFrame ==
  ASSUME MonitorStep \/ \E t \in Types : Notified(t)
  PROVE  UNCHANGED <<admin, defined, matched, declared>>
BY DEF MonitorStep, Notified, MatchEnd, IterationThrows, StoreInstance, NotifiedEnds,
       FindApplication, CompleteInstances, maps

-----------------------------------------------------------------------------
(* Whatever is matched, or about to be, was declared. *)

CallsDeclared ==
  \A p \in Threads : pc[p] \in {"loop", "create", "add"}
    => \A k \in rest[p] : <<call[p].app, k>> \in declared

MonitorDeclared ==
  /\ dpc \in {"start", "store"} => \A a \in todo : <<a, <<"start", log[handled]>>>> \in declared
  /\ dpc = "store" => <<current, <<"start", log[handled]>>>> \in declared
  /\ dpc = "end" => \A a \in todo : <<a, <<"end", log[handled]>>>> \in declared

DeclaredInv == MatchedAsDeclared /\ CallsDeclared /\ MonitorDeclared

LEMMA AdminDeclared ==
  ASSUME NoneAssumption, TypeInv, DeclaredInv, NEW p \in Threads, AdminStep(p)
  PROVE  DeclaredInv'
<1>1. MonitorDeclared'
  BY AdminFrame DEF DeclaredInv, MonitorDeclared, monitor
<1>2. MatchedAsDeclared' /\ CallsDeclared'
  <2> USE DEF TypeInv, TypeOK, DeclaredInv, MatchedAsDeclared, CallsDeclared, Return, Goto, maps
  <2>1. CASE BeginAdd(p)
    BY <2>1 DEF BeginAdd, Begin
  <2>2. CASE BeginDelete(p)
    BY <2>2 DEF BeginDelete, Begin
  <2>3. CASE CheckApplication(p)
    BY <2>3 DEF CheckApplication
  <2>4. CASE PutApplication(p)
    BY <2>4 DEF PutApplication
  <2>5. CASE LookUp(p)
    BY <2>5 DEF LookUp
  <2>6. CASE CreateSet(p)
    BY <2>6 DEF CreateSet
  <2>7. CASE AddId(p)
    <3>1. <<call[p].app, at[p]>> \in declared /\ at[p] \in Keys
      BY <2>7 DEF AddId, CallsKnow, CallKnows
    <3>2. p \in holds => matched[at[p]] \in SUBSET Apps /\ matched[at[p]] # None
      BY <2>7 DEF AddId, CallsKnow, CallKnows, NoneAssumption
    <3>3. matched' = matched \/ ( /\ p \in holds
                                 /\ matched' = [matched EXCEPT ![at[p]] = @ \cup {call[p].app}])
      BY <2>7 DEF AddId
    <3>4. UNCHANGED declared
      BY <2>7 DEF AddId
    <3>5. MatchedAsDeclared'
      <4>1. CASE matched' = matched
        BY <3>4, <4>1
      <4>2. CASE p \in holds /\ matched' = [matched EXCEPT ![at[p]] = @ \cup {call[p].app}]
        <5>1. ASSUME NEW k \in Keys, matched'[k] # None, NEW a \in matched'[k]
              PROVE  <<a, k>> \in declared
          <6>1. CASE k = at[p]
            <7>1. matched'[k] = matched[k] \cup {call[p].app} /\ matched[k] # None
              BY <3>1, <3>2, <4>2, <6>1
            <7> QED
              BY <3>1, <5>1, <6>1, <7>1
          <6>2. CASE k # at[p]
            BY <4>2, <5>1, <6>2
          <6> QED
            BY <6>1, <6>2
        <5> QED
          BY <3>4, <5>1
      <4> QED
        BY <3>3, <4>1, <4>2
    <3> QED
      BY <2>7, <3>5 DEF AddId
  <2>8. CASE AddEnds(p)
    BY <2>8 DEF AddEnds
  <2>9. CASE RemoveInstances(p)
    BY <2>9 DEF RemoveInstances
  <2>10. CASE RemoveApp(p)
    BY <2>10 DEF RemoveApp
  <2> QED
    BY <2>1, <2>2, <2>3, <2>4, <2>5, <2>6, <2>7, <2>8, <2>9, <2>10 DEF AdminStep
<1> QED
  BY <1>1, <1>2 DEF DeclaredInv

LEMMA MonitorsDeclared ==
  ASSUME MaxEventsAssumption, TypeInv, DeclaredInv, MonitorStep \/ \E t \in Types : Notified(t)
  PROVE  DeclaredInv'
<1>1. MatchedAsDeclared' /\ CallsDeclared'
  BY MonitorFrame DEF DeclaredInv, MatchedAsDeclared, CallsDeclared, admin
<1>2. MonitorDeclared'
  <2> USE DEF TypeInv, TypeOK, DeclaredInv, MatchedAsDeclared, MonitorDeclared
  <2>1. ASSUME NEW t \in Types, Notified(t) PROVE MonitorDeclared'
    <3>1. handled + 1 \in Numbers /\ log'[handled'] = t /\ <<"start", t>> \in Keys
      BY <2>1 DEF Notified, MaxEventsAssumption, Numbers, Keys
    <3>2. UNCHANGED declared
      BY <2>1 DEF Notified
    <3>3. CASE matched[<<"start", t>>] # None
      BY <2>1, <3>1, <3>2, <3>3 DEF Notified, Iterate
    <3>4. CASE matched[<<"start", t>>] = None
      BY <2>1, <3>4 DEF Notified
    <3> QED
      BY <3>3, <3>4
  <2>2. CASE MatchEnd
    <3>1. Key \in Keys /\ Key = <<"end", log[handled]>>
      BY <2>2, KeyTypes DEF MatchEnd, Busy
    <3> QED
      BY <2>2, <3>1 DEF MatchEnd, Iterate, Leave
  <2>3. CASE IterationThrows \/ NotifiedEnds
    BY <2>3 DEF IterationThrows, NotifiedEnds, Leave
  <2>4. CASE \E a \in Apps : FindApplication(a)
    BY <2>4 DEF FindApplication
  <2>5. CASE StoreInstance
    BY <2>5 DEF StoreInstance
  <2>6. CASE \E a \in Apps : CompleteInstances(a)
    BY <2>6 DEF CompleteInstances
  <2> QED
    BY <2>1, <2>2, <2>3, <2>4, <2>5, <2>6 DEF MonitorStep
<1> QED
  BY <1>1, <1>2 DEF DeclaredInv

LEMMA DeclaredKept == Spec => []DeclaredInv
<1>1. Init => DeclaredInv
  BY DEF Init, DeclaredInv, MatchedAsDeclared, CallsDeclared, MonitorDeclared
<1>2. TypeInv /\ DeclaredInv /\ [Next]_vars => DeclaredInv'
  <2>1. ASSUME DeclaredInv, UNCHANGED vars PROVE DeclaredInv'
    BY <2>1 DEF DeclaredInv, MatchedAsDeclared, CallsDeclared, MonitorDeclared, vars, maps,
       admin, monitor
  <2> QED
    BY <2>1, AdminDeclared, MonitorsDeclared, NoneAssumption, MaxEventsAssumption DEF Next
<1> QED
  BY <1>1, <1>2, TypesKept, PTL DEF Spec

(* An application is only ever matched by an event type that a definition added
   under its name gave in that role. *)
THEOREM MatchedFromDefinitions == Spec => []MatchedAsDeclared
<1>1. DeclaredInv => MatchedAsDeclared
  BY DEF DeclaredInv
<1> QED
  BY <1>1, DeclaredKept, PTL

-----------------------------------------------------------------------------
(* Instances exist and end for a reason.  No instance is younger than the event
   being handled, and an event that ends applications has started none. *)

NoneYounger == \A a \in Apps, n \in Numbers : state[a][n] # None => n <= handled

EndsStartNone ==
  dpc \in {"matchEnd", "end"} => \A a \in Apps : state[a][handled] = None

Justified(a, n) ==
  /\ <<a, <<"start", log[n]>>>> \in declared
  /\ state[a][n] = "COMPLETED" =>
       \E m \in Numbers : n < m /\ m <= handled /\ <<a, <<"end", log[m]>>>> \in declared

JustifiedInv == InstancesJustified /\ NoneYounger /\ EndsStartNone

LEMMA InstanceSteps ==
  ASSUME MaxEventsAssumption, TypeInv, DeclaredInv, JustifiedInv,
         MonitorStep \/ \E t \in Types : Notified(t)
  PROVE  JustifiedInv'
<1> USE DEF TypeInv, TypeOK, JustifiedInv, InstancesJustified, NoneYounger, EndsStartNone, Justified
<1>1. ASSUME NEW t \in Types, Notified(t) PROVE JustifiedInv'
  <2>1. /\ handled \in Nat /\ handled + 1 \in Numbers
        /\ handled' = handled + 1 /\ log' = [log EXCEPT ![handled + 1] = t]
        /\ UNCHANGED <<state, declared>>
    BY <1>1 DEF Notified, MaxEventsAssumption, Numbers, maps
  <2>2. \A n \in Numbers : n <= handled => log'[n] = log[n]
    BY <2>1
  <2>3. NoneYounger' /\ EndsStartNone'
    BY <2>1 DEF Numbers
  <2>4. ASSUME NEW a \in Apps, NEW n \in Numbers, state[a][n] # None
        PROVE  Justified(a, n)'
    <3>1. n <= handled /\ log'[n] = log[n] /\ Justified(a, n)
      BY <2>2, <2>4
    <3>2. CASE state[a][n] = "COMPLETED"
      <4> PICK m \in Numbers : n < m /\ m <= handled /\ <<a, <<"end", log[m]>>>> \in declared
        BY <3>1, <3>2
      <4>1. log'[m] = log[m] /\ m <= handled'
        BY <2>1, <2>2 DEF Numbers
      <4> QED
        BY <2>1, <3>1, <4>1
    <3> QED
      BY <2>1, <3>1, <3>2
  <2> QED
    BY <2>1, <2>3, <2>4
<1>2. CASE MatchEnd
  BY <1>2 DEF MatchEnd, Iterate, Leave, maps
<1>3. CASE IterationThrows
  BY <1>3 DEF IterationThrows, Leave, maps
<1>7. CASE NotifiedEnds
  BY <1>7 DEF NotifiedEnds, Leave, maps
<1>4. ASSUME NEW a \in Apps, FindApplication(a) PROVE JustifiedInv'
  <2>1. UNCHANGED <<log, handled, state, declared>> /\ dpc' \in {"start", "store"}
    BY <1>4 DEF FindApplication, maps
  <2> QED
    BY <2>1
<1>5. CASE StoreInstance
  <2>1. current \in Apps /\ handled \in Numbers /\ handled <= handled
    BY <1>5 DEF StoreInstance, MonitorKnows, Busy, Numbers, MaxEventsAssumption
  <2>2. <<current, <<"start", log[handled]>>>> \in declared
    BY <1>5 DEF StoreInstance, DeclaredInv, MonitorDeclared
  <2> QED
    BY <1>5, <2>1, <2>2 DEF StoreInstance
<1>6. ASSUME NEW a \in Apps, CompleteInstances(a) PROVE JustifiedInv'
  <2>1. handled \in Numbers /\ <<a, <<"end", log[handled]>>>> \in declared
    BY <1>6 DEF CompleteInstances, MonitorKnows, Busy, DeclaredInv, MonitorDeclared
  <2>2. /\ UNCHANGED <<log, handled, declared, dpc>> /\ dpc = "end"
        /\ \A b \in Apps, n \in Numbers :
             state'[b][n] = state[b][n] \/ (b = a /\ state[b][n] = "RUNNING")
    BY <1>6 DEF CompleteInstances
  <2>3. "RUNNING" # None
    BY NoneAssumption
  <2>4. NoneYounger' /\ EndsStartNone'
    BY <2>1, <2>2, <2>3
  <2>5. \A n \in Numbers : state[a][n] = "RUNNING" => n < handled
    BY <2>1, <2>2, <2>3 DEF Numbers
  <2>6. ASSUME NEW b \in Apps, NEW n \in Numbers, state'[b][n] # None
        PROVE  Justified(b, n)'
    <3>1. CASE state'[b][n] = state[b][n]
      BY <2>2, <2>6, <3>1
    <3>2. CASE b = a /\ state[b][n] = "RUNNING"
      <4>1. n < handled /\ <<a, <<"start", log[n]>>>> \in declared
        BY <2>3, <2>5, <3>2
      <4>2. n < handled /\ handled <= handled
        BY <4>1 DEF Numbers
      <4>3. \E m \in Numbers : n < m /\ m <= handled /\ <<a, <<"end", log[m]>>>> \in declared
        BY <2>1, <4>2
      <4> HIDE DEF TypeInv, TypeOK, JustifiedInv, InstancesJustified, NoneYounger, EndsStartNone
      <4> QED
        BY <2>2, <3>2, <4>1, <4>3
    <3> QED
      BY <2>2, <3>1, <3>2
  <2> QED
    BY <2>4, <2>6
<1> QED
  BY <1>1, <1>2, <1>3, <1>4, <1>5, <1>6, <1>7 DEF MonitorStep

LEMMA JustifiedKept == Spec => []JustifiedInv
<1>1. Init => JustifiedInv
  BY DEF Init, JustifiedInv, InstancesJustified, NoneYounger, EndsStartNone
<1>2. TypeInv /\ DeclaredInv /\ JustifiedInv /\ [Next]_vars => JustifiedInv'
  <2> USE DEF JustifiedInv, InstancesJustified, NoneYounger, EndsStartNone
  <2>1. ASSUME JustifiedInv, UNCHANGED vars PROVE JustifiedInv'
    BY <2>1 DEF vars, maps, monitor
  <2>2. ASSUME TypeInv, JustifiedInv, NEW p \in Threads, AdminStep(p) PROVE JustifiedInv'
    BY <2>2, AdminFrame DEF monitor
  <2> QED
    BY <2>1, <2>2, InstanceSteps, MaxEventsAssumption DEF Next
<1> QED
  BY <1>1, <1>2, TypesKept, DeclaredKept, PTL DEF Spec

(* An instance exists only if its event was one that starts the application,
   and is completed only if an event that ends the application came later. *)
THEOREM InstancesFromEvents == Spec => []InstancesJustified
<1>1. JustifiedInv => InstancesJustified
  BY DEF JustifiedInv
<1> QED
  BY <1>1, JustifiedKept, PTL

-----------------------------------------------------------------------------
(* The manager implements ApplicationInstances.  An application yet to be visited
   has no instance of the event that is handled. *)

FreshInv ==
  /\ dpc \in {"start", "store"} => \A a \in todo : state[a][handled] = None
  /\ dpc = "store" => current \notin todo /\ state[current][handled] = None

LEMMA FreshStep ==
  TypeInv /\ JustifiedInv /\ FreshInv /\ [Next]_vars => FreshInv'
<1> SUFFICES ASSUME TypeInv, JustifiedInv, FreshInv, [Next]_vars PROVE FreshInv'
  OBVIOUS
<1> USE DEF FreshInv
<1>1. CASE UNCHANGED vars
  BY <1>1 DEF vars, maps, monitor
<1>2. ASSUME NEW p \in Threads, AdminStep(p) PROVE FreshInv'
  BY <1>2, AdminFrame DEF monitor
<1>3. ASSUME NEW t \in Types, Notified(t) PROVE FreshInv'
  <2>1. handled \in Nat /\ handled + 1 \in Numbers /\ handled' = handled + 1 /\ UNCHANGED state
    BY <1>3, MaxEventsAssumption DEF Notified, TypeInv, TypeOK, Numbers, maps
  <2>2. \A a \in Apps : state[a][handled'] = None
    BY <2>1 DEF JustifiedInv, NoneYounger
  <2>3. todo' \subseteq Apps
    BY <1>3, NotifiedTypes, MaxEventsAssumption DEF TypeInv, TypeOK
  <2> QED
    BY <1>3, <2>1, <2>2, <2>3 DEF Notified, Iterate
<1>4. CASE MatchEnd \/ IterationThrows \/ NotifiedEnds
  BY <1>4 DEF MatchEnd, IterationThrows, NotifiedEnds, Iterate, Leave
<1>5. CASE \E a \in Apps : FindApplication(a)
  BY <1>5 DEF FindApplication, maps
<1>6. CASE StoreInstance
  <2>1. UNCHANGED <<todo, handled>> /\ dpc' = "start" /\ todo \subseteq Apps
    BY <1>6 DEF StoreInstance, TypeInv, TypeOK
  <2>2. \A a \in Apps : a # current => state'[a] = state[a]
    BY <1>6 DEF StoreInstance, TypeInv, TypeOK
  <2>3. current \notin todo /\ \A a \in todo : state[a][handled] = None
    BY <1>6 DEF StoreInstance
  <2> QED
    BY <2>1, <2>2, <2>3
<1>7. CASE \E a \in Apps : CompleteInstances(a)
  BY <1>7 DEF CompleteInstances
<1> QED
  BY <1>1, <1>2, <1>3, <1>4, <1>5, <1>6, <1>7 DEF Next, MonitorStep

LEMMA FreshKept == Spec => []FreshInv
<1>1. Init => FreshInv
  BY DEF Init, FreshInv
<1> QED
  BY <1>1, FreshStep, TypesKept, JustifiedKept, PTL DEF Spec

Kept == [a \in Apps |-> IF instances[a] = None THEN {} ELSE instances[a]]

LEMMA LivesInit == Init => Lives!InstancesInit
  BY DEF Init, Lives!InstancesInit, Lives!Events, Numbers

LEMMA LivesAdmin ==
  ASSUME TypeInv, NEW p \in Threads, AdminStep(p)
  PROVE  [Lives!InstancesNext]_(Lives!instanceVars)
<1> USE DEF TypeInv, TypeOK
<1>1. UNCHANGED <<handled, log, state>>
  BY AdminFrame DEF monitor
<1>2. CASE PutApplication(p)
  <2>1. call[p].app \in Apps /\ call[p].keys \subseteq Keys
    BY <1>2 DEF PutApplication, CallsKnow, CallKnows, AnyCall
  <2>2. declared' = declared \cup ({call[p].app} \X call[p].keys) /\ UNCHANGED instances
    BY <1>2 DEF PutApplication
  <2>3. PICK a \in Apps : a = call[p].app
    BY <2>1
  <2>4. Lives!Defined(a)
    BY <1>1, <2>1, <2>2, <2>3 DEF Lives!Defined, Keys
  <2> QED
    BY <2>4 DEF Lives!InstancesNext
<1>3. CASE RemoveInstances(p)
  <2>1. call[p].app \in Apps
    BY <1>3 DEF RemoveInstances, CallsKnow, CallKnows
  <2>2. instances' = [instances EXCEPT ![call[p].app] = None] /\ UNCHANGED declared
    BY <1>3 DEF RemoveInstances
  <2>3. Kept' = [Kept EXCEPT ![call[p].app] = {}]
    BY <2>1, <2>2 DEF Kept
  <2>4. PICK a \in Apps : a = call[p].app
    BY <2>1
  <2>5. Lives!Forgets(a)
    BY <1>1, <2>2, <2>3, <2>4 DEF Lives!Forgets, Kept
  <2> QED
    BY <2>5 DEF Lives!InstancesNext
<1>4. CASE ~PutApplication(p) /\ ~RemoveInstances(p)
  <2>1. UNCHANGED <<declared, instances>>
    BY <1>4 DEF AdminStep, BeginAdd, BeginDelete, Begin, CheckApplication, LookUp, CreateSet,
       AddId, AddEnds, RemoveApp, maps
  <2> QED
    BY <1>1, <2>1 DEF Lives!instanceVars
<1> QED
  BY <1>2, <1>3, <1>4

LEMMA LivesMonitor ==
  ASSUME MaxEventsAssumption, TypeInv, DeclaredInv, JustifiedInv, FreshInv,
         MonitorStep \/ \E t \in Types : Notified(t)
  PROVE  [Lives!InstancesNext]_(Lives!instanceVars)
<1> USE DEF TypeInv, TypeOK, Lives!Events, Numbers
<1>1. ASSUME NEW t \in Types, Notified(t) PROVE Lives!Occurs(t)
  BY <1>1 DEF Notified, Lives!Occurs, MaxEventsAssumption, maps
<1>2. CASE MatchEnd \/ IterationThrows \/ NotifiedEnds \/ \E a \in Apps : FindApplication(a)
  BY <1>2 DEF MatchEnd, IterationThrows, NotifiedEnds, FindApplication, maps, Lives!instanceVars
<1>3. CASE StoreInstance
  <2>1. current \in Apps /\ handled \in 1 .. MaxEvents
    BY <1>3 DEF StoreInstance, MonitorKnows, Busy
  <2>2. <<current, <<"start", log[handled]>>>> \in declared /\ state[current][handled] = None
    BY <1>3 DEF StoreInstance, DeclaredInv, MonitorDeclared, FreshInv
  <2>3. /\ instances' = [instances EXCEPT ![current] = (IF @ = None THEN {} ELSE @) \cup {handled}]
        /\ state' = [state EXCEPT ![current][handled] = "RUNNING"]
        /\ UNCHANGED <<declared, handled, log>>
    BY <1>3 DEF StoreInstance
  <2>4. instances'[current] # None
    BY <2>1, <2>3, NoneAssumption
  <2>5. Kept' = [Kept EXCEPT ![current] = @ \cup {handled}]
    BY <2>1, <2>3, <2>4 DEF Kept
  <2>6. PICK a \in Apps : a = current
    BY <2>1
  <2>7. Lives!Starts(a)
    BY <2>1, <2>2, <2>3, <2>5, <2>6 DEF Lives!Starts, Lives!Current, Kept
  <2> QED
    BY <2>7 DEF Lives!InstancesNext
<1>4. ASSUME NEW a \in Apps, CompleteInstances(a) PROVE Lives!Ends(a)
  <2>1. dpc = "end" /\ a \in todo /\ handled \in 1 .. MaxEvents
    BY <1>4 DEF CompleteInstances, MonitorKnows, Busy
  <2>2. <<a, <<"end", log[handled]>>>> \in declared /\ \A b \in Apps : state[b][handled] = None
    BY <2>1 DEF DeclaredInv, MonitorDeclared, JustifiedInv, EndsStartNone
  <2>3. /\ state' = [state EXCEPT ![a] = [n \in Numbers |->
                       IF instances[a] # None /\ n \in instances[a] /\ state[a][n] = "RUNNING"
                         THEN "COMPLETED" ELSE state[a][n]]]
        /\ UNCHANGED <<declared, handled, log, instances>>
    BY <1>4 DEF CompleteInstances
  <2>4. Kept[a] = IF instances[a] = None THEN {} ELSE instances[a]
    BY DEF Kept
  <2>5. state' = [state EXCEPT ![a] = [n \in 1 .. MaxEvents |->
                    IF n \in Kept[a] /\ state[a][n] = "RUNNING" THEN "COMPLETED" ELSE state[a][n]]]
    BY <2>3, <2>4
  <2> QED
    BY <2>1, <2>2, <2>3, <2>5 DEF Lives!Ends, Lives!Current, Kept
<1> QED
  BY <1>1, <1>2, <1>3, <1>4 DEF MonitorStep, Lives!InstancesNext

(* Every step is one in the life of the instances: an event creates at most one
   instance of an application it starts, completes at once all that an
   application it ends still has, and no completed instance runs again. *)
THEOREM ManagerRefinesInstances == Spec => ImplementsInstances
<1>1. TypeInv /\ DeclaredInv /\ JustifiedInv /\ FreshInv /\ [Next]_vars =>
        [Lives!InstancesNext]_(Lives!instanceVars)
  <2>1. ASSUME UNCHANGED vars PROVE UNCHANGED Lives!instanceVars
    BY <2>1 DEF vars, maps, monitor, Lives!instanceVars
  <2> QED
    BY <2>1, LivesAdmin, LivesMonitor, MaxEventsAssumption DEF Next
<1> QED
  BY <1>1, LivesInit, TypesKept, DeclaredKept, JustifiedKept, FreshKept, PTL
     DEF Spec, ImplementsInstances, Lives!InstancesSpec

-----------------------------------------------------------------------------
(* What the monitor has done with the applications it has visited. *)

EndVisited ==
  dpc = "end" => \A a \in seen \ todo : instances[a] # None =>
                   \A n \in instances[a] : state[a][n] # "RUNNING"

StartVisited ==
  dpc \in {"start", "store"} =>
    \A a \in seen \ (todo \cup absent) :
      state[a][handled] = "RUNNING" \/ (dpc = "store" /\ a = current)

VisitedInv == EndVisited /\ StartVisited

LEMMA VisitedStep ==
  ASSUME MaxEventsAssumption, TypeInv, VisitedInv, MonitorStep \/ \E t \in Types : Notified(t)
  PROVE  VisitedInv'
<1> USE DEF TypeInv, TypeOK, VisitedInv, EndVisited, StartVisited
<1>1. CASE \E t \in Types : Notified(t)
  BY <1>1 DEF Notified, Iterate
<1>2. CASE MatchEnd
  BY <1>2 DEF MatchEnd, Iterate, Leave
<1>3. CASE IterationThrows \/ NotifiedEnds
  BY <1>3 DEF IterationThrows, NotifiedEnds, Leave
<1>4. CASE \E a \in Apps : FindApplication(a)
  BY <1>4 DEF FindApplication, maps
<1>5. CASE StoreInstance
  <2>1. current \in Apps /\ handled \in Numbers
    BY <1>5 DEF StoreInstance, MonitorKnows, Busy
  <2> QED
    BY <1>5, <2>1 DEF StoreInstance
<1>6. ASSUME NEW a \in Apps, CompleteInstances(a) PROVE VisitedInv'
  <2>1. /\ UNCHANGED <<dpc, seen, instances>> /\ todo' = todo \ {a} /\ dpc = "end"
        /\ \A b \in Apps \ {a} : state'[b] = state[b]
    BY <1>6 DEF CompleteInstances
  <2>2. instances[a] # None => \A n \in instances[a] : state'[a][n] # "RUNNING"
    BY <1>6 DEF CompleteInstances
  <2> QED
    BY <2>1, <2>2
<1> QED
  BY <1>1, <1>2, <1>3, <1>4, <1>5, <1>6 DEF MonitorStep

LEMMA VisitedKept == Spec => []VisitedInv
<1>1. Init => VisitedInv
  BY DEF Init, VisitedInv, EndVisited, StartVisited
<1>2. TypeInv /\ VisitedInv /\ [Next]_vars => VisitedInv'
  <2> USE DEF VisitedInv, EndVisited, StartVisited
  <2>1. ASSUME VisitedInv, UNCHANGED vars PROVE VisitedInv'
    BY <2>1 DEF vars, maps, monitor
  <2>2. ASSUME TypeInv, VisitedInv, NEW p \in Threads, AdminStep(p) PROVE VisitedInv'
    BY <2>2, AdminFrame DEF monitor, TypeInv, TypeOK
  <2> QED
    BY <2>1, <2>2, VisitedStep, MaxEventsAssumption DEF Next
<1> QED
  BY <1>1, <1>2, TypesKept, PTL DEF Spec

(* The monitor is done with an iteration only by NotifiedEnds. *)
LEMMA IterationEnds ==
  ASSUME TypeInv, [Next]_vars, dpc \in {"start", "end"}, dpc' = "idle"
  PROVE  todo = {}
<1>1. ~UNCHANGED vars
  BY DEF vars, monitor
<1>2. ~\E p \in Threads : AdminStep(p)
  BY AdminFrame DEF monitor
<1>3. ~\E t \in Types : Notified(t)
  BY DEF Notified
<1>4. CASE MonitorStep
  BY <1>4 DEF MonitorStep, MatchEnd, IterationThrows, StoreInstance, NotifiedEnds,
     FindApplication, CompleteInstances, Leave
<1> QED
  BY <1>1, <1>2, <1>3, <1>4 DEF Next

(* Once an end event is handled no instance of an application it ends runs on,
   whatever is added and deleted meanwhile. *)
THEOREM EndCompletes == Spec => EndCompletesAll
<1>1. TypeInv /\ VisitedInv /\ [Next]_vars =>
        [dpc = "end" /\ dpc' = "idle"
           => \A a \in seen : instances[a] # None =>
                \A n \in instances[a] : state[a][n] # "RUNNING"]_vars
  BY IterationEnds DEF VisitedInv, EndVisited
<1> QED
  BY <1>1, TypesKept, VisitedKept, PTL DEF Spec, EndCompletesAll

(* Once a start event is handled every application it starts that was found has
   a running instance of it. *)
THEOREM StartCreates == Spec => StartCreatesAll
<1>1. TypeInv /\ VisitedInv /\ [Next]_vars =>
        [dpc = "start" /\ dpc' = "idle"
           => \A a \in seen \ absent : state[a][handled] = "RUNNING"]_vars
  BY IterationEnds DEF VisitedInv, StartVisited
<1> QED
  BY <1>1, TypesKept, VisitedKept, PTL DEF Spec, StartCreatesAll

-----------------------------------------------------------------------------
(* Deletion: the instances go before the definition. *)

Removing(a) == \E p \in Threads : pc[p] = "removeApp" /\ call[p].app = a

Gone(a) == defined[a] = None \/ Removing(a)

DeletedInv == \A a \in Apps \ orphaned : Gone(a) => instances[a] = None

LEMMA AdminDeleted ==
  ASSUME TypeInv, DeletedInv, NEW p \in Threads, AdminStep(p)
  PROVE  DeletedInv'
<1> SUFFICES ASSUME NEW a \in Apps \ orphaned, Gone(a)'
             PROVE  instances'[a] = None
  BY AdminFrame DEF DeletedInv
<1>1. instances[a] = None => instances'[a] = None
  BY AdminFrame
<1>2. Gone(a) => instances[a] = None
  BY DEF DeletedInv
<1> USE DEF Gone, Removing, TypeInv, TypeOK, Return, Goto, maps
<1>3. CASE BeginAdd(p)
  BY <1>1, <1>2, <1>3 DEF BeginAdd, Begin
<1>4. CASE BeginDelete(p)
  BY <1>1, <1>2, <1>4 DEF BeginDelete, Begin
<1>5. CASE CheckApplication(p)
  BY <1>1, <1>2, <1>5 DEF CheckApplication
<1>6. CASE PutApplication(p)
  <2>1. call[p].keys \in SUBSET Keys
    BY DEF AnyCall
  <2>2. call[p].keys # None
    <3> HIDE DEF TypeInv, TypeOK, Gone, Removing
    <3> QED
      BY <2>1, NoneAssumption
  <2> QED
    BY <1>1, <1>2, <1>6, <2>2 DEF PutApplication
<1>7. CASE LookUp(p) \/ CreateSet(p) \/ AddId(p) \/ AddEnds(p)
  BY <1>1, <1>2, <1>7 DEF LookUp, CreateSet, AddId, AddEnds
<1>8. CASE RemoveInstances(p)
  BY <1>1, <1>2, <1>8 DEF RemoveInstances
<1>9. CASE RemoveApp(p)
  BY <1>1, <1>2, <1>9 DEF RemoveApp
<1> QED
  BY <1>3, <1>4, <1>5, <1>6, <1>7, <1>8, <1>9 DEF AdminStep

LEMMA MonitorDeleted ==
  ASSUME TypeInv, DeletedInv, MonitorStep \/ \E t \in Types : Notified(t)
  PROVE  DeletedInv'
<1>1. \A a \in Apps : Gone(a)' = Gone(a)
  BY MonitorFrame DEF Gone, Removing, admin
<1>2. CASE StoreInstance
  BY <1>1, <1>2 DEF StoreInstance, DeletedInv, Gone, Removing, TypeInv, TypeOK
<1>3. CASE ~StoreInstance
  BY <1>1, <1>3 DEF DeletedInv, MonitorStep, Notified, MatchEnd, IterationThrows, NotifiedEnds,
     FindApplication, CompleteInstances, maps
<1> QED
  BY <1>2, <1>3

(* A deleted application leaves no instances behind, unless the monitor stored
   one while it was being deleted. *)
THEOREM DeletionLeavesNothing == Spec => []DeletedLeavesNothing
<1>1. Init => DeletedInv
  BY DEF Init, DeletedInv
<1>2. TypeInv /\ DeletedInv /\ [Next]_vars => DeletedInv'
  <2>1. ASSUME DeletedInv, UNCHANGED vars PROVE DeletedInv'
    BY <2>1 DEF DeletedInv, Gone, Removing, vars, maps, admin
  <2> QED
    BY <2>1, AdminDeleted, MonitorDeleted DEF Next
<1>3. DeletedInv => DeletedLeavesNothing
  BY DEF DeletedInv, Gone, DeletedLeavesNothing
<1> QED
  BY <1>1, <1>2, <1>3, TypesKept, PTL DEF Spec

-----------------------------------------------------------------------------
(* A call that meets no other one is alone with the maps: the set it looked up
   stays the one in the map, and its addition to it is not undone. *)

Alone(p) == pc[p] # "idle" /\ p \notin met

AloneKnows(p) ==
  /\ \A q \in Threads \ {p} : pc[q] = "idle"
  /\ pc[p] \in {"create", "add"} => p \in holds
  /\ pc[p] \in {"loop", "create", "add"} =>
       \A k \in call[p].keys \ rest[p] : matched[k] # None /\ call[p].app \in matched[k]

AloneInv == \A p \in Threads : Alone(p) => AloneKnows(p)

(* A thread that is alone after a step of another thread was idle before it or
   has not been touched by it: the other thread has just returned, or begun. *)
LEMMA NoOtherAlone ==
  ASSUME TypeInv, AloneInv, NEW p \in Threads, AdminStep(p),
         NEW q \in Threads \ {p}
  PROVE  ~Alone(q)'
<1> USE DEF Alone, TypeInv, TypeOK, Return, Goto
<1>1. CASE pc[p] # "idle"
  <2>1. ~Alone(q)
    BY <1>1 DEF AloneInv, AloneKnows
  <2>2. pc'[q] = pc[q] /\ (q \in met => q \in met')
    BY <1>1 DEF AdminStep, BeginAdd, BeginDelete, Begin, CheckApplication, PutApplication,
       LookUp, CreateSet, AddId, AddEnds, RemoveInstances, RemoveApp
  <2> QED
    BY <2>1, <2>2
<1>2. CASE pc[p] = "idle"
  <2>1. BeginAdd(p) \/ BeginDelete(p)
    BY <1>2 DEF AdminStep, CheckApplication, PutApplication, LookUp, CreateSet, AddId, AddEnds,
       RemoveInstances, RemoveApp
  <2> QED
    BY <1>2, <2>1 DEF BeginAdd, BeginDelete, Begin, Others
<1> QED
  BY <1>1, <1>2

LEMMA AloneStep ==
  ASSUME TypeInv, AloneInv, NEW p \in Threads, AdminStep(p), Alone(p)'
  PROVE  AloneKnows(p)'
<1> USE DEF TypeInv, TypeOK, Alone, AloneKnows, Return, Goto, maps
<1>1. CASE BeginAdd(p) \/ BeginDelete(p)
  BY <1>1 DEF BeginAdd, BeginDelete, Begin, Others
<1>2. CASE ~(BeginAdd(p) \/ BeginDelete(p))
  <2>1. Alone(p) /\ AloneKnows(p)
    BY <1>2 DEF AdminStep, CheckApplication, PutApplication,
       LookUp, CreateSet, AddId, AddEnds, RemoveInstances, RemoveApp, AloneInv
  <2>2. CASE CheckApplication(p) \/ AddEnds(p) \/ RemoveInstances(p) \/ RemoveApp(p)
    BY <2>1, <2>2 DEF CheckApplication, AddEnds, RemoveInstances, RemoveApp
  <2>3. CASE PutApplication(p)
    BY <2>1, <2>3 DEF PutApplication
  <2>4. CASE LookUp(p)
    BY <2>1, <2>4 DEF LookUp
  <2>5. CASE CreateSet(p)
    <3>1. at[p] \in rest[p] /\ at[p] \in Keys /\ pc[p] = "create"
      BY <2>5 DEF CreateSet, CallsKnow, CallKnows
    <3> QED
      BY <2>1, <2>5, <3>1 DEF CreateSet
  <2>6. CASE AddId(p)
    <3>1. at[p] \in Keys /\ p \in holds /\ matched[at[p]] \in SUBSET Apps /\ call[p].app \in Apps
      BY <2>1, <2>6 DEF AddId, CallsKnow, CallKnows
    <3>2. ~Overlapped(p)
      BY <2>1 DEF Overlapped
    <3>3. /\ matched' = [matched EXCEPT ![at[p]] = @ \cup {call[p].app}]
          /\ rest' = [rest EXCEPT ![p] = @ \ {at[p]}] /\ UNCHANGED call
          /\ pc' = [pc EXCEPT ![p] = "loop"] /\ pc[p] = "add"
      BY <2>6, <3>1, <3>2 DEF AddId
    <3>4. call[p].keys \subseteq Keys
      BY <3>1, NoneAssumption DEF AnyCall
    <3>5. ASSUME NEW k \in call[p].keys \ rest'[p]
          PROVE  matched'[k] # None /\ call[p].app \in matched'[k]
      <4>1. CASE k = at[p]
        <5>1. matched'[k] \in SUBSET Apps /\ call[p].app \in matched'[k]
          BY <3>1, <3>3, <4>1
        <5> QED
          BY <5>1, NoneAssumption
      <4>2. CASE k # at[p]
        BY <2>1, <3>3, <3>4, <4>2
      <4> QED
        BY <4>1, <4>2
    <3> QED
      BY <2>1, <3>3, <3>5
  <2> QED
    BY <1>2, <2>2, <2>3, <2>4, <2>5, <2>6 DEF AdminStep
<1> QED
  BY <1>1, <1>2

LEMMA AloneKept == Spec => []AloneInv
<1>1. Init => AloneInv
  BY DEF Init, AloneInv, Alone
<1>2. TypeInv /\ AloneInv /\ [Next]_vars => AloneInv'
  <2>1. ASSUME AloneInv, UNCHANGED <<admin, matched>> PROVE AloneInv'
    BY <2>1 DEF AloneInv, Alone, AloneKnows, admin
  <2>2. ASSUME TypeInv, AloneInv, NEW p \in Threads, AdminStep(p) PROVE AloneInv'
    <3>1. ASSUME NEW q \in Threads, Alone(q)' PROVE AloneKnows(q)'
      BY <2>2, <3>1, AloneStep, NoOtherAlone
    <3> QED
      BY <3>1 DEF AloneInv
  <2>3. UNCHANGED vars => UNCHANGED <<admin, matched>>
    BY DEF vars, maps
  <2>4. MonitorStep \/ (\E t \in Types : Notified(t)) => UNCHANGED <<admin, matched>>
    BY MonitorFrame
  <2> QED
    BY <2>1, <2>2, <2>3, <2>4 DEF Next
<1> QED
  BY <1>1, <1>2, TypesKept, PTL DEF Spec

(* A call of addApplication() that met no other call leaves its application
   matched by all its start and end events. *)
THEOREM AddMatches == Spec => AddTakesEffect
<1> DEFINE Effect ==
      \A p \in Threads :
        pc[p] = "loop" /\ pc'[p] = "idle" /\ p \notin met
          => \A k \in call[p].keys : matched'[k] # None /\ call[p].app \in matched'[k]
<1>1. ASSUME TypeInv, AloneInv, [Next]_vars, NEW p \in Threads,
             pc[p] = "loop", pc'[p] = "idle", p \notin met
      PROVE  rest[p] = {} /\ UNCHANGED matched
  <2>1. ~UNCHANGED admin
    BY <1>1 DEF admin
  <2> PICK q \in Threads : AdminStep(q)
    BY <1>1, <2>1, MonitorFrame DEF Next, vars
  <2>2. q = p
    BY <1>1 DEF AloneInv, Alone, AloneKnows, AdminStep, BeginAdd, BeginDelete, Begin,
       CheckApplication, PutApplication, LookUp, CreateSet, AddId, AddEnds, RemoveInstances,
       RemoveApp, Return, Goto, TypeInv, TypeOK
  <2>3. AddEnds(p)
    BY <1>1, <2>2 DEF AdminStep, BeginAdd, BeginDelete, Begin,
       CheckApplication, PutApplication, LookUp, CreateSet, AddId, RemoveInstances,
       RemoveApp, TypeInv, TypeOK
  <2> QED
    BY <2>3 DEF AddEnds, maps
<1>2. TypeInv /\ AloneInv /\ [Next]_vars => [Effect]_vars
  BY <1>1 DEF AloneInv, Alone, AloneKnows
<1> QED
  BY <1>2, TypesKept, AloneKept, PTL DEF Spec, AddTakesEffect
=============================================================================
