---------------------- MODULE EventActorManagerProofs ----------------------
(***************************************************************************)
(* Theorems about EventActorManager, for any number of threads, actors and *)
(* types: the types of the variables, and that no actor is ever paired     *)
(* with a type it did not ask for, whatever calls run at the same time.    *)
(* A thread acts on what it read earlier, so the invariant says what a     *)
(* call knows at each of its steps: the actor and pair it is about, and    *)
(* that the pairs it is yet to visit are wanted still.  The second part is *)
(* about calls that meet no other call about their actor or their types:   *)
(* they have their whole effect, and pairings last.  The third part joins  *)
(* these: while no two calls meet, the registry is the atomic one of       *)
(* module Registry, at which a call acts in the step that decides on it.   *)
(***************************************************************************)
EXTENDS EventActorManager, TLAPS

TypeOps == {"addEvent", "addEventType", "removeEvent"}
ActorOps == {"register", "deregister", "enable", "disable", "addPair"}

(* What a call must know to be at a step. *)
Ready(p, step) ==
  /\ step \in {"put", "replace", "drop"} => Op(p) \in TypeOps
  /\ step \in {"want", "bind"} => Op(p) = "addPair"
  /\ step \in {"allocate", "add"} => Op(p) \in {"register", "addPair"}
  /\ step \in {"bind", "allocate", "add"} => Pair(p) \in Pairs /\ Pair(p) \in wanted[Actor(p)]
  /\ step \in {"enter", "state", "pairInput", "pairOutput"} => Op(p) = "register"
  /\ step \in {"leave", "unpairInput", "unpairOutput"} => Op(p) = "deregister"
  /\ step = "switch" => Op(p) \in {"enable", "disable"}
  /\ step = "idle" => rest[p] = {}

(* What it knows all along. *)
Known(p) ==
  /\ Op(p) \in ActorOps => Actor(p) \in Actors
  /\ Op(p) \in TypeOps \cup {"addPair"} => Pair(p) \in Pairs
  /\ rest[p] # {} => Op(p) \in {"register", "deregister"} /\ rest[p] \subseteq wanted[Actor(p)]

CallKnows(p) == Known(p) /\ Ready(p, pc[p])

CallsKnow == \A p \in Threads : CallKnows(p)

LocalType ==
  /\ pc \in [Threads -> Steps] /\ call \in [Threads -> Call]
  /\ seen \in [Threads -> SUBSET Pairs] /\ rest \in [Threads -> SUBSET Pairs]
  /\ holds \subseteq Threads /\ met \subseteq Threads

-----------------------------------------------------------------------------
(* Steps of one thread leave the calls of the others alone. *)

WantsKept == \A a \in Actors : wanted[a] \subseteq wanted'[a]

Others(p) == \A q \in Threads \ {p} : pc'[q] = pc[q] /\ call'[q] = call[q] /\ rest'[q] = rest[q]

LEMMA OthersKnow ==
  ASSUME CallsKnow, NEW p \in Threads, Others(p), WantsKept
  PROVE  \A q \in Threads \ {p} : CallKnows(q)'
<1> SUFFICES ASSUME NEW q \in Threads \ {p} PROVE CallKnows(q)'
  OBVIOUS
<1>1. pc'[q] = pc[q] /\ call'[q] = call[q] /\ rest'[q] = rest[q] /\ CallKnows(q)
  BY DEF Others, CallsKnow
<1>2. Op(q)' = Op(q) /\ Actor(q)' = Actor(q) /\ Pair(q)' = Pair(q)
  BY <1>1 DEF Op, Actor, Pair
<1>3. Op(q) \in ActorOps => wanted[Actor(q)] \subseteq wanted'[Actor(q)]
  BY <1>1 DEF CallKnows, Known, WantsKept
<1>4. Known(q)'
  BY <1>1, <1>2, <1>3 DEF CallKnows, Known, ActorOps
<1>5. Ready(q, pc[q])'
  BY <1>1, <1>2, <1>3 DEF CallKnows, Ready, ActorOps
<1>6. QED
  BY <1>1, <1>4, <1>5 DEF CallKnows

LEMMA ProceedTypes ==
  ASSUME LocalType, NEW p \in Threads, NEW step \in Steps, NEW lost, Proceed(p, step, lost)
  PROVE  LocalType'
<1>1. NoCall \in Call
  BY DEF NoCall, Call, NoPair
<1>2. QED
  BY <1>1 DEF LocalType, Proceed, loop

LEMMA ProceedEffect ==
  ASSUME LocalType, NEW p \in Threads, NEW step \in Steps, NEW lost, Proceed(p, step, lost)
  PROVE  /\ Others(p) /\ pc'[p] = step
         /\ step = "idle" => call'[p] = NoCall /\ rest'[p] = {}
         /\ step # "idle" => call'[p] = call[p] /\ rest'[p] = rest[p]
BY DEF LocalType, Proceed, Others, loop

(* A call that has returned knows nothing. *)
LEMMA IdleKnows ==
  ASSUME NEW p \in Threads, pc'[p] = "idle", call'[p] = NoCall, rest'[p] = {}
  PROVE  CallKnows(p)'
BY NoneAssumption DEF CallKnows, Known, Ready, NoCall, Op, TypeOps, ActorOps, AllOperations

LEMMA ProceedKnows ==
  ASSUME LocalType, CallsKnow, WantsKept,
         NEW p \in Threads, NEW step \in Steps, NEW lost, Proceed(p, step, lost),
         step # "idle" =>
           /\ step \in {"bind", "allocate", "add"} => Pair(p) \in wanted'[Actor(p)]
           /\ step \notin {"bind"} => Ready(p, step)
           /\ step = "bind" => Op(p) = "addPair"
  PROVE  CallsKnow'
<1>1. \A q \in Threads \ {p} : CallKnows(q)'
  BY ProceedEffect, OthersKnow
<1>2. CASE step = "idle"
  BY <1>1, <1>2, ProceedEffect, IdleKnows DEF CallsKnow
<1>3. CASE step # "idle"
  <2>1. pc'[p] = step /\ call'[p] = call[p] /\ rest'[p] = rest[p] /\ CallKnows(p)
    BY <1>3, ProceedEffect DEF CallsKnow
  <2>2. Op(p)' = Op(p) /\ Actor(p)' = Actor(p) /\ Pair(p)' = Pair(p)
    BY <2>1 DEF Op, Actor, Pair
  <2>3. Known(p)'
    BY <2>1, <2>2 DEF CallKnows, Known, WantsKept, ActorOps
  <2>4. Ready(p, step)'
    <3>1. CASE step = "bind"
      BY <3>1, <1>3, <2>2, <2>3 DEF Known, Ready
    <3>2. CASE step # "bind"
      <4>1. Ready(p, step) /\ (step \in {"allocate", "add"} => Pair(p) \in wanted'[Actor(p)])
        BY <1>3, <3>2
      <4>2. QED
        BY <1>3, <3>2, <2>2, <4>1 DEF Ready
    <3>3. QED
      BY <3>1, <3>2
  <2>5. CallKnows(p)'
    BY <2>1, <2>3, <2>4 DEF CallKnows
  <2>6. QED
    BY <1>1, <2>5 DEF CallsKnow
<1>4. QED
  BY <1>2, <1>3

-----------------------------------------------------------------------------
(* A loop begins: the thread sees a set that is wanted. *)
LEMMA StartLoopKnows ==
  ASSUME LocalType, CallsKnow, UNCHANGED wanted, wanted \in [Actors -> SUBSET Pairs],
         NEW p \in Threads, NEW step \in Loops, StartLoop(p, step), Ready(p, step),
         Op(p) \in {"register", "deregister"}
  PROVE  LocalType' /\ CallsKnow'
<1> DEFINE pairs == {x \in wanted[Actor(p)] : x[1] = RoleOf(step)}
<1>1. Actor(p) \in Actors /\ pairs \subseteq Pairs
  BY DEF CallsKnow, CallKnows, Known, ActorOps
<1>2. LocalType'
  BY <1>1 DEF LocalType, StartLoop, Loops, Steps
<1>3. /\ pc'[p] = step /\ call'[p] = call[p] /\ rest'[p] = pairs
      /\ Others(p) /\ WantsKept
  BY DEF LocalType, StartLoop, Others, WantsKept
<1>4. CallKnows(p)'
  <2>1. Op(p)' = Op(p) /\ Actor(p)' = Actor(p) /\ Pair(p)' = Pair(p)
    BY <1>3 DEF Op, Actor, Pair
  <2>2. Known(p)'
    BY <1>3, <2>1 DEF CallsKnow, CallKnows, Known
  <2>3. Ready(p, step)'
    BY <2>1 DEF Ready, Loops
  <2>4. QED
    BY <1>3, <2>2, <2>3 DEF CallKnows
<1>5. QED
  BY <1>2, <1>3, <1>4, OthersKnow DEF CallsKnow

(* An entry is looked up for a pair that is wanted. *)
LEMMA LookUpKnows ==
  ASSUME LocalType, CallsKnow, UNCHANGED wanted, NEW p \in Threads,
         NEW x \in Pairs, LookUp(p, x), x \in wanted[Actor(p)], UNCHANGED seen,
         Op(p) \in {"register", "addPair"}, rest'[p] \subseteq rest[p],
         rest' = [rest EXCEPT ![p] = rest'[p]]
  PROVE  LocalType' /\ CallsKnow'
<1>1. LocalType'
  <2>1. call' \in [Threads -> Call]
    BY DEF LocalType, LookUp, Call
  <2>2. rest' \in [Threads -> SUBSET Pairs]
    BY DEF LocalType
  <2>3. pc' \in [Threads -> Steps]
    BY DEF LocalType, LookUp, Steps
  <2>4. QED
    BY <2>1, <2>2, <2>3 DEF LocalType, LookUp
<1>2. pc'[p] \in {"allocate", "add"} /\ Others(p) /\ WantsKept
  BY DEF LocalType, LookUp, Others, WantsKept
<1>3. call'[p] = [call[p] EXCEPT !.pair = x]
  BY DEF LocalType, LookUp
<1>4. Op(p)' = Op(p) /\ Actor(p)' = Actor(p) /\ Pair(p)' = x
  BY <1>3 DEF LocalType, Call, Op, Actor, Pair
<1>5. Known(p)'
  BY <1>4 DEF CallsKnow, CallKnows, Known
<1>6. Ready(p, pc[p])'
  BY <1>2, <1>4 DEF Ready
<1>7. QED
  BY <1>1, <1>2, <1>5, <1>6, OthersKnow DEF CallsKnow, CallKnows

-----------------------------------------------------------------------------
(* The inductive invariant. *)

RegistryType ==
  /\ types \subseteq Types /\ actors \subseteq Actors /\ inDomain \subseteq Actors
  /\ mode \in [Actors -> {"ENABLING", "FINISHED", None}]
  /\ paired \in [Pairs -> (SUBSET Actors) \cup {None}]
  /\ wanted \in [Actors -> SUBSET Pairs]

Inv == RegistryType /\ LocalType /\ CallsKnow /\ NoStrangers

LEMMA PairTypes == \A x \in Pairs : x[1] \in Roles /\ x[2] \in Types
BY DEF Pairs

LEMMA InvInit == Init => Inv
<1> SUFFICES ASSUME Init PROVE Inv
  OBVIOUS
<1>1. RegistryType
  BY TypesAssumption DEF Init, RegistryType
<1>2. LocalType
  BY DEF Init, LocalType, Steps, NoCall, Call
<1>3. CallsKnow
  BY NoneAssumption
    DEF Init, CallsKnow, CallKnows, Known, Ready, NoCall, Op, TypeOps, ActorOps, AllOperations
<1>4. NoStrangers
  BY DEF Init, NoStrangers, Members
<1>5. QED
  BY <1>1, <1>2, <1>3, <1>4 DEF Inv

(* Taking members away makes nobody a stranger. *)
LEMMA FewerMembers ==
  ASSUME RegistryType, NoStrangers, WantsKept, \A x \in Pairs : Members(x)' \subseteq Members(x)
  PROVE  NoStrangers'
BY DEF RegistryType, NoStrangers, Members, WantsKept

(* A step that moves one thread and leaves the sets of the registry alone. *)
LEMMA ProceedKeeps ==
  ASSUME Inv, UNCHANGED <<paired, wanted>>, RegistryType',
         NEW p \in Threads, NEW step \in Steps \ {"bind", "allocate", "add"}, NEW lost,
         Proceed(p, step, lost), step # "idle" => Ready(p, step)
  PROVE  Inv'
<1>1. WantsKept /\ NoStrangers'
  BY DEF Inv, WantsKept, NoStrangers, Members
<1>2. LocalType'
  BY ProceedTypes DEF Inv
<1>3. CallsKnow'
  BY <1>1, ProceedKnows DEF Inv
<1>4. QED
  BY <1>1, <1>2, <1>3 DEF Inv

LEMMA StartLoopKeeps ==
  ASSUME Inv, UNCHANGED <<paired, wanted>>, RegistryType',
         NEW p \in Threads, NEW step \in Loops, StartLoop(p, step), Ready(p, step),
         Op(p) \in {"register", "deregister"}
  PROVE  Inv'
<1>1. NoStrangers'
  BY DEF Inv, NoStrangers, Members
<1>2. LocalType' /\ CallsKnow'
  BY StartLoopKnows DEF Inv, RegistryType
<1>3. QED
  BY <1>1, <1>2 DEF Inv

LEMMA BeginKeeps ==
  ASSUME Inv, NEW p \in Threads, NEW c \in Calls(p), Begin(p, c)
  PROVE  Inv'
<1>1. c \in Call /\ c.op \in AllOperations
      /\ (c.op \in ActorOps => c.actor \in Actors)
      /\ (c.op \in TypeOps \cup {"addPair"} => c.pair \in Pairs)
  <2>1. CASE \E o \in TypeOps, t \in Types : c = [op |-> o, actor |-> None, pair |-> <<"consumer", t>>]
    BY <2>1 DEF Call, AllOperations, TypeOps, ActorOps, Pairs, Roles
  <2>2. CASE \E o \in ActorOps \ {"addPair"}, a \in Actors : c = [op |-> o, actor |-> a, pair |-> NoPair]
    BY <2>2 DEF Call, AllOperations, TypeOps, ActorOps
  <2>3. CASE \E a \in Actors : \E x \in Wishes[a] : c = [op |-> "addPair", actor |-> a, pair |-> x]
    <3>1. PICK a \in Actors : \E x \in Wishes[a] : c = [op |-> "addPair", actor |-> a, pair |-> x]
      BY <2>3
    <3>2. PICK x \in Wishes[a] : c = [op |-> "addPair", actor |-> a, pair |-> x]
      BY <3>1
    <3>3. x \in Pairs
      BY WishesAssumption
    <3>4. QED
      BY <3>2, <3>3 DEF Call, AllOperations, TypeOps, ActorOps
  <2>4. QED
    BY <2>1, <2>2, <2>3 DEF Calls, TypeOps, ActorOps
<1>2. pc'[p] \in {"want", "check"} /\ (pc'[p] = "want" => c.op = "addPair")
      /\ call'[p] = c /\ Others(p) /\ WantsKept
  BY DEF Inv, LocalType, Begin, FirstStep, Others, WantsKept, interface, loop
<1>3. LocalType'
  BY <1>1 DEF Inv, LocalType, Begin, FirstStep, Steps, loop
<1>4. Op(p)' = c.op /\ Actor(p)' = c.actor /\ Pair(p)' = c.pair
  BY <1>2 DEF Op, Actor, Pair
<1>5. rest'[p] = {}
  BY DEF Inv, CallsKnow, CallKnows, Ready, Begin, loop
<1>6. CallKnows(p)'
  BY <1>1, <1>2, <1>4, <1>5 DEF CallKnows, Known, Ready
<1>7. CallsKnow'
  BY <1>2, <1>6, OthersKnow DEF Inv, CallsKnow
<1>8. RegistryType' /\ NoStrangers'
  BY DEF Inv, RegistryType, NoStrangers, Members, Begin, registry, interface
<1>9. QED
  BY <1>3, <1>7, <1>8 DEF Inv

(* The three steps that set the entry of a type. *)
LEMMA SetEntryKeeps ==
  ASSUME Inv, NEW p \in Threads, NEW keys \in SUBSET Types, NEW step \in {"replace", "idle"},
         SetEntry(p, keys, step), Op(p) \in TypeOps
  PROVE  Inv'
<1>1. RegistryType' /\ WantsKept
  BY DEF Inv, RegistryType, SetEntry, interface, WantsKept
<1>2. \A x \in Pairs : Members(x)' \subseteq Members(x)
  BY DEF Inv, RegistryType, SetEntry, Members
<1>3. NoStrangers'
  BY <1>1, <1>2, FewerMembers DEF Inv
<1>4. PICK lost : Proceed(p, step, lost)
  BY DEF SetEntry
<1>5. step # "idle" => Ready(p, step)
  BY DEF Ready
<1>6. step \in Steps
  BY DEF Steps
<1>7. LocalType'
  BY <1>4, <1>6, ProceedTypes DEF Inv
<1>8. CallsKnow'
  BY <1>1, <1>4, <1>5, <1>6, ProceedKnows DEF Inv
<1>9. QED
  BY <1>1, <1>3, <1>7, <1>8 DEF Inv

LEMMA TypesKeep ==
  ASSUME Inv, NEW p \in Threads, OnTypes(p)
  PROVE  Inv'
<1>1. CallKnows(p) /\ (Op(p) \in TypeOps => Type(p) \in Types)
  BY PairTypes DEF Inv, CallsKnow, CallKnows, Known, Type
<1>2. types \subseteq Types
  BY DEF Inv, RegistryType
<1>3. CASE CheckEvent(p)
  <2>1. PICK step \in {"idle", "put"}, lost \in SUBSET Threads : Proceed(p, step, lost)
    BY <1>3 DEF CheckEvent, Return, Goto
  <2>2. Op(p) \in TypeOps
    BY <1>3 DEF CheckEvent, TypeOps
  <2>3. Ready(p, "put")
    BY <2>2 DEF Ready
  <2>4. UNCHANGED <<paired, wanted>> /\ RegistryType'
    BY <1>3 DEF CheckEvent, registry, interface, Inv, RegistryType
  <2>5. step \in Steps \ {"bind", "allocate", "add"}
    BY DEF Steps
  <2>6. QED
    BY <2>1, <2>3, <2>4, <2>5, ProceedKeeps
<1>4. CASE CheckRemoved(p)
  <2>1. PICK step \in {"idle", "drop"}, lost \in SUBSET Threads : Proceed(p, step, lost)
    BY <1>4 DEF CheckRemoved, Return, Goto
  <2>2. Op(p) \in TypeOps
    BY <1>4 DEF CheckRemoved, TypeOps
  <2>3. Ready(p, "drop")
    BY <2>2 DEF Ready
  <2>4. UNCHANGED <<paired, wanted>> /\ RegistryType'
    BY <1>4 DEF CheckRemoved, registry, interface, Inv, RegistryType
  <2>5. step \in Steps \ {"bind", "allocate", "add"}
    BY DEF Steps
  <2>6. QED
    BY <2>1, <2>3, <2>4, <2>5, ProceedKeeps
<1>5. CASE PutEvent(p)
  <2>1. Op(p) \in TypeOps
    BY <1>1, <1>5 DEF PutEvent, CallKnows, Ready
  <2>2. types \cup {Type(p)} \in SUBSET Types
    BY <1>1, <1>2, <2>1
  <2>3. PICK step \in {"replace", "idle"} : SetEntry(p, types \cup {Type(p)}, step)
    BY <1>5 DEF PutEvent
  <2>4. QED
    BY <2>1, <2>2, <2>3, SetEntryKeeps
<1>6. CASE ReplaceEvent(p)
  <2>1. Op(p) \in TypeOps
    BY <1>1, <1>6 DEF ReplaceEvent, CallKnows, Ready
  <2>2. types \cup {Type(p)} \in SUBSET Types
    BY <1>1, <1>2, <2>1
  <2>3. QED
    BY <1>6, <2>1, <2>2, SetEntryKeeps DEF ReplaceEvent
<1>7. CASE DropEvent(p)
  <2>1. Op(p) \in TypeOps
    BY <1>1, <1>7 DEF DropEvent, CallKnows, Ready
  <2>2. types \ {Type(p)} \in SUBSET Types
    BY <1>2
  <2>3. QED
    BY <1>7, <2>1, <2>2, SetEntryKeeps DEF DropEvent
<1>8. QED
  BY <1>3, <1>4, <1>5, <1>6, <1>7 DEF OnTypes

-----------------------------------------------------------------------------
(* Pairing. *)

LEMMA AllocateKeeps ==
  ASSUME Inv, NEW p \in Threads, Allocate(p)
  PROVE  Inv'
<1>1. Proceed(p, "add", {})
  BY DEF Allocate, Goto
<1>2. Ready(p, "add") /\ Pair(p) \in Pairs
  BY DEF Inv, CallsKnow, CallKnows, Ready, Allocate
<1>3. RegistryType' /\ WantsKept /\ UNCHANGED wanted
  BY <1>2 DEF Inv, RegistryType, Allocate, interface, WantsKept
<1>4. \A x \in Pairs : Members(x)' \subseteq Members(x)
  BY DEF Inv, RegistryType, Allocate, Members
<1>5. NoStrangers'
  BY <1>3, <1>4, FewerMembers DEF Inv
<1>6. LocalType'
  BY <1>1, ProceedTypes DEF Inv, Steps
<1>7. CallsKnow'
  BY <1>1, <1>2, <1>3, ProceedKnows DEF Inv, Steps, Ready
<1>8. QED
  BY <1>3, <1>5, <1>6, <1>7 DEF Inv

LEMMA AddKeeps ==
  ASSUME Inv, NEW p \in Threads, Add(p)
  PROVE  Inv'
<1>1. Proceed(p, AfterPair(p), {p})
  BY DEF Add
<1>2. /\ Op(p) \in {"register", "addPair"} /\ Actor(p) \in Actors
      /\ Pair(p) \in Pairs /\ Pair(p) \in wanted[Actor(p)]
  BY DEF Inv, CallsKnow, CallKnows, Known, Ready, Add, ActorOps
<1>3. AfterPair(p) \in {"idle", "pairInput", "pairOutput"}
      /\ (AfterPair(p) # "idle" => Op(p) = "register")
  BY DEF AfterPair, Loop
<1>4. AfterPair(p) # "idle" => Ready(p, AfterPair(p))
  BY <1>3 DEF Ready
<1>5. Members(Pair(p)) \subseteq Actors
  BY <1>2 DEF Inv, RegistryType, Members
<1>6. RegistryType' /\ WantsKept /\ UNCHANGED wanted
  BY <1>2, <1>5 DEF Inv, RegistryType, Add, interface, WantsKept
<1>7. NoStrangers'
  <2> SUFFICES ASSUME NEW x \in Pairs, NEW a \in Members(x)' PROVE x \in wanted'[a]
    BY DEF NoStrangers
  <2>1. CASE a \in Members(x)
    BY <2>1, <1>6 DEF Inv, NoStrangers
  <2>2. CASE a \notin Members(x)
    <3>1. x = Pair(p) /\ a = Actor(p)
      BY <2>2 DEF Inv, RegistryType, Add, Members
    <3>2. QED
      BY <1>2, <1>6, <3>1
  <2>3. QED
    BY <2>1, <2>2
<1>8. AfterPair(p) \in Steps
  BY <1>3 DEF Steps, Loops
<1>9. LocalType'
  BY <1>1, <1>8, ProceedTypes DEF Inv
<1>10. CallsKnow'
  BY <1>1, <1>3, <1>4, <1>6, <1>8, ProceedKnows DEF Inv
<1>11. QED
  BY <1>6, <1>7, <1>9, <1>10 DEF Inv

LEMMA WantKeeps ==
  ASSUME Inv, NEW p \in Threads, Want(p)
  PROVE  Inv'
<1>1. Proceed(p, "bind", {})
  BY DEF Want, Goto
<1>2. Op(p) = "addPair" /\ Actor(p) \in Actors /\ Pair(p) \in Pairs
  BY DEF Inv, CallsKnow, CallKnows, Known, Ready, Want, ActorOps
<1>3. wanted' = [wanted EXCEPT ![Actor(p)] = @ \cup {Pair(p)}] /\ UNCHANGED <<types, actors, mode, paired, inDomain>>
  BY DEF Want, registry
<1>4. RegistryType' /\ WantsKept /\ Pair(p) \in wanted'[Actor(p)]
  BY <1>2, <1>3 DEF Inv, RegistryType, WantsKept
<1>5. \A x \in Pairs : Members(x)' \subseteq Members(x)
  BY <1>3 DEF Members
<1>6. NoStrangers'
  BY <1>4, <1>5, FewerMembers DEF Inv
<1>7. "bind" \in Steps
  BY DEF Steps
<1>8. LocalType'
  BY <1>1, <1>7, ProceedTypes DEF Inv
<1>9. CallsKnow'
  BY <1>1, <1>2, <1>4, <1>7, ProceedKnows DEF Inv
<1>10. QED
  BY <1>4, <1>6, <1>8, <1>9 DEF Inv

LEMMA BindKeeps ==
  ASSUME Inv, NEW p \in Threads, Bind(p)
  PROVE  Inv'
<1>1. UNCHANGED <<types, actors, mode, paired, wanted, inDomain>>
  BY DEF Bind, registry, interface
<1>2. RegistryType' /\ NoStrangers'
  BY <1>1 DEF Inv, RegistryType, NoStrangers, Members
<1>3. CASE Return(p)
  BY <1>1, <1>2, <1>3, ProceedKeeps DEF Return, Steps
<1>4. CASE LookUp(p, Pair(p)) /\ UNCHANGED loop
  <2>1. Op(p) = "addPair" /\ Pair(p) \in Pairs /\ Pair(p) \in wanted[Actor(p)]
    BY DEF Inv, CallsKnow, CallKnows, Ready, Bind
  <2>2. UNCHANGED seen /\ rest'[p] \subseteq rest[p] /\ rest' = [rest EXCEPT ![p] = rest'[p]]
    BY <1>4 DEF Inv, LocalType, loop
  <2>3. LocalType' /\ CallsKnow'
    BY <1>1, <1>4, <2>1, <2>2, LookUpKnows DEF Inv
  <2>4. QED
    BY <1>2, <2>3 DEF Inv
<1>5. QED
  BY <1>3, <1>4 DEF Bind

LEMMA PairNextKeeps ==
  ASSUME Inv, NEW p \in Threads, PairNext(p)
  PROVE  Inv'
<1>1. UNCHANGED <<types, actors, mode, paired, wanted, inDomain>> /\ UNCHANGED seen
  BY DEF PairNext, registry, interface
<1>2. RegistryType' /\ NoStrangers'
  BY <1>1 DEF Inv, RegistryType, NoStrangers, Members
<1>3. PICK x \in rest[p] :
        /\ rest' = [rest EXCEPT ![p] = @ \ {x}]
        /\ LookUp(p, x) \/ UNCHANGED <<pc, call, holds, met>>
  BY DEF PairNext
<1>4. Op(p) = "register" /\ x \in Pairs /\ rest[p] \subseteq wanted[Actor(p)] /\ Actor(p) \in Actors
  BY <1>3 DEF Inv, LocalType, CallsKnow, CallKnows, Known, Ready, PairNext, ActorOps
<1>5. rest'[p] \subseteq rest[p] /\ rest' = [rest EXCEPT ![p] = rest'[p]]
  BY <1>3 DEF Inv, LocalType
<1>6. CASE LookUp(p, x)
  <2>1. LocalType' /\ CallsKnow'
    BY <1>1, <1>4, <1>5, <1>6, LookUpKnows DEF Inv
  <2>2. QED
    BY <1>2, <2>1 DEF Inv
<1>7. CASE UNCHANGED <<pc, call, holds, met>>
  <2>1. LocalType'
    BY <1>1, <1>3, <1>7 DEF Inv, LocalType
  <2>2. Others(p) /\ WantsKept
    BY <1>1, <1>3, <1>7 DEF Inv, LocalType, Others, WantsKept
  <2>3. Known(p)' /\ Ready(p, pc[p])'
    BY <1>1, <1>4, <1>5, <1>7 DEF Inv, CallsKnow, CallKnows, Known, Ready, Op, Actor, Pair
  <2>4. QED
    BY <1>2, <2>1, <2>2, <2>3, OthersKnow DEF Inv, CallsKnow, CallKnows
<1>8. QED
  BY <1>3, <1>6, <1>7

LEMMA UnpairNextKeeps ==
  ASSUME Inv, NEW p \in Threads, UnpairNext(p)
  PROVE  Inv'
<1>1. UNCHANGED <<types, actors, mode, wanted, inDomain, pc, call, seen, holds, met>>
  BY DEF UnpairNext, interface
<1>2. PICK x \in rest[p] :
        /\ rest' = [rest EXCEPT ![p] = @ \ {x}]
        /\ paired' = [paired EXCEPT ![x] = IF @ = None THEN None ELSE @ \ {Actor(p)}]
  BY DEF UnpairNext
<1>3. RegistryType'
  BY <1>1, <1>2 DEF Inv, RegistryType
<1>4. \A y \in Pairs : Members(y)' \subseteq Members(y)
  BY <1>2 DEF Inv, RegistryType, Members
<1>5. Others(p) /\ WantsKept /\ LocalType' /\ rest'[p] \subseteq rest[p]
  BY <1>1, <1>2 DEF Inv, LocalType, Others, WantsKept
<1>6. NoStrangers'
  BY <1>4, <1>5, FewerMembers DEF Inv
<1>7. Known(p)' /\ Ready(p, pc[p])'
  BY <1>1, <1>5 DEF Inv, CallsKnow, CallKnows, Known, Ready, Op, Actor, Pair
<1>8. QED
  BY <1>3, <1>5, <1>6, <1>7, OthersKnow DEF Inv, CallsKnow, CallKnows

LEMMA PairsKeep ==
  ASSUME Inv, NEW p \in Threads, OnPairs(p)
  PROVE  Inv'
<1>1. CASE LoopThrows(p)
  <2>1. UNCHANGED <<paired, wanted>> /\ RegistryType'
    BY <1>1 DEF LoopThrows, registry, interface, Inv, RegistryType
  <2>2. QED
    BY <1>1, <2>1, ProceedKeeps DEF LoopThrows, Return, Steps
<1>2. QED
  BY <1>1, AllocateKeeps, AddKeeps, WantKeeps, BindKeeps, PairNextKeeps, UnpairNextKeeps DEF OnPairs

-----------------------------------------------------------------------------
(* Actors. *)

LEMMA ChecksKeep ==
  ASSUME Inv, NEW p \in Threads,
         CheckRegistered(p) \/ CheckDeregistered(p) \/ CheckSwitched(p)
  PROVE  Inv'
<1>1. CASE CheckRegistered(p)
  <2>1. PICK step \in {"idle", "enter"}, lost \in SUBSET Threads : Proceed(p, step, lost)
    BY <1>1 DEF CheckRegistered, Return, Goto
  <2>2. Op(p) = "register" /\ Actor(p) \in Actors
    BY <1>1 DEF CheckRegistered, Inv, CallsKnow, CallKnows, Known, ActorOps
  <2>3. Ready(p, "enter")
    BY <2>2 DEF Ready
  <2>4. UNCHANGED <<paired, wanted>> /\ RegistryType'
    BY <1>1, <2>2 DEF CheckRegistered, registry, Inv, RegistryType
  <2>5. step \in Steps \ {"bind", "allocate", "add"}
    BY DEF Steps
  <2>6. QED
    BY <2>1, <2>3, <2>4, <2>5, ProceedKeeps
<1>2. CASE CheckDeregistered(p)
  <2>1. PICK step \in {"idle", "leave"}, lost \in SUBSET Threads : Proceed(p, step, lost)
    BY <1>2 DEF CheckDeregistered, Return, Goto
  <2>2. Ready(p, "leave")
    BY <1>2 DEF CheckDeregistered, Ready
  <2>3. UNCHANGED <<paired, wanted>> /\ RegistryType'
    BY <1>2 DEF CheckDeregistered, registry, interface, Inv, RegistryType
  <2>4. step \in Steps \ {"bind", "allocate", "add"}
    BY DEF Steps
  <2>5. QED
    BY <2>1, <2>2, <2>3, <2>4, ProceedKeeps
<1>3. CASE CheckSwitched(p)
  <2>1. PICK step \in {"idle", "switch"}, lost \in SUBSET Threads : Proceed(p, step, lost)
    BY <1>3 DEF CheckSwitched, Return, Goto
  <2>2. Ready(p, "switch")
    BY <1>3 DEF CheckSwitched, Ready
  <2>3. UNCHANGED <<paired, wanted>> /\ RegistryType'
    BY <1>3 DEF CheckSwitched, registry, interface, Inv, RegistryType
  <2>4. step \in Steps \ {"bind", "allocate", "add"}
    BY DEF Steps
  <2>5. QED
    BY <2>1, <2>2, <2>3, <2>4, ProceedKeeps
<1>4. QED
  BY <1>1, <1>2, <1>3

LEMMA RegisterKeeps ==
  ASSUME Inv, NEW p \in Threads,
         Enter(p) \/ EnterState(p) \/ PairOutputs(p) \/ RegisterEnds(p)
  PROVE  Inv'
<1>1. Op(p) = "register" /\ Actor(p) \in Actors
  BY DEF Inv, CallsKnow, CallKnows, Known, Ready, ActorOps,
         Enter, EnterState, PairOutputs, RegisterEnds
<1>2. \A step \in {"state", "pairInput", "pairOutput"} : Ready(p, step)
  BY <1>1 DEF Ready
<1>3. CASE Enter(p)
  <2>1. UNCHANGED <<paired, wanted>> /\ RegistryType'
    BY <1>1, <1>3 DEF Enter, interface, Inv, RegistryType
  <2>2. Proceed(p, "state", {}) /\ "state" \in Steps \ {"bind", "allocate", "add"}
    BY <1>3 DEF Enter, Goto, Steps
  <2>3. QED
    BY <1>2, <2>1, <2>2, ProceedKeeps
<1>4. CASE EnterState(p)
  <2>1. UNCHANGED <<paired, wanted>> /\ RegistryType'
    BY <1>1, <1>4 DEF EnterState, interface, Inv, RegistryType
  <2>2. QED
    BY <1>1, <1>2, <1>4, <2>1, StartLoopKeeps DEF EnterState, Loops
<1>5. CASE PairOutputs(p)
  <2>1. UNCHANGED <<paired, wanted>> /\ RegistryType'
    BY <1>5 DEF PairOutputs, registry, interface, Inv, RegistryType
  <2>2. QED
    BY <1>1, <1>2, <1>5, <2>1, StartLoopKeeps DEF PairOutputs, Loops
<1>6. CASE RegisterEnds(p)
  <2>1. UNCHANGED <<paired, wanted>> /\ RegistryType'
    BY <1>6 DEF RegisterEnds, registry, interface, Inv, RegistryType
  <2>2. QED
    BY <1>6, <2>1, ProceedKeeps DEF RegisterEnds, Return, Steps
<1>7. QED
  BY <1>3, <1>4, <1>5, <1>6

LEMMA DeregisterKeeps ==
  ASSUME Inv, NEW p \in Threads, Leave(p) \/ UnpairOutputs(p) \/ DeregisterEnds(p)
  PROVE  Inv'
<1>1. Op(p) = "deregister" /\ Actor(p) \in Actors
  BY DEF Inv, CallsKnow, CallKnows, Known, Ready, ActorOps, Leave, UnpairOutputs, DeregisterEnds
<1>2. \A step \in {"unpairInput", "unpairOutput"} : Ready(p, step)
  BY <1>1 DEF Ready
<1>3. CASE Leave(p)
  <2>1. UNCHANGED <<paired, wanted>> /\ RegistryType'
    BY <1>3 DEF Leave, interface, Inv, RegistryType
  <2>2. CASE StartLoop(p, "unpairInput")
    BY <1>1, <1>2, <2>1, <2>2, StartLoopKeeps DEF Loops
  <2>3. CASE Return(p)
    BY <2>1, <2>3, ProceedKeeps DEF Return, Steps
  <2>4. QED
    BY <1>3, <2>2, <2>3 DEF Leave
<1>4. CASE UnpairOutputs(p)
  <2>1. UNCHANGED <<paired, wanted>> /\ RegistryType'
    BY <1>4 DEF UnpairOutputs, registry, interface, Inv, RegistryType
  <2>2. QED
    BY <1>1, <1>2, <1>4, <2>1, StartLoopKeeps DEF UnpairOutputs, Loops
<1>5. CASE DeregisterEnds(p)
  <2>1. UNCHANGED <<paired, wanted>> /\ RegistryType'
    BY <1>1, <1>5 DEF DeregisterEnds, interface, Inv, RegistryType
  <2>2. QED
    BY <1>5, <2>1, ProceedKeeps DEF DeregisterEnds, Return, Steps
<1>6. QED
  BY <1>3, <1>4, <1>5

LEMMA SwitchKeeps ==
  ASSUME Inv, NEW p \in Threads, Switch(p)
  PROVE  Inv'
<1>1. Actor(p) \in Actors
  BY DEF Inv, CallsKnow, CallKnows, Known, Ready, ActorOps, Switch
<1>2. UNCHANGED <<paired, wanted>> /\ RegistryType'
  BY <1>1 DEF Switch, interface, Inv, RegistryType
<1>3. QED
  BY <1>2, ProceedKeeps DEF Switch, Return, Steps

LEMMA InvNext == Inv /\ [Next]_vars => Inv'
<1> SUFFICES ASSUME Inv, [Next]_vars PROVE Inv'
  OBVIOUS
<1>1. CASE UNCHANGED vars
  BY <1>1 DEF vars, registry, interface, loop, Inv, RegistryType, LocalType, CallsKnow, CallKnows,
              Known, Ready, Op, Actor, Pair, NoStrangers, Members
<1>2. CASE Next
  <2>1. PICK p \in Threads :
          (\E c \in Calls(p) : Begin(p, c)) \/ OnTypes(p) \/ OnPairs(p) \/ OnActors(p)
    BY <1>2 DEF Next
  <2>2. CASE \E c \in Calls(p) : Begin(p, c)
    BY <2>2, BeginKeeps
  <2>3. CASE OnTypes(p)
    BY <2>3, TypesKeep
  <2>4. CASE OnPairs(p)
    BY <2>4, PairsKeep
  <2>5. CASE OnActors(p)
    BY <2>5, ChecksKeep, RegisterKeeps, DeregisterKeeps, SwitchKeeps DEF OnActors
  <2>6. QED
    BY <2>1, <2>2, <2>3, <2>4, <2>5
<1>3. QED
  BY <1>1, <1>2

(* The variables have their types. *)
THEOREM TypeCorrect == Spec => []TypeOK
<1>1. Inv => TypeOK
  BY DEF Inv, RegistryType, LocalType, TypeOK
<1>2. QED
  BY <1>1, InvInit, InvNext, PTL DEF Spec

(* No actor is ever a consumer or producer of a type that is not in its input
   or output set: SubscriptionEntry objects, however stale or racing, are only
   ever given actors that asked for the type. *)
THEOREM StrangersCorrect == Spec => []NoStrangers
<1>1. Inv => NoStrangers
  BY DEF Inv
<1>2. QED
  BY <1>1, InvInit, InvNext, PTL DEF Spec

-----------------------------------------------------------------------------
(* What calls that meet no other do.  A call is about its actor and about some
   types; the invariant says that threads outside met have these for themselves
   (Apart), and what such a call can rely on at each of its steps. *)

(* The pairs of actors and of calls are among the wishes. *)
Asked ==
  /\ \A a \in Actors : wanted[a] \subseteq Wishes[a]
  /\ \A p \in Threads : Op(p) = "addPair" => Pair(p) \in Wishes[Actor(p)]

(* Who is paired is so in the entry of a type that exists, as is an entry that
   a thread holds and that is the one in the map. *)
EntriesExist ==
  /\ \A x \in Pairs : Members(x) # {} => x[2] \in types
  /\ \A p \in holds : pc[p] \in {"allocate", "add"} /\ Type(p) \in types

Apart ==
  \A p, q \in Threads :
    p # q /\ p \notin met /\ pc[p] # "idle" /\ pc[q] # "idle"
      => About(call[p]) \cap About(call[q]) = {}

(* addEvent(): nobody is paired with the type that is about to get an entry. *)
TypeAlone(p) ==
  /\ pc[p] = "drop" => Op(p) = "removeEvent"
  /\ pc[p] = "put" => Type(p) \notin types
  /\ pc[p] = "replace" => \A x \in Pairs : x[2] = Type(p) => Members(x) = {}

(* A pairing goes on with the entry in the map; the set is still missing that
   was missed. *)
EntryCurrent(p) ==
  /\ pc[p] \in {"allocate", "add"} => p \in holds
  /\ pc[p] = "allocate" => paired[Pair(p)] = None

(* What the loops of register() and deregister() have yet to reach. *)
InPair(p) == pc[p] \in {"allocate", "add"}
Side(p) == IF InPair(p) THEN Pair(p)[1] ELSE RoleOf(pc[p])
Pending(p, x) == x \in rest[p] \/ (InPair(p) /\ x = Pair(p)) \/ (Side(p) = "consumer" /\ x[1] = "producer")

Entering(p) ==
  /\ Op(p) = "register" /\ pc[p] \in {"state", "pairInput", "pairOutput", "allocate", "add"} => Actor(p) \in actors
  /\ Op(p) = "register" /\ pc[p] \in {"pairInput", "pairOutput", "allocate", "add"} =>
       /\ mode[Actor(p)] = "ENABLING"
       /\ \A x \in rest[p] : x[1] = Side(p)
       /\ \A x \in wanted[Actor(p)] : x[2] \in types => Actor(p) \in Members(x) \/ Pending(p, x)

Leaving(p) ==
  pc[p] \in {"unpairInput", "unpairOutput"} =>
    /\ Actor(p) \notin actors
    /\ \A x \in Pairs : Actor(p) \in Members(x) => Pending(p, x)

Undisturbed(p) == TypeAlone(p) /\ EntryCurrent(p) /\ Entering(p) /\ Leaving(p)

Alone == Asked /\ EntriesExist /\ Apart /\ \A p \in Threads \ met : Undisturbed(p)

Step(p) == OnTypes(p) \/ OnPairs(p) \/ OnActors(p)

(* What a step of a thread does to its own call. *)
Shape(p) ==
  \/ \E step \in Steps, lost \in SUBSET Threads : Proceed(p, step, lost)
  \/ \E step \in Loops : StartLoop(p, step)
  \/ /\ \E x \in Pairs : LookUp(p, x) /\ (Op(p) = "register" \/ x = Pair(p))
     /\ \E S \in SUBSET Pairs : rest' = [rest EXCEPT ![p] = S]
  \/ /\ UNCHANGED <<pc, call, holds, met>>
     /\ \E S \in SUBSET Pairs : rest' = [rest EXCEPT ![p] = S]

LEMMA StepShape ==
  ASSUME Inv, NEW p \in Threads, Step(p)
  PROVE  Shape(p) /\ pc[p] # "idle"
<1> USE DEF Return, Goto
<1>1. {"idle", "check", "put", "replace", "drop", "enter", "state", "leave", "switch", "want", "bind",
       "allocate", "add", "pairInput", "pairOutput", "unpairInput", "unpairOutput"} \subseteq Steps
  BY DEF Steps, Loops
<1>2. {} \in SUBSET Threads /\ {p} \in SUBSET Threads /\ {q \in Threads : Type(q) = Type(p)} \in SUBSET Threads
  OBVIOUS
<1>3. CASE OnTypes(p)
  <2>1. CASE CheckEvent(p) \/ CheckRemoved(p)
    BY <1>1, <1>2, <2>1 DEF CheckEvent, CheckRemoved, Shape
  <2>2. CASE PutEvent(p) \/ ReplaceEvent(p) \/ DropEvent(p)
    BY <1>1, <1>2, <2>2 DEF PutEvent, ReplaceEvent, DropEvent, SetEntry, Shape
  <2>3. QED
    BY <1>3, <2>1, <2>2 DEF OnTypes
<1>4. CASE OnPairs(p)
  <2>1. CASE Allocate(p) \/ Want(p) \/ LoopThrows(p)
    BY <1>1, <1>2, <2>1 DEF Allocate, Want, LoopThrows, Loops, Shape
  <2>2. CASE Add(p)
    <3>1. AfterPair(p) \in Steps
      BY <1>1 DEF AfterPair, Loop
    <3>2. QED
      BY <1>2, <2>2, <3>1 DEF Add, Shape
  <2>3. CASE Bind(p)
    <3>1. CASE Return(p)
      BY <1>1, <1>2, <2>3, <3>1 DEF Bind, Shape
    <3>2. CASE LookUp(p, Pair(p)) /\ UNCHANGED loop
      <4>1. Pair(p) \in Pairs /\ rest' = [rest EXCEPT ![p] = rest[p]] /\ rest[p] \in SUBSET Pairs
        BY <2>3, <3>2 DEF Bind, Inv, CallsKnow, CallKnows, Ready, LocalType, loop
      <4>2. QED
        BY <2>3, <3>2, <4>1 DEF Bind, Shape
    <3>3. QED
      BY <2>3, <3>1, <3>2 DEF Bind
  <2>4. CASE PairNext(p)
    <3>1. PICK x \in rest[p] :
            /\ rest' = [rest EXCEPT ![p] = @ \ {x}]
            /\ LookUp(p, x) \/ UNCHANGED <<pc, call, holds, met>>
      BY <2>4 DEF PairNext
    <3>2. x \in Pairs /\ rest[p] \ {x} \in SUBSET Pairs /\ Op(p) = "register"
      BY <2>4, <3>1 DEF PairNext, Inv, CallsKnow, CallKnows, Ready, LocalType
    <3>3. rest' = [rest EXCEPT ![p] = rest[p] \ {x}]
      BY <3>1
    <3>4. QED
      BY <2>4, <3>1, <3>2, <3>3 DEF PairNext, Shape
  <2>5. CASE UnpairNext(p)
    <3>1. PICK x \in rest[p] : rest' = [rest EXCEPT ![p] = @ \ {x}]
      BY <2>5 DEF UnpairNext
    <3>2. rest[p] \ {x} \in SUBSET Pairs
      BY DEF Inv, LocalType
    <3>3. rest' = [rest EXCEPT ![p] = rest[p] \ {x}] /\ UNCHANGED <<pc, call, holds, met>>
      BY <2>5, <3>1 DEF UnpairNext
    <3>4. QED
      BY <2>5, <3>2, <3>3 DEF UnpairNext, Shape
  <2>6. QED
    BY <1>4, <2>1, <2>2, <2>3, <2>4, <2>5 DEF OnPairs
<1>5. CASE OnActors(p)
  <2>1. CASE CheckRegistered(p) \/ Enter(p) \/ RegisterEnds(p) \/ CheckDeregistered(p) \/ DeregisterEnds(p)
             \/ CheckSwitched(p) \/ Switch(p)
    BY <1>1, <1>2, <2>1 DEF CheckRegistered, Enter, RegisterEnds, CheckDeregistered, DeregisterEnds,
       CheckSwitched, Switch, Shape
  <2>2. CASE EnterState(p) \/ PairOutputs(p) \/ Leave(p) \/ UnpairOutputs(p)
    BY <1>1, <1>2, <2>2 DEF EnterState, PairOutputs, Leave, UnpairOutputs, Loops, Shape
  <2>3. QED
    BY <1>5, <2>1, <2>2 DEF OnActors
<1>6. QED
  BY <1>3, <1>4, <1>5 DEF Step

(* The call goes on for the same actor and the same types until it returns. *)
LEMMA StepLocal ==
  ASSUME Inv, NEW p \in Threads, Step(p)
  PROVE  /\ pc[p] # "idle" /\ Others(p)
         /\ \A q \in Threads : q \in met' => q \in met
         /\ \A q \in Threads : q \in met /\ (q # p \/ pc'[p] # "idle") => q \in met'
         /\ pc'[p] = "idle" => Op(p)' = None
         /\ pc'[p] # "idle" =>
              /\ Op(p)' = Op(p) /\ Actor(p)' = Actor(p)
              /\ Op(p) # "register" => Pair(p)' = Pair(p)
<1> USE DEF Others, Op, Actor, Pair, Inv, LocalType
<1>1. ASSUME NEW step \in Steps, NEW lost \in SUBSET Threads, Proceed(p, step, lost)
      PROVE  /\ Others(p) /\ pc'[p] = step /\ met' = (IF step = "idle" THEN met \ {p} ELSE met)
             /\ call'[p] = IF step = "idle" THEN NoCall ELSE call[p]
  <2>1. CASE step = "idle"
    BY <1>1, <2>1 DEF Proceed
  <2>2. CASE step # "idle"
    BY <1>1, <2>2 DEF Proceed, loop
  <2>3. QED
    BY <2>1, <2>2
<1>2. ASSUME NEW step \in Loops, StartLoop(p, step)
      PROVE  Others(p) /\ pc'[p] = step /\ met' = met /\ call'[p] = call[p]
  BY <1>2 DEF StartLoop
<1>3. ASSUME NEW x \in Pairs, LookUp(p, x), NEW S \in SUBSET Pairs, rest' = [rest EXCEPT ![p] = S]
      PROVE  /\ Others(p) /\ pc'[p] \in {"allocate", "add"} /\ met' = met
             /\ call'[p].op = call[p].op /\ call'[p].actor = call[p].actor /\ call'[p].pair = x
  BY <1>3 DEF LookUp, Call
<1>4. ASSUME UNCHANGED <<pc, call, holds, met>>, NEW S \in SUBSET Pairs, rest' = [rest EXCEPT ![p] = S]
      PROVE  Others(p)
  BY <1>4
<1>5. NoCall.op = None /\ "idle" \notin Loops
  BY DEF NoCall, Loops
<1>6. Shape(p) /\ pc[p] # "idle"
  BY StepShape
<1>7. CASE \E step \in Steps, lost \in SUBSET Threads : Proceed(p, step, lost)
  <2>1. PICK step \in Steps, lost \in SUBSET Threads : Proceed(p, step, lost)
    BY <1>7
  <2>2. QED
    BY <1>1, <1>5, <1>6, <2>1
<1>8. CASE \E step \in Loops : StartLoop(p, step)
  BY <1>2, <1>5, <1>6, <1>8
<1>9. CASE /\ \E x \in Pairs : LookUp(p, x) /\ (Op(p) = "register" \/ x = Pair(p))
           /\ \E S \in SUBSET Pairs : rest' = [rest EXCEPT ![p] = S]
  BY <1>3, <1>6, <1>9
<1>10. CASE /\ UNCHANGED <<pc, call, holds, met>>
            /\ \E S \in SUBSET Pairs : rest' = [rest EXCEPT ![p] = S]
  BY <1>4, <1>6, <1>10
<1>11. QED
  BY <1>6, <1>7, <1>8, <1>9, <1>10 DEF Shape

LEMMA AboutKept ==
  ASSUME Inv, NEW p \in Threads, Step(p), pc'[p] # "idle"
  PROVE  About(call[p])' = About(call[p]) /\ Touches(call[p])' = Touches(call[p])
<1>1. call'[p].op = call[p].op /\ call'[p].actor = call[p].actor
      /\ (call[p].op # "register" => call'[p].pair = call[p].pair)
  BY StepLocal DEF Op, Actor, Pair
<1>2. QED
  BY <1>1 DEF About, Touches

LEMMA ApartStep == Inv /\ Apart /\ [Next]_vars => Apart'
<1> SUFFICES ASSUME Inv, Apart, [Next]_vars PROVE Apart'
  OBVIOUS
<1>1. CASE UNCHANGED vars
  BY <1>1 DEF vars, Apart, About, Touches
<1>2. ASSUME NEW r \in Threads, NEW c \in Calls(r), Begin(r, c) PROVE Apart'
  <2> DEFINE others == {q \in Threads : pc[q] # "idle" /\ About(call[q]) \cap About(c) # {}}
  <2>1. /\ pc[r] = "idle" /\ call'[r] = c
        /\ \A q \in Threads \ {r} : pc'[q] = pc[q] /\ call'[q] = call[q]
        /\ met' = met \cup others \cup (IF others = {} THEN {} ELSE {r})
    BY <1>2 DEF Begin, Inv, LocalType
  <2>2. About(call[r])' = About(c) /\ \A q \in Threads \ {r} : About(call[q])' = About(call[q])
    BY <2>1 DEF About, Touches
  <2>3. SUFFICES ASSUME NEW p \in Threads, NEW q \in Threads, p # q, p \notin met', pc'[p] # "idle", pc'[q] # "idle"
                 PROVE  About(call[p])' \cap About(call[q])' = {}
    BY DEF Apart
  <2>4. CASE p # r /\ q # r
    BY <2>1, <2>2, <2>3, <2>4 DEF Apart
  <2>5. CASE p = r
    <3>1. others = {} /\ pc[q] # "idle"
      BY <2>1, <2>3, <2>5
    <3>2. QED
      BY <2>2, <2>3, <2>5, <3>1
  <2>6. CASE q = r
    <3>1. p \notin others /\ pc[p] # "idle"
      BY <2>1, <2>3, <2>6
    <3>2. QED
      BY <2>2, <2>3, <2>6, <3>1
  <2>7. QED
    BY <2>4, <2>5, <2>6
<1>3. ASSUME NEW r \in Threads, Step(r) PROVE Apart'
  <2>1. \A q \in Threads : pc'[q] # "idle" =>
          pc[q] # "idle" /\ About(call[q])' = About(call[q]) /\ (q \in met => q \in met')
    <3> SUFFICES ASSUME NEW q \in Threads, pc'[q] # "idle"
                 PROVE  pc[q] # "idle" /\ About(call[q])' = About(call[q]) /\ (q \in met => q \in met')
      OBVIOUS
    <3>1. CASE q = r
      BY <1>3, <3>1, StepLocal, AboutKept
    <3>2. CASE q # r
      BY <1>3, <3>2, StepLocal DEF Others, About, Touches
    <3>3. QED
      BY <3>1, <3>2
  <2>2. QED
    BY <2>1 DEF Apart
<1>4. QED
  BY <1>1, <1>2, <1>3 DEF Next, Step

LEMMA AskedStep == Inv /\ Asked /\ [Next]_vars => Asked'
<1> SUFFICES ASSUME Inv, Asked, [Next]_vars PROVE Asked'
  OBVIOUS
<1>1. CASE UNCHANGED vars
  BY <1>1 DEF vars, interface, Asked, Op, Pair, Actor
<1>2. ASSUME NEW r \in Threads, NEW c \in Calls(r), Begin(r, c) PROVE Asked'
  <2>1. c.op = "addPair" => c.pair \in Wishes[c.actor]
    BY <1>2 DEF Calls
  <2>2. UNCHANGED wanted /\ call' = [call EXCEPT ![r] = c]
    BY <1>2 DEF Begin, interface
  <2>3. \A q \in Threads : call'[q] = IF q = r THEN c ELSE call[q]
    BY <2>2 DEF Inv, LocalType
  <2>4. QED
    BY <2>1, <2>2, <2>3 DEF Asked, Op, Pair, Actor
<1>3. ASSUME NEW r \in Threads, Step(r) PROVE Asked'
  <2>1. \A q \in Threads : Op(q)' = "addPair" => Op(q) = "addPair" /\ Pair(q)' = Pair(q) /\ Actor(q)' = Actor(q)
    <3>1. None # "addPair"
      BY NoneAssumption DEF AllOperations
    <3>2. QED
      BY <1>3, <3>1, StepLocal DEF Others, Op, Pair, Actor
  <2>2. CASE Want(r)
    <3>1. Op(r) = "addPair" /\ Actor(r) \in Actors
      BY <2>2 DEF Want, Inv, CallsKnow, CallKnows, Known, Ready, ActorOps
    <3>2. wanted' = [wanted EXCEPT ![Actor(r)] = @ \cup {Pair(r)}] /\ wanted \in [Actors -> SUBSET Pairs]
      BY <2>2 DEF Want, Inv, RegistryType
    <3>3. QED
      BY <2>1, <3>1, <3>2 DEF Asked
  <2>3. CASE ~Want(r)
    <3>1. UNCHANGED wanted
      BY <1>3, <2>3 DEF Step, OnTypes, CheckEvent, PutEvent, ReplaceEvent, CheckRemoved, DropEvent, SetEntry,
         OnPairs, Allocate, Add, Bind, LoopThrows, PairNext, UnpairNext, OnActors, CheckRegistered, Enter,
         EnterState, PairOutputs, RegisterEnds, CheckDeregistered, Leave, UnpairOutputs, DeregisterEnds,
         CheckSwitched, Switch, interface
    <3>2. QED
      BY <2>1, <3>1 DEF Asked
  <2>4. QED
    BY <2>2, <2>3
<1>4. QED
  BY <1>1, <1>2, <1>3 DEF Next, Step

(* What a call is about. *)
LEMMA Touched ==
  ASSUME Inv, Asked, NEW p \in Threads
  PROVE  /\ Op(p) \in TypeOps \cup {"addPair"} \/ InPair(p) =>
              Pair(p) \in Pairs /\ Type(p) \in Types /\ Type(p) \in Touches(call[p])
         /\ Op(p) \in {"register", "deregister"} =>
              \A x \in Wishes[Actor(p)] : x \in Pairs /\ x[2] \in Types /\ x[2] \in Touches(call[p])
         /\ Op(p) \in ActorOps => Actor(p) \in Actors /\ Actor(p) \in About(call[p])
         /\ \A t \in Types : t \in Touches(call[p]) => t \in About(call[p])
<1>1. Known(p) /\ Ready(p, pc[p])
  BY DEF Inv, CallsKnow, CallKnows
<1>2. Op(p) \in ActorOps => Actor(p) \in Actors /\ Wishes[Actor(p)] \subseteq Pairs
  BY <1>1, WishesAssumption DEF Known
<1>3. ASSUME Op(p) \in {"register", "deregister"}, NEW x \in Wishes[Actor(p)]
      PROVE  x \in Pairs /\ x[2] \in Types /\ x[2] \in Touches(call[p])
  BY <1>2, <1>3, PairTypes DEF Touches, Op, Actor, ActorOps
<1>4. ASSUME Op(p) \in TypeOps \cup {"addPair"}
      PROVE  Pair(p) \in Pairs /\ Type(p) \in Types /\ Type(p) \in Touches(call[p])
  BY <1>1, <1>4, PairTypes DEF Known, Touches, Op, Pair, Type, TypeOps
<1>5. ASSUME InPair(p)
      PROVE  Pair(p) \in Pairs /\ Type(p) \in Types /\ Type(p) \in Touches(call[p])
  <2>1. Op(p) \in {"register", "addPair"} /\ Pair(p) \in wanted[Actor(p)]
    BY <1>1, <1>5 DEF Ready, InPair
  <2>2. Pair(p) \in Wishes[Actor(p)]
    BY <1>2, <2>1 DEF Asked, ActorOps
  <2>3. QED
    BY <1>3, <1>4, <2>1, <2>2 DEF Type
<1>6. QED
  BY <1>2, <1>3, <1>4, <1>5, NoneAssumption DEF About, Actor

(* Two calls that have not met are about different actors and types. *)
LEMMA Separate ==
  ASSUME Inv, Asked, Apart, NEW p \in Threads, NEW q \in Threads,
         p # q, p \notin met, pc[p] # "idle", pc[q] # "idle"
  PROVE  /\ Op(p) \in ActorOps /\ Op(q) \in ActorOps => Actor(p) # Actor(q)
         /\ \A t \in Types : ~(t \in Touches(call[p]) /\ t \in Touches(call[q]))
<1>1. About(call[p]) \cap About(call[q]) = {}
  BY DEF Apart
<1>2. QED
  BY <1>1, Touched

(* How far a step reaches beyond the call it belongs to. *)
Footprint(r) ==
  /\ Others(r)
  /\ \A p \in Threads : p \in met' => p \in met
  /\ Op(r) \in ActorOps \/ UNCHANGED <<actors, mode, wanted>>
  /\ \A a \in Actors \ {Actor(r)} :
       (a \in actors' <=> a \in actors) /\ mode'[a] = mode[a] /\ wanted'[a] = wanted[a]
  /\ \A t \in Types : t \in Touches(call[r]) \/ (t \in types' <=> t \in types)
  /\ \A x \in Pairs : x[2] \in Touches(call[r]) \/ paired'[x] = paired[x]
  /\ \A p \in Threads \ {r} : p \in holds => p \in holds' \/ Type(p) \in Touches(call[r])

LEMMA EntryStep ==
  ASSUME Inv, Asked, EntriesExist, NEW r \in Threads, NEW keys, NEW step \in Steps \ {"allocate", "add"},
         pc[r] \in {"put", "replace", "drop"}, keys \ {Type(r)} = types \ {Type(r)}, SetEntry(r, keys, step)
  PROVE  Footprint(r) /\ EntriesExist'
<1>1. Op(r) \in TypeOps /\ Type(r) \in Types /\ Type(r) \in Touches(call[r])
  BY Touched DEF Inv, CallsKnow, CallKnows, Ready
<1>2. /\ types' = keys /\ UNCHANGED <<actors, mode, wanted>>
      /\ paired' = [x \in Pairs |-> IF x[2] = Type(r) THEN None ELSE paired[x]]
      /\ holds' = holds \ {q \in Threads : Type(q) = Type(r)}
  BY DEF SetEntry, Proceed, interface
<1>3. Others(r) /\ \A p \in Threads : p \in met' => p \in met
  BY ProceedEffect DEF Inv, SetEntry, Proceed, Others, LocalType, loop
<1>4. Footprint(r)
  BY <1>1, <1>2, <1>3 DEF Footprint
<1>5. \A x \in Pairs : Members(x)' = IF x[2] = Type(r) THEN {} ELSE Members(x)
  BY <1>2 DEF Members
<1>6. \A p \in holds' : p \in holds /\ p # r /\ Type(p) # Type(r)
  BY <1>2 DEF Inv, LocalType
<1>7. \A p \in holds' : pc'[p] = pc[p] /\ Type(p)' = Type(p)
  BY <1>3, <1>6 DEF Others, Type, Pair, Inv, LocalType
<1>8. QED
  BY <1>2, <1>4, <1>5, <1>6, <1>7 DEF EntriesExist

LEMMA StepReach ==
  ASSUME Inv, Asked, EntriesExist, NEW r \in Threads, Step(r)
  PROVE  Footprint(r) /\ EntriesExist'
<1> USE DEF Return, Goto
<1>1. Others(r) /\ \A p \in Threads : p \in met' => p \in met
  BY StepLocal
<1>2. \A p \in Threads \ {r} : pc'[p] = pc[p] /\ Type(p)' = Type(p)
  BY <1>1 DEF Others, Type, Pair
<1>3. \A p \in holds : p \in Threads /\ pc[p] \in {"allocate", "add"} /\ Type(p) \in types
  BY DEF EntriesExist, Inv, LocalType
<1>4. ASSUME UNCHANGED <<types, paired>>, pc[r] \notin {"allocate", "add"}, holds' \subseteq holds,
             holds \subseteq holds' \cup {r}
      PROVE  EntriesExist' /\ \A p \in Threads \ {r} : p \in holds => p \in holds'
  BY <1>2, <1>3, <1>4 DEF EntriesExist, Members
<1>5. CASE OnTypes(r)
  <2>1. CASE CheckEvent(r) \/ CheckRemoved(r)
    <3>1. UNCHANGED <<registry, interface>> /\ pc[r] = "check" /\ holds' \subseteq holds /\ holds \subseteq holds' \cup {r}
      BY <2>1 DEF CheckEvent, CheckRemoved, Proceed
    <3>2. QED
      BY <1>1, <1>4, <3>1 DEF Footprint, registry, interface
  <2>2. Steps \ {"allocate", "add"} = Loops \cup {"idle", "check", "put", "replace", "drop", "enter",
                     "state", "leave", "switch", "want", "bind"}
    BY DEF Steps, Loops
  <2>3. CASE PutEvent(r)
    BY <2>2, <2>3, EntryStep DEF PutEvent
  <2>4. CASE ReplaceEvent(r)
    BY <2>2, <2>4, EntryStep DEF ReplaceEvent
  <2>5. CASE DropEvent(r)
    BY <2>2, <2>5, EntryStep DEF DropEvent
  <2>6. QED
    BY <1>5, <2>1, <2>3, <2>4, <2>5 DEF OnTypes
<1>6. CASE OnPairs(r)
  <2>1. CASE Allocate(r)
    <3>1. Pair(r) \in Pairs /\ Type(r) \in Touches(call[r]) /\ Type(r) = Pair(r)[2]
      BY <2>1, Touched DEF Allocate, InPair, Type
    <3>2. /\ UNCHANGED <<types, actors, mode, interface, holds, call>> /\ pc'[r] = "add"
          /\ \A x \in Pairs \ {Pair(r)} : paired'[x] = paired[x]
      BY <2>1, <3>1 DEF Allocate, Proceed, Inv, RegistryType, LocalType
    <3>3. \A x \in Pairs : Members(x)' \subseteq Members(x)
      BY <2>1, <3>1 DEF Allocate, Inv, RegistryType, Members
    <3>4. EntriesExist'
      BY <1>2, <1>3, <3>2, <3>3 DEF EntriesExist, Type, Pair
    <3>5. QED
      BY <1>1, <3>1, <3>2, <3>4 DEF Footprint, interface
  <2>2. CASE Add(r)
    <3>1. Pair(r) \in Pairs /\ Type(r) \in Touches(call[r]) /\ Type(r) = Pair(r)[2]
      BY <2>2, Touched DEF Add, InPair, Type
    <3>2. /\ UNCHANGED <<types, actors, mode, interface>> /\ holds' = holds \ {r}
          /\ \A x \in Pairs \ {Pair(r)} : paired'[x] = paired[x]
          /\ r \notin holds => paired' = paired
      BY <2>2, <3>1 DEF Add, Proceed, Inv, RegistryType
    <3>3. \A x \in Pairs : Members(x)' # {} => x[2] \in types
      BY <1>3, <3>1, <3>2 DEF EntriesExist, Members
    <3>4. EntriesExist'
      BY <1>2, <1>3, <3>2, <3>3 DEF EntriesExist
    <3>5. QED
      BY <1>1, <3>1, <3>2, <3>4 DEF Footprint, interface
  <2>3. CASE Want(r)
    <3>1. /\ UNCHANGED <<registry, inDomain>> /\ pc[r] = "want" /\ holds' = holds /\ Op(r) \in ActorOps
          /\ wanted' = [wanted EXCEPT ![Actor(r)] = @ \cup {Pair(r)}]
      BY <2>3 DEF Want, Proceed, Inv, CallsKnow, CallKnows, Ready, ActorOps
    <3>2. \A a \in Actors \ {Actor(r)} : wanted'[a] = wanted[a]
      BY <3>1 DEF Inv, RegistryType
    <3>3. EntriesExist'
      BY <1>4, <3>1 DEF registry
    <3>4. QED
      BY <1>1, <3>1, <3>2, <3>3 DEF Footprint, registry
  <2>4. ASSUME NEW x \in Pairs, LookUp(r, x), x[2] \in types, UNCHANGED <<registry, interface>>
        PROVE  Footprint(r) /\ EntriesExist'
    <3>1. pc'[r] \in {"allocate", "add"} /\ Pair(r)' = x /\ holds' = holds \cup {r}
      BY <2>4 DEF LookUp, Inv, LocalType, Call, Pair
    <3>2. Type(r)' = x[2]
      BY <3>1 DEF Type
    <3>3. EntriesExist'
      BY <1>2, <1>3, <2>4, <3>1, <3>2 DEF EntriesExist, registry, Members
    <3>4. QED
      BY <1>1, <2>4, <3>1, <3>3 DEF Footprint, registry, interface
  <2>5. CASE Bind(r)
    <3>1. CASE Return(r)
      <4>1. UNCHANGED <<registry, interface>> /\ pc[r] = "bind" /\ holds' = holds \ {r}
        BY <2>5, <3>1 DEF Bind, Proceed
      <4>2. QED
        BY <1>1, <1>4, <4>1 DEF Footprint, registry, interface
    <3>2. CASE LookUp(r, Pair(r)) /\ Type(r) \in types
      <4>1. Pair(r) \in Pairs
        BY <2>5 DEF Bind, Inv, CallsKnow, CallKnows, Ready
      <4>2. QED
        BY <2>4, <2>5, <3>2, <4>1 DEF Bind, Type
    <3>3. QED
      BY <2>5, <3>1, <3>2 DEF Bind
  <2>6. CASE LoopThrows(r)
    <3>1. UNCHANGED <<registry, interface>> /\ pc[r] \in Loops /\ holds' = holds \ {r}
      BY <2>6 DEF LoopThrows, Proceed
    <3>2. QED
      BY <1>1, <1>4, <3>1 DEF Footprint, registry, interface, Loops
  <2>7. CASE PairNext(r)
    <3>1. UNCHANGED <<registry, interface>> /\ pc[r] \in {"pairInput", "pairOutput"}
      BY <2>7 DEF PairNext
    <3>2. PICK x \in rest[r] : IF x[2] \in types THEN LookUp(r, x) ELSE UNCHANGED <<pc, call, holds, met>>
      BY <2>7 DEF PairNext
    <3>3. x \in Pairs
      BY DEF Inv, LocalType
    <3>4. CASE x[2] \in types
      BY <2>4, <3>1, <3>2, <3>3, <3>4
    <3>5. CASE x[2] \notin types
      BY <1>1, <1>4, <3>1, <3>2, <3>5 DEF Footprint, registry, interface
    <3>6. QED
      BY <3>4, <3>5
  <2>8. CASE UnpairNext(r)
    <3>1. /\ UNCHANGED <<types, actors, mode, interface, pc, call, holds>>
          /\ pc[r] \in {"unpairInput", "unpairOutput"}
      BY <2>8 DEF UnpairNext
    <3>2. PICK x \in rest[r] : paired' = [paired EXCEPT ![x] = IF @ = None THEN None ELSE @ \ {Actor(r)}]
      BY <2>8 DEF UnpairNext
    <3>3. x \in Pairs /\ x[2] \in Touches(call[r])
      <4>1. Op(r) = "deregister" /\ x \in wanted[Actor(r)] /\ Actor(r) \in Actors
        BY <3>1 DEF Inv, CallsKnow, CallKnows, Ready, Known, ActorOps
      <4>2. QED
        BY <4>1, Touched DEF Asked
    <3>4. \A y \in Pairs : Members(y)' \subseteq Members(y) /\ (y # x => paired'[y] = paired[y])
      BY <3>2, <3>3 DEF Inv, RegistryType, Members
    <3>5. EntriesExist'
      BY <3>1, <3>4 DEF EntriesExist, Type, Pair
    <3>6. QED
      BY <1>1, <3>1, <3>3, <3>4, <3>5 DEF Footprint, interface
  <2>9. QED
    BY <1>6, <2>1, <2>2, <2>3, <2>5, <2>6, <2>7, <2>8 DEF OnPairs
<1>7. CASE OnActors(r)
  <2>1. Op(r) \in ActorOps /\ pc[r] \notin {"allocate", "add"}
    BY <1>7 DEF OnActors, CheckRegistered, Enter, EnterState, PairOutputs, RegisterEnds, CheckDeregistered, Leave,
       UnpairOutputs, DeregisterEnds, CheckSwitched, Switch, Inv, CallsKnow, CallKnows, Ready, ActorOps
  <2>2. UNCHANGED <<types, paired, wanted>>
    BY <1>7 DEF OnActors, CheckRegistered, Enter, EnterState, PairOutputs, RegisterEnds, CheckDeregistered, Leave,
       UnpairOutputs, DeregisterEnds, CheckSwitched, Switch, registry, interface
  <2>3. holds' \subseteq holds /\ holds \subseteq holds' \cup {r}
    BY <1>7 DEF OnActors, CheckRegistered, Enter, EnterState, PairOutputs, RegisterEnds, CheckDeregistered, Leave,
       UnpairOutputs, DeregisterEnds, CheckSwitched, Switch, Proceed, StartLoop
  <2>4. (actors' = actors \/ actors' = actors \cup {Actor(r)} \/ actors' = actors \ {Actor(r)})
    BY <1>7 DEF OnActors, CheckRegistered, Enter, EnterState, PairOutputs, RegisterEnds, CheckDeregistered, Leave,
       UnpairOutputs, DeregisterEnds, CheckSwitched, Switch, registry
  <2>5. \E m : mode' = mode \/ mode' = [mode EXCEPT ![Actor(r)] = m]
    BY <1>7 DEF OnActors, CheckRegistered, Enter, EnterState, PairOutputs, RegisterEnds, CheckDeregistered, Leave,
       UnpairOutputs, DeregisterEnds, CheckSwitched, Switch, registry
  <2>6. \A a \in Actors \ {Actor(r)} : (a \in actors' <=> a \in actors) /\ mode'[a] = mode[a]
    BY <2>4, <2>5 DEF Inv, RegistryType
  <2>7. QED
    BY <1>1, <1>4, <2>1, <2>2, <2>3, <2>6 DEF Footprint
<1>8. QED
  BY <1>5, <1>6, <1>7 DEF Step

-----------------------------------------------------------------------------
(* Steps of other threads do not disturb a call that has met none. *)

LEMMA OthersUndisturbed ==
  ASSUME Inv, Inv', Asked, Asked', Apart, NEW r \in Threads, pc[r] # "idle", Footprint(r),
         NEW p \in Threads \ {r}, p \notin met, Undisturbed(p)
  PROVE  Undisturbed(p)'
<1>1. /\ pc'[p] = pc[p] /\ Op(p)' = Op(p) /\ Actor(p)' = Actor(p) /\ Pair(p)' = Pair(p)
      /\ Type(p)' = Type(p) /\ rest'[p] = rest[p]
  BY DEF Footprint, Others, Op, Actor, Pair, Type
<1>2. InPair(p)' = InPair(p) /\ Side(p)' = Side(p) /\ \A x : Pending(p, x)' = Pending(p, x)
  BY <1>1 DEF InPair, Side, Pending
<1>3. CASE pc[p] = "idle"
  BY <1>1, <1>3 DEF Undisturbed, TypeAlone, EntryCurrent, Entering, Leaving
<1>4. CASE pc[p] # "idle"
  <2>1. ASSUME Op(p) \in TypeOps \cup {"addPair"} \/ InPair(p)
        PROVE  /\ Pair(p) \in Pairs
               /\ Type(p) \in types' <=> Type(p) \in types
               /\ p \in holds => p \in holds'
               /\ \A x \in Pairs : x[2] = Type(p) => paired'[x] = paired[x]
    <3>1. Type(p) \in Types /\ Type(p) \notin Touches(call[r]) /\ Pair(p) \in Pairs
      BY <1>4, <2>1, Touched, Separate
    <3>2. QED
      BY <3>1 DEF Footprint
  <2>2. ASSUME Op(p) \in ActorOps
        PROVE  /\ (Actor(p) \in actors' <=> Actor(p) \in actors) /\ mode'[Actor(p)] = mode[Actor(p)]
               /\ wanted'[Actor(p)] = wanted[Actor(p)] /\ Actor(p) \in Actors
    BY <1>4, <2>2, Touched, Separate DEF Footprint
  <2>3. ASSUME Op(p) \in {"register", "deregister"}, NEW x \in Wishes[Actor(p)]
        PROVE  Members(x)' = Members(x) /\ (x[2] \in types' <=> x[2] \in types)
    <3>1. x \in Pairs /\ x[2] \in Types /\ x[2] \notin Touches(call[r])
      BY <1>4, <2>3, Touched, Separate
    <3>2. QED
      BY <3>1 DEF Footprint, Members
  <2>4. Ready(p, pc[p])
    BY DEF Inv, CallsKnow, CallKnows
  <2>5. TypeAlone(p)'
    <3>1. pc[p] \in {"put", "replace"} => Op(p) \in TypeOps
      BY <2>4 DEF Ready
    <3>2. \A x \in Pairs : paired'[x] = paired[x] => Members(x)' = Members(x)
      BY DEF Members
    <3>3. QED
      BY <1>1, <2>1, <3>1, <3>2 DEF Undisturbed, TypeAlone
  <2>6. EntryCurrent(p)'
    BY <1>1, <2>1 DEF Undisturbed, EntryCurrent, InPair, Type
  <2>7. Entering(p)'
    <3>1. Op(p) = "register" => Op(p) \in ActorOps /\ wanted[Actor(p)] \subseteq Wishes[Actor(p)]
      BY <2>2 DEF ActorOps, Asked
    <3>2. QED
      BY <1>1, <1>2, <2>2, <2>3, <3>1 DEF Undisturbed, Entering
  <2>8. Leaving(p)'
    <3>1. pc[p] \in {"unpairInput", "unpairOutput"} => Op(p) = "deregister" /\ Op(p) \in ActorOps
      BY <2>4 DEF Ready, ActorOps
    <3>2. ASSUME pc[p] \in {"unpairInput", "unpairOutput"}, NEW x \in Pairs, Actor(p) \in Members(x)'
          PROVE  Actor(p) \in Members(x)
      <4>1. x \in wanted'[Actor(p)]
        BY <3>2 DEF Inv, NoStrangers
      <4>2. x \in Wishes[Actor(p)]
        BY <2>2, <3>1, <3>2, <4>1 DEF Asked
      <4>3. QED
        BY <2>3, <3>1, <3>2, <4>2
    <3>3. QED
      BY <1>1, <1>2, <2>2, <3>1, <3>2 DEF Undisturbed, Leaving
  <2>9. QED
    BY <2>5, <2>6, <2>7, <2>8 DEF Undisturbed
<1>5. QED
  BY <1>3, <1>4

(* Nor do its own. *)

LEMMA QuietStep ==
  ASSUME NEW p, pc'[p] \in {"idle", "check", "enter", "leave", "switch", "want", "bind"}
  PROVE  Undisturbed(p)'
  BY DEF Undisturbed, TypeAlone, EntryCurrent, Entering, Leaving

LEMMA OwnTypes ==
  ASSUME Inv, EntriesExist, NEW p \in Threads, OnTypes(p), Undisturbed(p)
  PROVE  Undisturbed(p)'
<1>1. pc'[p] # "idle" => Op(p)' = Op(p) /\ Pair(p)' = Pair(p) /\ Type(p)' = Type(p)
  <2>1. Op(p) # "register"
    BY DEF OnTypes, CheckEvent, PutEvent, ReplaceEvent, CheckRemoved, DropEvent, Inv, CallsKnow, CallKnows, Ready, TypeOps
  <2>2. QED
    BY <2>1, StepLocal DEF Step, Type
<1>2. CASE CheckEvent(p)
  <2>1. CASE Type(p) \in types
    BY <1>2, <2>1, QuietStep DEF CheckEvent, Return, Proceed, Inv, LocalType
  <2>2. CASE Type(p) \notin types
    <3>1. pc'[p] = "put" /\ UNCHANGED types
      BY <1>2, <2>2 DEF CheckEvent, Goto, Proceed, Inv, LocalType, registry
    <3>2. QED
      BY <1>1, <2>2, <3>1 DEF Undisturbed, TypeAlone, EntryCurrent, Entering, Leaving
  <2>3. QED
    BY <2>1, <2>2
<1>3. CASE CheckRemoved(p)
  <2>1. pc'[p] \in {"idle", "drop"} /\ Op(p) = "removeEvent"
    BY <1>3 DEF CheckRemoved, Goto, Return, Proceed, Inv, LocalType
  <2>2. QED
    BY <1>1, <2>1 DEF Undisturbed, TypeAlone, EntryCurrent, Entering, Leaving
<1>4. CASE PutEvent(p)
  <2>1. pc'[p] \in {"idle", "replace"} /\ paired' = [x \in Pairs |-> IF x[2] = Type(p) THEN None ELSE paired[x]]
    BY <1>4 DEF PutEvent, SetEntry, Proceed, Inv, LocalType
  <2>2. \A x \in Pairs : x[2] = Type(p) => Members(x)' = {}
    BY <2>1 DEF Members
  <2>3. QED
    BY <1>1, <2>1, <2>2 DEF Undisturbed, TypeAlone, EntryCurrent, Entering, Leaving
<1>5. CASE ReplaceEvent(p) \/ DropEvent(p)
  BY <1>5, QuietStep DEF ReplaceEvent, DropEvent, SetEntry, Proceed, Inv, LocalType
<1>6. QED
  BY <1>2, <1>3, <1>4, <1>5 DEF OnTypes

(* An actor added to a set is in it, and nobody leaves. *)
LEMMA AddedMembers ==
  ASSUME RegistryType, NEW y \in Pairs, NEW a \in Actors,
         paired' = [paired EXCEPT ![y] = Members(y) \cup {a}]
  PROVE  /\ \A x \in Pairs : Members(x) \subseteq Members(x)'
         /\ \A x \in Pairs : x = y => a \in Members(x)'
<1>1. \A x \in Pairs : paired'[x] = IF x = y THEN Members(y) \cup {a} ELSE paired[x]
  BY DEF RegistryType
<1>2. Members(y) \cup {a} \in SUBSET Actors
  BY DEF RegistryType, Members
<1>3. Members(y) \cup {a} # None
  BY <1>2, NoSetAssumption
<1>4. QED
  BY <1>1, <1>3 DEF Members

LEMMA OwnPairs ==
  ASSUME Inv, EntriesExist, NEW p \in Threads, OnPairs(p), Undisturbed(p)
  PROVE  Undisturbed(p)'
<1>1. pc'[p] # "idle" => Op(p)' = Op(p) /\ Actor(p)' = Actor(p) /\ (Op(p) # "register" => Pair(p)' = Pair(p))
  BY StepLocal DEF Step
<1>2. Ready(p, pc[p]) /\ Known(p)
  BY DEF Inv, CallsKnow, CallKnows
<1>3. CASE Allocate(p)
  <2>1. /\ pc[p] = "allocate" /\ pc'[p] = "add" /\ UNCHANGED <<types, actors, mode, wanted, call, rest, holds>>
        /\ p \in holds /\ paired[Pair(p)] = None
    BY <1>3 DEF Allocate, Goto, Proceed, loop, interface, Inv, LocalType, Undisturbed, EntryCurrent
  <2>2. \A x \in Pairs : Members(x)' = Members(x)
    BY <1>3, <2>1 DEF Allocate, Members, Inv, RegistryType
  <2>3. \A x : Pending(p, x)' = Pending(p, x)
    BY <2>1 DEF Pending, Side, InPair, Pair
  <2>4. Side(p)' = Side(p) /\ Op(p)' = Op(p) /\ Actor(p)' = Actor(p)
    BY <2>1 DEF Side, InPair, Pair, Op, Actor
  <2>5. Op(p) = "register" => wanted[Actor(p)] \subseteq Pairs
    BY <1>2 DEF Known, ActorOps, Inv, RegistryType
  <2>6. Entering(p)'
    BY <2>1, <2>2, <2>3, <2>4, <2>5 DEF Undisturbed, Entering
  <2>7. QED
    BY <2>1, <2>6 DEF Undisturbed, TypeAlone, EntryCurrent, Leaving
<1>4. CASE Add(p)
  <2>1. /\ pc[p] = "add" /\ pc'[p] = AfterPair(p) /\ UNCHANGED <<types, actors, mode, wanted>>
        /\ p \in holds /\ Pair(p) \in Pairs
        /\ paired' = [paired EXCEPT ![Pair(p)] = Members(Pair(p)) \cup {Actor(p)}]
    BY <1>2, <1>4 DEF Add, Proceed, interface, Inv, LocalType, Undisturbed, EntryCurrent, Ready
  <2>2. CASE Op(p) # "register"
    BY <2>1, <2>2, QuietStep DEF AfterPair
  <2>3. CASE Op(p) = "register"
    <3>1. /\ pc'[p] = Loop(p) /\ Loop(p) \in {"pairInput", "pairOutput"}
          /\ RoleOf(Loop(p)) = Pair(p)[1]
      BY <2>1, <2>3, PairTypes DEF AfterPair, Loop, RoleOf, Roles
    <3>2. rest' = rest
      BY <1>4, <2>3, <3>1 DEF Add, Proceed, AfterPair, loop
    <3>3. Side(p) = Pair(p)[1] /\ Side(p)' = Pair(p)[1] /\ ~InPair(p)'
      BY <2>1, <3>1 DEF Side, InPair
    <3>4. \A x : Pending(p, x) => Pending(p, x)' \/ x = Pair(p)
      BY <3>2, <3>3 DEF Pending
    <3>5. Actor(p) \in Actors /\ wanted[Actor(p)] \subseteq Pairs
      BY <1>2, <2>3 DEF Known, ActorOps, Inv, RegistryType
    <3>6. /\ \A x \in Pairs : Members(x) \subseteq Members(x)'
          /\ \A x \in Pairs : x = Pair(p) => Actor(p) \in Members(x)'
      BY <2>1, <3>5, AddedMembers DEF Inv
    <3>8. Op(p)' = Op(p) /\ Actor(p)' = Actor(p)
      BY <1>1, <3>1
    <3>9. Entering(p)'
      BY <2>1, <2>3, <3>1, <3>2, <3>3, <3>4, <3>5, <3>6, <3>8 DEF Undisturbed, Entering
    <3>10. QED
      BY <3>1, <3>9 DEF Undisturbed, TypeAlone, EntryCurrent, Leaving
  <2>4. QED
    BY <2>2, <2>3
<1>5. CASE Want(p) \/ LoopThrows(p)
  BY <1>5, QuietStep DEF Want, LoopThrows, Goto, Return, Proceed, Inv, LocalType
<1>6. ASSUME NEW x \in Pairs, LookUp(p, x), UNCHANGED paired
      PROVE  /\ pc'[p] = IF paired[x] = None THEN "allocate" ELSE "add"
             /\ Pair(p)' = x /\ EntryCurrent(p)' /\ TypeAlone(p)' /\ Leaving(p)'
  <2>1. /\ pc'[p] = IF paired[x] = None THEN "allocate" ELSE "add"
        /\ Pair(p)' = x /\ holds' = holds \cup {p}
    BY <1>6 DEF LookUp, Inv, LocalType, Call, Pair
  <2>2. QED
    BY <1>6, <2>1 DEF EntryCurrent, TypeAlone, Leaving
<1>7. CASE Bind(p)
  <2>1. CASE Return(p)
    BY <2>1, QuietStep DEF Return, Proceed, Inv, LocalType
  <2>2. CASE LookUp(p, Pair(p))
    <3>1. Op(p) = "addPair" /\ Pair(p) \in Pairs /\ UNCHANGED paired
      BY <1>2, <1>7 DEF Bind, Ready, registry
    <3>2. Op(p)' = "addPair"
      BY <1>1, <1>6, <2>2, <3>1
    <3>3. QED
      BY <1>6, <2>2, <3>1, <3>2 DEF Undisturbed, Entering
  <2>3. QED
    BY <1>7, <2>1, <2>2 DEF Bind
<1>8. CASE PairNext(p)
  <2>1. /\ pc[p] \in {"pairInput", "pairOutput"} /\ Op(p) = "register"
        /\ UNCHANGED <<types, actors, mode, paired, wanted>>
    BY <1>2, <1>8 DEF PairNext, Ready, registry, interface
  <2>2. PICK x \in rest[p] :
          /\ rest' = [rest EXCEPT ![p] = @ \ {x}]
          /\ IF x[2] \in types THEN LookUp(p, x) ELSE UNCHANGED <<pc, call, holds, met>>
    BY <1>8 DEF PairNext
  <2>3. x \in Pairs /\ rest'[p] = rest[p] \ {x} /\ Side(p) = RoleOf(pc[p]) /\ ~InPair(p) /\ x[1] = Side(p)
    BY <2>1, <2>2 DEF Inv, LocalType, Side, InPair, Undisturbed, Entering
  <2>4. wanted[Actor(p)] \subseteq Pairs /\ \A y : Members(y)' = Members(y)
    BY <1>2, <2>1 DEF Known, ActorOps, Inv, RegistryType, Members
  <2>5. CASE x[2] \in types
    <3>1. Pair(p)' = x /\ InPair(p)' /\ EntryCurrent(p)' /\ TypeAlone(p)' /\ Leaving(p)' /\ pc'[p] # "idle"
      BY <1>6, <2>1, <2>2, <2>3, <2>5 DEF InPair
    <3>2. Side(p)' = Side(p) /\ Op(p)' = Op(p) /\ Actor(p)' = Actor(p)
      BY <1>1, <2>3, <3>1 DEF Side
    <3>3. \A y : Pending(p, y) => Pending(p, y)'
      BY <2>3, <3>1, <3>2 DEF Pending
    <3>4. Entering(p)'
      BY <2>1, <2>3, <2>4, <3>2, <3>3 DEF Undisturbed, Entering
    <3>5. QED
      BY <3>1, <3>4 DEF Undisturbed
  <2>6. CASE x[2] \notin types
    <3>1. UNCHANGED <<pc, call, holds>>
      BY <2>2, <2>6
    <3>2. Side(p)' = Side(p) /\ ~InPair(p)' /\ Op(p)' = Op(p) /\ Actor(p)' = Actor(p)
      BY <2>3, <3>1 DEF Side, InPair, Op, Actor, Pair
    <3>3. \A y : Pending(p, y) => Pending(p, y)' \/ y = x
      BY <2>3, <3>2 DEF Pending
    <3>4. Entering(p)'
      BY <2>1, <2>3, <2>4, <2>6, <3>1, <3>2, <3>3 DEF Undisturbed, Entering
    <3>5. QED
      BY <2>1, <3>1, <3>4 DEF Undisturbed, TypeAlone, EntryCurrent, Leaving
  <2>7. QED
    BY <2>5, <2>6
<1>9. CASE UnpairNext(p)
  <2>1. /\ pc[p] \in {"unpairInput", "unpairOutput"} /\ Op(p) = "deregister"
        /\ UNCHANGED <<types, actors, mode, wanted, pc, call, holds>>
    BY <1>2, <1>9 DEF UnpairNext, Ready, interface
  <2>2. PICK x \in rest[p] :
          /\ rest' = [rest EXCEPT ![p] = @ \ {x}]
          /\ paired' = [paired EXCEPT ![x] = IF @ = None THEN None ELSE @ \ {Actor(p)}]
    BY <1>9 DEF UnpairNext
  <2>3. x \in Pairs /\ rest'[p] = rest[p] \ {x}
    BY <2>2 DEF Inv, LocalType
  <2>4. (\A y \in Pairs : Members(y)' \subseteq Members(y)) /\ Actor(p) \notin Members(x)'
    BY <2>2, <2>3 DEF Members, Inv, RegistryType
  <2>5. Side(p)' = Side(p) /\ InPair(p)' = InPair(p) /\ Op(p)' = Op(p) /\ Actor(p)' = Actor(p) /\ Pair(p)' = Pair(p)
    BY <2>1 DEF Side, InPair, Op, Actor, Pair
  <2>6. \A y : Pending(p, y) => Pending(p, y)' \/ y = x
    BY <2>3, <2>5 DEF Pending
  <2>7. Leaving(p)'
    BY <2>1, <2>4, <2>5, <2>6 DEF Undisturbed, Leaving
  <2>8. QED
    BY <2>1, <2>5, <2>7 DEF Undisturbed, TypeAlone, EntryCurrent, Entering
<1>10. QED
  BY <1>3, <1>4, <1>5, <1>7, <1>8, <1>9 DEF OnPairs

LEMMA OwnActors ==
  ASSUME Inv, EntriesExist, NEW p \in Threads, OnActors(p), Undisturbed(p)
  PROVE  Undisturbed(p)'
<1>1. pc'[p] # "idle" => Op(p)' = Op(p) /\ Actor(p)' = Actor(p)
  BY StepLocal DEF Step
<1>2. Ready(p, pc[p]) /\ Known(p)
  BY DEF Inv, CallsKnow, CallKnows
<1>3. CASE CheckRegistered(p) \/ RegisterEnds(p) \/ CheckDeregistered(p) \/ DeregisterEnds(p)
           \/ CheckSwitched(p) \/ Switch(p)
  BY <1>3, QuietStep DEF CheckRegistered, RegisterEnds, CheckDeregistered, DeregisterEnds, CheckSwitched,
     Switch, Goto, Return, Proceed, Inv, LocalType
<1>4. CASE Enter(p)
  <2>1. pc'[p] = "state" /\ actors' = actors \cup {Actor(p)}
    BY <1>4 DEF Enter, Goto, Proceed, Inv, LocalType
  <2>2. QED
    BY <1>1, <2>1 DEF Undisturbed, TypeAlone, EntryCurrent, Entering, Leaving
<1>5. ASSUME NEW step \in Loops, StartLoop(p, step), UNCHANGED <<paired, wanted>>
      PROVE  /\ pc'[p] = step /\ rest'[p] = {x \in wanted[Actor(p)] : x[1] = RoleOf(step)}
             /\ Side(p)' = RoleOf(step) /\ ~InPair(p)' /\ TypeAlone(p)' /\ EntryCurrent(p)'
             /\ \A x : Members(x)' = Members(x)
  <2>1. pc'[p] = step /\ rest'[p] = {x \in wanted[Actor(p)] : x[1] = RoleOf(step)}
    BY <1>5 DEF StartLoop, Inv, LocalType
  <2>2. QED
    BY <1>5, <2>1 DEF Loops, Side, InPair, TypeAlone, EntryCurrent, Members
<1>6. CASE EnterState(p)
  <2>1. /\ pc[p] = "state" /\ Op(p) = "register" /\ UNCHANGED <<types, actors, paired, wanted>>
        /\ StartLoop(p, "pairInput") /\ "pairInput" \in Loops /\ RoleOf("pairInput") = "consumer"
        /\ Actor(p) \in Actors /\ mode' = [mode EXCEPT ![Actor(p)] = "ENABLING"]
    BY <1>2, <1>6 DEF EnterState, Ready, Known, ActorOps, Loops, RoleOf, interface
  <2>2. pc'[p] = "pairInput" /\ rest'[p] = {x \in wanted[Actor(p)] : x[1] = "consumer"} /\ Side(p)' = "consumer"
    BY <1>5, <2>1
  <2>3. \A x \in wanted[Actor(p)] : Pending(p, x)'
    BY <2>1, <2>2, PairTypes DEF Pending, Inv, RegistryType, Roles
  <2>4. Actor(p) \in actors' /\ mode'[Actor(p)] = "ENABLING"
    BY <2>1 DEF Undisturbed, Entering, Inv, RegistryType
  <2>5. Entering(p)'
    BY <1>1, <2>1, <2>2, <2>3, <2>4 DEF Entering
  <2>6. QED
    BY <1>5, <2>1, <2>2, <2>5 DEF Undisturbed, Leaving
<1>7. CASE PairOutputs(p)
  <2>1. /\ pc[p] = "pairInput" /\ rest[p] = {} /\ Op(p) = "register"
        /\ UNCHANGED <<types, actors, mode, paired, wanted>>
        /\ StartLoop(p, "pairOutput") /\ "pairOutput" \in Loops /\ RoleOf("pairOutput") = "producer"
    BY <1>2, <1>7 DEF PairOutputs, Ready, Loops, RoleOf, registry, interface
  <2>2. /\ pc'[p] = "pairOutput" /\ rest'[p] = {x \in wanted[Actor(p)] : x[1] = "producer"}
        /\ Side(p)' = "producer" /\ \A x : Members(x)' = Members(x)
    BY <1>5, <2>1
  <2>3. \A x \in wanted[Actor(p)] : Pending(p, x) => Pending(p, x)'
    BY <2>1, <2>2 DEF Pending, InPair
  <2>4. Entering(p)'
    BY <1>1, <2>1, <2>2, <2>3 DEF Undisturbed, Entering
  <2>5. QED
    BY <1>5, <2>1, <2>2, <2>4 DEF Undisturbed, Leaving
<1>8. CASE Leave(p)
  <2>1. Op(p) = "deregister" /\ Actor(p) \notin actors' /\ UNCHANGED <<paired, wanted>>
    BY <1>2, <1>8 DEF Leave, Ready, interface
  <2>2. CASE Return(p)
    BY <2>2, QuietStep DEF Return, Proceed, Inv, LocalType
  <2>3. CASE StartLoop(p, "unpairInput")
    <3>1. "unpairInput" \in Loops /\ RoleOf("unpairInput") = "consumer"
      BY DEF Loops, RoleOf
    <3>2. /\ pc'[p] = "unpairInput" /\ rest'[p] = {x \in wanted[Actor(p)] : x[1] = "consumer"}
          /\ Side(p)' = "consumer" /\ \A x : Members(x)' = Members(x)
      BY <1>5, <2>1, <2>3, <3>1
    <3>3. \A x \in Pairs : Actor(p) \in Members(x) => Pending(p, x)'
      BY <3>2, PairTypes DEF Pending, Inv, NoStrangers, Roles
    <3>4. Leaving(p)'
      BY <1>1, <2>1, <3>2, <3>3 DEF Leaving
    <3>5. QED
      BY <1>1, <1>5, <2>1, <2>3, <3>1, <3>2, <3>4 DEF Undisturbed, Entering
  <2>4. QED
    BY <1>8, <2>2, <2>3 DEF Leave
<1>9. CASE UnpairOutputs(p)
  <2>1. /\ pc[p] = "unpairInput" /\ rest[p] = {} /\ Op(p) = "deregister"
        /\ UNCHANGED <<actors, paired, wanted>>
        /\ StartLoop(p, "unpairOutput") /\ "unpairOutput" \in Loops /\ RoleOf("unpairOutput") = "producer"
    BY <1>2, <1>9 DEF UnpairOutputs, Ready, Loops, RoleOf, registry, interface
  <2>2. /\ pc'[p] = "unpairOutput" /\ rest'[p] = {x \in wanted[Actor(p)] : x[1] = "producer"}
        /\ Side(p)' = "producer" /\ \A x : Members(x)' = Members(x)
    BY <1>5, <2>1
  <2>3. \A x \in Pairs : Actor(p) \in Members(x) => Pending(p, x)'
    BY <2>1, <2>2 DEF Pending, InPair, Undisturbed, Leaving, Inv, NoStrangers
  <2>4. Leaving(p)'
    BY <1>1, <2>1, <2>2, <2>3 DEF Undisturbed, Leaving
  <2>5. QED
    BY <1>1, <1>5, <2>1, <2>2, <2>4 DEF Undisturbed, Entering
<1>10. QED
  BY <1>3, <1>4, <1>6, <1>7, <1>8, <1>9 DEF OnActors

LEMMA AloneStep == Inv /\ Alone /\ [Next]_vars => Alone'
<1> SUFFICES ASSUME Inv, Alone, [Next]_vars PROVE Alone'
  OBVIOUS
<1>1. Inv' /\ Asked' /\ Apart'
  BY InvNext, AskedStep, ApartStep DEF Alone
<1>2. CASE UNCHANGED vars
  BY <1>2 DEF vars, registry, interface, loop, Alone, Asked, EntriesExist, Apart, Undisturbed, TypeAlone,
     EntryCurrent, Entering, Leaving, InPair, Side, Pending, Members, Op, Actor, Pair, Type, About, Touches
<1>3. ASSUME NEW r \in Threads, NEW c \in Calls(r), Begin(r, c) PROVE Alone'
  <2>1. /\ pc[r] = "idle" /\ pc'[r] \in {"want", "check"} /\ UNCHANGED <<registry, interface, loop, holds>>
        /\ \A q \in Threads \ {r} : pc'[q] = pc[q] /\ call'[q] = call[q]
        /\ met \subseteq met'
    BY <1>3 DEF Begin, FirstStep, Inv, LocalType
  <2>2. r \notin holds
    BY <2>1 DEF Alone, EntriesExist
  <2>3. EntriesExist'
    BY <2>1, <2>2 DEF Alone, EntriesExist, registry, Members, Type, Pair, Inv, LocalType
  <2>4. ASSUME NEW q \in Threads \ {r}, q \notin met PROVE Undisturbed(q)'
    <3>1. /\ Op(q)' = Op(q) /\ Actor(q)' = Actor(q) /\ Pair(q)' = Pair(q) /\ Type(q)' = Type(q)
          /\ pc'[q] = pc[q]
      BY <2>1 DEF Op, Actor, Pair, Type
    <3>2. InPair(q)' = InPair(q) /\ Side(q)' = Side(q) /\ (\A x : Pending(q, x)' = Pending(q, x))
          /\ \A x : Members(x)' = Members(x)
      BY <2>1, <3>1 DEF InPair, Side, Pending, Members, loop, registry
    <3>3. QED
      BY <2>1, <2>4, <3>1, <3>2 DEF Alone, Undisturbed, TypeAlone, EntryCurrent, Entering, Leaving, registry, interface, loop
  <2>5. Undisturbed(r)'
    BY <2>1, QuietStep
  <2>6. QED
    BY <1>1, <2>1, <2>3, <2>4, <2>5 DEF Alone
<1>4. ASSUME NEW r \in Threads, Step(r) PROVE Alone'
  <2>1. Footprint(r) /\ EntriesExist' /\ pc[r] # "idle"
    BY <1>4, StepReach, StepLocal DEF Alone
  <2>2. ASSUME NEW q \in Threads \ {r}, q \notin met' PROVE Undisturbed(q)'
    <3>1. q \notin met
      BY <1>4, <2>2, StepLocal
    <3>2. QED
      BY <1>1, <2>1, <2>2, <3>1, OthersUndisturbed DEF Alone
  <2>3. ASSUME r \notin met' PROVE Undisturbed(r)'
    <3>1. CASE pc'[r] = "idle"
      BY <3>1, QuietStep
    <3>2. CASE pc'[r] # "idle"
      <4>1. Undisturbed(r)
        BY <1>4, <2>3, <3>2, StepLocal DEF Alone
      <4>2. QED
        BY <1>4, <4>1, OwnTypes, OwnPairs, OwnActors DEF Step, Alone
    <3>3. QED
      BY <3>1, <3>2
  <2>4. QED
    BY <1>1, <2>1, <2>2, <2>3 DEF Alone
<1>5. QED
  BY <1>2, <1>3, <1>4 DEF Next, Step

LEMMA AloneInit == Init => Alone
<1> SUFFICES ASSUME Init PROVE Alone
  OBVIOUS
<1>1. \A p \in Threads : Undisturbed(p)
  BY DEF Init, Undisturbed, TypeAlone, EntryCurrent, Entering, Leaving
<1>2. Asked
  BY NoneAssumption DEF Init, Asked, Op, NoCall, AllOperations
<1>3. EntriesExist /\ Apart
  BY DEF Init, EntriesExist, Apart, Members
<1>4. QED
  BY <1>1, <1>2, <1>3 DEF Alone

-----------------------------------------------------------------------------
(* A call of register(), deregister(), addInput() or addOutput() that has met no
   other call about its actor or its types has its whole effect
   (EventActorManager.java:118-150, 183-217). *)
THEOREM EffectsCorrect == Spec => CallsTakeEffect
<1>1. ASSUME Inv, Alone
      PROVE  \A p \in Threads \ met :
               LET a == Actor(p)
               IN /\ RegisterEnds(p) =>
                       /\ a \in actors /\ mode[a] = "ENABLING"
                       /\ \A x \in wanted[a] : x[2] \in types => a \in Members(x)
                  /\ DeregisterEnds(p) =>
                       /\ a \notin actors' /\ mode'[a] = None
                       /\ \A x \in Pairs : a \notin Members(x)
                  /\ Add(p) => a \in paired'[Pair(p)]
  <2> TAKE p \in Threads \ met
  <2>1. Undisturbed(p) /\ Ready(p, pc[p]) /\ Known(p)
    BY <1>1 DEF Alone, Inv, CallsKnow, CallKnows
  <2>2. ASSUME RegisterEnds(p)
        PROVE  /\ Actor(p) \in actors /\ mode[Actor(p)] = "ENABLING"
               /\ \A x \in wanted[Actor(p)] : x[2] \in types => Actor(p) \in Members(x)
    <3>1. pc[p] = "pairOutput" /\ rest[p] = {} /\ Op(p) = "register"
      BY <2>1, <2>2 DEF RegisterEnds, Ready
    <3>2. \A x : ~Pending(p, x)
      BY <3>1 DEF Pending, InPair, Side, RoleOf
    <3>3. QED
      BY <2>1, <3>1, <3>2 DEF Undisturbed, Entering
  <2>3. ASSUME DeregisterEnds(p)
        PROVE  /\ Actor(p) \notin actors' /\ mode'[Actor(p)] = None
               /\ \A x \in Pairs : Actor(p) \notin Members(x)
    <3>1. pc[p] = "unpairOutput" /\ rest[p] = {} /\ Actor(p) \in Actors /\ actors' = actors
      BY <2>1, <2>3 DEF DeregisterEnds, Ready, Known, ActorOps
    <3>2. \A x : ~Pending(p, x)
      BY <3>1 DEF Pending, InPair, Side, RoleOf
    <3>3. mode'[Actor(p)] = None
      BY <1>1, <2>3, <3>1 DEF DeregisterEnds, Inv, RegistryType
    <3>4. QED
      BY <2>1, <3>1, <3>2, <3>3 DEF Undisturbed, Leaving
  <2>4. ASSUME Add(p) PROVE Actor(p) \in paired'[Pair(p)]
    BY <1>1, <2>1, <2>4 DEF Add, Undisturbed, EntryCurrent, Ready, Inv, RegistryType
  <2>5. QED
    BY <2>2, <2>3, <2>4
<1>2. Inv /\ Alone /\ [Next]_vars =>
        [\A p \in Threads \ met :
           LET a == Actor(p)
           IN /\ RegisterEnds(p) =>
                   /\ a \in actors /\ mode[a] = "ENABLING"
                   /\ \A x \in wanted[a] : x[2] \in types => a \in Members(x)
              /\ DeregisterEnds(p) =>
                   /\ a \notin actors' /\ mode'[a] = None
                   /\ \A x \in Pairs : a \notin Members(x)
              /\ Add(p) => a \in paired'[Pair(p)]
        ]_vars
  BY <1>1
<1>3. QED
  BY <1>2, InvInit, InvNext, AloneInit, AloneStep, PTL DEF Spec, CallsTakeEffect

(* Only deregistration, removal of the type and calls that met lose a pairing. *)
LEMMA PairingLost ==
  ASSUME Inv, Alone, [Next]_vars, NEW x \in Pairs, NEW a \in Members(x), a \notin Members(x)'
  PROVE  \E p \in Threads :
           \/ Op(p) = "deregister" /\ Actor(p) = a
           \/ Op(p) = "removeEvent" /\ Type(p) = x[2]
           \/ p \in met /\ x[2] \in Touches(call[p])
<1>1. paired' # paired
  BY DEF Members
<1>2. PICK r \in Threads : PutEvent(r) \/ ReplaceEvent(r) \/ DropEvent(r) \/ Allocate(r) \/ Add(r) \/ UnpairNext(r)
  BY <1>1 DEF Next, vars, registry, Begin, OnTypes, CheckEvent, CheckRemoved, OnPairs, Want, Bind, LoopThrows,
     PairNext, OnActors, CheckRegistered, Enter, EnterState, PairOutputs, RegisterEnds, CheckDeregistered,
     Leave, UnpairOutputs, DeregisterEnds, CheckSwitched, Switch
<1>3. Ready(r, pc[r]) /\ Known(r) /\ (r \in met \/ Undisturbed(r))
  BY DEF Inv, CallsKnow, CallKnows, Alone
<1>4. CASE PutEvent(r) \/ ReplaceEvent(r) \/ DropEvent(r)
  <2>1. Op(r) \in TypeOps /\ Type(r) \in Touches(call[r])
    BY <1>3, <1>4, Touched DEF Ready, PutEvent, ReplaceEvent, DropEvent, Alone
  <2>2. x[2] = Type(r)
    BY <1>4 DEF PutEvent, ReplaceEvent, DropEvent, SetEntry, Members
  <2>3. r \notin met => DropEvent(r) /\ Op(r) = "removeEvent"
    BY <1>3, <1>4, <2>2 DEF Undisturbed, TypeAlone, PutEvent, ReplaceEvent, DropEvent, Alone, EntriesExist
  <2>4. QED
    BY <2>1, <2>2, <2>3
<1>5. CASE Allocate(r)
  <2>1. Pair(r) \in Pairs /\ Type(r) \in Touches(call[r]) /\ Type(r) = Pair(r)[2]
    BY <1>5, Touched DEF Allocate, InPair, Alone, Type
  <2>2. x = Pair(r)
    BY <1>5, <2>1 DEF Allocate, Members, Inv, RegistryType
  <2>3. r \in met
    BY <1>3, <1>5, <2>2 DEF Allocate, Undisturbed, EntryCurrent, Members
  <2>4. QED
    BY <2>1, <2>2, <2>3
<1>6. CASE Add(r)
  <2>1. Pair(r) \in Pairs /\ Actor(r) \in Actors
    BY <1>3, <1>6 DEF Add, Ready, Known, ActorOps
  <2>2. paired' = paired \/ paired' = [paired EXCEPT ![Pair(r)] = Members(Pair(r)) \cup {Actor(r)}]
    BY <1>6 DEF Add
  <2>3. QED
    BY <1>1, <2>1, <2>2, AddedMembers DEF Inv
<1>7. CASE UnpairNext(r)
  <2>1. Op(r) = "deregister"
    BY <1>3, <1>7 DEF UnpairNext, Ready
  <2>2. PICK y \in rest[r] : paired' = [paired EXCEPT ![y] = IF @ = None THEN None ELSE @ \ {Actor(r)}]
    BY <1>7 DEF UnpairNext
  <2>3. y \in Pairs
    BY DEF Inv, LocalType
  <2>4. a = Actor(r)
    <3>1. paired[x] # None /\ paired[x] \in SUBSET Actors /\ a \in paired[x]
      BY DEF Members, Inv, RegistryType
    <3>2. paired[x] \ {Actor(r)} \in SUBSET Actors
      BY <3>1
    <3>3. paired[x] \ {Actor(r)} # None
      BY <3>2, NoSetAssumption
    <3>4. paired'[x] = paired[x] \/ paired'[x] = paired[x] \ {Actor(r)}
      BY <2>2, <2>3, <3>1 DEF Inv, RegistryType
    <3>5. QED
      BY <3>1, <3>3, <3>4 DEF Members
  <2>5. QED
    BY <2>1, <2>4
<1>8. QED
  BY <1>2, <1>4, <1>5, <1>6, <1>7

(* An actor stays paired until it is deregistered, the type is removed, or two
   calls about the type meet (SubscriptionEntry.java:36-57). *)
THEOREM PairingsLast == Spec => StaysPaired
<1>1. Inv /\ Alone /\ [Next]_vars =>
        [\A x \in Pairs : \A a \in Members(x) \ Members(x)' :
           \E p \in Threads :
             \/ Op(p) = "deregister" /\ Actor(p) = a
             \/ Op(p) = "removeEvent" /\ Type(p) = x[2]
             \/ p \in met /\ x[2] \in Touches(call[p])]_vars
  BY PairingLost
<1>2. QED
  BY <1>1, InvInit, InvNext, AloneInit, AloneStep, PTL DEF Spec, StaysPaired


-----------------------------------------------------------------------------
(* Calls that do not meet are calls of Registry.  What the decision of a call
   rests on still holds when the call acts on it: *)

(* whatever other calls do, *)
Resting ==
  \A p \in Threads :
    /\ pc[p] = "idle" => Op(p) = None
    /\ pc[p] \in {"put", "replace"} => Op(p) \in {"addEvent", "addEventType"}
    /\ Op(p) = "addPair" /\ InPair(p) => Actor(p) \in inDomain

(* and as long as the call meets no other. *)
Decisive(p) ==
  /\ pc[p] = "leave" => Actor(p) \in actors
  /\ Op(p) \in {"register", "deregister"} /\ (pc[p] \in Loops \/ InPair(p)) =>
       seen[p] = {x \in wanted[Actor(p)] : x[1] = Side(p)}

Steady == Resting /\ \A p \in Threads \ met : Decisive(p)

LEMMA InDomainGrows ==
  ASSUME NEW r \in Threads, Step(r)
  PROVE  inDomain \subseteq inDomain'
BY DEF Step, OnTypes, CheckEvent, PutEvent, ReplaceEvent, CheckRemoved, DropEvent, SetEntry, OnPairs, Allocate, Add,
   Want, Bind, LoopThrows, PairNext, UnpairNext, OnActors, CheckRegistered, Enter, EnterState, PairOutputs,
   RegisterEnds, CheckDeregistered, Leave, UnpairOutputs, DeregisterEnds, CheckSwitched, Switch, interface

(* The sets that are iterated change with the call that iterates them. *)
LEMMA SeenKept ==
  ASSUME Inv, NEW r \in Threads, Step(r)
  PROVE  \A q \in Threads \ {r} : seen'[q] = seen[q]
<1>1. CASE \E step \in Steps, lost \in SUBSET Threads : Proceed(r, step, lost)
  BY <1>1 DEF Proceed, loop, Inv, LocalType
<1>2. CASE \E step \in Loops : StartLoop(r, step)
  BY <1>2 DEF StartLoop, Inv, LocalType
<1>3. CASE UNCHANGED seen
  BY <1>3
<1>4. CASE Bind(r) \/ PairNext(r) \/ UnpairNext(r)
  <2>1. CASE PairNext(r) \/ UnpairNext(r)
    BY <1>3, <2>1 DEF PairNext, UnpairNext
  <2>2. CASE Bind(r) /\ UNCHANGED loop
    BY <1>3, <2>2 DEF loop
  <2>3. CASE Return(r)
    BY <1>1, <2>3 DEF Return, Steps
  <2>4. QED
    BY <1>4, <2>1, <2>2, <2>3 DEF Bind
<1>5. CASE ~(Bind(r) \/ PairNext(r) \/ UnpairNext(r))
  <2>1. \/ \E step \in Steps, lost \in SUBSET Threads : Proceed(r, step, lost)
        \/ \E step \in Loops : StartLoop(r, step)
    <3>1. CASE OnTypes(r)
      <4>1. CASE CheckEvent(r) \/ CheckRemoved(r)
        BY <4>1 DEF CheckEvent, CheckRemoved, Return, Goto, Steps
      <4>2. CASE PutEvent(r) \/ ReplaceEvent(r) \/ DropEvent(r)
        <5>1. \E step \in Steps : Proceed(r, step, {q \in Threads : Type(q) = Type(r)})
          BY <4>2 DEF PutEvent, ReplaceEvent, DropEvent, SetEntry, Steps
        <5>2. QED
          BY <5>1
      <4>3. QED
        BY <3>1, <4>1, <4>2 DEF OnTypes
    <3>2. CASE OnPairs(r)
      <4>1. AfterPair(r) \in Steps
        BY DEF AfterPair, Loop, Steps, Loops
      <4>2. QED
        BY <1>5, <3>2, <4>1 DEF OnPairs, Allocate, Add, Want, LoopThrows, Return, Goto, Steps
    <3>3. CASE OnActors(r)
      BY <3>3 DEF OnActors, CheckRegistered, Enter, EnterState, PairOutputs, RegisterEnds, CheckDeregistered, Leave,
         UnpairOutputs, DeregisterEnds, CheckSwitched, Switch, Return, Goto, Steps, Loops
    <3>4. QED
      BY <3>1, <3>2, <3>3 DEF Step
  <2>2. QED
    BY <1>1, <1>2, <2>1
<1>6. QED
  BY <1>4, <1>5

LEMMA RestingStep == Inv /\ Resting /\ [Next]_vars => Resting'
<1> SUFFICES ASSUME Inv, Resting, [Next]_vars PROVE Resting'
  OBVIOUS
<1>1. CASE UNCHANGED vars
  BY <1>1 DEF vars, interface, Resting, InPair, Op, Actor
<1>2. ASSUME NEW r \in Threads, NEW c \in Calls(r), Begin(r, c) PROVE Resting'
  <2>1. /\ pc'[r] \in {"want", "check"} /\ UNCHANGED inDomain
        /\ \A q \in Threads \ {r} : pc'[q] = pc[q] /\ call'[q] = call[q]
    BY <1>2 DEF Begin, FirstStep, Inv, LocalType, interface
  <2>2. QED
    BY <2>1 DEF Resting, InPair, Op, Actor
<1>3. ASSUME NEW r \in Threads, Step(r) PROVE Resting'
  <2>1. ASSUME NEW q \in Threads \ {r}
        PROVE  /\ (pc[q] = "idle" => Op(q) = None)' /\ (Op(q) = "addPair" /\ InPair(q) => Actor(q) \in inDomain)'
               /\ (pc[q] \in {"put", "replace"} => Op(q) \in {"addEvent", "addEventType"})'
    BY <1>3, <2>1, StepLocal, InDomainGrows DEF Others, Resting, InPair, Op, Actor
  <2>2. (pc[r] = "idle" => Op(r) = None)'
    BY <1>3, StepLocal
  <2>3. ASSUME Op(r)' = "addPair", InPair(r)' PROVE Actor(r)' \in inDomain'
    <3>1. Op(r) = "addPair" /\ Actor(r)' = Actor(r)
      BY <1>3, <2>3, StepLocal DEF InPair
    <3>2. pc'[r] \in {"allocate", "add"} /\ Ready(r, pc[r])
      BY <2>3 DEF InPair, Inv, CallsKnow, CallKnows
    <3>3. CASE InPair(r)
      BY <1>3, <3>1, <3>3, InDomainGrows DEF Resting
    <3>4. CASE Bind(r)
      BY <3>1, <3>2, <3>4 DEF Bind, Return, Proceed, interface, Inv, LocalType
    <3>5. CASE ~InPair(r) /\ ~Bind(r)
      <4>1. ~PairNext(r) /\ ~UnpairNext(r)
        BY <3>1, <3>2 DEF PairNext, UnpairNext, Ready
      <4>2. \A lost : \A step \in Steps : Proceed(r, step, lost) => pc'[r] = step
        BY DEF Proceed, Inv, LocalType
      <4>3. \A step \in Loops : StartLoop(r, step) => pc'[r] = step
        BY DEF StartLoop, Inv, LocalType
      <4>4. CASE OnTypes(r)
        BY <3>1, <4>4 DEF OnTypes, CheckEvent, PutEvent, ReplaceEvent, CheckRemoved, DropEvent, Inv, CallsKnow,
           CallKnows, Ready, TypeOps
      <4>5. CASE OnPairs(r)
        BY <3>1, <3>2, <3>5, <4>1, <4>2, <4>5 DEF OnPairs, Allocate, Add, Want, LoopThrows, InPair, Goto, Return, Steps
      <4>6. CASE OnActors(r)
        BY <3>1, <3>2, <4>6 DEF OnActors, CheckRegistered, Enter, EnterState, PairOutputs, RegisterEnds,
           CheckDeregistered, Leave, UnpairOutputs, DeregisterEnds, CheckSwitched, Switch, Ready
      <4>7. QED
        BY <1>3, <4>4, <4>5, <4>6 DEF Step
    <3>6. QED
      BY <3>3, <3>4, <3>5
  <2>4. ASSUME pc'[r] \in {"put", "replace"} PROVE Op(r)' \in {"addEvent", "addEventType"}
    <3>1. Op(r)' = Op(r)
      BY <1>3, <2>4, StepLocal
    <3>2. \A lost : \A step \in Steps : Proceed(r, step, lost) => pc'[r] = step
      BY DEF Proceed, Inv, LocalType
    <3>3. CASE OnTypes(r)
      BY <2>4, <3>1, <3>2, <3>3 DEF OnTypes, CheckEvent, PutEvent, ReplaceEvent, CheckRemoved, DropEvent, SetEntry,
         Goto, Return, Steps, Resting
    <3>4. CASE OnPairs(r)
      <4>1. AfterPair(r) \in {"idle", "pairInput", "pairOutput"}
        BY DEF AfterPair, Loop
      <4>2. ~\E x \in Pairs : LookUp(r, x)
        BY <2>4 DEF LookUp, Inv, LocalType
      <4>3. ~Bind(r)
        BY <2>4, <3>2, <4>2 DEF Bind, LookUp, Return, Steps, Inv, LocalType
      <4>4. ~PairNext(r) /\ ~UnpairNext(r)
        BY <2>4 DEF PairNext, UnpairNext, LookUp, Inv, LocalType
      <4>5. QED
        BY <2>4, <3>2, <3>4, <4>1, <4>3, <4>4 DEF OnPairs, Allocate, Add, Want, LoopThrows, Goto, Return, Steps, Loops
    <3>5. CASE OnActors(r)
      <4>1. \A step \in Loops : StartLoop(r, step) => pc'[r] = step
        BY DEF StartLoop, Inv, LocalType
      <4>2. QED
        BY <2>4, <3>2, <3>5, <4>1 DEF OnActors, CheckRegistered, Enter, EnterState, PairOutputs, RegisterEnds,
           CheckDeregistered, Leave, UnpairOutputs, DeregisterEnds, CheckSwitched, Switch, Goto, Return, Steps, Loops
    <3>6. QED
      BY <1>3, <3>3, <3>4, <3>5 DEF Step
  <2>5. QED
    BY <2>1, <2>2, <2>3, <2>4 DEF Resting
<1>4. QED
  BY <1>1, <1>2, <1>3 DEF Next, Step

(* Steps of others do not change what a decision rests on, *)
LEMMA OthersDecisive ==
  ASSUME Inv, Asked, Apart, NEW r \in Threads, Step(r), Footprint(r),
         NEW q \in Threads \ {r}, q \notin met, Decisive(q)
  PROVE  Decisive(q)'
<1>1. /\ pc'[q] = pc[q] /\ seen'[q] = seen[q] /\ Op(q)' = Op(q) /\ Actor(q)' = Actor(q)
      /\ Side(q)' = Side(q) /\ InPair(q)' = InPair(q)
  BY SeenKept DEF Footprint, Others, Op, Actor, Side, InPair, Pair
<1>2. pc[q] = "leave" => Op(q) = "deregister"
  BY DEF Inv, CallsKnow, CallKnows, Ready
<1>3. ASSUME Op(q) \in {"register", "deregister"}, pc[q] # "idle"
      PROVE  (Actor(q) \in actors' <=> Actor(q) \in actors) /\ wanted'[Actor(q)] = wanted[Actor(q)]
  <2>1. Op(q) \in ActorOps /\ Actor(q) \in Actors /\ pc[r] # "idle"
    BY <1>3, Touched, StepLocal DEF ActorOps
  <2>2. Op(r) \in ActorOps => Actor(r) # Actor(q)
    BY <1>3, <2>1, Separate
  <2>3. QED
    BY <2>1, <2>2 DEF Footprint
<1>4. QED
  BY <1>1, <1>2, <1>3 DEF Decisive, Loops, InPair

(* nor do its own. *)
LEMMA OwnDecisive ==
  ASSUME Inv, NEW p \in Threads, Step(p), Undisturbed(p), Decisive(p)
  PROVE  Decisive(p)'
<1>1. pc'[p] # "idle" => Op(p)' = Op(p) /\ Actor(p)' = Actor(p)
  BY StepLocal
<1>2. Ready(p, pc[p]) /\ Known(p)
  BY DEF Inv, CallsKnow, CallKnows
<1>3. \A lost : \A step \in Steps : Proceed(p, step, lost) => pc'[p] = step /\ (step # "idle" => seen'[p] = seen[p])
  BY DEF Proceed, Inv, LocalType, loop
<1>4. ASSUME NEW step \in Loops, StartLoop(p, step), UNCHANGED wanted
      PROVE  Decisive(p)'
  <2>1. /\ pc'[p] = step /\ seen'[p] = {x \in wanted[Actor(p)] : x[1] = RoleOf(step)}
        /\ Actor(p)' = Actor(p) /\ Side(p)' = RoleOf(step)
    BY <1>4 DEF StartLoop, Inv, LocalType, Actor, Side, InPair, Loops
  <2>2. QED
    BY <1>4, <2>1 DEF Decisive, Loops
<1>5. ASSUME pc'[p] \in Steps \ (Loops \cup {"allocate", "add", "leave"})
      PROVE  Decisive(p)'
  BY <1>5 DEF Decisive, InPair
<1>6. CASE OnTypes(p)
  BY <1>3, <1>5, <1>6 DEF OnTypes, CheckEvent, PutEvent, ReplaceEvent, CheckRemoved, DropEvent, SetEntry, Return,
     Goto, Steps, Loops
<1>7. CASE OnPairs(p)
  <2>1. CASE Want(p) \/ LoopThrows(p)
    BY <1>3, <1>5, <2>1 DEF Want, LoopThrows, Return, Goto, Steps, Loops
  <2>2. CASE Allocate(p)
    <3>1. pc'[p] = "add" /\ seen'[p] = seen[p] /\ UNCHANGED <<wanted, call>> /\ pc[p] = "allocate"
      BY <1>3, <2>2 DEF Allocate, Goto, Proceed, Steps, interface
    <3>2. QED
      BY <3>1 DEF Decisive, InPair, Side, Op, Actor, Pair, Loops
  <2>3. CASE Add(p)
    <3>1. pc[p] = "add" /\ UNCHANGED wanted /\ Proceed(p, AfterPair(p), {p}) /\ AfterPair(p) \in {"idle", "pairInput", "pairOutput"}
      BY <2>3 DEF Add, AfterPair, Loop, interface
    <3>2. CASE Op(p) # "register"
      BY <1>3, <1>5, <3>1, <3>2 DEF AfterPair, Steps, Loops
    <3>3. CASE Op(p) = "register"
      <4>1. Pair(p) \in Pairs /\ AfterPair(p) = Loop(p) /\ RoleOf(Loop(p)) = Pair(p)[1] /\ AfterPair(p) # "idle"
        BY <1>2, <3>1, <3>3, PairTypes DEF Ready, AfterPair, Loop, RoleOf, Roles
      <4>2. pc'[p] = Loop(p) /\ seen'[p] = seen[p] /\ Loop(p) \in Loops
        BY <1>3, <3>1, <4>1 DEF Steps, Loop, Loops
      <4>3. Side(p)' = Side(p)
        BY <3>1, <4>1, <4>2 DEF Side, InPair, Loop
      <4>4. QED
        BY <1>1, <3>1, <3>3, <4>1, <4>2, <4>3 DEF Decisive, InPair, Loops
    <3>4. QED
      BY <3>2, <3>3
  <2>4. CASE Bind(p)
    <3>1. Op(p) = "addPair" /\ pc'[p] # "leave"
      BY <1>2, <2>4 DEF Bind, Ready, Return, Proceed, LookUp, Inv, LocalType
    <3>2. pc'[p] \notin Loops
      BY <2>4 DEF Bind, Return, Proceed, LookUp, Loops, Inv, LocalType
    <3>3. QED
      BY <1>1, <3>1, <3>2 DEF Decisive, InPair
  <2>5. CASE PairNext(p)
    <3>1. pc[p] \in {"pairInput", "pairOutput"} /\ Op(p) = "register" /\ UNCHANGED <<wanted, seen>>
      BY <1>2, <2>5 DEF PairNext, Ready, interface
    <3>2. PICK x \in rest[p] : LookUp(p, x) \/ UNCHANGED <<pc, call, holds, met>>
      BY <2>5 DEF PairNext
    <3>3. x \in Pairs /\ x[1] = Side(p)
      BY <3>1 DEF Inv, LocalType, Undisturbed, Entering
    <3>4. CASE LookUp(p, x)
      <4>1. pc'[p] \in {"allocate", "add"} /\ Pair(p)' = x
        BY <3>3, <3>4 DEF LookUp, Inv, LocalType, Call, Pair
      <4>2. Side(p)' = Side(p)
        BY <3>3, <4>1 DEF Side, InPair
      <4>3. QED
        BY <1>1, <3>1, <4>1, <4>2 DEF Decisive, Loops
    <3>5. CASE UNCHANGED <<pc, call, holds, met>>
      BY <3>1, <3>5 DEF Decisive, InPair, Side, Op, Actor, Pair
    <3>6. QED
      BY <3>2, <3>4, <3>5
  <2>6. CASE UnpairNext(p)
    BY <2>6 DEF UnpairNext, Decisive, InPair, Side, Op, Actor, Pair, interface
  <2>7. QED
    BY <1>7, <2>1, <2>2, <2>3, <2>4, <2>5, <2>6 DEF OnPairs
<1>8. CASE OnActors(p)
  <2>1. CASE CheckRegistered(p) \/ Enter(p) \/ RegisterEnds(p) \/ DeregisterEnds(p) \/ CheckSwitched(p) \/ Switch(p)
    BY <1>3, <1>5, <2>1 DEF CheckRegistered, Enter, RegisterEnds, DeregisterEnds, CheckSwitched, Switch, Return,
       Goto, Steps, Loops
  <2>2. CASE CheckDeregistered(p)
    <3>1. CASE Actor(p) \in actors
      <4>1. pc'[p] = "leave" /\ UNCHANGED actors
        BY <1>3, <2>2, <3>1 DEF CheckDeregistered, Goto, Steps, registry
      <4>2. QED
        BY <1>1, <3>1, <4>1 DEF Decisive, InPair, Loops
    <3>2. CASE Actor(p) \notin actors
      BY <1>3, <1>5, <2>2, <3>2 DEF CheckDeregistered, Return, Steps, Loops
    <3>3. QED
      BY <3>1, <3>2
  <2>3. CASE Leave(p)
    <3>1. CASE Return(p)
      BY <1>3, <1>5, <3>1 DEF Return, Steps, Loops
    <3>2. CASE StartLoop(p, "unpairInput")
      BY <1>4, <2>3, <3>2 DEF Leave, Loops, interface
    <3>3. QED
      BY <2>3, <3>1, <3>2 DEF Leave
  <2>4. CASE EnterState(p) \/ PairOutputs(p) \/ UnpairOutputs(p)
    BY <1>4, <2>4 DEF EnterState, PairOutputs, UnpairOutputs, Loops, interface
  <2>5. QED
    BY <1>8, <2>1, <2>2, <2>3, <2>4 DEF OnActors
<1>9. QED
  BY <1>6, <1>7, <1>8 DEF Step

LEMMA SteadyStep == Inv /\ Alone /\ Steady /\ [Next]_vars => Steady'
<1> SUFFICES ASSUME Inv, Alone, Steady, [Next]_vars PROVE Steady'
  OBVIOUS
<1>1. Resting'
  BY RestingStep DEF Steady
<1>2. CASE UNCHANGED vars
  BY <1>1, <1>2 DEF vars, registry, interface, loop, Steady, Decisive, InPair, Side, Op, Actor, Pair
<1>3. ASSUME NEW r \in Threads, NEW c \in Calls(r), Begin(r, c) PROVE Steady'
  <2>1. /\ pc'[r] \in {"want", "check"} /\ UNCHANGED <<actors, wanted, seen>> /\ met \subseteq met'
        /\ \A q \in Threads \ {r} : pc'[q] = pc[q] /\ call'[q] = call[q]
    BY <1>3 DEF Begin, FirstStep, Inv, LocalType, registry, interface, loop
  <2>2. \A q \in Threads \ {r} : q \notin met => Decisive(q)'
    BY <2>1 DEF Steady, Decisive, InPair, Side, Op, Actor, Pair
  <2>3. Decisive(r)'
    BY <2>1 DEF Decisive, InPair, Loops
  <2>4. QED
    BY <1>1, <2>1, <2>2, <2>3 DEF Steady
<1>4. ASSUME NEW r \in Threads, Step(r) PROVE Steady'
  <2>1. Footprint(r)
    BY <1>4, StepReach DEF Alone
  <2>2. ASSUME NEW q \in Threads, q \notin met' PROVE Decisive(q)'
    <3>1. CASE pc'[q] = "idle"
      BY <3>1 DEF Decisive, InPair, Loops
    <3>2. CASE pc'[q] # "idle"
      <4>1. q \notin met
        BY <1>4, <2>2, <3>2, StepLocal
      <4>2. Decisive(q) /\ Undisturbed(q)
        BY <4>1 DEF Steady, Alone
      <4>3. QED
        BY <1>4, <2>1, <4>1, <4>2, OthersDecisive, OwnDecisive DEF Alone
    <3>3. QED
      BY <3>1, <3>2
  <2>3. QED
    BY <1>1, <2>2 DEF Steady
<1>5. QED
  BY <1>2, <1>3, <1>4 DEF Next, Step

LEMMA SteadyInit == Init => Steady
BY DEF Init, Steady, Resting, Decisive, InPair, Loops, Op, NoCall

-----------------------------------------------------------------------------
(* What the registry seen as a whole holds for one type or actor follows from
   the one call about it. *)

EventOps == {"addEvent", "addEventType"}

SoleType(r, t) == \A q \in Threads \ {r} : Op(q) \in TypeOps => Type(q) # t
SoleActor(r, a) == \A q \in Threads \ {r} : Op(q) \in ActorOps => Actor(q) # a

OwnMode(r, a) ==
  IF Decided(r, {"register", "enable"}) THEN "ENABLING"
  ELSE IF Decided(r, {"disable"}) THEN "FINISHED"
  ELSE IF Decided(r, {"deregister"}) THEN None ELSE mode[a]

OwnPaired(r, a, x) ==
  /\ ~Decided(r, {"deregister"}) /\ x[2] \notin TypesOf({"removeEvent"})
  /\ \/ a \in Members(x)
     \/ /\ x \in wanted[a] /\ x[2] \in types
        /\ Decided(r, {"register"}) \/ (a \in inDomain /\ Decided(r, {"addPair"}) /\ Pair(r) = x)

TypeView ==
  \A r \in Threads : \A t \in Types :
    SoleType(r, t) /\ (Op(r) \in TypeOps => Type(r) = t) =>
      /\ t \in WholeTypes <=> (t \in types \/ Decided(r, EventOps)) /\ ~Decided(r, {"removeEvent"})
      /\ t \in TypesOf({"removeEvent"}) <=> Decided(r, {"removeEvent"})

ActorView ==
  \A r \in Threads : \A a \in Actors :
    SoleActor(r, a) /\ (Op(r) \in ActorOps => Actor(r) = a) =>
      /\ a \in WholeActors <=> (a \in actors \/ Decided(r, {"register"})) /\ ~Decided(r, {"deregister"})
      /\ WholeMode[a] = OwnMode(r, a)
      /\ \A x \in Pairs : a \in WholePaired[x] <=> OwnPaired(r, a, x)

LEMMA TypesSeen == TypeView
<1> SUFFICES ASSUME NEW r \in Threads, NEW t \in Types, SoleType(r, t), Op(r) \in TypeOps => Type(r) = t
             PROVE  /\ t \in WholeTypes <=> (t \in types \/ Decided(r, EventOps)) /\ ~Decided(r, {"removeEvent"})
                    /\ t \in TypesOf({"removeEvent"}) <=> Decided(r, {"removeEvent"})
  BY DEF TypeView
<1>1. \A ops \in SUBSET TypeOps : t \in TypesOf(ops) <=> Decided(r, ops)
  BY DEF SoleType, TypesOf, Decided
<1>2. EventOps \in SUBSET TypeOps /\ {"removeEvent"} \in SUBSET TypeOps
  BY DEF EventOps, TypeOps
<1>3. WholeTypes = (types \cup TypesOf(EventOps)) \ TypesOf({"removeEvent"})
  BY DEF WholeTypes, EventOps
<1>4. QED
  BY <1>1, <1>2, <1>3

LEMMA ActorsSeen == ActorView
<1> SUFFICES ASSUME NEW r \in Threads, NEW a \in Actors, SoleActor(r, a), Op(r) \in ActorOps => Actor(r) = a
             PROVE  /\ a \in WholeActors <=> (a \in actors \/ Decided(r, {"register"})) /\ ~Decided(r, {"deregister"})
                    /\ WholeMode[a] = OwnMode(r, a)
                    /\ \A x \in Pairs : a \in WholePaired[x] <=> OwnPaired(r, a, x)
  BY DEF ActorView
<1>1. \A ops \in SUBSET ActorOps : a \in ActorsOf(ops) <=> Decided(r, ops)
  BY DEF SoleActor, ActorsOf, Decided
<1>2. /\ {"register"} \in SUBSET ActorOps /\ {"deregister"} \in SUBSET ActorOps /\ {"disable"} \in SUBSET ActorOps
      /\ {"register", "enable"} \in SUBSET ActorOps /\ {"addPair"} \in SUBSET ActorOps
  BY DEF ActorOps
<1>3. a \in WholeActors <=> (a \in actors \/ Decided(r, {"register"})) /\ ~Decided(r, {"deregister"})
  BY <1>1, <1>2 DEF WholeActors
<1>4. WholeMode[a] = OwnMode(r, a)
  BY <1>1, <1>2 DEF WholeMode, OwnMode
<1>5. ASSUME NEW x \in Pairs PROVE a \in WholePaired[x] <=> OwnPaired(r, a, x)
  <2>1. (\E p \in Threads : Decided(p, {"addPair"}) /\ Actor(p) = a /\ Pair(p) = x)
          <=> Decided(r, {"addPair"}) /\ Pair(r) = x
    BY DEF SoleActor, Decided, ActorOps
  <2>2. x \in Joining(a) <=>
          x \in wanted[a] /\ x[2] \in types
            /\ (Decided(r, {"register"}) \/ (a \in inDomain /\ Decided(r, {"addPair"}) /\ Pair(r) = x))
    BY <1>1, <1>2, <2>1 DEF Joining
  <2>3. a \in WholePaired[x] <=>
          a \notin ActorsOf({"deregister"}) /\ x[2] \notin TypesOf({"removeEvent"}) /\ (a \in Members(x) \/ x \in Joining(a))
    BY DEF WholePaired
  <2>4. QED
    BY <1>1, <1>2, <2>2, <2>3 DEF OwnPaired
<1>6. QED
  BY <1>3, <1>4, <1>5

(* A step shows nothing of the calls of others. *)
LEMMA OthersSeen ==
  ASSUME Inv, NEW r \in Threads, Others(r), NEW ops
  PROVE  \A q \in Threads \ {r} :
           /\ Decided(q, ops)' <=> Decided(q, ops)
           /\ Type(q)' = Type(q) /\ Actor(q)' = Actor(q) /\ Pair(q)' = Pair(q) /\ Op(q)' = Op(q)
BY DEF Others, Decided, Op, Type, Actor, Pair, FirstStep

LEMMA SoleKept ==
  ASSUME Inv, NEW r \in Threads, Others(r)
  PROVE  /\ \A t : SoleType(r, t) => SoleType(r, t)'
         /\ \A a : SoleActor(r, a) => SoleActor(r, a)'
BY OthersSeen DEF SoleType, SoleActor

(* A thread that has met none is the only one about its types and its actor. *)
SoleTouch(r, t) == \A q \in Threads \ {r} : Op(q) \in ActorOps => t \notin Touches(call[q])

LEMMA Sole ==
  ASSUME Inv, Asked, Apart, Resting, NEW r \in Threads, r \notin met, pc[r] # "idle"
  PROVE  /\ \A t \in Types : t \in Touches(call[r]) => SoleType(r, t) /\ SoleTouch(r, t)
         /\ Op(r) \in ActorOps => SoleActor(r, Actor(r))
<1>1. \A q \in Threads : Op(q) \in TypeOps \cup ActorOps => pc[q] # "idle"
  BY NoneAssumption DEF Resting, TypeOps, ActorOps, AllOperations
<1>2. ASSUME NEW t \in Types, t \in Touches(call[r]) PROVE SoleType(r, t) /\ SoleTouch(r, t)
  <2>1. ASSUME NEW q \in Threads \ {r}, Op(q) \in TypeOps, Type(q) = t PROVE FALSE
    BY <1>1, <1>2, <2>1, Separate, Touched
  <2>2. ASSUME NEW q \in Threads \ {r}, Op(q) \in ActorOps, t \in Touches(call[q]) PROVE FALSE
    BY <1>1, <1>2, <2>2, Separate
  <2>3. QED
    BY <2>1, <2>2 DEF SoleType, SoleTouch
<1>3. ASSUME Op(r) \in ActorOps PROVE SoleActor(r, Actor(r))
  BY <1>1, <1>3, Separate DEF SoleActor
<1>4. QED
  BY <1>2, <1>3

(* While a call has a type for itself nobody is about to be paired with it. *)
PairedView ==
  Inv /\ Asked =>
    \A r \in Threads : \A t \in Types :
      SoleType(r, t) /\ SoleTouch(r, t) /\ (Op(r) \in TypeOps => Type(r) = t) /\ Op(r) \notin ActorOps =>
        \A x \in Pairs : x[2] = t =>
          WholePaired[x] = {a \in Actors \ ActorsOf({"deregister"}) : ~Decided(r, {"removeEvent"}) /\ a \in Members(x)}

LEMMA PairedSeen == PairedView
<1> SUFFICES ASSUME Inv, Asked, NEW r \in Threads, NEW t \in Types, SoleType(r, t), SoleTouch(r, t),
                    Op(r) \in TypeOps => Type(r) = t, Op(r) \notin ActorOps, NEW x \in Pairs, x[2] = t
             PROVE  WholePaired[x] = {a \in Actors \ ActorsOf({"deregister"}) : ~Decided(r, {"removeEvent"}) /\ a \in Members(x)}
  BY DEF PairedView
<1>1. t \in TypesOf({"removeEvent"}) <=> Decided(r, {"removeEvent"})
  BY TypesSeen DEF TypeView
<1>2. ASSUME NEW a \in Actors, x \in Joining(a) PROVE FALSE
  <2>1. x \in Wishes[a]
    BY <1>2 DEF Joining, Asked
  <2>2. ASSUME NEW q \in Threads, Decided(q, {"register"}), Actor(q) = a PROVE FALSE
    <3>1. Op(q) = "register" /\ q # r /\ Op(q) \in ActorOps
      BY <2>2 DEF Decided, ActorOps
    <3>2. t \in Touches(call[q])
      BY <2>1, <2>2, <3>1, Touched
    <3>3. QED
      BY <3>1, <3>2 DEF SoleTouch
  <2>3. ASSUME NEW q \in Threads, Decided(q, {"addPair"}), Actor(q) = a, Pair(q) = x PROVE FALSE
    <3>1. Op(q) = "addPair" /\ q # r /\ Op(q) \in ActorOps
      BY <2>3 DEF Decided, ActorOps
    <3>2. t \in Touches(call[q])
      BY <2>3, <3>1, Touched DEF Type
    <3>3. QED
      BY <3>1, <3>2 DEF SoleTouch
  <2>4. QED
    BY <1>2, <2>2, <2>3 DEF Joining, ActorsOf
<1>3. QED
  BY <1>1, <1>2 DEF WholePaired

(* The step of a call about a type is one of Registry, or nobody sees it. *)
RegistryStep == Whole!RegistryNext \/ UNCHANGED Whole!registryVars

LEMMA TypesStep ==
  ASSUME Inv, Inv', Alone, Asked', Steady, NEW r \in Threads, r \notin met, OnTypes(r)
  PROVE  RegistryStep
<1>1. Op(r) \in TypeOps /\ pc[r] # "idle" /\ Op(r) \notin ActorOps
  BY DEF OnTypes, CheckEvent, PutEvent, ReplaceEvent, CheckRemoved, DropEvent, Inv, CallsKnow, CallKnows, Ready,
     TypeOps, ActorOps
<1>2. PICK t \in Types : t = Type(r)
  BY <1>1, Touched DEF Alone
<1>3. t \in Touches(call[r])
  BY <1>1, <1>2, Touched DEF Alone
<1>4. SoleType(r, t) /\ SoleTouch(r, t)
  BY <1>1, <1>3, Sole DEF Alone, Steady
<1>5. Others(r) /\ (pc'[r] = "idle" => Op(r)' = None) /\ (pc'[r] # "idle" => Op(r)' = Op(r) /\ Type(r)' = Type(r))
  BY <1>1, StepLocal DEF Step, Type, TypeOps
<1>6. None \notin TypeOps \cup ActorOps \cup EventOps
  BY NoneAssumption DEF TypeOps, ActorOps, AllOperations, EventOps
<1>7. SoleType(r, t)' /\ SoleTouch(r, t)' /\ (Op(r)' \in TypeOps => Type(r)' = t) /\ Op(r)' \notin ActorOps
  <2>1. SoleTouch(r, t)'
    BY <1>4, <1>5 DEF SoleTouch, Others, Op, Touches
  <2>2. QED
    BY <1>1, <1>2, <1>4, <1>5, <1>6, <2>1, SoleKept
<1>8. /\ t \in WholeTypes <=> (t \in types \/ Decided(r, EventOps)) /\ ~Decided(r, {"removeEvent"})
      /\ (t \in WholeTypes)' <=> (t \in types' \/ Decided(r, EventOps)') /\ ~Decided(r, {"removeEvent"})'
  <2>1. TypeView /\ TypeView'
    BY TypesSeen, PTL
  <2>2. QED
    BY <1>2, <1>4, <1>7, <2>1 DEF TypeView
<1>9. UNCHANGED <<actors, mode, wanted, inDomain>>
  BY DEF OnTypes, CheckEvent, PutEvent, ReplaceEvent, CheckRemoved, DropEvent, SetEntry, registry, interface
<1>10. \A ops \in SUBSET ActorOps : ActorsOf(ops)' = ActorsOf(ops)
  BY <1>1, <1>5, <1>7, OthersSeen DEF ActorsOf, Decided
<1>11. WholeActors' = WholeActors /\ WholeMode' = WholeMode /\ ActorsOf({"deregister"})' = ActorsOf({"deregister"})
       /\ ActorsOf({"register"})' = ActorsOf({"register"})
  <2>1. /\ {"register"} \in SUBSET ActorOps /\ {"deregister"} \in SUBSET ActorOps /\ {"disable"} \in SUBSET ActorOps
        /\ {"register", "enable"} \in SUBSET ActorOps
    BY DEF ActorOps
  <2>2. QED
    BY <1>9, <1>10, <2>1 DEF WholeActors, WholeMode
<1>12. Footprint(r) /\ \A u \in Types \ {t} : u \notin Touches(call[r])
  BY <1>1, <1>2, StepReach DEF Alone, Step, Touches, TypeOps, Op, Type, Pair
<1>13. \A ops \in SUBSET TypeOps : \A u \in Types \ {t} : u \in TypesOf(ops)' <=> u \in TypesOf(ops)
  <2> SUFFICES ASSUME NEW ops \in SUBSET TypeOps, NEW u \in Types \ {t}
               PROVE  u \in TypesOf(ops)' <=> u \in TypesOf(ops)
    OBVIOUS
  <2>1. ~(Decided(r, ops) /\ Type(r) = u) /\ ~(Decided(r, ops)' /\ Type(r)' = u)
    BY <1>2, <1>7 DEF Decided
  <2>2. u \in TypesOf(ops)' <=> \E q \in Threads : Decided(q, ops)' /\ Type(q)' = u
    BY DEF TypesOf
  <2>3. QED
    BY <1>5, <2>1, <2>2, OthersSeen DEF TypesOf
<1>14. \A u \in Types \ {t} : (u \in WholeTypes' <=> u \in WholeTypes)
                          /\ (u \in TypesOf({"removeEvent"})' <=> u \in TypesOf({"removeEvent"}))
                          /\ (u \in types' <=> u \in types)
  BY <1>12, <1>13 DEF WholeTypes, Footprint, TypeOps
<1>15. \A x \in Pairs : x[2] # t => WholePaired'[x] = WholePaired[x]
  <2> SUFFICES ASSUME NEW x \in Pairs, x[2] # t PROVE WholePaired'[x] = WholePaired[x]
    OBVIOUS
  <2>1. x[2] \in Types \ {t} /\ Members(x)' = Members(x)
    BY <1>12, PairTypes DEF Footprint, Members
  <2>2. \A a \in Actors : (\E p \in Threads : Decided(p, {"addPair"}) /\ Actor(p) = a /\ Pair(p) = x)'
                      <=> (\E p \in Threads : Decided(p, {"addPair"}) /\ Actor(p) = a /\ Pair(p) = x)
    <3>1. ~Decided(r, {"addPair"}) /\ ~Decided(r, {"addPair"})'
      BY <1>1, <1>7 DEF Decided, ActorOps
    <3>2. QED
      BY <1>5, <3>1, OthersSeen
  <2>3. \A a \in Actors : x \in Joining(a)' <=> x \in Joining(a)
    BY <1>9, <1>11, <1>14, <2>1, <2>2 DEF Joining
  <2>4. QED
    BY <1>11, <1>14, <2>1, <2>3 DEF WholePaired
<1>16. \A x \in Pairs : x[2] = t =>
         /\ WholePaired[x] = {a \in Actors \ ActorsOf({"deregister"}) : ~Decided(r, {"removeEvent"}) /\ a \in Members(x)}
         /\ WholePaired'[x] = {a \in Actors \ ActorsOf({"deregister"}) : ~Decided(r, {"removeEvent"})' /\ a \in Members(x)'}
  <2>1. PairedView /\ PairedView'
    BY PairedSeen, PTL
  <2>2. QED
    BY <1>1, <1>2, <1>4, <1>7, <1>11, <2>1 DEF PairedView, Alone
<1>17. WholeTypes \subseteq Types /\ WholeTypes' \subseteq Types
  <2>1. \A q \in Threads : Op(q) \in TypeOps => Type(q) \in Types /\ (Op(q) \in TypeOps => Type(q) \in Types)
    BY Touched DEF Alone
  <2>2. \A q \in Threads : (Op(q) \in TypeOps => Type(q) \in Types)'
    BY <1>2, <1>5, <1>7, <2>1, OthersSeen
  <2>3. EventOps \subseteq TypeOps
    BY DEF EventOps, TypeOps
  <2>4. QED
    BY <2>1, <2>2, <2>3 DEF WholeTypes, TypesOf, Decided, EventOps, Inv, RegistryType
<1>18. ASSUME (t \in WholeTypes)' <=> t \in WholeTypes, \A x \in Pairs : x[2] = t => WholePaired'[x] = WholePaired[x]
       PROVE  RegistryStep
  <2>1. WholeTypes' = WholeTypes
    BY <1>14, <1>17, <1>18
  <2>2. WholePaired' = WholePaired
    BY <1>15, <1>18 DEF WholePaired
  <2>3. QED
    BY <1>9, <1>11, <2>1, <2>2 DEF RegistryStep, Whole!registryVars
<1>19. /\ Decided(r, {"removeEvent"}) <=> Op(r) = "removeEvent" /\ pc[r] # "check"
       /\ Decided(r, EventOps) <=> Op(r) \in EventOps /\ pc[r] # "check"
       /\ pc'[r] \notin {"idle", "check"} =>
            /\ Decided(r, {"removeEvent"})' <=> Op(r) = "removeEvent"
            /\ Decided(r, EventOps)' <=> Op(r) \in EventOps
       /\ pc'[r] = "idle" => ~Decided(r, {"removeEvent"})' /\ ~Decided(r, EventOps)'
  BY <1>1, <1>5, <1>6 DEF Decided, FirstStep, EventOps, TypeOps
<1>20. CASE CheckEvent(r)
  <2>1. UNCHANGED <<types, paired>> /\ Op(r) \in EventOps /\ Op(r) # "removeEvent" /\ pc[r] = "check"
    BY <1>20 DEF CheckEvent, registry, EventOps
  <2>2. \A x : Members(x)' = Members(x)
    BY <2>1 DEF Members
  <2>3. pc'[r] = IF t \in types THEN "idle" ELSE "put"
    BY <1>2, <1>20 DEF CheckEvent, Return, Goto, Proceed, Inv, LocalType
  <2>4. ~Decided(r, {"removeEvent"}) /\ ~Decided(r, {"removeEvent"})'
    BY <1>19, <2>1, <2>3
  <2>5. \A x \in Pairs : x[2] = t => WholePaired'[x] = WholePaired[x]
    BY <1>16, <2>2, <2>4
  <2>6. CASE t \in types
    BY <1>8, <1>18, <2>1, <2>4, <2>5, <2>6
  <2>7. CASE t \notin types
    <3>1. t \notin WholeTypes /\ t \in WholeTypes'
      BY <1>8, <1>19, <2>1, <2>3, <2>4, <2>7
    <3>2. WholeTypes' = WholeTypes \cup {t}
      BY <1>14, <1>17, <3>1
    <3>3. WholePaired' = WholePaired
      BY <1>15, <2>5 DEF WholePaired
    <3>4. Whole!AddType(t)
      BY <1>9, <1>11, <3>1, <3>2, <3>3 DEF Whole!AddType
    <3>5. QED
      BY <3>4 DEF RegistryStep, Whole!RegistryNext
  <2>8. QED
    BY <2>6, <2>7
<1>21. CASE CheckRemoved(r)
  <2>1. UNCHANGED <<types, paired>> /\ Op(r) = "removeEvent" /\ pc[r] = "check"
    BY <1>21 DEF CheckRemoved, registry
  <2>2. pc'[r] = IF t \in types THEN "drop" ELSE "idle"
    BY <1>2, <1>21 DEF CheckRemoved, Return, Goto, Proceed, Inv, LocalType
  <2>3. \A x : Members(x)' = Members(x)
    BY <2>1 DEF Members
  <2>4. CASE t \notin types
    <3>1. ~Decided(r, {"removeEvent"}) /\ ~Decided(r, {"removeEvent"})' /\ ~Decided(r, EventOps) /\ ~Decided(r, EventOps)'
      BY <1>19, <2>1, <2>2, <2>4
    <3>2. QED
      BY <1>8, <1>16, <1>18, <2>1, <2>3, <3>1
  <2>5. CASE t \in types
    <3>1. t \in WholeTypes /\ t \notin WholeTypes' /\ Decided(r, {"removeEvent"})'
      BY <1>8, <1>19, <2>1, <2>2, <2>5
    <3>2. WholeTypes' = WholeTypes \ {t}
      BY <1>14, <1>17, <3>1
    <3>3. \A x \in Pairs : WholePaired'[x] = IF x[2] = t THEN {} ELSE WholePaired[x]
      BY <1>15, <1>16, <3>1
    <3>4. WholePaired' = [x \in Pairs |-> IF x[2] = t THEN {} ELSE WholePaired[x]]
      BY <3>3 DEF WholePaired
    <3>5. Whole!RemoveType(t)
      BY <1>9, <1>11, <3>1, <3>2, <3>4 DEF Whole!RemoveType
    <3>6. QED
      BY <3>5 DEF RegistryStep, Whole!RegistryNext
  <2>6. QED
    BY <2>4, <2>5
<1>22. CASE PutEvent(r) \/ ReplaceEvent(r)
  <2>1. Op(r) \in EventOps /\ Op(r) # "removeEvent" /\ pc[r] \in {"put", "replace"} /\ pc'[r] \in {"idle", "replace"}
    BY <1>22 DEF PutEvent, ReplaceEvent, SetEntry, Proceed, Steady, Resting, EventOps, Inv, LocalType
  <2>2. t \in types' /\ \A x \in Pairs : x[2] = t => Members(x)' = {}
    BY <1>2, <1>22 DEF PutEvent, ReplaceEvent, SetEntry, Members
  <2>3. \A x \in Pairs : x[2] = t => Members(x) = {}
    BY <1>2, <2>1 DEF Alone, Undisturbed, TypeAlone, EntriesExist
  <2>4. ~Decided(r, {"removeEvent"}) /\ ~Decided(r, {"removeEvent"})' /\ Decided(r, EventOps)
    BY <1>19, <2>1
  <2>5. QED
    BY <1>8, <1>16, <1>18, <2>2, <2>3, <2>4
<1>23. CASE DropEvent(r)
  <2>1. Op(r) = "removeEvent" /\ pc[r] = "drop" /\ pc'[r] = "idle"
    BY <1>23 DEF DropEvent, SetEntry, Proceed, Alone, Undisturbed, TypeAlone, Inv, LocalType
  <2>2. t \notin types' /\ \A x \in Pairs : x[2] = t => Members(x)' = {}
    BY <1>2, <1>23 DEF DropEvent, SetEntry, Members
  <2>3. Decided(r, {"removeEvent"}) /\ ~Decided(r, EventOps)'
    BY <1>19, <2>1
  <2>4. QED
    BY <1>8, <1>16, <1>18, <2>2, <2>3
<1>24. QED
  BY <1>20, <1>21, <1>22, <1>23 DEF OnTypes

(* A step of a call about an actor shows nothing of other actors and of types. *)
LEMMA OtherActorsSeen ==
  ASSUME Inv, NEW r \in Threads, Step(r), Footprint(r), Op(r) \in ActorOps, UNCHANGED types,
         \A b \in Actors \ {Actor(r)} : \A x \in Pairs :
           (b \in Members(x)' <=> b \in Members(x)) /\ (b \in inDomain' <=> b \in inDomain)
  PROVE  /\ WholeTypes' = WholeTypes /\ TypesOf({"removeEvent"})' = TypesOf({"removeEvent"})
         /\ \A b \in Actors \ {Actor(r)} :
              /\ b \in WholeActors' <=> b \in WholeActors
              /\ WholeMode'[b] = WholeMode[b]
              /\ \A x \in Pairs : b \in WholePaired'[x] <=> b \in WholePaired[x]
<1>1. None \notin TypeOps \cup ActorOps /\ TypeOps \cap ActorOps = {}
  BY NoneAssumption DEF TypeOps, ActorOps, AllOperations
<1>2. /\ pc'[r] = "idle" => Op(r)' = None
      /\ pc'[r] # "idle" => Op(r)' = Op(r) /\ Actor(r)' = Actor(r)
      /\ Others(r)
  BY StepLocal
<1>3. ASSUME NEW ops \in SUBSET TypeOps PROVE TypesOf(ops)' = TypesOf(ops)
  <2>1. ~Decided(r, ops) /\ ~Decided(r, ops)'
    BY <1>1, <1>2 DEF Decided
  <2>2. TypesOf(ops)' = {Type(p)' : p \in {q \in Threads : Decided(q, ops)'}}
    BY DEF TypesOf
  <2>3. QED
    BY <1>2, <2>1, <2>2, OthersSeen DEF TypesOf
<1>4. ASSUME NEW b \in Actors \ {Actor(r)}, NEW ops \in SUBSET ActorOps
      PROVE  /\ b \in ActorsOf(ops)' <=> b \in ActorsOf(ops)
             /\ \A x : (\E p \in Threads : Decided(p, ops) /\ Actor(p) = b /\ Pair(p) = x)'
                    <=> (\E p \in Threads : Decided(p, ops) /\ Actor(p) = b /\ Pair(p) = x)
  <2>1. ~(Decided(r, ops) /\ Actor(r) = b) /\ ~(Decided(r, ops)' /\ Actor(r)' = b)
    BY <1>1, <1>2 DEF Decided
  <2>2. b \in ActorsOf(ops)' <=> \E q \in Threads : Decided(q, ops)' /\ Actor(q)' = b
    BY DEF ActorsOf
  <2>3. QED
    BY <1>2, <2>1, <2>2, OthersSeen DEF ActorsOf
<1>5. /\ {"register"} \in SUBSET ActorOps /\ {"deregister"} \in SUBSET ActorOps /\ {"disable"} \in SUBSET ActorOps
      /\ {"register", "enable"} \in SUBSET ActorOps /\ {"addPair"} \in SUBSET ActorOps
      /\ {"removeEvent"} \in SUBSET TypeOps /\ {"addEvent", "addEventType"} \in SUBSET TypeOps
  BY DEF ActorOps, TypeOps
<1>6. WholeTypes' = WholeTypes /\ TypesOf({"removeEvent"})' = TypesOf({"removeEvent"})
  BY <1>3, <1>5 DEF WholeTypes
<1>7. ASSUME NEW b \in Actors \ {Actor(r)}
      PROVE  /\ b \in WholeActors' <=> b \in WholeActors
             /\ WholeMode'[b] = WholeMode[b]
             /\ \A x \in Pairs : b \in WholePaired'[x] <=> b \in WholePaired[x]
  <2>1. (b \in actors' <=> b \in actors) /\ mode'[b] = mode[b] /\ wanted'[b] = wanted[b]
    BY DEF Footprint
  <2>2. b \in WholeActors' <=> b \in WholeActors
    BY <1>4, <1>5, <2>1 DEF WholeActors
  <2>3. WholeMode'[b] = WholeMode[b]
    <3>1. (b \in ActorsOf({"register", "enable"})' <=> b \in ActorsOf({"register", "enable"}))
          /\ (b \in ActorsOf({"disable"})' <=> b \in ActorsOf({"disable"}))
          /\ (b \in ActorsOf({"deregister"})' <=> b \in ActorsOf({"deregister"}))
      BY <1>4, <1>5
    <3>2. QED
      BY <2>1, <3>1 DEF WholeMode
  <2>4. ASSUME NEW x \in Pairs PROVE b \in WholePaired'[x] <=> b \in WholePaired[x]
    <3>1. (b \in ActorsOf({"register"})' <=> b \in ActorsOf({"register"}))
          /\ (b \in ActorsOf({"deregister"})' <=> b \in ActorsOf({"deregister"}))
          /\ ((\E p \in Threads : Decided(p, {"addPair"}) /\ Actor(p) = b /\ Pair(p) = x)'
                 <=> (\E p \in Threads : Decided(p, {"addPair"}) /\ Actor(p) = b /\ Pair(p) = x))
      BY <1>4, <1>5
    <3>2. x \in Joining(b)' <=> x \in Joining(b)
      BY <2>1, <3>1 DEF Joining
    <3>3. QED
      BY <1>6, <3>1, <3>2 DEF WholePaired
  <2>5. QED
    BY <2>2, <2>3, <2>4
<1>8. QED
  BY <1>6, <1>7

(* What other actors have in the entries is left alone, by a thread that has met none. *)
LEMMA OtherMembers ==
  ASSUME Inv, NEW r \in Threads, OnPairs(r) \/ OnActors(r), EntryCurrent(r),
         NEW b \in Actors \ {Actor(r)}, NEW x \in Pairs
  PROVE  b \in Members(x)' <=> b \in Members(x)
<1>1. CASE paired' = paired
  BY <1>1 DEF Members
<1>2. CASE Allocate(r)
  <2>1. paired[Pair(r)] = None /\ r \in holds /\ paired' = [paired EXCEPT ![Pair(r)] = {}]
    BY <1>2 DEF Allocate, EntryCurrent
  <2>2. QED
    BY <2>1 DEF Members, Inv, RegistryType
<1>3. CASE Add(r)
  <2>1. Pair(r) \in Pairs /\ Actor(r) \in Actors /\ r \in holds
    BY <1>3 DEF Add, EntryCurrent, Inv, CallsKnow, CallKnows, Ready, Known, ActorOps
  <2>2. Members(Pair(r)) \cup {Actor(r)} \in SUBSET Actors
    BY <2>1 DEF Members, Inv, RegistryType
  <2>3. Members(Pair(r)) \cup {Actor(r)} # None
    BY <2>2, NoSetAssumption
  <2>4. Members(x)' = IF x = Pair(r) THEN Members(x) \cup {Actor(r)} ELSE Members(x)
    BY <1>3, <2>1, <2>3 DEF Add, Members, Inv, RegistryType
  <2>5. QED
    BY <2>4
<1>4. CASE UnpairNext(r)
  <2>1. PICK y \in rest[r] : paired' = [paired EXCEPT ![y] = IF @ = None THEN None ELSE @ \ {Actor(r)}]
    BY <1>4 DEF UnpairNext
  <2>2. paired'[x] = IF x = y /\ paired[x] # None THEN paired[x] \ {Actor(r)} ELSE paired[x]
    BY <2>1 DEF Inv, RegistryType
  <2>3. paired[x] # None => paired[x] \ {Actor(r)} \in SUBSET Actors
    BY DEF Inv, RegistryType
  <2>4. paired[x] # None => paired[x] \ {Actor(r)} # None
    BY <2>3, NoSetAssumption
  <2>5. QED
    BY <2>2, <2>4 DEF Members
<1>5. QED
  BY <1>1, <1>2, <1>3, <1>4 DEF OnPairs, Want, Bind, LoopThrows, PairNext, OnActors, CheckRegistered, Enter, EnterState,
     PairOutputs, RegisterEnds, CheckDeregistered, Leave, UnpairOutputs, DeregisterEnds, CheckSwitched, Switch, registry

(* The step of a call about an actor is one of Registry, or nobody sees it. *)
LEMMA ActorsStep ==
  ASSUME Inv, Inv', Alone, Steady, NEW r \in Threads, r \notin met, OnPairs(r) \/ OnActors(r)
  PROVE  RegistryStep
<1>1. Ready(r, pc[r]) /\ Known(r) /\ Undisturbed(r) /\ Decisive(r) /\ pc[r] # "idle"
  BY StepLocal DEF Inv, CallsKnow, CallKnows, Alone, Steady, Step
<1>2. Op(r) \in ActorOps
  BY <1>1 DEF OnPairs, Allocate, Add, Want, Bind, LoopThrows, PairNext, UnpairNext, OnActors, CheckRegistered, Enter,
     EnterState, PairOutputs, RegisterEnds, CheckDeregistered, Leave, UnpairOutputs, DeregisterEnds, CheckSwitched,
     Switch, Ready, Loops, ActorOps
<1>3. PICK a \in Actors : a = Actor(r)
  BY <1>1, <1>2 DEF Known
<1>4. /\ Others(r) /\ Step(r) /\ None \notin ActorOps
      /\ pc'[r] = "idle" => Op(r)' = None
      /\ pc'[r] # "idle" => Op(r)' = Op(r) /\ Actor(r)' = a /\ (Op(r) # "register" => Pair(r)' = Pair(r))
  BY <1>3, StepLocal, NoneAssumption DEF Step, ActorOps, AllOperations
<1>5. SoleActor(r, a) /\ SoleActor(r, a)' /\ (Op(r)' \in ActorOps => Actor(r)' = a)
  BY <1>1, <1>2, <1>3, <1>4, Sole, SoleKept DEF Alone, Steady
<1>6. /\ a \in WholeActors <=> (a \in actors \/ Decided(r, {"register"})) /\ ~Decided(r, {"deregister"})
      /\ WholeMode[a] = OwnMode(r, a)
      /\ \A x \in Pairs : a \in WholePaired[x] <=> OwnPaired(r, a, x)
  BY <1>3, <1>5, ActorsSeen DEF ActorView
<1>7. /\ (a \in WholeActors)' <=> (a \in actors' \/ Decided(r, {"register"})') /\ ~Decided(r, {"deregister"})'
      /\ WholeMode'[a] = OwnMode(r, a)'
      /\ \A x \in Pairs : a \in WholePaired'[x] <=> OwnPaired(r, a, x)'
  <2>1. ActorView'
    BY ActorsSeen, PTL
  <2>2. QED
    BY <1>5, <2>1 DEF ActorView
<1>8. UNCHANGED types
  BY DEF OnPairs, Allocate, Add, Want, Bind, LoopThrows, PairNext, UnpairNext, OnActors, CheckRegistered, Enter,
     EnterState, PairOutputs, RegisterEnds, CheckDeregistered, Leave, UnpairOutputs, DeregisterEnds, CheckSwitched,
     Switch, registry
<1>9. \A b \in Actors \ {Actor(r)} : \A x \in Pairs :
        (b \in Members(x)' <=> b \in Members(x)) /\ (b \in inDomain' <=> b \in inDomain)
  <2>1. inDomain' = inDomain \/ inDomain' = inDomain \cup {Actor(r)}
    BY DEF OnPairs, Allocate, Add, Want, Bind, LoopThrows, PairNext, UnpairNext, OnActors, CheckRegistered, Enter,
       EnterState, PairOutputs, RegisterEnds, CheckDeregistered, Leave, UnpairOutputs, DeregisterEnds, CheckSwitched,
       Switch, interface
  <2>2. QED
    BY <1>1, <2>1, OtherMembers DEF Undisturbed
<1>10. /\ WholeTypes' = WholeTypes /\ TypesOf({"removeEvent"})' = TypesOf({"removeEvent"})
       /\ \A b \in Actors \ {a} :
            /\ b \in WholeActors' <=> b \in WholeActors
            /\ WholeMode'[b] = WholeMode[b]
            /\ \A x \in Pairs : b \in WholePaired'[x] <=> b \in WholePaired[x]
  BY <1>2, <1>3, <1>4, <1>8, <1>9, StepReach, OtherActorsSeen DEF Alone
<1>11. WholeActors \subseteq Actors /\ WholeActors' \subseteq Actors
  <2>1. (\A q \in Threads : Op(q) \in ActorOps => Actor(q) \in Actors) /\ actors \subseteq Actors
    BY DEF Inv, CallsKnow, CallKnows, Known, RegistryType
  <2>2. (\A q \in Threads : Op(q) \in ActorOps => Actor(q) \in Actors)' /\ actors' \subseteq Actors
    BY DEF Inv, CallsKnow, CallKnows, Known, RegistryType
  <2>3. QED
    BY <2>1, <2>2 DEF WholeActors, ActorsOf, Decided, ActorOps
<1>12. /\ WholeMode = [b \in Actors |-> WholeMode[b]] /\ WholeMode' = [b \in Actors |-> WholeMode'[b]]
       /\ WholePaired \in [Pairs -> SUBSET Actors] /\ WholePaired' \in [Pairs -> SUBSET Actors]
  BY DEF WholeMode, WholePaired
<1>13. ASSUME (a \in WholeActors)' <=> a \in WholeActors, OwnMode(r, a)' = OwnMode(r, a),
              \A x \in Pairs : OwnPaired(r, a, x)' <=> OwnPaired(r, a, x), UNCHANGED <<wanted, inDomain>>
       PROVE  RegistryStep
  <2>1. WholeActors' = WholeActors
    BY <1>10, <1>11, <1>13
  <2>2. WholeMode' = WholeMode
    BY <1>6, <1>7, <1>10, <1>12, <1>13
  <2>3. WholePaired' = WholePaired
    BY <1>6, <1>7, <1>10, <1>12, <1>13
  <2>4. QED
    BY <1>10, <1>13, <2>1, <2>2, <2>3 DEF RegistryStep, Whole!registryVars
(* What the call has decided. *)
<1>14. ASSUME NEW ops \in SUBSET ActorOps
       PROVE  /\ Decided(r, ops) <=> Op(r) \in ops /\ pc[r] # FirstStep(Op(r))
              /\ pc'[r] = "idle" => ~Decided(r, ops)'
              /\ pc'[r] \notin {"idle", "check", "want"} => (Decided(r, ops)' <=> Op(r) \in ops)
  BY <1>4 DEF Decided, FirstStep
<1>15. /\ {"register"} \in SUBSET ActorOps /\ {"deregister"} \in SUBSET ActorOps /\ {"disable"} \in SUBSET ActorOps
       /\ {"register", "enable"} \in SUBSET ActorOps /\ {"addPair"} \in SUBSET ActorOps
  BY DEF ActorOps
<1>16. /\ Op(r) \in {"register", "deregister"} => \A x \in wanted[a] :
            x \in Pairs /\ x[2] \notin TypesOf({"removeEvent"}) /\ (x[2] \in WholeTypes <=> x[2] \in types)
       /\ Op(r) = "addPair" =>
            Pair(r) \in Pairs /\ Type(r) \notin TypesOf({"removeEvent"}) /\ (Type(r) \in WholeTypes <=> Type(r) \in types)
  <2>1. \A t \in Types : t \in Touches(call[r]) =>
          t \notin TypesOf({"removeEvent"}) /\ (t \in WholeTypes <=> t \in types)
    <3>1. \A t \in Types : t \in Touches(call[r]) => SoleType(r, t)
      BY <1>1, Sole DEF Alone, Steady
    <3>2. Op(r) \notin TypeOps /\ ~Decided(r, EventOps) /\ ~Decided(r, {"removeEvent"})
      BY <1>2 DEF TypeOps, ActorOps, Decided, EventOps
    <3>3. QED
      BY <3>1, <3>2, TypesSeen DEF TypeView
  <2>2. QED
    BY <1>3, <2>1, Touched DEF Alone, Asked, TypeOps
(* The call goes on, *)
<1>17. ASSUME pc[r] \notin {"check", "want"}, pc'[r] \notin {"idle", "check", "want"}, UNCHANGED <<wanted, inDomain>>,
              Op(r) = "addPair" => UNCHANGED <<actors, mode>>, Op(r) \in {"register", "deregister", "addPair"},
              Op(r) # "deregister" =>
                \A x \in Pairs : \/ a \in Members(x)' <=> a \in Members(x)
                                 \/ Op(r) = "register" /\ x \in wanted[a] /\ x[2] \in types
       PROVE  RegistryStep
  <2>1. \A ops \in SUBSET ActorOps : (Decided(r, ops) <=> Op(r) \in ops) /\ (Decided(r, ops)' <=> Op(r) \in ops)
    BY <1>14, <1>17 DEF FirstStep
  <2>2. (a \in WholeActors)' <=> a \in WholeActors
    BY <1>6, <1>7, <1>15, <1>17, <2>1
  <2>3. OwnMode(r, a)' = OwnMode(r, a)
    BY <1>15, <1>17, <2>1 DEF OwnMode
  <2>4. \A x \in Pairs : OwnPaired(r, a, x)' <=> OwnPaired(r, a, x)
    <3>1. Op(r) = "addPair" => Pair(r)' = Pair(r)
      BY <1>4, <1>17
    <3>2. QED
      BY <1>8, <1>10, <1>15, <1>17, <2>1, <3>1 DEF OwnPaired
  <2>5. QED
    BY <1>13, <1>17, <2>2, <2>3, <2>4
(* or it returns. *)
<1>18. ASSUME pc'[r] = "idle"
       PROVE  /\ (a \in WholeActors)' <=> a \in actors'
              /\ OwnMode(r, a)' = mode'[a]
              /\ \A x \in Pairs : OwnPaired(r, a, x)' <=> x[2] \notin TypesOf({"removeEvent"}) /\ a \in Members(x)'
  BY <1>7, <1>10, <1>14, <1>15, <1>18 DEF OwnMode, OwnPaired
<1>19. ASSUME pc[r] = FirstStep(Op(r))
       PROVE  /\ a \in WholeActors <=> a \in actors
              /\ OwnMode(r, a) = mode[a]
              /\ \A x \in Pairs : OwnPaired(r, a, x) <=> x[2] \notin TypesOf({"removeEvent"}) /\ a \in Members(x)
  BY <1>6, <1>14, <1>15, <1>19 DEF OwnMode, OwnPaired
<1>20. ASSUME pc[r] = FirstStep(Op(r)), pc'[r] = "idle", UNCHANGED <<registry, interface>>
       PROVE  RegistryStep
  <2>1. \A x : Members(x)' = Members(x)
    BY <1>20 DEF Members, registry
  <2>2. QED
    BY <1>13, <1>18, <1>19, <1>20, <2>1 DEF registry, interface
<1>21. \A lost : \A step \in Steps : Proceed(r, step, lost) => pc'[r] = step
  BY DEF Proceed, Inv, LocalType
<1>22. \A step \in Loops : StartLoop(r, step) => pc'[r] = step
  BY DEF StartLoop, Inv, LocalType
<1>23. CASE OnPairs(r)
  <2>1. CASE LoopThrows(r)
    <3>1. Side(r) = RoleOf(pc[r]) /\ Op(r) \in {"register", "deregister"}
      BY <1>1, <2>1 DEF LoopThrows, Side, InPair, Loops, Ready
    <3>2. Iterated(r) = seen[r]
      BY <1>1, <2>1, <3>1 DEF LoopThrows, Decisive, Iterated
    <3>3. QED
      BY <2>1, <3>2 DEF LoopThrows
  <2>2. CASE Want(r)
    <3>1. /\ Op(r) = "addPair" /\ pc[r] = "want" /\ pc'[r] = "bind" /\ UNCHANGED <<registry, inDomain>>
          /\ wanted' = [wanted EXCEPT ![Actor(r)] = @ \cup {Pair(r)}]
      BY <1>1, <1>21, <2>2 DEF Want, Ready, Goto, Steps
    <3>2. PICK y \in Pairs : y = Pair(r)
      BY <1>16, <3>1
    <3>3. pc[r] = FirstStep(Op(r)) /\ Pair(r)' = y /\ Type(r) = y[2]
      BY <1>4, <3>1, <3>2 DEF FirstStep, Type
    <3>4. wanted' = [wanted EXCEPT ![a] = @ \cup {y}] /\ y \in wanted'[a] /\ \A x : Members(x)' = Members(x)
      BY <1>3, <3>1, <3>2 DEF Inv, RegistryType, registry, Members
    <3>5. /\ (a \in WholeActors)' <=> a \in WholeActors
          /\ OwnMode(r, a)' = OwnMode(r, a)
      BY <1>7, <1>14, <1>15, <1>19, <3>1, <3>3 DEF OwnMode, registry
    <3>6. ASSUME NEW x \in Pairs
          PROVE  a \in WholePaired'[x] <=> a \in WholePaired[x] \/ (x = y /\ a \in inDomain /\ y[2] \in WholeTypes)
      <4>1. a \in WholePaired[x] <=> x[2] \notin TypesOf({"removeEvent"}) /\ a \in Members(x)
        BY <1>6, <1>19, <3>3
      <4>2. a \in WholePaired'[x] <=>
              x[2] \notin TypesOf({"removeEvent"}) /\ (a \in Members(x) \/ (y[2] \in types /\ a \in inDomain /\ y = x))
        BY <1>7, <1>8, <1>10, <1>14, <1>15, <3>1, <3>3, <3>4 DEF OwnPaired
      <4>3. y[2] \notin TypesOf({"removeEvent"}) /\ (y[2] \in WholeTypes <=> y[2] \in types)
        BY <1>16, <3>1, <3>3
      <4>4. QED
        BY <4>1, <4>2, <4>3
    <3>7. WholeActors' = WholeActors /\ WholeMode' = WholeMode
      <4>1. WholeActors' = WholeActors
        BY <1>10, <1>11, <3>5
      <4>2. WholeMode' = WholeMode
        BY <1>6, <1>7, <1>10, <1>12, <3>5
      <4>3. QED
        BY <4>1, <4>2
    <3>8. WholePaired' = IF a \in inDomain /\ y[2] \in WholeTypes
                           THEN [WholePaired EXCEPT ![y] = @ \cup {a}] ELSE WholePaired
      <4>1. ASSUME NEW x \in Pairs
            PROVE  WholePaired'[x] = IF x = y /\ a \in inDomain /\ y[2] \in WholeTypes
                                       THEN WholePaired[x] \cup {a} ELSE WholePaired[x]
        <5>1. WholePaired'[x] \subseteq Actors /\ WholePaired[x] \subseteq Actors
          BY <1>12
        <5>2. \A b \in Actors \ {a} : b \in WholePaired'[x] <=> b \in WholePaired[x]
          BY <1>10
        <5>3. a \in WholePaired'[x] <=> a \in WholePaired[x] \/ (x = y /\ a \in inDomain /\ y[2] \in WholeTypes)
          BY <3>6
        <5>4. CASE x = y /\ a \in inDomain /\ y[2] \in WholeTypes
          <6>1. WholePaired'[x] = WholePaired[x] \cup {a}
            BY <5>1, <5>2, <5>3, <5>4
          <6>2. QED
            BY <5>4, <6>1
        <5>5. CASE ~(x = y /\ a \in inDomain /\ y[2] \in WholeTypes)
          <6>1. WholePaired'[x] = WholePaired[x]
            BY <5>1, <5>2, <5>3, <5>5
          <6>2. QED
            BY <5>5, <6>1
        <5>6. QED
          BY <5>4, <5>5
      <4>2. WholePaired' = [x \in Pairs |-> WholePaired'[x]] /\ WholePaired = [x \in Pairs |-> WholePaired[x]]
        BY <1>12
      <4>3. CASE a \in inDomain /\ y[2] \in WholeTypes
        <5>1. \A x \in Pairs : WholePaired'[x] = [WholePaired EXCEPT ![y] = @ \cup {a}][x]
          BY <4>1, <4>2, <4>3
        <5>2. QED
          BY <4>2, <4>3, <5>1
      <4>4. CASE ~(a \in inDomain /\ y[2] \in WholeTypes)
        BY <4>1, <4>2, <4>4
      <4>5. QED
        BY <4>3, <4>4
    <3>9. Whole!Ask(a, y)
      <4>1. WholeTypes' = WholeTypes /\ inDomain' = inDomain
        BY <1>10, <3>1
      <4>2. QED
        BY <3>4, <3>7, <3>8, <4>1 DEF Whole!Ask
    <3>10. QED
      BY <3>9 DEF RegistryStep, Whole!RegistryNext
  <2>3. CASE Allocate(r)
    <3>1. /\ pc[r] = "allocate" /\ pc'[r] = "add" /\ UNCHANGED <<wanted, inDomain, actors, mode>>
          /\ Op(r) \in {"register", "addPair"} /\ paired[Pair(r)] = None
      BY <1>1, <1>21, <2>3 DEF Allocate, Goto, Steps, interface, Ready, Undisturbed, EntryCurrent
    <3>2. \A x \in Pairs : Members(x)' = Members(x)
      BY <2>3, <3>1 DEF Allocate, Members, Inv, RegistryType
    <3>3. QED
      BY <1>17, <3>1, <3>2
  <2>4. CASE Add(r)
    <3>1. /\ pc[r] = "add" /\ pc'[r] = AfterPair(r) /\ UNCHANGED <<wanted, inDomain, actors, mode>>
          /\ Op(r) \in {"register", "addPair"} /\ r \in holds /\ Pair(r) \in Pairs /\ Pair(r) \in wanted[a]
          /\ Pair(r)[2] \in types /\ paired' = [paired EXCEPT ![Pair(r)] = Members(Pair(r)) \cup {a}]
      <4>1. AfterPair(r) \in Steps
        BY DEF AfterPair, Loop, Steps, Loops
      <4>2. QED
        BY <1>1, <1>3, <1>21, <2>4, <4>1 DEF Add, interface, Ready, Undisturbed, EntryCurrent, Alone, EntriesExist, Type
    <3>2. \A x \in Pairs : a \in Members(x)' <=> a \in Members(x) \/ x = Pair(r)
      <4>1. Members(Pair(r)) \cup {a} \in SUBSET Actors
        BY <3>1 DEF Members, Inv, RegistryType
      <4>2. Members(Pair(r)) \cup {a} # None
        BY <4>1, NoSetAssumption
      <4>3. \A x \in Pairs : Members(x)' = IF x = Pair(r) THEN Members(x) \cup {a} ELSE Members(x)
        BY <3>1, <4>2 DEF Members, Inv, RegistryType
      <4>4. QED
        BY <4>3
    <3>3. CASE Op(r) = "register"
      <4>1. pc'[r] \in {"pairInput", "pairOutput"}
        BY <3>1, <3>3 DEF AfterPair, Loop
      <4>2. QED
        BY <1>17, <3>1, <3>2, <3>3, <4>1
    <3>4. CASE Op(r) = "addPair"
      <4>1. pc'[r] = "idle" /\ pc[r] # FirstStep(Op(r)) /\ a \in inDomain
        BY <1>3, <3>1, <3>4 DEF AfterPair, FirstStep, Steady, Resting, InPair
      <4>2. \A ops \in SUBSET ActorOps : Decided(r, ops) <=> "addPair" \in ops
        BY <1>14, <3>4, <4>1
      <4>3. a \in WholeActors <=> a \in actors
        BY <1>6, <1>15, <4>2
      <4>4. OwnMode(r, a) = mode[a]
        BY <1>15, <4>2 DEF OwnMode
      <4>5. \A x \in Pairs : OwnPaired(r, a, x) <=>
              x[2] \notin TypesOf({"removeEvent"}) /\ (a \in Members(x) \/ x = Pair(r))
        BY <1>15, <3>1, <4>1, <4>2 DEF OwnPaired
      <4>6. QED
        BY <1>13, <1>18, <3>1, <3>2, <4>1, <4>3, <4>4, <4>5
    <3>5. QED
      BY <3>1, <3>3, <3>4
  <2>5. CASE Bind(r)
    <3>1. Op(r) = "addPair" /\ pc[r] = "bind" /\ UNCHANGED <<registry, interface>> /\ Pair(r) \in Pairs
      BY <1>1, <2>5 DEF Bind, Ready
    <3>2. \A x : Members(x)' = Members(x)
      BY <3>1 DEF Members, registry
    <3>3. CASE LookUp(r, Pair(r))
      <4>1. pc'[r] \in {"allocate", "add"}
        BY <3>3 DEF LookUp, Inv, LocalType
      <4>2. QED
        BY <1>17, <3>1, <3>2, <4>1 DEF registry, interface
    <3>4. CASE Return(r) /\ ~(Actor(r) \in inDomain /\ Type(r) \in types)
      <4>1. pc'[r] = "idle" /\ pc[r] # FirstStep(Op(r))
        BY <1>21, <3>1, <3>4 DEF Return, FirstStep, Steps
      <4>2. \A ops \in SUBSET ActorOps : Decided(r, ops) <=> "addPair" \in ops
        BY <1>14, <3>1, <4>1
      <4>3. a \in WholeActors <=> a \in actors
        BY <1>6, <1>15, <4>2
      <4>4. OwnMode(r, a) = mode[a]
        BY <1>15, <4>2 DEF OwnMode
      <4>5. \A x \in Pairs : OwnPaired(r, a, x) <=> x[2] \notin TypesOf({"removeEvent"}) /\ a \in Members(x)
        BY <1>3, <1>15, <3>4, <4>2 DEF OwnPaired, Type
      <4>6. QED
        BY <1>13, <1>18, <3>1, <3>2, <4>1, <4>3, <4>4, <4>5 DEF registry, interface
    <3>5. QED
      BY <2>5, <3>3, <3>4 DEF Bind
  <2>6. CASE PairNext(r)
    <3>1. pc[r] \in {"pairInput", "pairOutput"} /\ Op(r) = "register" /\ UNCHANGED <<registry, interface>>
      BY <1>1, <2>6 DEF PairNext, Ready
    <3>2. pc'[r] \in {"allocate", "add", "pairInput", "pairOutput"}
      BY <2>6, <3>1 DEF PairNext, LookUp, Inv, LocalType
    <3>3. \A x : Members(x)' = Members(x)
      BY <3>1 DEF Members, registry
    <3>4. QED
      BY <1>17, <3>1, <3>2, <3>3 DEF registry, interface
  <2>7. CASE UnpairNext(r)
    <3>1. pc[r] \in {"unpairInput", "unpairOutput"} /\ Op(r) = "deregister" /\ UNCHANGED <<wanted, inDomain, pc>>
      BY <1>1, <2>7 DEF UnpairNext, Ready, interface
    <3>2. QED
      BY <1>17, <3>1
  <2>8. QED
    BY <1>23, <2>1, <2>2, <2>3, <2>4, <2>5, <2>6, <2>7 DEF OnPairs
<1>24. CASE OnActors(r)
  <2>1. CASE CheckRegistered(r)
    <3>1. pc[r] = "check" /\ Op(r) = "register" /\ UNCHANGED <<registry, wanted>> /\ pc[r] = FirstStep(Op(r))
      BY <2>1 DEF CheckRegistered, FirstStep
    <3>2. CASE Actor(r) \in actors
      BY <1>20, <1>21, <2>1, <3>1, <3>2 DEF CheckRegistered, Return, Steps, interface
    <3>3. CASE Actor(r) \notin actors
      <4>1. pc'[r] = "enter" /\ inDomain' = inDomain \cup {a} /\ \A x : Members(x)' = Members(x)
        BY <1>3, <1>21, <2>1, <3>1, <3>3 DEF CheckRegistered, Goto, Steps, registry, Members
      <4>2. \A ops \in SUBSET ActorOps : Decided(r, ops)' <=> "register" \in ops
        BY <1>14, <3>1, <4>1
      <4>3. a \notin WholeActors /\ a \in WholeActors' /\ WholeMode'[a] = "ENABLING"
        BY <1>3, <1>7, <1>15, <1>19, <3>1, <3>3, <4>2 DEF OwnMode
      <4>4. ASSUME NEW x \in Pairs
            PROVE  a \in WholePaired'[x] <=> a \in WholePaired[x] \/ (x \in wanted[a] /\ x[2] \in WholeTypes)
        <5>1. a \in WholePaired[x] <=> x[2] \notin TypesOf({"removeEvent"}) /\ a \in Members(x)
          BY <1>6, <1>19, <3>1
        <5>2. a \in WholePaired'[x] <=>
                x[2] \notin TypesOf({"removeEvent"}) /\ (a \in Members(x) \/ (x \in wanted[a] /\ x[2] \in types))
          BY <1>7, <1>8, <1>10, <1>15, <3>1, <4>1, <4>2 DEF OwnPaired
        <5>3. QED
          BY <1>16, <3>1, <5>1, <5>2
      <4>5. WholeActors' = WholeActors \cup {a}
        BY <1>10, <1>11, <4>3
      <4>6. WholeMode' = [WholeMode EXCEPT ![a] = "ENABLING"]
        BY <1>10, <1>12, <4>3
      <4>7. WholePaired' = [x \in Pairs |-> IF x \in wanted[a] /\ x[2] \in WholeTypes
                                              THEN WholePaired[x] \cup {a} ELSE WholePaired[x]]
        <5>1. ASSUME NEW x \in Pairs
              PROVE  WholePaired'[x] = IF x \in wanted[a] /\ x[2] \in WholeTypes
                                         THEN WholePaired[x] \cup {a} ELSE WholePaired[x]
          <6>1. WholePaired'[x] \subseteq Actors /\ WholePaired[x] \subseteq Actors
            BY <1>12
          <6>2. \A b \in Actors \ {a} : b \in WholePaired'[x] <=> b \in WholePaired[x]
            BY <1>10
          <6>3. a \in WholePaired'[x] <=> a \in WholePaired[x] \/ (x \in wanted[a] /\ x[2] \in WholeTypes)
            BY <4>4
          <6>4. CASE x \in wanted[a] /\ x[2] \in WholeTypes
            <7>1. WholePaired'[x] = WholePaired[x] \cup {a}
              BY <6>1, <6>2, <6>3, <6>4
            <7>2. QED
              BY <6>4, <7>1
          <6>5. CASE ~(x \in wanted[a] /\ x[2] \in WholeTypes)
            <7>1. WholePaired'[x] = WholePaired[x]
              BY <6>1, <6>2, <6>3, <6>5
            <7>2. QED
              BY <6>5, <7>1
          <6>6. QED
            BY <6>4, <6>5
        <5>2. WholePaired' = [x \in Pairs |-> WholePaired'[x]]
          BY <1>12
        <5>3. QED
          BY <5>1, <5>2
      <4>8. Whole!Register(a)
        BY <1>10, <3>1, <4>1, <4>3, <4>5, <4>6, <4>7 DEF Whole!Register
      <4>9. QED
        BY <4>8 DEF RegistryStep, Whole!RegistryNext
    <3>4. QED
      BY <3>2, <3>3
  <2>2. CASE CheckDeregistered(r)
    <3>1. pc[r] = "check" /\ Op(r) = "deregister" /\ UNCHANGED <<registry, interface>> /\ pc[r] = FirstStep(Op(r))
      BY <2>2 DEF CheckDeregistered, FirstStep
    <3>2. CASE Actor(r) \notin actors
      BY <1>20, <1>21, <2>2, <3>1, <3>2 DEF CheckDeregistered, Return, Steps
    <3>3. CASE Actor(r) \in actors
      <4>1. pc'[r] = "leave"
        BY <1>21, <2>2, <3>3 DEF CheckDeregistered, Goto, Steps
      <4>2. \A ops \in SUBSET ActorOps : Decided(r, ops)' <=> "deregister" \in ops
        BY <1>14, <3>1, <4>1
      <4>3. a \in WholeActors /\ a \notin WholeActors' /\ WholeMode'[a] = None
        BY <1>3, <1>7, <1>15, <1>19, <3>1, <3>3, <4>2 DEF OwnMode
      <4>4. \A x \in Pairs : a \notin WholePaired'[x]
        BY <1>7, <1>15, <4>2 DEF OwnPaired
      <4>5. WholeActors' = WholeActors \ {a}
        BY <1>10, <1>11, <4>3
      <4>6. WholeMode' = [WholeMode EXCEPT ![a] = None]
        BY <1>10, <1>12, <4>3
      <4>7. WholePaired' = [x \in Pairs |-> WholePaired[x] \ {a}]
        BY <1>10, <1>12, <4>4
      <4>8. Whole!Deregister(a)
        BY <1>10, <3>1, <4>3, <4>5, <4>6, <4>7 DEF Whole!Deregister, interface
      <4>9. QED
        BY <4>8 DEF RegistryStep, Whole!RegistryNext
    <3>4. QED
      BY <3>2, <3>3
  <2>3. CASE CheckSwitched(r)
    <3>1. pc[r] = "check" /\ Op(r) \in {"enable", "disable"} /\ UNCHANGED <<registry, interface>> /\ pc[r] = FirstStep(Op(r))
      BY <2>3 DEF CheckSwitched, FirstStep
    <3>2. CASE Actor(r) \notin actors
      BY <1>20, <1>21, <2>3, <3>1, <3>2 DEF CheckSwitched, Return, Steps
    <3>3. CASE Actor(r) \in actors
      <4>1. pc'[r] = "switch" /\ \A x : Members(x)' = Members(x)
        BY <1>21, <2>3, <3>1, <3>3 DEF CheckSwitched, Goto, Steps, Members, registry
      <4>2. \A ops \in SUBSET ActorOps : Decided(r, ops)' <=> Op(r) \in ops
        BY <1>14, <4>1
      <4>3. a \in WholeActors /\ a \in WholeActors' /\ WholeMode'[a] \in {"ENABLING", "FINISHED"}
        BY <1>3, <1>7, <1>15, <1>19, <3>1, <3>3, <4>2 DEF OwnMode, registry
      <4>4. \A x \in Pairs : a \in WholePaired'[x] <=> a \in WholePaired[x]
        BY <1>6, <1>7, <1>8, <1>10, <1>15, <1>19, <3>1, <4>1, <4>2 DEF OwnPaired
      <4>5. WholeActors' = WholeActors
        BY <1>10, <1>11, <4>3
      <4>6. PICK m \in {"ENABLING", "FINISHED"} : m = WholeMode'[a]
        BY <4>3
      <4>7. WholeMode' = [WholeMode EXCEPT ![a] = m]
        BY <1>10, <1>12, <4>6
      <4>8. WholePaired' = WholePaired
        BY <1>10, <1>12, <4>4
      <4>9. Whole!Switch(a)
        BY <1>10, <3>1, <4>3, <4>5, <4>7, <4>8 DEF Whole!Switch, interface
      <4>10. QED
        BY <4>9 DEF RegistryStep, Whole!RegistryNext
    <3>4. QED
      BY <3>2, <3>3
  <2>4. CASE Enter(r) \/ EnterState(r) \/ PairOutputs(r)
    <3>1. /\ pc[r] \notin {"check", "want"} /\ pc'[r] \in {"state", "pairInput", "pairOutput"}
          /\ Op(r) = "register" /\ UNCHANGED <<paired, wanted, inDomain>>
      BY <1>1, <1>21, <1>22, <2>4 DEF Enter, EnterState, PairOutputs, Goto, Ready, Steps, Loops, registry, interface
    <3>2. \A x : Members(x)' = Members(x)
      BY <3>1 DEF Members
    <3>3. QED
      BY <1>17, <3>1, <3>2
  <2>5. CASE Leave(r) \/ UnpairOutputs(r)
    <3>1. /\ pc[r] \notin {"check", "want"} /\ pc'[r] \in {"unpairInput", "unpairOutput"}
          /\ Op(r) = "deregister" /\ UNCHANGED <<wanted, inDomain>>
      BY <1>1, <1>22, <2>5 DEF Leave, UnpairOutputs, Ready, Decisive, Loops, interface
    <3>2. QED
      BY <1>17, <3>1
  <2>6. CASE RegisterEnds(r)
    <3>1. /\ pc[r] = "pairOutput" /\ rest[r] = {} /\ Op(r) = "register" /\ UNCHANGED <<registry, interface>>
          /\ pc'[r] = "idle" /\ pc[r] # FirstStep(Op(r))
      BY <1>1, <1>21, <2>6 DEF RegisterEnds, Ready, Return, Steps, FirstStep
    <3>2. \A x : ~Pending(r, x) /\ Members(x)' = Members(x)
      BY <3>1 DEF Pending, InPair, Side, RoleOf, Members, registry
    <3>3. a \in actors /\ mode[a] = "ENABLING" /\ \A x \in wanted[a] : x[2] \in types => a \in Members(x)
      BY <1>1, <1>3, <3>1, <3>2 DEF Undisturbed, Entering
    <3>4. \A ops \in SUBSET ActorOps : Decided(r, ops) <=> "register" \in ops
      BY <1>14, <3>1
    <3>5. a \in WholeActors /\ OwnMode(r, a) = "ENABLING"
      BY <1>6, <1>15, <3>4 DEF OwnMode
    <3>6. \A x \in Pairs : OwnPaired(r, a, x) <=> x[2] \notin TypesOf({"removeEvent"}) /\ a \in Members(x)
      BY <1>15, <3>3, <3>4 DEF OwnPaired
    <3>7. QED
      BY <1>13, <1>18, <3>1, <3>2, <3>3, <3>5, <3>6 DEF registry, interface
  <2>7. CASE DeregisterEnds(r)
    <3>1. /\ pc[r] = "unpairOutput" /\ rest[r] = {} /\ Op(r) = "deregister" /\ UNCHANGED <<actors, paired, interface>>
          /\ pc'[r] = "idle" /\ pc[r] # FirstStep(Op(r)) /\ mode'[a] = None
      BY <1>1, <1>3, <1>21, <2>7 DEF DeregisterEnds, Ready, Return, Steps, FirstStep, Inv, RegistryType
    <3>2. \A x : ~Pending(r, x) /\ Members(x)' = Members(x)
      BY <3>1 DEF Pending, InPair, Side, RoleOf, Members
    <3>3. a \notin actors /\ \A x \in Pairs : a \notin Members(x)
      BY <1>1, <1>3, <3>1, <3>2 DEF Undisturbed, Leaving
    <3>4. \A ops \in SUBSET ActorOps : Decided(r, ops) <=> "deregister" \in ops
      BY <1>14, <3>1
    <3>5. a \notin WholeActors /\ OwnMode(r, a) = None /\ \A x \in Pairs : ~OwnPaired(r, a, x)
      BY <1>6, <1>15, <3>4 DEF OwnMode, OwnPaired
    <3>6. QED
      BY <1>13, <1>18, <3>1, <3>2, <3>3, <3>5 DEF interface
  <2>8. CASE Switch(r)
    <3>1. /\ pc[r] = "switch" /\ Op(r) \in {"enable", "disable"} /\ UNCHANGED <<actors, paired, interface>>
          /\ pc'[r] = "idle" /\ pc[r] # FirstStep(Op(r))
          /\ mode'[a] = IF Op(r) = "enable" THEN "ENABLING" ELSE "FINISHED"
      BY <1>1, <1>3, <1>21, <2>8 DEF Switch, Ready, Return, Steps, FirstStep, Inv, RegistryType
    <3>2. \A ops \in SUBSET ActorOps : Decided(r, ops) <=> Op(r) \in ops
      BY <1>14, <3>1
    <3>3. a \in WholeActors <=> a \in actors
      BY <1>6, <1>15, <3>1, <3>2
    <3>4. OwnMode(r, a) = mode'[a]
      BY <1>15, <3>1, <3>2 DEF OwnMode
    <3>5. \A x \in Pairs : OwnPaired(r, a, x) <=> x[2] \notin TypesOf({"removeEvent"}) /\ a \in Members(x)
      BY <1>15, <3>1, <3>2 DEF OwnPaired
    <3>6. \A x : Members(x)' = Members(x)
      BY <3>1 DEF Members
    <3>7. QED
      BY <1>13, <1>18, <3>1, <3>3, <3>4, <3>5, <3>6 DEF interface
  <2>9. QED
    BY <1>24, <2>1, <2>2, <2>3, <2>4, <2>5, <2>6, <2>7, <2>8 DEF OnActors
<1>25. QED
  BY <1>23, <1>24

LEMMA BeginUnseen ==
  ASSUME Inv, Resting, NEW r \in Threads, NEW c \in Calls(r), Begin(r, c)
  PROVE  UNCHANGED Whole!registryVars
<1>1. /\ \A q \in Threads \ {r} : pc'[q] = pc[q] /\ call'[q] = call[q]
      /\ pc[r] = "idle" /\ call'[r] = c /\ pc'[r] = FirstStep(c.op) /\ UNCHANGED <<registry, interface>>
  BY DEF Begin, Inv, LocalType
<1>2. ASSUME NEW ops \in SUBSET AllOperations
      PROVE  \A q \in Threads :
               /\ Decided(q, ops)' <=> Decided(q, ops)
               /\ Decided(q, ops) => Type(q)' = Type(q) /\ Actor(q)' = Actor(q) /\ Pair(q)' = Pair(q)
  <2>1. ~Decided(r, ops) /\ ~Decided(r, ops)'
    BY <1>1, NoneAssumption DEF Decided, Resting, Op
  <2>2. QED
    BY <1>1, <2>1 DEF Decided, Op, Type, Actor, Pair, FirstStep
<1>3. /\ {"register"} \in SUBSET AllOperations /\ {"deregister"} \in SUBSET AllOperations
      /\ {"disable"} \in SUBSET AllOperations /\ {"register", "enable"} \in SUBSET AllOperations
      /\ {"addPair"} \in SUBSET AllOperations /\ {"removeEvent"} \in SUBSET AllOperations
      /\ {"addEvent", "addEventType"} \in SUBSET AllOperations
  BY DEF AllOperations
<1>4. ASSUME NEW ops \in SUBSET AllOperations
      PROVE  TypesOf(ops)' = TypesOf(ops) /\ ActorsOf(ops)' = ActorsOf(ops)
  <2>1. (\A v : v \in TypesOf(ops)' <=> \E p \in Threads : Decided(p, ops)' /\ v = Type(p)')
        /\ (\A v : v \in TypesOf(ops) <=> \E p \in Threads : Decided(p, ops) /\ v = Type(p))
    BY DEF TypesOf
  <2>2. (\A v : v \in ActorsOf(ops)' <=> \E p \in Threads : Decided(p, ops)' /\ v = Actor(p)')
        /\ (\A v : v \in ActorsOf(ops) <=> \E p \in Threads : Decided(p, ops) /\ v = Actor(p))
    BY DEF ActorsOf
  <2>3. (\A v : v \in TypesOf(ops)' <=> v \in TypesOf(ops)) /\ (\A v : v \in ActorsOf(ops)' <=> v \in ActorsOf(ops))
    BY <1>2, <2>1, <2>2
  <2>4. QED
    BY <2>3
<1>5. WholeTypes' = WholeTypes /\ WholeActors' = WholeActors /\ WholeMode' = WholeMode
  BY <1>1, <1>3, <1>4 DEF WholeTypes, WholeActors, WholeMode, registry
<1>6. \A a \in Actors : \A x \in Pairs : x \in Joining(a)' <=> x \in Joining(a)
  <2> SUFFICES ASSUME NEW a \in Actors, NEW x \in Pairs PROVE x \in Joining(a)' <=> x \in Joining(a)
    OBVIOUS
  <2>1. (\E p \in Threads : Decided(p, {"addPair"}) /\ Actor(p) = a /\ Pair(p) = x)'
          <=> (\E p \in Threads : Decided(p, {"addPair"}) /\ Actor(p) = a /\ Pair(p) = x)
    BY <1>2, <1>3
  <2>2. QED
    BY <1>1, <1>3, <1>4, <2>1 DEF Joining, registry, interface
<1>7. WholePaired' = WholePaired
  BY <1>1, <1>3, <1>4, <1>6 DEF WholePaired, Members, registry
<1>8. QED
  BY <1>1, <1>5, <1>7 DEF Whole!registryVars, interface

(* Calls about different actors and types are atomic, however their steps
   interleave and whatever the calls before them left behind: each is a call of
   Registry as a whole (EventActorManager.java:65-150, 183-248). *)
THEOREM AtomicCorrect == Spec => AtomicUnlessMet
<1>1. ASSUME Inv, Alone, Steady, [Next]_vars, met = {}
      PROVE  RegistryStep
  <2>1. Inv' /\ Asked'
    BY <1>1, InvNext, AloneStep DEF Alone
  <2>2. CASE UNCHANGED vars
    <3>1. UNCHANGED <<WholeTypes, WholeActors, WholeMode, WholePaired>>
      BY <2>2 DEF vars, registry, interface, WholeTypes, WholeActors, WholeMode, WholePaired, TypesOf, ActorsOf, Joining,
         Decided, FirstStep, Members, Op, Actor, Pair, Type
    <3>2. QED
      BY <2>2, <3>1 DEF RegistryStep, Whole!registryVars, vars, interface
  <2>3. ASSUME NEW r \in Threads, NEW c \in Calls(r), Begin(r, c) PROVE RegistryStep
    BY <1>1, <2>3, BeginUnseen DEF Steady, RegistryStep
  <2>4. ASSUME NEW r \in Threads, OnTypes(r) \/ OnPairs(r) \/ OnActors(r) PROVE RegistryStep
    BY <1>1, <2>1, <2>4, TypesStep, ActorsStep
  <2>5. QED
    BY <1>1, <2>2, <2>3, <2>4 DEF Next
<1>2. Inv /\ Alone /\ Steady /\ [Next]_vars =>
        [met = {} /\ met' = {} => Whole!RegistryNext \/ UNCHANGED Whole!registryVars]_vars
  BY <1>1 DEF RegistryStep
<1>3. QED
  BY <1>2, InvInit, InvNext, AloneInit, AloneStep, SteadyInit, SteadyStep, PTL DEF Spec, AtomicUnlessMet

LEMMA WholeInit == Init => Whole!RegistryInit
<1> SUFFICES ASSUME Init PROVE Whole!RegistryInit
  OBVIOUS
<1>1. \A ops \in SUBSET AllOperations : TypesOf(ops) = {} /\ ActorsOf(ops) = {}
  BY NoneAssumption DEF Init, TypesOf, ActorsOf, Decided, Op, NoCall
<1>2. /\ {"register"} \in SUBSET AllOperations /\ {"deregister"} \in SUBSET AllOperations
      /\ {"disable"} \in SUBSET AllOperations /\ {"register", "enable"} \in SUBSET AllOperations
      /\ {"removeEvent"} \in SUBSET AllOperations /\ {"addEvent", "addEventType"} \in SUBSET AllOperations
  BY DEF AllOperations
<1>3. WholeTypes = InitialTypes /\ WholeActors = {} /\ WholeMode = [a \in Actors |-> None]
  BY <1>1, <1>2 DEF Init, WholeTypes, WholeActors, WholeMode
<1>4. \A x \in Pairs : WholePaired[x] = {}
  BY DEF Init, WholePaired, Members, Joining
<1>5. WholePaired = [x \in Pairs |-> {}]
  BY <1>4 DEF WholePaired
<1>6. QED
  BY <1>3, <1>5 DEF Init, Whole!RegistryInit

(* So an administrator whose calls never meet sees the registry of Registry. *)
THEOREM RegistryRefined == Spec /\ [](met = {}) => Whole!RegistrySpec
<1>1. AtomicUnlessMet /\ [](met = {}) => [][Whole!RegistryNext]_Whole!registryVars
  <2>1. [met = {} /\ met' = {} => Whole!RegistryNext \/ UNCHANGED Whole!registryVars]_vars
          /\ met = {} /\ (met = {})' => [Whole!RegistryNext]_Whole!registryVars
    <3>1. UNCHANGED vars => UNCHANGED Whole!registryVars
      BY DEF vars, registry, interface, WholeTypes, WholeActors, WholeMode, WholePaired, TypesOf, ActorsOf, Joining,
         Decided, FirstStep, Members, Op, Actor, Pair, Type, Whole!registryVars
    <3>2. QED
      BY <3>1
  <2>2. QED
    BY <2>1, PTL DEF AtomicUnlessMet
<1>2. QED
  BY <1>1, WholeInit, AtomicCorrect, PTL DEF Spec, Whole!RegistrySpec
-----------------------------------------------------------------------------
(* What the atomic registry promises of subscriptions, where types only exist. *)
NoRemoval == \A p \in Threads : pc[p] # "drop" /\ Op(p) # "removeEvent"

Settled ==
  /\ types = Types /\ NoRemoval
  /\ WholeActors \subseteq inDomain
  /\ \A a \in WholeActors : \A x \in wanted[a] : a \in WholePaired[x]

LEMMA NoRemovalStep ==
  ASSUME \A p \in Threads : "removeEvent" \notin Operations[p], Inv, types = Types, NoRemoval, [Next]_vars
  PROVE  types' = Types /\ NoRemoval'
<1>1. CASE UNCHANGED vars
  BY <1>1 DEF NoRemoval, vars, registry, Op
<1>2. ASSUME NEW r \in Threads, NEW c \in Calls(r), Begin(r, c) PROVE types' = Types /\ NoRemoval'
  <2>1. c.op # "removeEvent" /\ FirstStep(c.op) # "drop"
    BY DEF Calls, FirstStep
  <2>2. /\ types' = types /\ \A q \in Threads \ {r} : pc'[q] = pc[q] /\ call'[q] = call[q]
        /\ pc'[r] = FirstStep(c.op) /\ call'[r] = c
    BY <1>2 DEF Begin, registry, Inv, LocalType
  <2>3. QED
    BY <2>1, <2>2 DEF NoRemoval, Op
<1>3. ASSUME NEW r \in Threads, Step(r) PROVE types' = Types /\ NoRemoval'
  <2>1. types' = types
    <3>1. CASE PutEvent(r) \/ ReplaceEvent(r)
      <4>1. Type(r) \in Types
        BY <3>1, PairTypes DEF PutEvent, ReplaceEvent, Inv, CallsKnow, CallKnows, Known, Ready, Type
      <4>2. QED
        BY <3>1, <4>1 DEF PutEvent, ReplaceEvent, SetEntry
    <3>2. CASE ~PutEvent(r) /\ ~ReplaceEvent(r) /\ ~DropEvent(r)
      BY <1>3, <3>2 DEF Step, OnTypes, CheckEvent, CheckRemoved, OnPairs, Allocate, Add, Want, Bind, LoopThrows,
         PairNext, UnpairNext, OnActors, CheckRegistered, Enter, EnterState, PairOutputs, RegisterEnds,
         CheckDeregistered, Leave, UnpairOutputs, DeregisterEnds, CheckSwitched, Switch, registry
    <3>3. QED
      BY <3>1, <3>2 DEF DropEvent, NoRemoval
  <2>2. Op(r)' # "removeEvent"
    BY <1>3, StepLocal, NoneAssumption DEF NoRemoval, AllOperations
  <2>3. pc'[r] # "drop"
    <3> USE DEF Inv, LocalType, Proceed, Goto, Return
    <3>1. CASE OnTypes(r)
      BY <3>1 DEF OnTypes, CheckEvent, PutEvent, ReplaceEvent, CheckRemoved, DropEvent, SetEntry, NoRemoval
    <3>2. CASE OnPairs(r)
      BY <3>2 DEF OnPairs, Allocate, Add, Want, Bind, LoopThrows, PairNext, UnpairNext, LookUp, AfterPair, Loop
    <3>3. CASE OnActors(r)
      BY <3>3 DEF OnActors, CheckRegistered, Enter, EnterState, PairOutputs, RegisterEnds,
         CheckDeregistered, Leave, UnpairOutputs, DeregisterEnds, CheckSwitched, Switch, StartLoop
    <3>4. QED
      BY <1>3, <3>1, <3>2, <3>3 DEF Step
  <2>4. QED
    BY <1>3, <2>1, <2>2, <2>3, StepLocal DEF NoRemoval, Others, Op
<1>4. QED
  BY <1>1, <1>2, <1>3 DEF Next, Step

LEMMA WholeTypesAll == Inv /\ types = Types /\ NoRemoval => WholeTypes = Types
<1> SUFFICES ASSUME Inv, types = Types, NoRemoval PROVE WholeTypes = Types
  OBVIOUS
<1>1. TypesOf({"removeEvent"}) = {}
  BY DEF TypesOf, Decided, NoRemoval
<1>2. TypesOf({"addEvent", "addEventType"}) \subseteq Types
  <2>1. \A p \in Threads : Decided(p, {"addEvent", "addEventType"}) => Type(p) \in Types
    BY PairTypes DEF Decided, Type, Inv, CallsKnow, CallKnows, Known, TypeOps
  <2>2. QED
    BY <2>1 DEF TypesOf
<1>3. QED
  BY <1>1, <1>2 DEF WholeTypes

LEMMA SettledStep ==
  ASSUME \A p \in Threads : "removeEvent" \notin Operations[p], Inv, Inv', Settled, [Next]_vars,
         RegistryStep
  PROVE  Settled'
<1>1. types' = Types /\ NoRemoval'
  BY NoRemovalStep DEF Settled
<1>2. WholeTypes = Types /\ WholeTypes' = Types
  <2>1. (Inv /\ types = Types /\ NoRemoval => WholeTypes = Types)'
    BY WholeTypesAll, PTL
  <2>2. QED
    BY <1>1, <2>1, WholeTypesAll DEF Settled
<1>3. \A a \in Actors : wanted[a] \subseteq Pairs
  BY DEF Inv, RegistryType
<1>4. WholeActors \subseteq Actors
  BY DEF Settled, Inv, RegistryType
<1> USE <1>1, <1>3, <1>4 DEF Settled
<1>5. CASE UNCHANGED Whole!registryVars
  BY <1>5 DEF Whole!registryVars
<1>6. ASSUME NEW t \in Types, Whole!AddType(t) \/ Whole!RemoveType(t) PROVE Settled'
  BY <1>2, <1>6 DEF Whole!AddType, Whole!RemoveType
<1>7. ASSUME NEW a \in Actors, Whole!Register(a) PROVE Settled'
  BY <1>2, <1>7, PairTypes DEF Whole!Register
<1>8. ASSUME NEW a \in Actors, Whole!Deregister(a) PROVE Settled'
  BY <1>8 DEF Whole!Deregister
<1>9. ASSUME NEW a \in Actors, Whole!Switch(a) PROVE Settled'
  BY <1>9 DEF Whole!Switch
<1>10. ASSUME NEW a \in Actors, NEW x \in Pairs, Whole!Ask(a, x) PROVE Settled'
  <2>1. /\ wanted'[a] = wanted[a] \cup {x} /\ \A b \in Actors \ {a} : wanted'[b] = wanted[b]
        /\ WholeActors' = WholeActors /\ inDomain' = inDomain
    BY <1>10 DEF Whole!Ask, Inv, RegistryType
  <2>2. CASE a \in inDomain
    <3>1. WholePaired' = [WholePaired EXCEPT ![x] = @ \cup {a}]
      BY <1>2, <1>10, <2>2, PairTypes DEF Whole!Ask
    <3>2. \A y \in Pairs : WholePaired'[y] = IF y = x THEN WholePaired[y] \cup {a} ELSE WholePaired[y]
      BY <3>1 DEF WholePaired
    <3>3. ASSUME NEW b \in WholeActors, NEW y \in wanted'[b] PROVE b \in WholePaired'[y]
      <4>1. b \in Actors
        OBVIOUS
      <4>2. y \in wanted[b] \/ (b = a /\ y = x)
        BY <2>1, <3>3, <4>1
      <4>3. y \in Pairs
        BY <4>1, <4>2
      <4>4. QED
        BY <3>2, <4>2, <4>3
    <3>4. QED
      BY <2>1, <3>3
  <2>3. CASE a \notin inDomain
    BY <1>10, <2>1, <2>3 DEF Whole!Ask
  <2>4. QED
    BY <2>2, <2>3
<1>11. QED
  BY <1>5, <1>6, <1>7, <1>8, <1>9, <1>10 DEF RegistryStep, Whole!RegistryNext

(* Once no call is running the whole is what the maps hold. *)
LEMMA SettledSubscribes ==
  ASSUME Inv, Resting, Settled
  PROVE  Subscribed
<1> SUFFICES ASSUME \A p \in Threads : pc[p] = "idle", NEW a \in actors, NEW x \in wanted[a] PROVE a \in Members(x)
  BY DEF Subscribed
<1>1. \A ops \in SUBSET AllOperations : ActorsOf(ops) = {}
  BY NoneAssumption DEF ActorsOf, Decided, Resting
<1>2. {"register"} \in SUBSET AllOperations /\ {"deregister"} \in SUBSET AllOperations
  BY DEF AllOperations
<1>3. a \in WholeActors /\ a \in Actors /\ x \in Pairs
  BY <1>1, <1>2 DEF WholeActors, Inv, RegistryType
<1>4. x \notin Joining(a)
  BY <1>1, <1>2, NoneAssumption DEF Joining, Decided, Resting, AllOperations
<1>5. QED
  BY <1>3, <1>4 DEF Settled, WholePaired

(* Only calls that overlap lose an actor (SubscriptionEntry.java:39): where the
   types exist from the start and stay, and calls that meet are avoided, every
   registered actor is paired with all it asked for whenever no call is running,
   in whatever order the calls came. *)
THEOREM SubscribedUnlessMet ==
  ASSUME InitialTypes = Types, \A p \in Threads : "removeEvent" \notin Operations[p]
  PROVE  Spec /\ [](met = {}) => []Subscribed
<1>1. Init => Settled
  <2> SUFFICES ASSUME Init PROVE Settled
    OBVIOUS
  <2>1. NoRemoval /\ types = Types
    BY NoneAssumption DEF Init, NoRemoval, Op, NoCall, AllOperations
  <2>2. WholeActors = {}
    BY WholeInit DEF Whole!RegistryInit
  <2>3. QED
    BY <2>1, <2>2 DEF Settled
<1>2. Inv /\ Inv' /\ Settled /\ [Next]_vars
        /\ [met = {} /\ met' = {} => Whole!RegistryNext \/ UNCHANGED Whole!registryVars]_vars
        /\ met = {} /\ (met = {})' => Settled'
  <2>1. ASSUME Inv, Inv', Settled, [Next]_vars, UNCHANGED vars PROVE Settled'
    <3>1. UNCHANGED Whole!registryVars
      BY <2>1 DEF vars, registry, interface, WholeTypes, WholeActors, WholeMode, WholePaired, TypesOf, ActorsOf, Joining,
         Decided, FirstStep, Members, Op, Actor, Pair, Type, Whole!registryVars
    <3>2. QED
      BY <2>1, <3>1, SettledStep DEF RegistryStep
  <2>2. QED
    BY <2>1, SettledStep DEF RegistryStep
<1>3. Inv /\ Steady /\ Settled => Subscribed
  BY SettledSubscribes DEF Steady
<1>4. QED
  BY <1>1, <1>2, <1>3, AtomicCorrect, InvInit, InvNext, AloneInit, AloneStep, SteadyInit, SteadyStep, PTL
     DEF Spec, AtomicUnlessMet
=============================================================================
