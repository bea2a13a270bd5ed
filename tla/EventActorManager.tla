------------------------- MODULE EventActorManager -------------------------
(***************************************************************************)
(* dera.runtime.EventActorManager with its SubscriptionEntry objects: the  *)
(* registry of event types and actors.  Any thread may call it (Jetty      *)
(* serves REST commands on a pool of threads), and none of its operations  *)
(* holds a lock: each is a sequence of single operations on concurrent     *)
(* maps and on the entry it looked up.  Those operations are the actions   *)
(* here, so that the calls of several threads interleave as in the code.   *)
(*                                                                         *)
(* A thread that looked an entry up goes on with that object even when the *)
(* map holds another one, or none, for the type by then.  What it does to  *)
(* such an object nobody sees, so the model only remembers whether the     *)
(* entry a thread holds is still the one in the map.                       *)
(***************************************************************************)
CONSTANTS Threads,       \* threads that administer the domain
          Actors, Types, \* actor identifiers, names of event types
          Wishes,        \* the pairs <<role, type>> an actor may ever ask for
          Operations,    \* the operations each thread uses
          InitialTypes,  \* event types that exist at the start
          None           \* no actor, no type, no entry, no set

Roles == {"consumer", "producer"}
Pairs == Roles \X Types

AllOperations ==
  {"addEvent", "addEventType", "removeEvent", "register", "deregister",
   "enable", "disable", "addPair"}

ASSUME WishesAssumption == Wishes \in [Actors -> SUBSET Pairs]
ASSUME OperationsAssumption == Operations \in [Threads -> SUBSET AllOperations]
ASSUME TypesAssumption == InitialTypes \subseteq Types
ASSUME NoneAssumption == None \notin Types \cup Actors \cup AllOperations
ASSUME NoSetAssumption == \A S \in SUBSET Actors : S # None

VARIABLES
  types,    \* keys of eventToPubSub
  actors,   \* keys of idToActor
  mode,     \* idToActorState, None where it has no entry
  paired,   \* consumers and producers of the entry of a type, None if null
  wanted,   \* the input and output sets of the actors
  inDomain, \* the actors whose domain field is set
  pc,       \* where each thread is in its call
  call,     \* the call: operation, actor and the <<role, type>> it is at
  seen,     \* the input or output set being iterated, as it was at the start
  rest,     \* the part of it yet to be visited
  holds,    \* the threads whose looked-up entry is the one in the map
  met       \* history: the threads whose call has met another one about the
            \* same actor or event type

registry == <<types, actors, mode, paired>>
interface == <<wanted, inDomain>>
loop == <<seen, rest>>
vars == <<registry, interface, pc, call, loop, holds, met>>

NoPair == <<None, None>>
NoCall == [op |-> None, actor |-> None, pair |-> NoPair]
Call == [op : AllOperations \cup {None}, actor : Actors \cup {None}, pair : Pairs \cup {NoPair}]

Loops == {"pairInput", "pairOutput", "unpairInput", "unpairOutput"}
Steps == Loops \cup {"idle", "check", "put", "replace", "drop", "enter",
                     "state", "leave", "switch", "want", "bind", "allocate", "add"}

TypeOK ==
  /\ types \subseteq Types /\ actors \subseteq Actors /\ inDomain \subseteq Actors
  /\ mode \in [Actors -> {"ENABLING", "FINISHED", None}]
  /\ paired \in [Pairs -> (SUBSET Actors) \cup {None}]
  /\ wanted \in [Actors -> SUBSET Pairs]
  /\ pc \in [Threads -> Steps] /\ call \in [Threads -> Call]
  /\ seen \in [Threads -> SUBSET Pairs] /\ rest \in [Threads -> SUBSET Pairs]
  /\ holds \subseteq Threads /\ met \subseteq Threads

Init ==
  /\ types = InitialTypes /\ actors = {} /\ inDomain = {}
  /\ mode = [a \in Actors |-> None]
  /\ paired = [x \in Pairs |-> None]
  /\ wanted = [a \in Actors |-> {}]
  /\ pc = [p \in Threads |-> "idle"] /\ call = [p \in Threads |-> NoCall]
  /\ seen = [p \in Threads |-> {}] /\ rest = [p \in Threads |-> {}]
  /\ holds = {} /\ met = {}

Op(p) == call[p].op
Actor(p) == call[p].actor
Pair(p) == call[p].pair
Type(p) == Pair(p)[2]

-----------------------------------------------------------------------------
(* Calls and returns. *)

(* The event types a call is about. *)
Touches(c) ==
  IF c.op \in {"register", "deregister"} THEN {x[2] : x \in Wishes[c.actor]} ELSE {c.pair[2]}

FirstStep(op) == IF op = "addPair" THEN "want" ELSE "check"

(* The calls that make sense: a type for the operations on types, an actor for
   those on actors, both for addInput and addOutput. *)
Calls(p) ==
  {[op |-> o, actor |-> None, pair |-> <<"consumer", t>>] :
      o \in Operations[p] \cap {"addEvent", "addEventType", "removeEvent"}, t \in Types}
  \cup {[op |-> o, actor |-> a, pair |-> NoPair] :
      o \in Operations[p] \cap {"register", "deregister", "enable", "disable"}, a \in Actors}
  \cup UNION {{[op |-> o, actor |-> a, pair |-> x] : x \in Wishes[a]} :
      o \in Operations[p] \cap {"addPair"}, a \in Actors}

About(c) == ({c.actor} \cup Touches(c)) \ {None}

Begin(p, c) ==
  LET others == {q \in Threads : pc[q] # "idle" /\ About(call[q]) \cap About(c) # {}}
  IN /\ pc[p] = "idle"
     /\ pc' = [pc EXCEPT ![p] = FirstStep(c.op)]
     /\ call' = [call EXCEPT ![p] = c]
     /\ met' = met \cup others \cup (IF others = {} THEN {} ELSE {p})
     /\ UNCHANGED <<registry, interface, loop, holds>>

(* The next step of a call, or its return, with a result or with an exception;
   the entries that threads in lost hold are no more in the map. *)
Proceed(p, step, lost) ==
  /\ pc' = [pc EXCEPT ![p] = step]
  /\ holds' = holds \ lost
  /\ IF step = "idle"
       THEN /\ call' = [call EXCEPT ![p] = NoCall]
            /\ seen' = [seen EXCEPT ![p] = {}] /\ rest' = [rest EXCEPT ![p] = {}]
            /\ met' = met \ {p}
       ELSE UNCHANGED <<call, loop, met>>

Goto(p, step) == Proceed(p, step, {})
Return(p) == Proceed(p, "idle", {p})

-----------------------------------------------------------------------------
(* Event types. *)

(* Faulty variant: a type that is there already is added over. *)
CheckEventOverwrites(p) ==
  /\ pc[p] = "check" /\ Op(p) \in {"addEvent", "addEventType"}
  /\ Goto(p, "put")
  /\ UNCHANGED <<registry, interface>>

(* addEvent() refuses a name that is a key of the map.  The one for a String
   checks twice in a row, since the factory it calls adds the new type itself;
   the second check decides. *)
CheckEvent(p) ==
  /\ pc[p] = "check" /\ Op(p) \in {"addEvent", "addEventType"}
  /\ IF Type(p) \in types THEN Return(p) ELSE Goto(p, "put")
  /\ UNCHANGED <<registry, interface>>

(* The map gets a new entry for a type, or none: nobody is paired with it, and
   who holds the old one holds a stale one. *)
SetEntry(p, keys, step) ==
  /\ types' = keys
  /\ paired' = [x \in Pairs |-> IF x[2] = Type(p) THEN None ELSE paired[x]]
  /\ Proceed(p, step, {q \in Threads : Type(q) = Type(p)})
  /\ UNCHANGED <<actors, mode, interface>>

PutEvent(p) ==
  /\ pc[p] = "put"
  /\ SetEntry(p, types \cup {Type(p)}, IF Op(p) = "addEvent" THEN "replace" ELSE "idle")

(* addEvent(String) puts a second entry over that of the factory. *)
ReplaceEvent(p) ==
  /\ pc[p] = "replace"
  /\ SetEntry(p, types \cup {Type(p)}, "idle")

CheckRemoved(p) ==
  /\ pc[p] = "check" /\ Op(p) = "removeEvent"
  /\ IF Type(p) \in types THEN Goto(p, "drop") ELSE Return(p)
  /\ UNCHANGED <<registry, interface>>

DropEvent(p) ==
  /\ pc[p] = "drop"
  /\ SetEntry(p, types \ {Type(p)}, "idle")

-----------------------------------------------------------------------------
(* Pairing: the entry is looked up, its set is created if there is none, and
   the actor is added. *)

RoleOf(step) == IF step \in {"pairInput", "unpairInput"} THEN "consumer" ELSE "producer"
Loop(p) == IF Pair(p)[1] = "consumer" THEN "pairInput" ELSE "pairOutput"

(* Where the call goes on after a pair is done. *)
AfterPair(p) == IF Op(p) = "register" THEN Loop(p) ELSE "idle"

Members(x) == IF paired[x] = None THEN {} ELSE paired[x]

(* Faulty variant: a set is created at every look-up. *)
LookUpEager(p, x) ==
  /\ pc' = [pc EXCEPT ![p] = "allocate"]
  /\ call' = [call EXCEPT ![p].pair = x]
  /\ holds' = holds \cup {p}
  /\ UNCHANGED met

LookUp(p, x) ==
  /\ pc' = [pc EXCEPT ![p] = IF paired[x] = None THEN "allocate" ELSE "add"]
  /\ call' = [call EXCEPT ![p].pair = x]
  /\ holds' = holds \cup {p}
  /\ UNCHANGED met

(* "laziness": both threads that found no set create one. *)
Allocate(p) ==
  /\ pc[p] = "allocate"
  /\ paired' = IF p \in holds THEN [paired EXCEPT ![Pair(p)] = {}] ELSE paired
  /\ Goto(p, "add")
  /\ UNCHANGED <<types, actors, mode, interface>>

Add(p) ==
  /\ pc[p] = "add"
  /\ paired' = IF p \in holds
                 THEN [paired EXCEPT ![Pair(p)] = Members(Pair(p)) \cup {Actor(p)}]
                 ELSE paired
  /\ Proceed(p, AfterPair(p), {p})
  /\ UNCHANGED <<types, actors, mode, interface>>

(* Faulty variant: the type is only kept as long as there is no domain. *)
WantUnbound(p) ==
  /\ pc[p] = "want"
  /\ wanted' = IF Actor(p) \in inDomain
                 THEN wanted ELSE [wanted EXCEPT ![Actor(p)] = @ \cup {Pair(p)}]
  /\ Goto(p, "bind")
  /\ UNCHANGED <<registry, inDomain>>

(* addInput(), addOutput(): the actor wants the pair, and is paired if its
   domain is set and the type exists. *)
Want(p) ==
  /\ pc[p] = "want"
  /\ wanted' = [wanted EXCEPT ![Actor(p)] = @ \cup {Pair(p)}]
  /\ Goto(p, "bind")
  /\ UNCHANGED <<registry, inDomain>>

Bind(p) ==
  /\ pc[p] = "bind"
  /\ IF Actor(p) \in inDomain /\ Type(p) \in types
       THEN LookUp(p, Pair(p)) /\ UNCHANGED loop
       ELSE Return(p)
  /\ UNCHANGED <<registry, interface>>

-----------------------------------------------------------------------------
(* The loops of register() and deregister() over the input and output sets,
   which are iterated without their lock. *)

Iterated(p) == {x \in wanted[Actor(p)] : x[1] = RoleOf(pc[p])}

StartLoop(p, step) ==
  LET pairs == {x \in wanted[Actor(p)] : x[1] = RoleOf(step)}
  IN /\ pc' = [pc EXCEPT ![p] = step]
     /\ seen' = [seen EXCEPT ![p] = pairs] /\ rest' = [rest EXCEPT ![p] = pairs]
     /\ UNCHANGED <<call, holds, met>>

(* ConcurrentModificationException: the set has changed since. *)
LoopThrows(p) ==
  /\ pc[p] \in Loops /\ rest[p] # {} /\ Iterated(p) # seen[p]
  /\ Return(p)
  /\ UNCHANGED <<registry, interface>>

PairNext(p) ==
  /\ pc[p] \in {"pairInput", "pairOutput"} /\ Iterated(p) = seen[p]
  /\ \E x \in rest[p] :
       /\ rest' = [rest EXCEPT ![p] = @ \ {x}]
       /\ IF x[2] \in types THEN LookUp(p, x) ELSE UNCHANGED <<pc, call, holds, met>>
  /\ UNCHANGED <<registry, interface, seen>>

(* Faulty variant: unpairing an output removes a consumer. *)
UnpairNextConsumer(p) ==
  /\ pc[p] \in {"unpairInput", "unpairOutput"} /\ Iterated(p) = seen[p]
  /\ \E x \in rest[p] :
       /\ rest' = [rest EXCEPT ![p] = @ \ {x}]
       /\ paired' = [paired EXCEPT ![<<"consumer", x[2]>>] = IF @ = None THEN None ELSE @ \ {Actor(p)}]
  /\ UNCHANGED <<types, actors, mode, interface, pc, call, seen, holds, met>>

UnpairNext(p) ==
  /\ pc[p] \in {"unpairInput", "unpairOutput"} /\ Iterated(p) = seen[p]
  /\ \E x \in rest[p] :
       /\ rest' = [rest EXCEPT ![p] = @ \ {x}]
       /\ paired' = [paired EXCEPT ![x] = IF @ = None THEN None ELSE @ \ {Actor(p)}]
  /\ UNCHANGED <<types, actors, mode, interface, pc, call, seen, holds, met>>

-----------------------------------------------------------------------------
(* Actors. *)

CheckRegistered(p) ==
  /\ pc[p] = "check" /\ Op(p) = "register"
  /\ IF Actor(p) \in actors
       THEN Return(p) /\ UNCHANGED inDomain
       ELSE Goto(p, "enter") /\ inDomain' = inDomain \cup {Actor(p)}
  /\ UNCHANGED <<registry, wanted>>

Enter(p) ==
  /\ pc[p] = "enter"
  /\ actors' = actors \cup {Actor(p)}
  /\ Goto(p, "state")
  /\ UNCHANGED <<types, mode, paired, interface>>

EnterState(p) ==
  /\ pc[p] = "state"
  /\ mode' = [mode EXCEPT ![Actor(p)] = "ENABLING"]
  /\ StartLoop(p, "pairInput")
  /\ UNCHANGED <<types, actors, paired, interface>>

PairOutputs(p) ==
  /\ pc[p] = "pairInput" /\ rest[p] = {}
  /\ StartLoop(p, "pairOutput")
  /\ UNCHANGED <<registry, interface>>

RegisterEnds(p) ==
  /\ pc[p] = "pairOutput" /\ rest[p] = {}
  /\ Return(p)
  /\ UNCHANGED <<registry, interface>>

CheckDeregistered(p) ==
  /\ pc[p] = "check" /\ Op(p) = "deregister"
  /\ IF Actor(p) \in actors THEN Goto(p, "leave") ELSE Return(p)
  /\ UNCHANGED <<registry, interface>>

(* The actor leaves the map; if it had left already the next line of the code
   throws a NullPointerException. *)
Leave(p) ==
  /\ pc[p] = "leave"
  /\ actors' = actors \ {Actor(p)}
  /\ IF Actor(p) \in actors THEN StartLoop(p, "unpairInput") ELSE Return(p)
  /\ UNCHANGED <<types, mode, paired, interface>>

UnpairOutputs(p) ==
  /\ pc[p] = "unpairInput" /\ rest[p] = {}
  /\ StartLoop(p, "unpairOutput")
  /\ UNCHANGED <<registry, interface>>

DeregisterEnds(p) ==
  /\ pc[p] = "unpairOutput" /\ rest[p] = {}
  /\ mode' = [mode EXCEPT ![Actor(p)] = None]
  /\ Return(p)
  /\ UNCHANGED <<types, actors, paired, interface>>

CheckSwitched(p) ==
  /\ pc[p] = "check" /\ Op(p) \in {"enable", "disable"}
  /\ IF Actor(p) \in actors THEN Goto(p, "switch") ELSE Return(p)
  /\ UNCHANGED <<registry, interface>>

(* Faulty variant: the state is put as it was asked for. *)
SwitchToRequest(p) ==
  /\ pc[p] = "switch"
  /\ mode' = [mode EXCEPT ![Actor(p)] = Op(p)]
  /\ Return(p)
  /\ UNCHANGED <<types, actors, paired, interface>>

Switch(p) ==
  /\ pc[p] = "switch"
  /\ mode' = [mode EXCEPT ![Actor(p)] = IF Op(p) = "enable" THEN "ENABLING" ELSE "FINISHED"]
  /\ Return(p)
  /\ UNCHANGED <<types, actors, paired, interface>>

-----------------------------------------------------------------------------
OnTypes(p) ==
  CheckEvent(p) \/ PutEvent(p) \/ ReplaceEvent(p)
    \/ CheckRemoved(p) \/ DropEvent(p)

OnPairs(p) ==
  Allocate(p) \/ Add(p) \/ Want(p) \/ Bind(p)
    \/ LoopThrows(p) \/ PairNext(p) \/ UnpairNext(p)

OnActors(p) ==
  CheckRegistered(p) \/ Enter(p) \/ EnterState(p) \/ PairOutputs(p) \/ RegisterEnds(p)
    \/ CheckDeregistered(p) \/ Leave(p) \/ UnpairOutputs(p) \/ DeregisterEnds(p)
    \/ CheckSwitched(p) \/ Switch(p)

Next ==
  \E p \in Threads :
    (\E c \in Calls(p) : Begin(p, c)) \/ OnTypes(p) \/ OnPairs(p) \/ OnActors(p)

(* No call is ever forced to begin, or to go on. *)
Spec == Init /\ [][Next]_vars

-----------------------------------------------------------------------------
(* Properties. *)

InCall(a) == \E p \in Threads : Actor(p) = a

(* Nobody receives, or is shown as the producer of, a type it never asked for:
   the input and output sets of an actor cover its pairings, whatever the calls
   of the threads, and stale entries too. *)
NoStrangers ==
  \A x \in Pairs : \A a \in Members(x) : x \in wanted[a]

(* A call that never met another about its actor or its types has its effect,
   whatever the calls before did and those about other actors and types do:
   after register() the actor is known, enabled and paired with all it wants of
   the types that exist; after deregister() nothing of it is left; after
   addInput() and addOutput() it is paired. *)
CallsTakeEffect ==
  [][\A p \in Threads \ met :
       LET a == Actor(p)
       IN /\ RegisterEnds(p) =>
               /\ a \in actors /\ mode[a] = "ENABLING"
               /\ \A x \in wanted[a] : x[2] \in types => a \in Members(x)
          /\ DeregisterEnds(p) =>
               /\ a \notin actors' /\ mode'[a] = None
               /\ \A x \in Pairs : a \notin Members(x)
          /\ Add(p) => a \in paired'[Pair(p)]
    ]_vars

(* Once paired, an actor stays paired until it is deregistered or the type is
   removed, or two calls about the type meet: other actors that come and go and
   attempts to add the type once more do not disturb it. *)
StaysPaired ==
  [][\A x \in Pairs : \A a \in Members(x) \ Members(x)' :
       \E p \in Threads :
         \/ Op(p) = "deregister" /\ Actor(p) = a
         \/ Op(p) = "removeEvent" /\ Type(p) = x[2]
         \/ p \in met /\ x[2] \in Touches(call[p])]_vars

(* The calls seen as one step each: a call counts as a whole from the step that
   decided on it, its first one. *)
Decided(p, ops) == Op(p) \in ops /\ pc[p] # FirstStep(Op(p))

TypesOf(ops) == {Type(p) : p \in {q \in Threads : Decided(q, ops)}}
ActorsOf(ops) == {Actor(p) : p \in {q \in Threads : Decided(q, ops)}}

(* The pairs of an actor that calls under way are about to bind. *)
Joining(a) ==
  {x \in wanted[a] : x[2] \in types /\
     \/ a \in ActorsOf({"register"})
     \/ a \in inDomain /\ \E p \in Threads : Decided(p, {"addPair"}) /\ Actor(p) = a /\ Pair(p) = x}

WholeTypes == (types \cup TypesOf({"addEvent", "addEventType"})) \ TypesOf({"removeEvent"})
WholeActors == (actors \cup ActorsOf({"register"})) \ ActorsOf({"deregister"})

WholeMode ==
  [a \in Actors |->
     IF a \in ActorsOf({"register", "enable"}) THEN "ENABLING"
     ELSE IF a \in ActorsOf({"disable"}) THEN "FINISHED"
     ELSE IF a \in ActorsOf({"deregister"}) THEN None ELSE mode[a]]

WholePaired ==
  [x \in Pairs |->
     {a \in Actors \ ActorsOf({"deregister"}) :
        x[2] \notin TypesOf({"removeEvent"}) /\ (a \in Members(x) \/ x \in Joining(a))}]

Whole == INSTANCE Registry WITH
  types <- WholeTypes, actors <- WholeActors, mode <- WholeMode, paired <- WholePaired

(* Calls that do not meet are atomic, whatever the calls before them left: each
   step of theirs is a call of Registry as a whole, or nobody sees it. *)
AtomicUnlessMet ==
  [][met = {} /\ met' = {} => Whole!RegistryNext \/ UNCHANGED Whole!registryVars]_vars

(* DERA-theoretical-part.md:24, of an actor: "Its execution will be triggered
   whenever the required events are available."  So a registered actor is a
   consumer of each of its input types, once no call is running. *)
Subscribed ==
  (\A p \in Threads : pc[p] = "idle") =>
    \A a \in actors : \A x \in wanted[a] :
      x[1] = "consumer" /\ x[2] \in types => a \in Members(x)
=============================================================================
