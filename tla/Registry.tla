------------------------------ MODULE Registry ------------------------------
(***************************************************************************)
(* What an administrator of a domain may take the registry for: a table of *)
(* event types, of actors and of who is paired with what, on which every   *)
(* call acts at once.  An actor is paired with the types it wants as it is *)
(* registered or as it asks for one more, and with those that exist only.  *)
(* A call that is refused changes nothing.                                 *)
(***************************************************************************)
CONSTANTS Actors, Types, \* actor identifiers, names of event types
          Pairs,         \* a role, and the type it is about
          InitialTypes,  \* event types that exist at the start
          None           \* the state of an actor that is not registered

VARIABLES types, actors, \* the event types and the actors that are registered
          mode,          \* the state of each actor
          wanted,        \* the pairs each actor asks for
          inDomain,      \* the actors that were ever registered
          paired         \* the actors that are paired, by role and type

registryVars == <<types, actors, mode, wanted, inDomain, paired>>

RegistryInit ==
  /\ types = InitialTypes /\ actors = {} /\ inDomain = {}
  /\ mode = [a \in Actors |-> None] /\ wanted = [a \in Actors |-> {}]
  /\ paired = [x \in Pairs |-> {}]

AddType(t) ==
  /\ t \notin types /\ types' = types \cup {t}
  /\ UNCHANGED <<actors, mode, wanted, inDomain, paired>>

RemoveType(t) ==
  /\ t \in types /\ types' = types \ {t}
  /\ paired' = [x \in Pairs |-> IF x[2] = t THEN {} ELSE paired[x]]
  /\ UNCHANGED <<actors, mode, wanted, inDomain>>

Register(a) ==
  /\ a \notin actors /\ actors' = actors \cup {a} /\ inDomain' = inDomain \cup {a}
  /\ mode' = [mode EXCEPT ![a] = "ENABLING"]
  /\ paired' = [x \in Pairs |-> IF x \in wanted[a] /\ x[2] \in types THEN paired[x] \cup {a} ELSE paired[x]]
  /\ UNCHANGED <<types, wanted>>

Deregister(a) ==
  /\ a \in actors /\ actors' = actors \ {a}
  /\ mode' = [mode EXCEPT ![a] = None]
  /\ paired' = [x \in Pairs |-> paired[x] \ {a}]
  /\ UNCHANGED <<types, wanted, inDomain>>

Switch(a) ==
  /\ a \in actors
  /\ \E m \in {"ENABLING", "FINISHED"} : mode' = [mode EXCEPT ![a] = m]
  /\ UNCHANGED <<types, actors, wanted, inDomain, paired>>

(* addInput() and addOutput() *)
Ask(a, x) ==
  /\ wanted' = [wanted EXCEPT ![a] = @ \cup {x}]
  /\ paired' = IF a \in inDomain /\ x[2] \in types
                 THEN [paired EXCEPT ![x] = @ \cup {a}] ELSE paired
  /\ UNCHANGED <<types, actors, mode, inDomain>>

RegistryNext ==
  \/ \E t \in Types : AddType(t) \/ RemoveType(t)
  \/ \E a \in Actors : Register(a) \/ Deregister(a) \/ Switch(a) \/ \E x \in Pairs : Ask(a, x)

RegistrySpec == RegistryInit /\ [][RegistryNext]_registryVars
=============================================================================
