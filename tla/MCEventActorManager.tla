------------------------ MODULE MCEventActorManager ------------------------
(***************************************************************************)
(* Small instances of EventActorManager: two threads that administer two   *)
(* actors.                                                                 *)
(***************************************************************************)
EXTENDS EventActorManager, TLC

CONSTANTS a1, a2, e1, e2, p1, p2

(* a1 consumes both types, a2 produces one. *)
MCWishes ==
  (a1 :> {<<"consumer", e1>>, <<"consumer", e2>>}) @@ (a2 :> {<<"producer", e2>>})

MCSharedWishes == [a \in Actors |-> {<<"consumer", e1>>}]

(* One thread does everything, the other creates types and changes
   the interfaces of the actors. *)
MCOperations == [p \in Threads |-> IF p = p1 THEN AllOperations ELSE {"addEvent", "addPair"}]
MCPairing == [p \in Threads |-> {"register", "addPair"}]
=============================================================================
