----------------------- MODULE MCApplicationManager -----------------------
(***************************************************************************)
(* A small instance of ApplicationManager: two applications that share a   *)
(* start event, one thread that adds and deletes and one that adds.        *)
(***************************************************************************)
EXTENDS ApplicationManager, TLC

CONSTANTS a1, a2, e1, e2, p1, p2

(* Both applications are started by e1; e2 ends a1. *)
MCDefinitions ==
  (a1 :> {{<<"start", e1>>, <<"end", e2>>}}) @@ (a2 :> {{<<"start", e1>>}})

MCOperations ==
  (p1 :> {<<"add", a1>>, <<"delete", a1>>}) @@ (p2 :> {<<"add", a1>>, <<"add", a2>>})
=============================================================================
