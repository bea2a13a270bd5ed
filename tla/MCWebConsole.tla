---------------------------- MODULE MCWebConsole ----------------------------
(***************************************************************************)
(* Two pages, one type, and two actors that consume it.                    *)
(***************************************************************************)
EXTENDS WebConsole, TLC

CONSTANTS barrier, action, b1, b2, e1

MCLinks == Actors \X Types

MCActorType == (barrier :> "Barrier") @@ (action :> "Action")
=============================================================================
