------------------------- MODULE MCExecutionDomain -------------------------
(***************************************************************************)
(* A small domain: a monitor of high priority, an action, a condition on   *)
(* what it publishes, a bridge and a logger of low priority; a thread and  *)
(* a timer publish.                                                        *)
(***************************************************************************)
EXTENDS ExecutionDomain, TLC

CONSTANTS s, m, x, y, monitor, action, condition, bridge, logger, caller, clock

MCKind ==
  (monitor :> "logger") @@ (action :> "action") @@ (condition :> "condition")
    @@ (bridge :> "bridge") @@ (logger :> "logger")

MCInputs ==
  (monitor :> {High}) @@ (action :> {s}) @@ (condition :> {m}) @@ (bridge :> {x}) @@ (logger :> {Low})

MCOutputs ==
  [a \in Actors |-> [answer \in BOOLEAN |->
     CASE a = action /\ answer -> {m}
       [] a = condition -> IF answer THEN {x} ELSE {y}
       [] OTHER -> {}]]

MCSources == [p \in Publishers |-> {{s}}]
=============================================================================
