--------------------------- MODULE MCEventChannel ---------------------------
(***************************************************************************)
(* Small instances of EventChannel: a main thread and a timer thread that  *)
(* publish from outside, and the distributor whose handlers publish too.   *)
(***************************************************************************)
EXTENDS EventChannel

CONSTANTS main, timer, dist

MCThreads == {main, dist}
MCRacingThreads == {main, timer, dist}

(* One publisher outside the distributor, no handler publishes. *)
MCOnePublisher == [t \in Threads |-> IF t = main THEN 4 ELSE 0]

(* The main thread publishes one event; the handlers publish five more. *)
MCReentrant == [t \in Threads |-> IF t = main THEN 1 ELSE 5]

(* Two threads publish one event each. *)
MCTwoPublishers == [t \in Threads |-> IF t = dist THEN 0 ELSE 1]
=============================================================================
