------------------------------ MODULE AndJoin ------------------------------
(***************************************************************************)
(* What dera.core.Barrier promises ("an AND-synchronization unit that must *)
(* collect all awaited events"): for each correlation identifier there are *)
(* rounds; a round awaits a set of event types, collects them in any order *)
(* and is closed by one firing, when all of them have come.                *)
(***************************************************************************)
CONSTANTS Types, Correlations

VARIABLES awaited,   \* what the open round of a correlation awaits; {} if none
          collected  \* what has come of it

Init ==
  /\ awaited = [c \in Correlations |-> {}]
  /\ collected = [c \in Correlations |-> {}]

(* The first event of a round fixes what the round awaits. *)
Open(c, e) ==
  /\ awaited[c] = {}
  /\ \E S \in (SUBSET Types) \ {{}} :
       /\ awaited' = [awaited EXCEPT ![c] = S]
       /\ collected' = [collected EXCEPT ![c] = S \cap {e}]

Collect(c, e) ==
  /\ awaited[c] # collected[c]
  /\ e \in awaited[c]
  /\ collected' = [collected EXCEPT ![c] = @ \cup {e}]
  /\ UNCHANGED awaited

Fire(c) ==
  /\ awaited[c] # {} /\ collected[c] = awaited[c]
  /\ awaited' = [awaited EXCEPT ![c] = {}]
  /\ collected' = [collected EXCEPT ![c] = {}]

Next == \E c \in Correlations : Fire(c) \/ \E e \in Types : Open(c, e) \/ Collect(c, e)

Spec == Init /\ [][Next]_<<awaited, collected>>
=============================================================================
