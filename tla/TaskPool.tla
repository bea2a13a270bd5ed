------------------------------ MODULE TaskPool ------------------------------
(***************************************************************************)
(* What the domain may rely on when it hands a behaviour to its executor,  *)
(* whatever the threads behind it do: a task is refused or waits in line,  *)
(* begins when it is the oldest, at most once and beside fewer than        *)
(* Threads others, and ends with its outputs fired or not.  Only a pool    *)
(* that is closed refuses, takes back or drops, and never what has begun.  *)
(***************************************************************************)
EXTENDS Naturals, SequencesExt, FiniteSets

CONSTANTS Tasks, Threads  \* the tasks, and how many may run at once

VARIABLES open,  \* nobody has stopped the pool
          line,  \* the tasks that wait, the oldest first
          fate   \* where each task is

poolVars == <<open, line, fate>>

Running == {t \in Tasks : fate[t] = "running"}

Meets(t, f) == fate' = [fate EXCEPT ![t] = f]

PoolInit == open = TRUE /\ line = <<>> /\ fate = [t \in Tasks |-> "outside"]

(* Also after the pool was closed: a submitter may have asked just before. *)
Accept(t) ==
  /\ fate[t] = "outside" /\ Meets(t, "queued")
  /\ line' = Append(line, t)
  /\ UNCHANGED open

Refuse(t) ==
  /\ ~open /\ fate[t] = "outside" /\ Meets(t, "rejected")
  /\ UNCHANGED <<open, line>>

TakeBack(t) ==
  /\ ~open /\ fate[t] = "queued" /\ Meets(t, "rejected")
  /\ \E i \in 1 .. Len(line) : line[i] = t /\ line' = RemoveAt(line, i)
  /\ UNCHANGED open

Begin(t) ==
  /\ line # <<>> /\ t = Head(line) /\ Cardinality(Running) < Threads
  /\ fate[t] = "queued" /\ Meets(t, "running")
  /\ line' = Tail(line)
  /\ UNCHANGED open

End(t) ==
  /\ fate[t] = "running"
  /\ Meets(t, "fired") \/ Meets(t, "silent")
  /\ UNCHANGED <<open, line>>

Close == open /\ open' = FALSE /\ UNCHANGED <<line, fate>>

Drop ==
  /\ ~open /\ line' = <<>>
  /\ fate' = [t \in Tasks |-> IF fate[t] = "queued" THEN "dropped" ELSE fate[t]]
  /\ UNCHANGED open

PoolNext ==
  \/ \E t \in Tasks : Accept(t) \/ Refuse(t) \/ TakeBack(t) \/ Begin(t) \/ End(t)
  \/ Close \/ Drop

PoolSpec == PoolInit /\ [][PoolNext]_poolVars
=============================================================================
