---------------------------- MODULE FifoChannel ----------------------------
(***************************************************************************)
(* What DERA's actors expect of an event channel: a bounded FIFO queue.    *)
(* Items enter at the tail and leave at the head, each exactly once; the   *)
(* channel never holds more than Capacity of them.                         *)
(***************************************************************************)
EXTENDS Naturals, Sequences

CONSTANTS Item,      \* what a channel carries
          Capacity   \* the most items it can hold

VARIABLES queue,     \* the items put and not yet taken, oldest first
          taken      \* every item taken so far, in order

fifoVars == <<queue, taken>>

FifoInit == queue = <<>> /\ taken = <<>>

Put(i) ==
  /\ Len(queue) < Capacity
  /\ queue' = Append(queue, i)
  /\ UNCHANGED taken

Take ==
  /\ queue # <<>>
  /\ taken' = Append(taken, Head(queue))
  /\ queue' = Tail(queue)

FifoNext == Take \/ \E i \in Item : Put(i)

FifoSpec == FifoInit /\ [][FifoNext]_fifoVars
=============================================================================
