----------------------------- MODULE MCBarrier -----------------------------
(***************************************************************************)
(* Small instances of the barrier.  Correlations are interchangeable; the  *)
(* symmetry is used by the runs that check an invariant only.              *)
(***************************************************************************)
EXTENDS Barrier, TLC

SameCorrelations == Permutations(Correlations)
=============================================================================
