--------------------- MODULE MCBoundedBlockingExecutor ---------------------
(***************************************************************************)
(* Small instances of the pool.  Submitters and tasks are interchangeable; *)
(* the symmetry is used by the runs that check an invariant only.          *)
(***************************************************************************)
EXTENDS BoundedBlockingExecutor, TLC

Interchangeable == Permutations(Submitters) \cup Permutations(Tasks)
=============================================================================
