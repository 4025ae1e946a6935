---------------------------- MODULE MCThreadPool ----------------------------
(***************************************************************************)
(* ThreadPool for TLC.  The numbers are in the configurations.             *)
(***************************************************************************)
EXTENDS ThreadPool, TLC

\* The callers of thr_pool_add_task are alike.
Symmetry == Permutations(Producer)
=============================================================================
