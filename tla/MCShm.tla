------------------------------- MODULE MCShm -------------------------------
(***************************************************************************)
(* Shm for TLC: threads, items and processes are interchangeable.          *)
(***************************************************************************)
EXTENDS Shm, TLC

Symmetry == Permutations(Threads) \cup Permutations(Items) \cup Permutations(Procs)
=============================================================================
