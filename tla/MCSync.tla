------------------------------- MODULE MCSync -------------------------------
(***************************************************************************)
(* Sync with three threads, two mutexes in lock order and one event.       *)
(***************************************************************************)
EXTENDS Sync, TLC

ThreadSymmetry == Permutations(Threads)
=============================================================================
