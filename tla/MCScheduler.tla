---------------------------- MODULE MCScheduler -----------------------------
EXTENDS Scheduler, TLC

ThreadSymmetry == Permutations(Threads \ {Main})
=============================================================================
