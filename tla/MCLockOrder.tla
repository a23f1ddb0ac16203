---------------------------- MODULE MCLockOrder ----------------------------
EXTENDS LockOrder, TLC

ThreadSymmetry == Permutations(Threads)
=============================================================================
