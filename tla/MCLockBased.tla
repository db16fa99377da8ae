----------------------------- MODULE MCLockBased -----------------------------
\* Values of the constants of LockBased for TLC.
EXTENDS LockBased, TLC

Symmetry == Permutations(Thread)
=============================================================================
