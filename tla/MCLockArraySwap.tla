--------------------------- MODULE MCLockArraySwap --------------------------
\* Values of the constants of LockArraySwap for TLC.
EXTENDS LockArraySwap, TLC

Symmetry == Permutations(Thread)
=============================================================================
