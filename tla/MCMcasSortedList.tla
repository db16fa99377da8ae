-------------------------- MODULE MCMcasSortedList --------------------------
\* Values of the constants of McasSortedList for TLC.
EXTENDS McasSortedList, TLC

Symmetry == Permutations(Thread)
=============================================================================
