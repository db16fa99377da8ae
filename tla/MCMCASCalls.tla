---------------------------- MODULE MCMCASCalls -----------------------------
\* Values of the constants of MCASCalls for TLC.
EXTENDS MCASCalls, TLC

Symmetry == Permutations(Thread) \cup Permutations(Addr)
=============================================================================
