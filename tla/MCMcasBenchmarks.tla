-------------------------- MODULE MCMcasBenchmarks --------------------------
\* Values of the constants of McasBenchmarks for TLC.
EXTENDS McasBenchmarks, TLC

CONSTANTS t1, t2, t3

Two(a, b) == [t \in Thread |-> CASE t = t1 -> a [] t = t2 -> b [] OTHER -> 0]
Shares == [a \in Algorithm |-> IF a = "hashmap" THEN {Two(2, 2)} ELSE {Two(1, 1), Two(3, 0)}]
Trees == [s \in {Two(1, 1), Two(3, 0)} |-> {<<>>, <<2>>, <<1, 2>>, <<3, 1, 2>>, <<2, 1, 3>>}]

\* Three workers on one tree: a call each, or two calls of one beside one of another.
Symmetry == Permutations(Thread)
CallEach == [t \in Thread |-> 1]
OneAndTwo == {s \in [Thread -> 0 .. 2] : \A n \in 0 .. 2 : \E t \in Thread : s[t] = n}
CrowdShares == [a \in Algorithm |-> {CallEach} \union OneAndTwo]
CrowdTrees == [s \in {CallEach} \union OneAndTwo |->
                 IF s = CallEach THEN {<<>>, <<2>>, <<3, 1, 2>>, <<2, 1, 3>>, <<3, 2, 1>>} ELSE {<<3, 2, 1>>}]
=============================================================================
