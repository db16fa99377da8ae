----------------------------- MODULE MCLockFree -----------------------------
\* Values of the constants of LockFree for TLC.
EXTENDS LockFree

CONSTANTS t1, t2, t3

Three(a, b, c) == [t \in Thread |-> CASE t = t1 -> a [] t = t2 -> b [] t = t3 -> c]
Shares == [a \in Algorithm |->
  CASE a \in {"queue", "stack"} -> {Three(3, 3, 0), Three(1, 1, 1)}
    [] a = "spsc" -> {Three(3, 3, 0)}
    [] a = "deque" -> {Three(5, 1, 0), Three(3, 2, 0), Three(1, 1, 1)}
    [] a = "sorted-list" -> {Three(2, 1, 0)}
    [] a = "hashmap" -> {Three(2, 2, 0)}
    [] a = "bst" -> {Three(1, 1, 0), Three(4, 0, 0)}]
Trees == {<<>>, <<2>>, <<3, 1>>, <<1, 2, 3>>}
=============================================================================
