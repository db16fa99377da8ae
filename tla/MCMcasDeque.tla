---------------------------- MODULE MCMcasDeque -----------------------------
\* Values of the constants of McasDeque for TLC.
EXTENDS McasDeque, TLC

CONSTANTS t1, t2, t3

Calls(a, b, c) == t1 :> a @@ t2 :> b @@ t3 :> c
Shares == [k \in 0 .. MaxPrefill |->
  {Calls(1, 1, 1)} \cup IF k < 2 THEN {Calls(3, 2, 0)} ELSE {}]

\* All the operations of Deque.h.  Queue.h uses push R and pop L, Stack.h push L
\* and pop L: their behaviours are among those of this menu.
DequeMenu == {"push", "pop"} \X Side
=============================================================================
