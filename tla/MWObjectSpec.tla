---------------------------- MODULE MWObjectSpec ----------------------------
(***************************************************************************)
(* What the multi-word-object benchmarks promise (benchmarks.cpp): every   *)
(* update adds one to all the counters of the object, at one instant, and  *)
(* each worker makes its updates once.                                     *)
(***************************************************************************)
EXTENDS Naturals

CONSTANTS Thread,   \* the workers
          Ops,      \* the updates each worker makes (n_ops / threadcnt)
          Field,    \* the counters
          Modulus   \* a counter holds 0 .. Modulus - 1: 2^64 in the code

VARIABLES counters, \* the object
          left      \* left[t]: the updates worker t has still to make

vars == <<counters, left>>

Init ==
  /\ counters = [f \in Field |-> 0]
  /\ left = [t \in Thread |-> Ops]

Update(t) ==
  /\ left[t] > 0
  /\ counters' = [f \in Field |-> (counters[f] + 1) % Modulus]
  /\ left' = [left EXCEPT ![t] = @ - 1]

Next == \E t \in Thread : Update(t)

Spec == Init /\ [][Next]_vars
=============================================================================
