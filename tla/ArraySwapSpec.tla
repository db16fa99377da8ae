--------------------------- MODULE ArraySwapSpec ----------------------------
(***************************************************************************)
(* What both ArraySwap structures promise (lockbased/array_swap.h and      *)
(* lockfree-mcas/array_swap.h): a call of swap exchanges the elements of   *)
(* its two rows at one instant between its call and its return, once.      *)
(***************************************************************************)
EXTENDS Naturals

CONSTANTS Thread,  \* the workers
          Ops,     \* the swaps each worker makes (n_ops / threadcnt)
          Row      \* the rows of the array

VARIABLES rows,  \* rows[i]: the element in row i
          call,  \* call[t]: the rows t was asked to swap, <<>> once it has
          left   \* left[t]: the swaps t has still to make

vars == <<rows, call, left>>

\* r with the elements of rows i and j exchanged.
Swapped(r, i, j) == [r EXCEPT ![i] = r[j], ![j] = r[i]]

\* Every row starts with an element of its own: datum_init.
Init ==
  /\ rows = [i \in Row |-> i]
  /\ call = [t \in Thread |-> <<>>]
  /\ left = [t \in Thread |-> Ops]

Invoke(t, i, j) ==
  /\ left[t] > 0
  /\ call[t] = <<>>
  /\ call' = [call EXCEPT ![t] = <<i, j>>]
  /\ UNCHANGED <<rows, left>>

Swap(t) ==
  /\ call[t] # <<>>
  /\ rows' = Swapped(rows, call[t][1], call[t][2])
  /\ call' = [call EXCEPT ![t] = <<>>]
  /\ left' = [left EXCEPT ![t] = @ - 1]

Next == \E t \in Thread : Swap(t) \/ \E i, j \in Row : Invoke(t, i, j)

Spec == Init /\ [][Next]_vars

\* No element is lost and none is in two rows.
Permutation ==
  /\ \A i \in Row : \E j \in Row : rows[j] = i
  /\ \A i, j \in Row : rows[i] = rows[j] => i = j
=============================================================================
