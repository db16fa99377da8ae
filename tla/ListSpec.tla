------------------------------ MODULE ListSpec ------------------------------
(***************************************************************************)
(* What lockfree-mcas/SortedList.h keeps under concurrent calls, whatever  *)
(* the order of its nodes: an insert puts its node in once, a remove takes *)
(* out at most one node, of its own key, and both do it at one instant     *)
(* between their call and their return.  That a remove finds a node that   *)
(* is there, or that the nodes are sorted, is more than it keeps.          *)
(***************************************************************************)
EXTENDS Naturals

CONSTANTS Thread,  \* the workers
          Ops,     \* the calls each worker makes (n_ops / threadcnt)
          Node,    \* what can be inserted
          Key      \* the keys

VARIABLES items,  \* the nodes in the list
          data,   \* data[n]: the key of node n, 0 if it has not been allocated
          call,   \* call[t]: <<name, key, node>>, <<>> outside and once it has taken effect
          left    \* left[t]: the calls whose effect is still to come

vars == <<items, data, call, left>>

\* The list holds some allocated nodes before the workers start.
Init ==
  /\ data \in [Node -> Key \cup {0}]
  /\ items = {n \in Node : data[n] # 0}
  /\ call = [t \in Thread |-> <<>>]
  /\ left = [t \in Thread |-> Ops]

Invoke(t, k) ==
  /\ left[t] > 0
  /\ call[t] = <<>>
  /\ \/ \E n \in Node \ items :
          /\ data[n] = 0
          /\ data' = [data EXCEPT ![n] = k]
          /\ call' = [call EXCEPT ![t] = <<"insert", k, n>>]
     \/ /\ \E op \in {"remove", "count"} : call' = [call EXCEPT ![t] = <<op, k, 0>>]
        /\ UNCHANGED data
  /\ UNCHANGED <<items, left>>

Over(t) ==
  /\ call' = [call EXCEPT ![t] = <<>>]
  /\ left' = [left EXCEPT ![t] = @ - 1]
  /\ UNCHANGED data

Insert(t) ==
  /\ call[t] # <<>> /\ call[t][1] = "insert"
  /\ items' = items \cup {call[t][3]}
  /\ Over(t)

Remove(t) ==
  /\ call[t] # <<>> /\ call[t][1] = "remove"
  /\ \E n \in items : data[n] = call[t][2] /\ items' = items \ {n}
  /\ Over(t)

\* A count, or a remove that finds nothing.
Pass(t) ==
  /\ call[t] # <<>> /\ call[t][1] \in {"remove", "count"}
  /\ UNCHANGED items
  /\ Over(t)

Next ==
  \E t \in Thread :
    \/ \E k \in Key : Invoke(t, k)
    \/ Insert(t)
    \/ Remove(t)
    \/ Pass(t)

Spec == Init /\ [][Next]_vars
=============================================================================
