--------------------------- MODULE LockArraySwap ----------------------------
(***************************************************************************)
(* lockbased/array_swap.h under benchmark_arrayswap: workers that swap     *)
(* rows of one array of pointers, each row with a mutex of its own.  swap  *)
(* takes the mutex of the lower row, then that of the higher one.          *)
(***************************************************************************)
EXTENDS Naturals

CONSTANTS Thread,    \* the workers
          NoThread,  \* the owner of a free mutex
          Ops,       \* the swaps each worker makes (n_ops / threadcnt)
          NumRows    \* NUM_ROWS

ASSUME LockArraySwapAssumption ==
  /\ NoThread \notin Thread
  /\ Ops \in Nat
  /\ NumRows \in Nat \ {0}

\* The indices, and the elements: element i is the one datum_init put in row i.
Row == 1 .. NumRows

VARIABLES rows,   \* rows[i]: S->array[i].elements_
          owner,  \* owner[i]: who holds S->array[i].lock_
          pc,     \* pc[t]: the statement of swap that t is at
          call,   \* call[t]: <<index_a, index_b>>, <<>> outside swap
          temp,   \* temp[t]: temp, from its load to its store
          left    \* left[t]: the swaps t has still to finish

vars == <<rows, owner, pc, call, temp, left>>

\* datum_init.
Init ==
  /\ rows = [i \in Row |-> i]
  /\ owner = [i \in Row |-> NoThread]
  /\ pc = [t \in Thread |-> "idle"]
  /\ call = [t \in Thread |-> <<>>]
  /\ temp = [t \in Thread |-> 0]
  /\ left = [t \in Thread |-> Ops]

\* Mutant: "enforce index_a < index_b" is left out.
Ordered_Not(i, j) == <<i, j>>

\* "enforce index_a < index_b".
Ordered(i, j) == IF i > j THEN <<j, i>> ELSE <<i, j>>

\* The worker draws two rows and calls swap, which orders them.
Call(t, i, j) ==
  /\ pc[t] = "idle"
  /\ left[t] > 0
  /\ call' = [call EXCEPT ![t] = Ordered(i, j)]
  /\ pc' = [pc EXCEPT ![t] = IF i = j THEN "return" ELSE "lock_a"]
  /\ UNCHANGED <<rows, owner, temp, left>>

\* Mutant: the second mutex is not taken.
Lock_FirstOnly(t, k) ==
  /\ pc[t] = IF k = 1 THEN "lock_a" ELSE "lock_b"
  /\ k = 1 => owner[call[t][k]] = NoThread
  /\ owner' = [owner EXCEPT ![call[t][k]] = t]
  /\ pc' = [pc EXCEPT ![t] = IF k = 1 THEN "lock_b" ELSE "store_a"]
  /\ UNCHANGED <<rows, call, temp, left>>

\* pthread_mutex_lock of the k-th row of the call.
Lock(t, k) ==
  /\ pc[t] = IF k = 1 THEN "lock_a" ELSE "lock_b"
  /\ owner[call[t][k]] = NoThread
  /\ owner' = [owner EXCEPT ![call[t][k]] = t]
  /\ pc' = [pc EXCEPT ![t] = IF k = 1 THEN "lock_b" ELSE "store_a"]
  /\ UNCHANGED <<rows, call, temp, left>>

\* Mutant: row a is not saved.
StoreA_NoTemp(t) ==
  /\ pc[t] = "store_a"
  /\ rows' = [rows EXCEPT ![call[t][1]] = rows[call[t][2]]]
  /\ pc' = [pc EXCEPT ![t] = "store_b"]
  /\ UNCHANGED <<owner, call, temp, left>>

\* temp = row a; row a = row b.
StoreA(t) ==
  /\ pc[t] = "store_a"
  /\ temp' = [temp EXCEPT ![t] = rows[call[t][1]]]
  /\ rows' = [rows EXCEPT ![call[t][1]] = rows[call[t][2]]]
  /\ pc' = [pc EXCEPT ![t] = "store_b"]
  /\ UNCHANGED <<owner, call, left>>

\* row b = temp.
StoreB(t) ==
  /\ pc[t] = "store_b"
  /\ rows' = [rows EXCEPT ![call[t][2]] = temp[t]]
  /\ temp' = [temp EXCEPT ![t] = 0]
  /\ pc' = [pc EXCEPT ![t] = "unlock_a"]
  /\ UNCHANGED <<owner, call, left>>

\* pthread_mutex_unlock of the k-th row of the call.
Unlock(t, k) ==
  /\ pc[t] = IF k = 1 THEN "unlock_a" ELSE "unlock_b"
  /\ owner' = [owner EXCEPT ![call[t][k]] = NoThread]
  /\ pc' = [pc EXCEPT ![t] = IF k = 1 THEN "unlock_b" ELSE "return"]
  /\ UNCHANGED <<rows, call, temp, left>>

\* swap returns true and the worker counts it.
Return(t) ==
  /\ pc[t] = "return"
  /\ pc' = [pc EXCEPT ![t] = "idle"]
  /\ call' = [call EXCEPT ![t] = <<>>]
  /\ left' = [left EXCEPT ![t] = @ - 1]
  /\ UNCHANGED <<rows, owner, temp>>

\* The steps of a worker between its calls and inside swap.
Step(t) ==
  \/ \E i, j \in Row : Call(t, i, j)
  \/ \E k \in {1, 2} : Lock(t, k) \/ Unlock(t, k)
  \/ StoreA(t)
  \/ StoreB(t)
  \/ Return(t)

\* Every worker has returned and has been joined.
Done == \A t \in Thread : pc[t] = "idle" /\ left[t] = 0
Terminated == Done /\ UNCHANGED vars

Next == (\E t \in Thread : Step(t)) \/ Terminated

Spec == Init /\ [][Next]_vars

-----------------------------------------------------------------------------
\* Types of the array, the mutexes and the workers' local variables.
TypeOK ==
  /\ rows \in [Row -> Row]
  /\ owner \in [Row -> Thread \cup {NoThread}]
  /\ pc \in [Thread -> {"idle", "lock_a", "lock_b", "store_a", "store_b", "unlock_a", "unlock_b", "return"}]
  /\ call \in [Thread -> {<<>>} \cup (Row \X Row)]
  /\ temp \in [Thread -> Row \cup {0}]
  /\ left \in [Thread -> 0 .. Ops]

\* The array without the half-made swaps: row a of a swap that has still to
\* store row b holds what it held before.
Settled ==
  [i \in Row |->
     IF \E t \in Thread : pc[t] = "store_b" /\ call[t][1] = i
       THEN temp[CHOOSE t \in Thread : pc[t] = "store_b" /\ call[t][1] = i]
       ELSE rows[i]]

\* The swap of t has taken effect.
Swapped(t) ==
  \/ pc[t] \in {"unlock_a", "unlock_b"}
  \/ pc[t] = "return" /\ call[t][1] # call[t][2]

\* Every swap takes effect once, at one instant and on the rows it was called
\* with: its second store.
Abstract == INSTANCE ArraySwapSpec
  WITH rows <- Settled,
       call <- [t \in Thread |-> IF Swapped(t) THEN <<>> ELSE call[t]],
       left <- [t \in Thread |-> IF Swapped(t) THEN left[t] - 1 ELSE left[t]]
SwapsAreAtomic == Abstract!Spec

\* No element is lost and none is in two rows when every worker is done:
\* datum_free frees every element, once.
PermutationWhenDone == Done => \A i, j \in Row : rows[i] = rows[j] => i = j

\* The workers never wait for each other in a circle, nor one for itself: in
\* every set of workers one waits for none of the set.
Waits(t, u) == \E k \in {1, 2} :
  pc[t] = (IF k = 1 THEN "lock_a" ELSE "lock_b") /\ owner[call[t][k]] = u
NoCircularWait ==
  \A S \in SUBSET Thread : S # {} => \E t \in S : \A u \in S : ~Waits(t, u)
=============================================================================
