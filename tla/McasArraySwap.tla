--------------------------- MODULE McasArraySwap ----------------------------
(***************************************************************************)
(* lockfree-mcas/array_swap.h under benchmark_mcas_arrayswap: workers that *)
(* swap rows of one array of pointers.  swap loads the two pointers, one   *)
(* after the other, and exchanges them with a dcas; it starts over if one  *)
(* has changed.                                                            *)
(***************************************************************************)
EXTENDS Naturals, Sequences

CONSTANTS Thread,    \* the workers
          NoThread,  \* the owner of a free global_cas_lock
          Gem5,      \* the build of mcas.h
          Ops,       \* the swaps each worker makes (n_ops / threadcnt)
          NumRows    \* NUM_ROWS

\* The indices, and the elements: element i is the one datum_init put in row i.
Row == 1 .. NumRows

VARIABLES mem, lock, todo,  \* S->array[i].elements_, and mcas.h: see MCAS
          call,             \* call[t]: <<index_a, index_b>>, <<>> outside swap
          seen,             \* seen[t]: addr_a, addr_b as far as t has loaded them
          left              \* left[t]: the swaps t has still to finish

M == INSTANCE MCAS WITH Addr <- Row, Val <- Row

\* The arguments of the dcas.
Exchange(c, s) == <<M!Word(c[1], s[1], s[2]), M!Word(c[2], s[2], s[1])>>

Init ==
  /\ M!InitMCAS
  /\ mem = [i \in Row |-> i]
  /\ call = [t \in Thread |-> <<>>]
  /\ seen = [t \in Thread |-> <<>>]
  /\ left = [t \in Thread |-> Ops]

\* The worker draws two rows and calls swap.
Call(t, i, j) ==
  /\ left[t] > 0
  /\ call[t] = <<>>
  /\ call' = [call EXCEPT ![t] = <<i, j>>]
  /\ M!NoStore
  /\ UNCHANGED <<seen, left>>

\* swap returns true and the worker counts it.
Finish(t) ==
  /\ call' = [call EXCEPT ![t] = <<>>]
  /\ seen' = [seen EXCEPT ![t] = <<>>]
  /\ left' = [left EXCEPT ![t] = @ - 1]

\* "exit if swapping the same index".
SameIndex(t) ==
  /\ call[t] # <<>>
  /\ call[t][1] = call[t][2]
  /\ M!NoStore
  /\ Finish(t)

\* Load the next of the two pointers.
Load(t) ==
  /\ call[t] # <<>>
  /\ call[t][1] # call[t][2]
  /\ Len(seen[t]) < 2
  /\ seen' = [seen EXCEPT ![t] = Append(@, mem[call[t][Len(@) + 1]])]
  /\ M!NoStore
  /\ UNCHANGED <<call, left>>

\* A step of a dcas that succeeds: swap returns after its last store.
Advance(t) == IF M!Returns(t) THEN Finish(t) ELSE UNCHANGED <<call, seen, left>>

DcasSucceeds(t) ==
  /\ Len(seen[t]) = 2
  /\ M!Succeed(t, Exchange(call[t], seen[t]))
  /\ Advance(t)

DcasStores(t) ==
  /\ M!StoreNext(t)
  /\ Advance(t)

\* The loop starts over.
DcasFails(t) ==
  /\ Len(seen[t]) = 2
  /\ M!Fail(t, Exchange(call[t], seen[t]))
  /\ seen' = [seen EXCEPT ![t] = <<>>]
  /\ UNCHANGED <<call, left>>

\* The steps of a worker between its calls and inside swap.
Step(t) ==
  \/ \E i, j \in Row : Call(t, i, j)
  \/ SameIndex(t)
  \/ Load(t)
  \/ DcasSucceeds(t)
  \/ DcasStores(t)
  \/ DcasFails(t)

-----------------------------------------------------------------------------
\* Types of the array and of the workers' local variables.
TypeOK ==
  /\ M!MCASTypeOK
  /\ M!LockDiscipline
  /\ call \in [Thread -> {<<>>} \cup (Row \X Row)]
  /\ seen \in [Thread -> {<<>>} \cup {<<i>> : i \in Row} \cup (Row \X Row)]
  /\ left \in [Thread -> 0 .. Ops]

\* Every swap takes effect once, at one instant and on the rows it was called
\* with: the first store of its dcas.
Abstract == INSTANCE ArraySwapSpec
  WITH rows <- M!Settled,
       call <- [t \in Thread |-> IF lock = t THEN <<>> ELSE call[t]],
       left <- [t \in Thread |-> IF lock = t THEN left[t] - 1 ELSE left[t]]
=============================================================================
