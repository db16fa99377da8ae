------------------------------ MODULE LockBased ------------------------------
(***************************************************************************)
(* The program with -s lock: the command line chooses an algorithm,        *)
(* run_benchmarks constructs its structure, and the workers of its driver  *)
(* call the operations until each has made its share.  Only one structure  *)
(* exists in a run of the program, so the structures share the variables.  *)
(* The pushes and inserts that fill a structure before the workers start   *)
(* are calls of the main thread, which is also a worker.  ArraySwap is in  *)
(* LockArraySwap.                                                          *)
(***************************************************************************)
EXTENDS Integers, Sequences, FiniteSets

CONSTANTS Thread,      \* the workers
          Ops,         \* the calls each worker makes
          Algorithm,   \* what can be chosen with -a
          MaxNodes,    \* how many nodes the calls can allocate
          TableSize,   \* TABLE_SIZE of the hash map
          Key,         \* keys and elements: random % DATA_VALUE_RANGE_MAX
          Value,       \* what insert_or_assign assigns
          SentinelMin, SentinelMax,  \* INT_MIN, INT_MAX
          head, tail, Null

VARIABLES chosen,     \* config.benchmarking_algorithm
          left,       \* left[t]: the calls t has still to make
          mem, items, last, undefined, holder  \* see the structures

vars == <<chosen, left, mem, items, last, undefined, holder>>

D == INSTANCE LockDeque
L == INSTANCE LockSortedList
H == INSTANCE LockHashMap
B == INSTANCE LockBST

ASSUME LockBasedAssumption ==
  /\ Key \subseteq Nat \ {0} /\ Value \subseteq Nat
  /\ Ops \in Nat /\ MaxNodes \in Nat \ {0} /\ TableSize \in Nat \ {0}
  /\ IsFiniteSet(Thread) /\ Cardinality(Thread \X (1 .. Ops)) <= MaxNodes
  /\ head # tail /\ Null \notin {head, tail}
  /\ \A n \in {head, tail, Null} : n \notin 1 .. MaxNodes
  /\ SentinelMin \in Int /\ SentinelMax \in Int
  /\ \A k \in Key : SentinelMin < k /\ k < SentinelMax

\* benchmark_mwobject: four counters, and how often they have been updated.
InitMWObject == mem = <<0, 0, 0, 0>> /\ items = 0 /\ last = <<0, 0>>
Update ==
  /\ mem' = [i \in 1 .. 4 |-> mem[i] + 1]
  /\ items' = items + 1
  /\ UNCHANGED last

\* main reads the algorithm, run_benchmarks constructs the structure.
Init ==
  /\ chosen \in Algorithm
  /\ left = [t \in Thread |-> Ops]
  /\ \/ chosen = "mwobject" /\ InitMWObject
     \/ chosen \in {"stack", "queue", "deque"} /\ D!Init
     \/ chosen = "sorted-list" /\ L!Init
     \/ chosen = "hashmap" /\ H!Init
     \/ chosen = "bst" /\ B!Init
  /\ undefined = FALSE
  /\ holder = B!Free

-----------------------------------------------------------------------------
\* The calls of the drivers.

UpdateObject == chosen = "mwobject" /\ Update

\* push is push_front, pop is pop_front.
UseStack ==
  /\ chosen = "stack"
  /\ (\E k \in Key : D!Push("front", k)) \/ D!Pop("front")

\* push is push_back, pop is pop_front.
UseQueue ==
  /\ chosen = "queue"
  /\ (\E k \in Key : D!Push("back", k)) \/ D!Pop("front")

\* choice1 and choice2 are one and the same, so the driver makes two of the
\* four calls; all four are allowed.
UseDeque ==
  /\ chosen = "deque"
  /\ \E side \in {"front", "back"} : (\E k \in Key : D!Push(side, k)) \/ D!Pop(side)

\* read, update and mixed.
UseSortedList ==
  /\ chosen = "sorted-list"
  /\ \E k \in Key : L!Insert(k) \/ L!Remove(k) \/ L!Count(k)

\* hm_lookup, hm_update and hm_mixed; find is not used.
UseHashMap ==
  /\ chosen = "hashmap"
  /\ \E k \in Key :
       (\E v \in Value : H!InsertOrAssign(k, v)) \/ H!Contains(k) \/ H!Remove(k) \/ H!Find(k)

\* bst_lookup, bst_update and bst_mixed; get_max is not used.
UseBST ==
  /\ chosen = "bst"
  /\ (\E k \in Key : B!Insert(k) \/ B!Remove(k)) \/ B!GetMin \/ B!GetMax

\* A worker's next call: one critical section, and so one step, except in the
\* search tree.
Call(t) ==
  /\ ~undefined
  /\ left[t] > 0
  /\ left' = [left EXCEPT ![t] = @ - 1]
  /\ \/ (UpdateObject \/ UseSortedList \/ UseHashMap) /\ UNCHANGED <<undefined, holder>>
     \/ (UseStack \/ UseQueue \/ UseDeque) /\ UNCHANGED holder
     \/ UseBST /\ UNCHANGED undefined
  /\ UNCHANGED chosen

\* The call that holds bst_lock goes on.
Continue ==
  /\ chosen = "bst" /\ B!Continue
  /\ UNCHANGED <<chosen, left, undefined>>

\* Every worker has been joined, or the behaviour is undefined.
Done == (\A t \in Thread : left[t] = 0) /\ holder = B!Free
Terminated == (Done \/ undefined) /\ UNCHANGED vars

Next == (\E t \in Thread : Call(t)) \/ Continue \/ Terminated

Spec == Init /\ [][Next]_vars

-----------------------------------------------------------------------------
\* A pop of the lock-based stack, queue or deque returns the element at its
\* end, or -1 when there is none, until a call uses a node that was deleted.
PopsAreRight == chosen \in {"stack", "queue", "deque"} => D!PopsAreRight

\* The lock-based sorted list holds what it should in order, with mirrored
\* links, and counts it.
ListIsRight == chosen = "sorted-list" => L!ListIsRight

\* The lock-based hash map holds every key it should once, in its bucket, with
\* its last value, and answers with it.
MapIsRight == chosen = "hashmap" => H!MapIsRight

\* The lock-based tree stays a search tree, never holds a value more often than
\* it should, and finds its ends.
TreeIsRight == chosen = "bst" => B!TreeIsRight

\* The lock-based list, map and tree agree with the history of their calls.
ContentsAreRight == ListIsRight /\ MapIsRight /\ TreeIsRight

\* The stack, with both operations at the front, never comes across the links
\* to deleted nodes that pops leave behind.
StackIsSafe == chosen = "stack" => D!NoUseAfterFree
=============================================================================
