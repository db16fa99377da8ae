------------------------------ MODULE LockFree ------------------------------
(***************************************************************************)
(* The program with -s lockfree: the command line chooses an algorithm,    *)
(* run_benchmarks constructs its structure, and the workers of its driver  *)
(* call the operations until each has made its share.  Only one structure  *)
(* exists in a run of the program, so the structures share the variables.  *)
(***************************************************************************)
EXTENDS Integers, Sequences, FiniteSets, Frames

CONSTANTS Thread,      \* the workers
          Owner,       \* the main thread, which is one of them
          Algorithm,   \* what can be chosen with -a
          Share,       \* Share[a]: how many calls each worker may make to the structure of a
          MaxNodes,    \* how many nodes the calls can allocate
          Prefill,     \* how many elements a structure may hold at the start
          LogInitial,  \* log_initial_size of the work-stealing deque
          Key, SentinelMin, SentinelMax,  \* keys, between those of the dummies
          ListKey,     \* the keys the workers use in the sorted list
          TreeNodes,   \* the same for the tree, two for each insertion
          Prefilled,   \* the keys a tree may hold at the start, in their order
          WordSize,    \* WORD_SIZE of the hash map
          Void, Empty, Pending

VARIABLES chosen,  \* config.benchmarking_algorithm
          workers, \* the threads that the benchmark starts, config.threadcnt of them
          left,    \* left[t]: the calls t has still to finish
          mem      \* the structure

vars == <<chosen, workers, left, mem, call, loc>>

Queue == INSTANCE MSQueue
Stack == INSTANCE TreiberStack
SPSC == INSTANCE SPSCQueue
Stealing == INSTANCE WorkStealingDeque
List == INSTANCE DoublyLinkedList
Map == INSTANCE SplitOrderedMap
Tree == INSTANCE ExternalBST WITH MaxNodes <- TreeNodes

\* The workers make finitely many calls, and there is a node for each; Share
\* gives the queue of one producer and one consumer no second consumer.  The
\* first buffer of the work-stealing deque has slots, and keys lie between those
\* of the dummies.
ASSUME LockFreeAssumption ==
  /\ Owner \in Thread /\ IsFiniteSet(Thread)
  /\ MaxNodes \in Nat \ {0} /\ Prefill \subseteq 0 .. MaxNodes
  /\ {Void, Empty, Pending} \cap (0 .. MaxNodes + 1) = {} /\ Pending \notin {Void, Empty}
  /\ \A a \in Algorithm \cap {"queue", "stack", "spsc", "deque", "sorted-list", "hashmap"} : \A l \in Share[a], k \in Prefill \union {0} :
       /\ l \in [Thread -> 0 .. MaxNodes]
       /\ k + Cardinality({c \in Thread \X (1 .. MaxNodes) : c[2] <= l[c[1]]}) <= MaxNodes
  /\ 2 ^ LogInitial \in Nat \ {0}
  /\ "spsc" \in Algorithm => \A l \in Share["spsc"] : \A t, u \in Thread \ {Owner} : l[t] > 0 /\ l[u] > 0 => t = u
  /\ SentinelMax \in Int /\ \A k \in Key \cup ListKey : k \in Int /\ SentinelMin < k /\ k < SentinelMax

\* makeRegularKey sets the highest bit of a word, which the keys of the drivers,
\* at most DATA_VALUE_RANGE_MAX, do not have.  The second part is arithmetic.
ASSUME WordAssumption ==
  /\ WordSize \in Nat \ {0} /\ Key \subseteq 0 .. 2 ^ (WordSize - 1) - 1
  /\ 2 ^ 0 = 1 /\ \A i \in 0 .. WordSize - 1 : 2 ^ i \in Nat \ {0} /\ 2 ^ (i + 1) = 2 * 2 ^ i

Init ==
  /\ chosen \in Algorithm
  /\ left \in Share[chosen]
  /\ workers = {t \in Thread : left[t] > 0}
  /\ call = [t \in Thread |-> <<>>]
  /\ loc = [t \in Thread |-> Idle]
  /\ \/ chosen = "queue" /\ Queue!Init
     \/ chosen = "stack" /\ Stack!Init
     \/ chosen = "spsc" /\ SPSC!Init
     \/ chosen = "deque" /\ Stealing!Init
     \/ chosen = "sorted-list" /\ List!Init
     \/ chosen = "hashmap" /\ Map!Init
     \/ chosen = "bst" /\ Tree!Init

\* The drivers: a worker calls one of the operations.
UseQueue(t) == chosen = "queue" /\ (Queue!CallPush(t) \/ Queue!CallPop(t))
UseStack(t) == chosen = "stack" /\ (Stack!CallPush(t) \/ Stack!CallPop(t))

\* No benchmark uses this queue; it is meant for one producer and one consumer.
UseSPSC(t) == chosen = "spsc" /\ IF t = Owner THEN SPSC!CallPush(t) ELSE SPSC!CallPop(t)

UseDeque(t) ==
  /\ chosen = "deque"
  /\ IF t = Owner THEN Stealing!CallPush \/ Stealing!CallPop ELSE Stealing!CallSteal(t)

\* read, update and mixed.
UseList(t) ==
  /\ chosen = "sorted-list"
  /\ \E name \in {"insert", "remove", "count"}, k \in ListKey : List!Call(t, name, k)

\* hm_lookup, hm_update and hm_mixed; insert_or_assign is add, and find is contains.
UseMap(t) ==
  /\ chosen = "hashmap"
  /\ \E name \in {"insert", "remove", "contains"}, k \in Key : Map!Call(t, name, k)

\* bst_lookup, bst_update and bst_mixed, with one tree for all of them.
UseTree(t) ==
  /\ chosen = "bst"
  /\ \/ \E name \in {"insert", "remove"}, k \in Key : Tree!Call(t, name, k)
     \/ Tree!Call(t, "get_min", 0)

Call(t) ==
  /\ left[t] > 0 /\ At(t, "idle")
  /\ \/ UseQueue(t) \/ UseStack(t) \/ UseSPSC(t) \/ UseDeque(t)
     \/ UseList(t) \/ UseMap(t) \/ UseTree(t)
  /\ UNCHANGED <<chosen, workers, left>>

\* The next step of the call of t.
Work(t) ==
  /\ \/ chosen = "queue" /\ Queue!Step(t)
     \/ chosen = "stack" /\ Stack!Step(t)
     \/ chosen = "spsc" /\ SPSC!Step(t)
     \/ chosen = "deque" /\ Stealing!Step(t)
     \/ chosen = "sorted-list" /\ List!Step(t)
     \/ chosen = "hashmap" /\ Map!Step(t)
     \/ chosen = "bst" /\ Tree!Step(t)
  /\ UNCHANGED <<chosen, workers, left, call>>

Return(t) ==
  /\ Leave(t)
  /\ left' = [left EXCEPT ![t] = @ - 1]
  /\ UNCHANGED <<chosen, workers, mem>>

Step(t) == Call(t) \/ Work(t) \/ Return(t)

Undefined ==
  \/ chosen = "deque" /\ mem.undefined # {}
  \/ chosen \in {"sorted-list", "hashmap"} /\ mem.crashed
  \/ chosen = "bst" /\ Tree!Damaged
Done == \A t \in Thread : left[t] = 0
Terminated == (Done \/ Undefined) /\ UNCHANGED vars

Next == (\E t \in Thread : Step(t)) \/ Terminated

\* The scheduler runs every worker again and again until it has returned.
Spec == Init /\ [][Next]_vars /\ \A t \in Thread : WF_vars(Step(t))

-----------------------------------------------------------------------------
\* The deque of DequeSpec: what the structures should be.
Items == CASE chosen = "queue" -> Queue!Items
           [] chosen = "stack" -> Stack!Items
           [] chosen = "spsc" -> SPSC!Items
           [] chosen = "deque" -> Stealing!Items
Results == [t \in Thread |-> IF chosen = "queue" THEN Queue!ResultOf(t, Pending) ELSE Result(t, Pending)]

Promise == INSTANCE DequeSpec WITH
  Elem <- 1 .. MaxNodes, Share <- UNION {Share[a] : a \in Algorithm}, items <- Items, result <- Results,
  Menu <- {"push", "pop"} \X {"L", "R"}

promised == <<Items, Results, call, left>>

\* Every push and pop of the lock-free stack and of the queue of one producer
\* and one consumer takes effect at one instant, a pop with the element that is
\* at its end then, or with -1 when there is none.
StackIsLinearizable == [][(chosen \in {"stack", "spsc"}) => Promise!Next]_promised

\* So does every call of the queue of Michael and Scott, except that a pop that
\* returns -1 has seen the queue empty at some moment since it loaded the tail,
\* though elements may have come in since.
PopsNothing(t) ==
  /\ Promise!Begun(t, "pop")
  /\ "saw" \in DOMAIN loc[t] /\ loc[t].saw
  /\ Results' = [Results EXCEPT ![t] = Empty]
  /\ UNCHANGED <<Items, call, left>>
QueueIsLinearizable ==
  [][chosen = "queue" => Promise!Next \/ \E t \in Thread : PopsNothing(t)]_promised

\* The elements of the work-stealing deque are each taken once, by the owner
\* from the bottom or by a stealer from the top, and the owner finds nothing
\* only in an empty deque; a steal may give up.  This holds until a stealer
\* reads a deleted buffer or a slot that holds another element by then.
GivesUp(t) ==
  /\ t # Owner /\ Promise!Begun(t, "pop")
  /\ Results' = [Results EXCEPT ![t] = Empty]
  /\ UNCHANGED <<Items, call, left>>
DequeIsLinearizable ==
  [][chosen = "deque" /\ ~Undefined' => Promise!Next \/ \E t \in Thread : GivesUp(t)]_promised

\* The Reclaimer keeps the buffer of a steal: its slot is never read after the
\* buffer was deleted.
BuffersOutliveSteals == chosen = "deque" => "slot" \notin mem.undefined

\* The nodes of the lock-free list, and the order of the lists of the hash map.
ListStaysWhole == chosen = "sorted-list" => List!ListStaysWhole
LinksLeadOn == chosen = "hashmap" => Map!LinksLeadOn

\* The tree is a set, with one worker or until a key is removed: each call
\* changes the keys that a search finds at one step, by its own key only, and
\* no mark of a removal stays in the way of the next call, though near the root
\* seek takes the parent of the leaf for its ancestor, too.
Effect(c, keys) ==
  CASE c[1] = "insert" -> keys \union {c[3]} [] c[1] = "remove" -> keys \ {c[3]} [] OTHER -> keys
TakesEffect(t, keys, keysAfter) ==
  LET effect == Effect(call[t], keys)
  IN  IF call[t][1] # "get_min" /\ Results'[t]
      THEN keysAfter = effect /\ effect # keys
      ELSE /\ keysAfter = keys
           /\ effect = keys \/ (call[t][1] = "remove" /\ Cardinality(workers) > 1)
TreeIsASet ==
  [][(chosen = "bst" /\ (Cardinality(workers) = 1 \/ Tree!Unmarked')) =>
       /\ ~Tree!Damaged'
       /\ IF \E t \in workers : Results[t] = Pending /\ Results'[t] # Pending
          THEN \E t \in workers : Results'[t] # Results[t] /\ TakesEffect(t, Tree!Members, Tree!Members')
          ELSE Tree!Members' = Tree!Members]_vars

\* Every worker makes its calls, and the program ends.  Not so with the tree:
\* two insertions that help a removal which is over keep marking the edge that
\* both wait for.
Termination == (chosen = "bst" => Cardinality(workers) = 1) => <>(Done \/ Undefined)
=============================================================================
