--------------------------- MODULE McasBenchmarks ---------------------------
(***************************************************************************)
(* The program with -s lockfree-mcas and -a mwobject, arrayswap, hashmap   *)
(* or bst: run_benchmarks starts the driver of one of them, whose workers  *)
(* update the object, swap rows of the array or call the operations of the *)
(* hash map or of the tree until each has made its share.                  *)
(***************************************************************************)
EXTENDS Integers, Sequences, FiniteSets, Frames

CONSTANTS Thread,      \* the workers
          NoThread,    \* the owner of a free global_cas_lock
          Gem5,        \* the build of mcas.h
          Algorithm,   \* what can be chosen with -a
          Updates, Swaps,  \* how many of them each worker makes (n_ops / threadcnt)
          Modulus,     \* a counter of the object holds 0 .. Modulus - 1: 2^64 in the code
          NumRows,     \* NUM_ROWS
          Share,       \* Share[a]: how many calls each worker may make to the map or tree a
          MapNodes, TreeNodes,  \* how many nodes the calls can allocate
          TableSize,   \* TABLE_SIZE
          Key, MapKey, \* the keys the workers use in the tree and in the hash map
          SentinelMax, \* INT_MAX
          Prefilled    \* Prefilled[s]: the sequences of keys that may have been inserted in
                       \* the tree before workers with the share s start

VARIABLES chosen,  \* config.benchmarking_algorithm
          workers, \* the threads that the benchmark starts, config.threadcnt of them
          left,    \* left[t]: the calls, updates or swaps t has still to finish
          mem, lock, todo,  \* the structure, and mcas.h: see MCAS
          made, crashed, past,  \* the hash map and the tree: see their modules
          seen     \* the object and the array: see their modules

state == <<chosen, workers, left, mem, lock, todo, made, crashed, call, loc, seen>>
vars == <<state, past>>

\* What the object and the array need, and what the hash map and the tree need.
ASSUME McasArraysAssumption ==
  /\ NoThread \notin Thread /\ Gem5 \in BOOLEAN
  /\ Updates \in Nat /\ Swaps \in Nat
  /\ Modulus \in Nat /\ Modulus > 1
  /\ NumRows \in Nat \ {0}

ASSUME McasMapsAssumption ==
  /\ NoThread \notin Thread /\ Gem5 \in BOOLEAN
  /\ TableSize \in Nat \ {0} /\ MapNodes \in Nat \ {0} /\ 1 \in MapKey
  /\ TreeNodes \in Nat \ {0}
  /\ "bst" \in Algorithm => \A s \in Share["bst"] : \A q \in Prefilled[s] : q \in Seq(Key) /\ Len(q) <= TreeNodes
  /\ \A a \in Algorithm : Share[a] \subseteq [Thread -> Nat]
  /\ \A k \in Key \union MapKey : k \in Nat /\ k < SentinelMax

Object == INSTANCE McasMWObject WITH Ops <- Updates
Array == INSTANCE McasArraySwap WITH Ops <- Swaps
Map == INSTANCE McasHashMap WITH MaxNodes <- MapNodes, Key <- MapKey
Tree == INSTANCE McasBST WITH MaxNodes <- TreeNodes

\* datum_init, and the constructors.
Init ==
  /\ chosen \in Algorithm
  /\ crashed = FALSE
  /\ loc = [t \in Thread |-> Idle]
  /\ IF chosen \in {"mwobject", "arrayswap"}
     THEN /\ made = 0 /\ past = {}
          /\ IF chosen = "mwobject" THEN Object!Init /\ call = [t \in Thread |-> <<>>] ELSE Array!Init
     ELSE /\ left \in Share[chosen]
          /\ call = [t \in Thread |-> <<>>] /\ seen = [t \in Thread |-> <<>>]
          /\ lock = NoThread /\ todo = <<>>
          /\ IF chosen = "hashmap" THEN Map!Init ELSE \E q \in Prefilled[left] : Tree!Init(q)
  /\ workers = {t \in Thread : left[t] > 0}

\* The loops of benchmark_mcas_mwobject and of benchmark_mcas_arrayswap.
Update(t) ==
  /\ \/ chosen = "mwobject" /\ Object!Step(t) /\ UNCHANGED call
     \/ chosen = "arrayswap" /\ Array!Step(t)
  /\ UNCHANGED <<made, crashed, loc>>

\* hm_lookup, hm_update and hm_mixed; bst_lookup, bst_update and bst_mixed.
Call(t) ==
  /\ left[t] > 0 /\ At(t, "idle")
  /\ \/ chosen = "hashmap" /\ \E name \in {"insert", "remove", "contains"}, k \in MapKey : Map!Call(t, name, k)
     \/ chosen = "bst" /\ \E name \in {"insert", "remove"}, k \in Key : Tree!Call(t, name, k)
     \/ chosen = "bst" /\ Tree!Call(t, "get_min", 0)
  /\ UNCHANGED left

\* The next step of the call of t.
Work(t) ==
  /\ \/ chosen = "hashmap" /\ Map!Step(t)
     \/ chosen = "bst" /\ Tree!Step(t)
  /\ UNCHANGED <<left, call>>

Return(t) ==
  /\ Leave(t)
  /\ left' = [left EXCEPT ![t] = @ - 1]
  /\ UNCHANGED <<mem, lock, todo, made, crashed>>

Operate(t) ==
  /\ chosen \in {"hashmap", "bst"} /\ ~crashed
  /\ Call(t) \/ Work(t) \/ Return(t)
  /\ UNCHANGED seen

Step(t) ==
  /\ Update(t) \/ Operate(t)
  /\ UNCHANGED <<chosen, workers>>

\* The history goes along.
Remember ==
  /\ chosen = "hashmap" => Map!Remember
  /\ chosen = "bst" => Tree!Remember
  /\ chosen \notin {"hashmap", "bst"} => UNCHANGED past

\* Every worker has returned and has been joined; a contains of the hash map
\* that has run into a deleted node goes on for ever.
Spins(t) == chosen = "hashmap" /\ Map!Spins(t)
Done == \A t \in Thread : left[t] = 0 \/ Spins(t)
Terminated == (Done \/ crashed) /\ UNCHANGED vars

Next == (\E t \in Thread : Step(t) /\ Remember) \/ Terminated

Spec == Init /\ [][Next]_vars

\* The scheduler runs every worker again and again until it has returned.
FairSpec == Spec /\ \A t \in Thread : WF_state(Step(t))

-----------------------------------------------------------------------------
\* Types of the structure and of the workers' local variables.
TypeOK ==
  /\ chosen = "mwobject" => Object!TypeOK
  /\ chosen = "arrayswap" => Array!TypeOK
  /\ chosen = "hashmap" => Map!TypeOK

\* No update is lost, made twice or split: in the memory the qcas under way
\* leaves behind, the four counters advance together, once per update, at the
\* first store of a qcas.
UpdatesAreAtomic ==
  /\ chosen = "mwobject" => Object!Abstract!Init
  /\ [][chosen = "mwobject" => Object!Abstract!Next]_(Object!Abstract!vars)

\* Four loads that straddle the stores of another worker never win: the qcas
\* of a worker that saw different values fails.
TornLoadsLose ==
  [][\A t \in Thread : chosen = "mwobject" /\ Object!QcasSucceeds(t) =>
       \A f, g \in Object!Field : seen[t][f] = seen[t][g]]_vars

\* Every swap takes effect once, at one instant and on the rows it was called
\* with: the first store of its dcas.
SwapsAreAtomic ==
  /\ chosen = "arrayswap" => Array!Abstract!Init
  /\ [][chosen = "arrayswap" => Array!Abstract!Next]_(Array!Abstract!vars)

\* No element is lost and none is in two rows once the dcas under way is over:
\* datum_free frees every element, once.
Permutation == chosen = "arrayswap" => Array!Abstract!Permutation

\* The lists of the hash map are whole once the qcas under way is over, and a
\* node that is out of the map has no links.
TableIsWhole == chosen = "hashmap" => Map!TableIsWhole

Decided(t) == "value" \in DOMAIN loc[t]

\* Every insert_or_assign of a new key links one node, every remove unlinks one
\* of its key at most, and nothing else changes what is in the map.
MapTakesEffect ==
  [][chosen = "hashmap" =>
       IF \E t \in workers : ~Decided(t) /\ Decided(t)'
       THEN \E t \in workers : ~Decided(t) /\ Decided(t)' /\ Map!TakesEffect(t)
       ELSE Map!Linked' = Map!Linked]_vars

\* A call of the hash map sees every node that was in it from the call to the
\* return: a second node for a key is made, a remove gives up and contains says
\* no only if none was.  What is assigned, removed or said to be there has been
\* in the map at some moment of the call.
MapIsRegular ==
  chosen = "hashmap" => \A t \in workers : At(t, "return") => Map!IsRegular(t)

\* Whatever the workers do to each other's nodes, the links of the search tree
\* form a tree.  It is in order until a remove overwrites the value of a node,
\* or links the child of one from outside the tree or when it no longer is.
TreeStaysATree ==
  chosen = "bst" =>
    /\ Tree!IsATree
    /\ past.overwritten \/ past.misled \/ Tree!InOrder

\* One worker alone finds its tree in order, is never misled, and changes it as
\* it should.
TreeIsRight ==
  (chosen = "bst" /\ Cardinality(workers) = 1) =>
    /\ Tree!InOrder /\ ~past.misled
    /\ \A t \in workers : At(t, "return") => Tree!DoesWhatItSays(t)

\* benchmark.h:65 "make sure all workers terminated": no worker retries for
\* ever, because a cas, dcas or qcas fails only if another worker's has
\* succeeded, unless the program crashes or runs into the loop of contains.
Termination == <>(Done \/ crashed)
=============================================================================
