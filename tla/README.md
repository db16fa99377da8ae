# mcas-benchmarks in TLA+

The repository compares three families of concurrent data structures under one
benchmark driver: with mutexes (`lockbased/`), lock-free with single-word
compare-and-swap (`lockfree/`), and lock-free with a multi-word
compare-and-swap, MCAS (`lockfree-mcas/` on `mcas/mcas.h`).  This directory
models the primitive, what it promises, and every structure of the three
families as the benchmark's workers use it; the concurrent ones down to their
loads and stores.

## Inventory

| part | state | operations | interacts with |
|---|---|---|---|
| `mcas/mcas.h` | `global_cas_lock` (mutex build); nothing (simulated processor) | `cas`, `dcas`, `tcas`, `qcas` | every structure of `lockfree-mcas/` |
| `benchmarks.cpp` `benchmark_mcas_mwobject` | four counters | update: four loads, `qcas`, retry | `mcas.h`, worker |
| `benchmarks.cpp` `benchmark_mwobject` | four counters, a mutex | update in one critical section | worker |
| `lockfree-mcas/array_swap.h` | array of pointers | `swap`: two loads, `dcas`, retry | `mcas.h`, worker |
| `lockbased/array_swap.h` | array of pointers, a mutex per row | `swap`: two mutexes in index order | worker |
| `lockfree-mcas/Deque.h`, `Queue.h`, `Stack.h` | two hats, nodes with links L and R, a dummy node | `push_front/back`: `dcas`; `pop_front/back`: `tcas` | `mcas.h`, worker |
| `lockfree-mcas/SortedList.h`, `HashMap.h` | doubly linked lists between sentinels | `insert`, `remove`, `count`; `insert_or_assign`, `remove`, `find`, `contains`: plain traversals, `qcas` | `mcas.h` |
| `lockfree-mcas/BinarySearchTree.h` | a binary tree | `insert`, `remove`: plain traversals, `cas`, `dcas` | `mcas.h` |
| `lockfree/Queue.h`, `Stack.h`, `SPSCQueue.h` | linked nodes | `push`, `pop` | hardware CAS, `std::atomic` |
| `lockfree/Deque.h` | top, bottom, a growing circular buffer, a list of stealers | `push_bottom`, `pop_bottom`, `steal`, reclamation | `std::atomic` |
| `lockfree/DoublyLinkedList.h`, `SortedList.h`, `HashMap.h`, `BinarySearchTree.h`, `DPointer.h` | nodes whose pointers carry a mark | add, remove, lookup with helping | double-word CAS |
| `lockbased/*.h` | the same structures behind one mutex | the same operations | worker |
| `benchmark.h` | worker threads | spawn, `n_ops / threadcnt` calls each, join | all drivers |
| `main.cpp`, `configuration.h`, `cxxopts.hpp`, `CMakeLists.txt` | the configuration | parsing, dispatch | drivers |

What is hard here, and what makes each part correct:

* **mcas.h.**  The mutex build stores the words of a call one by one.  Calls must
  be atomic to each other although readers do not take the lock.  Correct when
  every call is one atomic exchange in the order of the lock, and when the lock
  always comes free.
* **Everything on MCAS.**  Words are loaded one at a time, without the lock; what
  was loaded is stale, or a mixture of two states, when the MCAS compares it.
  Correct when every operation takes effect once, at one instant, and when
  retries end.
* **lockbased/array_swap.h.**  Two mutexes per operation: no circular wait, and no
  swap seen half made.
* **Deque.**  Two ends that become one when the deque is empty; dead nodes that
  other workers still hold.  Correct when it is linearizable to a sequence and a
  dead node stays dead.
* **Sorted list on MCAS.**  Walks over nodes that are being unlinked; an insert
  position, or a link tested a statement ago, that is stale when the `qcas` uses
  it.  Correct when the links mirror each other, every insert and remove takes
  effect once, a count misses nothing that stays, the list is sorted and no null
  pointer is followed.
* **Hash map on MCAS.**  Walks as in the list, but unsorted, with every new node at
  the tail.  Correct when the bucket's lists are whole, every call links or unlinks
  at most its own node, and a call misses no node that was there all the time.
* **Search tree on MCAS.**  One `cas` per change, on links that are loaded again
  after the walk; a value overwritten in place.  Correct when the links stay a tree,
  the tree stays in order and a call does what it says.
* **Lock-free queues and stack.**  A lagging tail, a stale head: linearizable.
* **Work-stealing deque.**  Buffers that are replaced and freed while stealers read
  them; one element wanted from both ends.  Correct when every element is taken once
  and no steal reads a deleted buffer.
* **Lock-free list, hash map, tree.**  A pointer and a mark changed together but
  copied in two loads; helping.  Correct when no inserted node is cut off, no walk
  goes round, and the tree is a set.
* **Structures with one mutex.**  Sequential; what can go wrong are sequences of
  calls: links to deleted nodes, subtrees that are dropped.

## Modules

| module | models | how |
|---|---|---|
| `MCAS` | `mcas/mcas.h` | operators on `mem`, `lock`, `todo`: `Succeed`, `StoreNext`, `Fail`; no `Next` of its own |
| `AtomicMCAS` | what `mcas.h` promises | one atomic exchange between call and return |
| `MCASCalls` | threads calling `mcas.h` with any arguments | `Invoke`, `Exchange`, `Continue`, `Reject`, `Return` |
| `MWObjectSpec`, `McasMWObject` | `benchmark_mcas_mwobject` | `Load`, `QcasSucceeds`, `QcasStores`, `QcasFails` |
| `ArraySwapSpec`, `McasArraySwap` | `lockfree-mcas/array_swap.h` | `Call`, `SameIndex`, `Load`, `DcasSucceeds`, `DcasStores`, `DcasFails` |
| `LockArraySwap` | `lockbased/array_swap.h`, statement by statement | `Call`, `Lock`, `StoreA`, `StoreB`, `Unlock`, `Return` |
| `DequeSpec`, `McasDeque` | `lockfree-mcas/Deque.h` and its wrappers | `Call`, `Load`, `PopEmpty`, `PushDcas`, `PushStores`, `PopTcas`, `PopStores`, `Retry`, `Return` |
| `ListSpec`, `McasSortedList` | `lockfree-mcas/SortedList.h` | `Call`, `Walk`, `TestNext`, `TestPrev`, `LoadPrev`, `LoadNext`, `ReloadPrev`, `QcasSucceeds`, `QcasStores`, `QcasFails`, `QcasFaults`, `Return` |
| `McasHashMap`, `McasBST` | `lockfree-mcas/HashMap.h`, `BinarySearchTree.h` | the map: `Walk`, `Assign`, `LoadLinks`, `QcasSucceeds`, `QcasStores`, `QcasFails`, `QcasFaults`; the tree: `InsertRoot`, `Walk`, `Link`, `Kids`, `Leaf`, `Two`, `RootWithOne`, `InnerWithOne`, `GetMin` |
| `McasBenchmarks` | the program with `-s lockfree-mcas -a mwobject/arrayswap/hashmap/bst` | chooses one of the four; `Update` for the object and the array, `Call`, `Work`, `Return` for the map and the tree; their properties |
| `MSQueue`, `TreiberStack`, `SPSCQueue`, `WorkStealingDeque`, `DoublyLinkedList`, `SplitOrderedMap`, `ExternalBST` | `lockfree/Queue.h`, `Stack.h`, `SPSCQueue.h`, `Deque.h`, `DoublyLinkedList.h` with `SortedList.h`, `HashMap.h`, `BinarySearchTree.h` (with `DPointer.h`) | one `Step(t)` each, made of the operations' steps |
| `Frames` | the call and the local variables of a worker | `Enter`, `Go`, `Returns`, `Leave` |
| `LockFree` | the program with `-s lockfree` | chooses a structure, `Call`, `Work`, `Return` |
| `LockDeque`, `LockSortedList`, `LockHashMap`, `LockBST` | `lockbased/Deque.h` (with `Queue.h`, `Stack.h`), `SortedList.h`, `HashMap.h`, `BinarySearchTree.h` | one action per operation; the tree's `insert` and `remove` one per iteration |
| `LockBased` | the program with `-s lock`, and `benchmark_mwobject` | chooses a structure, `Call`, `Continue` |
| `MC*` | constants of the runs | |
| `MCASProofs`, `McasBenchmarksProofs`, `LockArraySwapProofs`, `McasDequeProofs`, `McasSortedListProofs`, `LockBasedProofs`, `LockFreeProofs`, `LockFreeListProofs` | theorems | `MCASProofs` also has the lemmas on the operators of `MCAS`; the proofs about its clients instantiate it |

A run of the program exercises one structure, so `LockBased`, `LockFree` and
`McasBenchmarks` choose one in `Init` (`chosen`, from the command line) and their structures
share the variables: `mem` is whatever the structure keeps.  A structure is a module
with `Init`, its calls and `Step(t)`, instantiated by the program's module, which adds
the driver: which calls a worker makes, how many, and the join.

`MCASCalls` extends `MCAS`; the structures instantiate it with their words
(`M == INSTANCE MCAS WITH Addr <- ...`), so one model of the primitive is under
all of them.  Each abstract specification is shown to be implemented with
`INSTANCE ... WITH` and a refinement mapping.

**State.**  `mem[a]` is what a plain load of word `a` returns; `lock` is the owner of
`global_cas_lock`; `todo` are the stores it has still to make.  `Settled` is the
memory once they are made, and the value at which every refinement mapping looks.
A worker's local variables are `seen` (what it has loaded in this round of its
loop), `call` (its arguments) and `left` (the calls it has still to finish,
`n_ops / threadcnt` in `benchmark.h`).

`McasSortedList` has a program counter besides, and the local variables under
the names of the source (`curr`, `prev`, `next`, `n_val`); `crashed` is set by a
`qcas` on a word of a null node (`QcasFaults`) and stops every worker.  `ListSpec`
promises what the list keeps whatever its order is; that it is sorted is a
property of its own, which the code does not have (see Findings).

In the modules over `Frames`, `call[t]` is the call and `loc[t]` the frame: a record of
the locals set so far under the label of the next access to shared memory.

Variables that are not in the code: `stayed` (the nodes a count must not miss) and `past` (what was in
a map during a call), `items` and `last` of the lock-based structures (what a sequential
structure would hold and answer), `undefined`, `torn` and the crash flags.

**Grain.**  A load is a step, a store is a step; tests and assignments of locals go with
the load before them.  Taking `global_cas_lock`, comparing and the first store of a
call are one step, since only owners of the lock store to shared words; the last
store and the release are one step.  In the simulated processor's build
(`Gem5 = TRUE`) a whole call is one step.  An operation of `lockbased/` is one
critical section and one step, except that the search tree's walk is one step per
iteration.  A `DPointer` is changed by one double-word compare-and-swap, and copied
by two loads or two stores; where the code uses only one half, or the other half
cannot have changed meanwhile, one step stands for both loads.  Memory is
sequentially consistent: loads happen in the order of the source (the build file's
default is an unoptimised Debug build), and a later load overtaking an earlier store,
which x86 allows, is not modelled.  Random choices of the drivers are `\E`.  Elements
are numbers that stand for the nodes or pointers; `-1`, the result of an empty pop,
is `Empty`.  Nodes of the MCAS structures and of the lock-free lists and trees are
never freed while workers run, so a node's name is never reused; Treiber's stack
keeps a node alive as long as a worker points to it.  The lock-based deque, the
single-producer queue and the work-stealing deque do delete, and their models
remember what was deleted.

## Runs

| run | bounds | shows |
|---|---|---|
| `MCMCASCalls_lock` | 2 threads, 2 words of 2 values, calls of 1-2 words, mutex build | types; the lock is held exactly while stores are pending (`LockDiscipline`); `Atomic`: the calls implement `AtomicMCAS`; `LockComesFree`, `SomeCallReturns` |
| `MCMCASCalls_readers` | 2 threads, mutex build | **violated**: `AtomicToReaders`, see Findings |
| `MCMcasBenchmarks_arrays` | 3 workers; object: 2 updates each, counters modulo 4; array: 1 swap each, 3 rows, any two rows; mutex build | `UpdatesAreAtomic`: implements `MWObjectSpec`; `TornLoadsLose`: mixed loads never win; `SwapsAreAtomic`: implements `ArraySwapSpec`; `Permutation`; `Termination` |
| `MCLockArraySwap` | 3 workers, 2 swaps each, 3 rows | `SwapsAreAtomic`; `NoCircularWait`; `PermutationWhenDone` |
| `MCMcasDeque_deque` | 3 workers with 1 call each from 0-2 elements, 2 workers with 3 and 2 calls from 0-1 | `Linearizable`: implements `DequeSpec`; `WellLinked`; `DeadForGood`; `Termination` |
| `MCMcasSortedList` | 2 workers, 2 calls each of `insert`, `remove`, `count`, keys 1 and 2, 0-1 nodes at the start | `ListIsWhole`; `EffectsAreAtomic`: implements `ListSpec`; `CountIsRegular`; `Termination` |
| `MCMcasSortedList_sorted` | 2 workers, 1 call each | **violated**: `Sorted`, see Findings |
| `MCMcasSortedList_null` | 2 workers, 1 call each | **violated**: `NoNullDereference`, see Findings |
| `MCMcasBenchmarks_maps` | 2 workers; map: 2 calls each, 2 keys of one bucket, 0-1 nodes at the start; tree: 1 call each, or one worker with 3, on five trees of 0-3 nodes, 3 keys; the instruction's build | map: `TableIsWhole`, `MapTakesEffect` (each call changes the set of nodes by its own node only), `MapIsRegular` (each answer is judged by the nodes that were there throughout, or at some moment); tree: `TreeIsRight`; `Termination` |
| `MCMcasBenchmarks_tree` | 3 workers, 1 call each on five trees of 0-3 nodes, or 1+2 calls of two on a chain of 3, 3 keys; the instruction's build | `TreeStaysATree` |
| `MCLockFree` | queue, stack: 2 workers with 3 calls each or 3 with 1; single-producer queue: 3 pushes, 3 pops; work-stealing deque: owner and thieves with 5+1, 3+2, 1+1+1 calls from a buffer of one slot; list: 2+1 calls on 0 or 2 nodes; map: 2+2 calls, 3 keys of 4 bits; tree: 1+1 calls, or one worker with 4, on four trees of 0-3 keys | `StackIsLinearizable`, `QueueIsLinearizable`, `DequeIsLinearizable`: the structures implement `DequeSpec` (with the exceptions below); `BuffersOutliveSteals`; `ListStaysWhole`; `LinksLeadOn`; `TreeIsASet`; `Termination` |
| `MCLockBased` | 2 workers, 3 calls each, 3 keys, 2 values, 2 buckets, up to 6 nodes | `PopsAreRight`, `StackIsSafe`, `ContentsAreRight` (`ListIsRight`, `MapIsRight` and `TreeIsRight`): each structure against the history of its calls |

Why the bounds are enough: a call of `mcas.h` is disturbed by another one on an
overlapping word, which two threads and two words give; a third worker adds a swap
away and back between load and `dcas`, and a third party for a ring of waits.  The
counters wrap around within the six updates.  The deque's ends meet between zero
and two elements, and three calls of one worker let a node be pushed, popped and be
found dead by another.  In the list, two calls of each of two workers let neighbours
be unlinked at the same time, a node be unlinked under a walk, a count start over
after it has counted, and an insert meet a deleted successor.  In the map two calls
of each worker insert a key twice, remove a node under an assignment and under a
`contains`.  Drivers of the hash maps use keys below the number of buckets, so each has
a bucket of its own; the models put the keys of the workers in one bucket, as the
class allows, since calls on different buckets share no word.  The prefilled trees
hold every shape `remove` distinguishes: no root, a leaf at the root, one
child on its own and on the other side, two children.  A work-stealing buffer of one slot
grows twice and shrinks within five calls of the owner; the real one starts larger,
and meets the same cases later.  The four-bit keys of the split-ordered map put the
lists of both parities to use; `LinksLeadOn` includes that no two keys become one.
`Val = {0, 1}` and `Modulus = 4` make a word return to an earlier value.  Symmetry of
threads (and of words, in `MCASCalls`) is used only in runs without liveness.
`WellLinked` and `ListIsWhole` include the types of the deque and of the list; the types
of the object, of the array swap and of the map are proved, so no run checks them again.

`MCMCASCalls_lock` checks the mutex build and `MCMcasBenchmarks_maps` and `_tree`
run on the instruction's;
that the calls are atomic in both is a theorem (`CallsAreAtomic`).

**Exceptions written into properties.**  They are weaker than a client might expect
where the code does less, and the comment above each says how much:

* A pop of the Michael-Scott queue that returns -1 need not take effect where the
  abstract pop would: it has seen the queue empty at some moment since it loaded the
  tail (`PopsNothing`), though elements may have come in since.
* A steal may give up with elements there (`GivesUp`); `DequeIsLinearizable` and
  `ListStaysWhole` end with the first read of a slot that was overwritten or of a
  torn pointer and mark.
* `TreeIsASet`, with several workers, ends when a removal comes to its
  compare-and-swap; with one worker it holds throughout.  `Termination` leaves out the
  lock-free tree with several workers, and counts a worker inside the endless loop
  of the MCAS map's `contains` as done.
* `TreeIsRight` (MCAS) is about one worker.  `TreeStaysATree` always says that the links
  form a tree; that the tree is in order it says until a remove overwrites a value
  or links a child by what it saw too long ago (`past.misled`).  Both exceptions are
  needed: without either of them, and without either kind of misled remove, TLC finds the
  tree out of order.
* `TreeIsRight` (lock-based) says that no value is there too often, not that it is there.

**Fairness.**  `WF_vars(Step(t))` for every worker: the scheduler runs every thread.
It is weak: `std::mutex` promises no order among waiters, and no run assumes one.
A step that waits for the lock is disabled while another worker owns it.
`Termination` says that all workers finish their bounded number of calls, or that
the process has crashed or its behaviour is undefined, after which the workers make
no step.  In `McasBenchmarks` the fairness is on the state without the history `past`.
`MCLockBased` and `MCLockArraySwap` check safety only: a critical section is
a step, or `NoCircularWait` shows that no one waits for ever.

Deadlock is checked in every run; workers that are done stutter (`Terminated`).

## Proofs

Checked by TLAPS for any set of threads, words and values, any longest call, any
number of updates and both builds, from the assumptions on the constants alone
(`NoThread` is not a thread, `Gem5` is a Boolean, the bounds are naturals, the special
nodes differ; in the list, the lock-based and the lock-free structures the workers are
finitely many, since the nodes are numbered and there is one for every call; in the
lock-free ones `Void`, `Empty` and `Pending` are no nodes, the queue of one producer
has one consumer, the first buffer of the work-stealing deque has slots, the keys of the
list lie between those of its dummies, and those of the hash map lack the bit that
`makeRegularKey` sets; the MCAS map has a bucket, room for a node, and key 1, with
which it can be filled; the provers know nothing of `^`, so `WordAssumption` also says
that powers of two are positive and double):

* `MCASProofs`: `TypeCorrect`, `LockIsSound` (`LockDiscipline`, `OwnerStores`) and
  `CallsAreAtomic` (`Atomic`).  The inductive invariant is the conjunction of the
  three invariants and `CallHasWords` (a call that has begun has words).  The
  refinement rests on one lemma on the operators: a store of a pending word leaves
  `Settled` unchanged (`StoredFirst`), so all of a call happens at its first store.
* `McasBenchmarksProofs`, for the object: `TornUpdatesLose` (`TornLoadsLose`) and
  `NoLostUpdate` (`UpdatesAreAtomic`).  The inductive invariant adds to the types
  (`TypeCorrect`) that all counters of `Settled` are equal and that an owner's pending
  stores are the tail of one increment; a `qcas` that succeeds then compared four
  equal values, and advances all of them.
  For the array, with any number of rows: `NoElementLost` (`Permutation`) and
  `SwapsTakeEffectOnce` (`SwapsAreAtomic`).  The invariant adds that pointers are
  loaded only for a call with two different rows, that a worker at its stores has
  loaded both, and that `Settled` is a permutation.  A `dcas` that succeeds has found
  the rows as loaded, so what it stores is the exchange of their elements in `Settled`.

  For the hash map, with any number of buckets, nodes and keys: `TableStaysWhole`
  (`TableIsWhole`), `CallsTakeEffect` (`MapTakesEffect`) and `CallsSeeTheMap`
  (`MapIsRegular`).  None of the three is inductive: a walk can be at a node that has left
  its list, or at a link that the `qcas` under way takes back.  The lists are not sorted,
  so keys do not tell whether a walk has passed a node; but new nodes are linked in
  front of the tail, so the time of linking does.  The inductive invariant (`TableInv`)
  says that there are ranks `r`, rising with that time, so that a settled link leads to
  the first node of higher rank that is still in the list (`Ahead`, `Chained`), and so
  does a link in memory that is about to be cleared (`Memory`); that no two nodes of
  the map have one rank (`Ranks`); and of each worker (`Worker`) that its walk has
  passed no node of its key that has been in the map since the call began (`Walks`),
  that the node of an insert is known to nobody else until it is linked (`Owns`,
  `Met`), and that what the call has found was in the map meanwhile (`Found`).  An insert
  gets the rank of the tail, which is raised (`LinkTable`); a removal leaves all ranks as
  they are (`UnlinkTable`).  A `qcas` that finds the four words as expected has found the
  neighbours of a node that is in the list (`UnlinkFinds`), or the last node and the
  tail; one with a null pointer is a crash instead (`NoFault`), after which nothing moves.  That the way from a head
  meets every node of its bucket and ends (`Followed`) needs no induction: its ranks
  rise, and a way of more steps than there are nodes would meet one twice.
* `LockArraySwapProofs`: `TypeCorrect`, `WaitsAreAcyclic` (`NoCircularWait`),
  `NoElementLost` (`PermutationWhenDone`) and `SwapsTakeEffectOnce`
  (`SwapsAreAtomic`), from the assumption that there is a row and that the bounds
  are naturals.  The inductive invariant ties the owner of a mutex to the worker's
  statement (`MutexesHeld`), orders the rows of a call, and says that between the
  two stores both rows hold the higher row's element (`Calls`).  A worker that waits
  for another waiting worker wants a lower row than that one (`WaitsUpwards`); since
  the rows are finitely many, no set of workers, not even an infinite one, waits
  for its own members only.
* `McasDequeProofs`: `TypeCorrect`, `LinksAgree` (`WellLinked`), `DeadStayDead`
  (`DeadForGood`) and `DequeIsLinearizable` (`Linearizable`).  The proof treats both
  sides at once: a side is `"L"` or `"R"`, and `Nth` counts the contents from it.
  The inductive invariant (`IInv`) says how the settled links follow from the
  contents (`Shape`: hats, neighbours, dead nodes outside the ends); that a load made
  between the stores of a call finds a node that others can have come across, and a
  link of a node to itself only at a dead one (`Covered`); what a worker's loads still
  mean when the `dcas` or `tcas` compares them (`SeenOK`: a node that looked dead is
  dead for good); what the owner of the lock has still to store (`OwnerOK`); and that
  the node of a push under way is nobody else's (`PrivateOK`).  `WellLinked` alone is
  not inductive: it says nothing of what was loaded before, and so not why comparing
  pointers suffices.  A hat that is still at the loaded node, with that node's
  links as loaded, leaves one contents only; and a pop that saw its hat twice at
  a dead node saw the deque empty at the second load.
* `McasSortedListProofs`: `TypeCorrect`, `ListStaysWhole` (`ListIsWhole`),
  `CountsAreRegular` (`CountIsRegular`) and `InsertsAndRemovesAreAtomic`
  (`EffectsAreAtomic`).  The inductive invariant says that there is a path: `k` nodes
  `p[1]` to `p[k]` between the head and the tail, which the settled links follow in
  both directions (`PathOK`), and that every node that is neither on the path nor
  private has two null links (`RestOff`).  It needs more than `ListIsWhole` because
  walks read the memory between the stores of a `qcas`: a next link that is not
  settled yet is one that becomes null, and leads to a node of the path (`Behind`);
  links, locals and pending stores never lead to a private node (`Known`).  So a walk is
  always at a node from which it goes on along the path or finds null.  A `qcas`
  that succeeds has compared links only, not keys: `InsertPlace` and `DeletePlace`
  find the position of the path where its words agree with the settled links, and the
  new path is `WithNode` or `Without`.  For a count the invariant keeps a set of nodes,
  as many as it has counted, with every node of `stayed` up to the walk's position and
  none after it (`Counted`, `UpTo`); an insert or a delete moves positions, but no
  node across the walk's.  That the way `After` finds is the path (`AfterIsAlong`)
  needs no induction: two ways would differ at a least step (`OneWay`).
* `LockBasedProofs`: `PopsReturnTheEnds` (`PopsAreRight`) and
  `StackNeverFollowsDeleted` (`StackIsSafe`), for the stack, the queue and the deque;
  `SortedListIsRight` (`ListIsRight`), `HashMapIsRight` (`MapIsRight`) and
  `SearchTreeIsRight` (`TreeIsRight`), and the three together, `ContentsStayRight`
  (`ContentsAreRight`).
  None of the properties is inductive.  For the deque: what a pop returns depends on
  every link from its end inwards, and whether it uses a deleted node on the links the
  earlier pops left behind.  The inductive invariant (`Holds`) says that there are places on the
  integers, the sentinels at `lo` and `hi` and between them the nodes with the
  elements `items`; that inner neighbours are linked both ways; and that the links
  outwards of the first and the last node, which pops do not repair, lead to the
  sentinel or to a deleted node.  In the stack the link at the far end is always the
  sentinel's (`closed`), so a pop from an empty stack sees that it is empty.  A push
  or a pop changes `lo` only, and `Turn` reads the same deque from the other side, so
  each is proved once for both.  That a node is left for every push follows from a
  count: the calls that remain (`Budget`) never exceed the nodes that are not
  allocated yet (`Unused`).
  The operations of the list and of the map walk from a sentinel, and what the walk meets
  depends on every link.  The invariant says which nodes are linked (`N`), that they are
  joined between their sentinels, in both directions and in some order (`Joins`), and
  that they hold what the calls should have left (`IsList`: the order agrees with the
  data, and there are `items[k]` nodes with `k`; `IsMap`: one such order for each bucket,
  each key once, with its value).  An insert or a remove changes the order by one node
  (`JoinInsert`, `JoinRemove`); in the map the other buckets are left alone
  (`JoinSame`).  What a walk of `MaxNodes` steps meets follows from three lemmas without
  induction over data: its steps go up in the order, so they end (`WalkEnds`: more steps
  would need more nodes than there are), they meet every node that no step passes
  over (`WalkMeets`, so `count` sees them all), and they stop right before the first node
  they look for (`JoinParent`).
  The tree: since `insert` replaces the child at every level of its descent (see below,
  "What else the models met"), the tree never has more than a root and two leaves, and the invariant
  says so (`IsTree`), with the order of the three values.  `TreeIsRight` is about the
  moments when `bst_lock` is free; the invariant also follows the call that holds it.
  An insert is at the root with its node still to be linked, so there is one less of its
  value than there should be, or at the leaf it has just cut off (`Inserts`).  A remove is
  at the root or at the leaf its walk leads to, and there may be one more of its value
  than there should be, unless the leaf it is at has another value (`Removes`): a value
  can be on one side of the root only, so a walk that ends has missed none.  When the
  root takes the value of its right child, that value is there twice until the next
  step.  Every step changes the counts of the values by one node (`Bounds`), and
  makes a tree again of a root and leaves that are in order (`RootMakes`).
* `LockFreeProofs`: `StackLinearizes` (`StackIsLinearizable`), for Treiber's stack and the
  queue of one producer and one consumer, and `QueueLinearizes` (`QueueIsLinearizable`) for
  the queue of Michael and Scott.  The elements are read along the links by a
  recursive function; the lemmas say that such a walk exists and is the only one
  whenever a rank falls along the links (`WalkExists`, `WalksAgree`: two walks would
  differ at a node of least rank), so no induction over data is needed.  For the stack
  the invariant gives the nodes such a rank, and a set `C` closed under the links whose
  highest node is the head (`StackShape`).  The node of a push is outside `C` and known
  to no other worker (`Private`); the link a pop has loaded is still that of its node
  while that node is the head (`Found`), since nodes are not reused as long as
  a worker points to them: a compare-and-exchange that succeeds takes or adds one
  element.  For the queue of one producer the nodes between head and tail are consecutive
  (`SPSCShape`), the producer fills and links its node before it publishes it
  (`ProducerOK`), and what the consumer has found stays (`ConsumerOK`).  For the
  Michael-Scott queue there is a path `p[0]` to `p[k]` from the sentinel, with the head at
  `h` and the tail at `l` of it, `l` being `k` or `k - 1` (`QueueShape`); it only grows, so what
  a worker has loaded is a place on it that stays (`PushFrame`, `PopFrame`).  That is why
  a node with a null link is the last one (`QueueLink`), why a compare-and-exchange of
  the tail takes it one node on or does nothing (`QueueSwingTail`), and why a pop that
  returns -1 has seen no element: it found head and tail at one node, which still is
  the head.  While the tail is one behind there is a push at its last statement whose
  node is the last (`QueueWorkers`): its effect is the swing, by whichever worker.
  `Room` counts the calls that have not begun: there is a node for each.

  `BuffersAreSafe` (`BuffersOutliveSteals`): the Reclaimer of the work-stealing deque
  deletes no buffer under a stealer.  A stealer that has loaded the buffer (`Holds`) has a
  record in the list, its own, that is busy and has the id 0, since the id is
  only stored when the steal is over and a new `Stealer` makes a new record
  (`RecordsOK`).  The owner takes the least id of the busy records it passes, starting from
  the id of the current buffer, so the invariant during the walk is: a held buffer is not
  below the least id so far, or its record is still to come (`ScanOK`).  A stealer
  that enters behind the walk, or sets its record busy after the owner has passed it,
  loads its buffer after that, and then it is the current one (`StealerMoves`), which the
  owner does not replace before it has finished.  Hence what is deleted is below every
  held buffer (`BuffersOK`).  The order of the store before a steal (busy) and
  the load of the buffer carries the proof, and so does that of the owner's store of the
  new buffer and its loads of the records.  `Deque.h` has a fence only between the first
  two (185), none between the last two (136, 174 and 215): the proof is one for
  sequentially consistent memory.

  `DequeLinearizes` (`DequeIsLinearizable`): a push takes effect when it stores the new
  bottom, a pop when it has lowered the bottom or, at the last element, won the race for
  the top, a steal when it advances the top.  The invariant (`DequeOK`) says that the
  elements are those from the top to the owner's bottom, never more than the current
  buffer has slots (`DequeShape`), so that each has a slot of its own (`SlotsDiffer`)
  and the slot a push fills is not an element's (`HasRoom`); a larger or smaller buffer
  takes all of them over (`BufferResized`), since the top only grows while the owner
  copies.  What a stealer has seen is older than the top it compares: if the top is
  still the one it loaded, there is an element there (`StealerFrame`), because the
  owner takes that one only by the same compare-and-exchange.  That rests on the owner
  lowering the bottom before it loads the top (152-154) and on the stealer loading the
  top before the bottom (184-186); `Deque.h` has its two full fences exactly there.
  The claim ends with a stealer that reads its slot, or the id of a buffer, too late.
* `LockFreeListProofs`, which extends `LockFreeProofs`: `ListIsWhole`
  (`ListStaysWhole`) and `LinksAlwaysLeadOn` (`LinksLeadOn`), both from `LinksInv`.
  The nodes that can be reached from the head of the list are
  the least set that holds the head and that no link leaves (`ReachedIsLeast`: the walk
  of the definition stops growing before it has made as many steps as there are nodes).
  So that nothing is lost is a matter of two sets closed under links: leading the link
  of a node past its marked successor loses that successor alone (`ReachedWithout`), and
  linking a new node in after a reached one loses none (`ReachedWith`).  For the first
  the invariant (`ListOK`) says that a worker passes in `fixforward` only nodes that are
  marked (`Passes`), since marks stay; for the second, that a node is private until its
  own insert links it (`OwnNodes`, `Links`), and that an insert knows where it goes on after
  `fixforward` and `reflectforward`, which the removals call too (`Continues`).

  For the hash map the invariant (`MapOK`) says the same as `LinksLeadOn` of what a
  worker has read as of the links themselves: `pred` led on to `curr`, and `curr` to
  `succ`, when it read them (`Looks`).  Keys of nodes never change, so whatever `getnext`
  stores leads on still, although the links it read may have changed by then; a new
  node is the youngest, so it may lead to one with its own key.  That no two keys
  are confused is arithmetic: the reversal of a word is followed from its
  highest bit down, each bit being the rest of a division (`ReversalIsInjective`), a
  regular key has its lowest bit set and so is none of a head (`RegularKeysAre`).
  These are statements about every word size, so they are proved with a least bit at
  which they would fail.

`McasDeque` and `McasSortedList` number their nodes, and a call that allocates takes the
least number not used yet (`Unused`).  `MaxNodes` and `Node` are large enough for all calls
of the runs, so there the guard `Unused # {}` never delays a call.  So it is in
`McasHashMap`, where an `insert_or_assign` begins only with a node left.

Model-checked only: liveness (out of the prover's reach: `Termination`, `LockComesFree`,
`SomeCallReturns`); the MCAS tree (`TreeStaysATree`, `TreeIsRight`); and the lock-free
tree (`TreeIsASet`).

## Findings

`mcas.h` comments each operation "// atomically" (90, 104, 119, 139).  The mutex
build is atomic only to other MCAS calls: `MCMCASCalls_readers` ends with one word
of a `dcas` changed and the other not, a memory that is neither the one before the
call nor the one after it.  The structures tolerate it,
which is what `TornLoadsLose`, `SwapsAreAtomic`, `Linearizable` and `ListIsWhole` show.

`SortedList.h` does not stay sorted (`MCMcasSortedList_sorted`): the `qcas` of
`insert_before` (37) checks that the node in front of the position is still
linked to it, not that its key is still smaller, and it takes that node from a load
(33) made long after the walk (115) that compared keys.

`SortedList.h` can follow a null pointer (`MCMcasSortedList_null`): `insert_before`
tests `next->prev` (28) and loads it again (33).  In the mutex build the half-null
pair that `delete_node` lets through (83) is harmless, since the first word of the
`qcas` differs then and the comparison stops there; the instruction of the
simulated processor loads all the words.

## What else the models met

These are disagreements of the code with what a structure of its name should do.
No line of the repository promises the contrary, so they have no run of their own;
the properties above are stated around them.

* `lockbased/Deque.h` 72-87: `pop_front` leaves the `prev` link of the new first node,
  or of the tail, on the deleted one (and `pop_back` the `next` link).  A later call
  at the other end, `push_back` of the queue among them, follows it.  The stack
  does not (`StackIsSafe`).
* `lockbased/BinarySearchTree.h` 59-63: `insert` assigns the child link at every level
  of its walk, and so drops the subtree that was there.
* `lockfree-mcas/HashMap.h`: two `insert_or_assign` of one key make two nodes (140); a
  `contains` that meets a deleted node never returns (163-168); an assignment can
  go to a removed node (147); `delete_node` lets a half-null pair through (95).
* `lockfree-mcas/BinarySearchTree.h`: `insert` loads the link again (64, 73) and swaps it
  for its node whatever is there by then, which drops a subtree; a null `prev`
  when the root has gone; `remove` stores a value with a plain store (140), also
  `INT_MAX` of an empty `get_min`; a node whose only child is on the other side is
  unlinked through the wrong link (184-207), so it stays; a leaf that is
  no longer the root drops the whole tree (128-135).  A remove of a root with one child
  loads the child (150) and swaps the root for it even if the child was removed in
  between, which brings it back above what was inserted since; one below the root
  hangs its child under a `prev` that may be out of the tree (183-218), and an insert
  still walking there is led past a key it should have met.  The second word of each `dcas` is
  the caller's own `curr`, so it compares nothing.
* `lockfree/Deque.h`: a stolen slot can be overwritten before it is read (194-196);
  a stealer reads the id of a buffer that may be deleted (287-288).
* `lockfree/DoublyLinkedList.h`: `deleten` marks the first node that is not smaller, even
  if its key differs (36); `deleteNode` returns true when its swap has failed
  (44-46); an insert behind a marked predecessor is given up and reported to
  nobody (126); pointer and mark of one copy can belong to different moments.
* `lockfree/HashMap.h` 39-40: `getnext` skips a deleted node with two plain stores, over
  an insertion made since; a walk can then meet a null pointer.  `add` inserts a key
  that is there a second time.
* `lockfree/BinarySearchTree.h`: near the root `seek` takes the parent for the ancestor
  (298-301); `cleanUp` swaps the ancestor's edge from whatever it holds now
  (276-290), so a concurrent insertion is lost or a removed key comes back; a helper
  of a removal that is over can give a leaf a child; two insertions that help such
  a removal undo each other for ever.  `get_min` looks at inner nodes only, whose keys
  may have been removed.
* `benchmarks.cpp` 590-595 gives the lock-free tree's driver one tree twice, and 167 makes
  both choices of the deque's driver one.

## Not modelled

The simulated processor's instruction is an assembler block without a memory
clobber; what a compiler may do with it, and the reordering of a store with a later
load, are outside the models.  Memory exhaustion, timing, affinity and output are
left out, as are the division of `n_ops` by the number of threads (the models take the
calls of each worker as a constant), destructors, which run after the workers
are joined, and functions that no driver reaches: `insert_after`, `print_all`,
`get_max` of three trees, `lookup`, the sentinel splicing of the split-ordered map.
`main.cpp`, `configuration.h`, `cxxopts.hpp` and the build file hold no concurrent
state; what they choose is `chosen`, `Share` and `Gem5`.

## Plan

Done: every structure is modelled and checked; the primitive, the object, both array
swaps, the MCAS deque, the MCAS list, the MCAS hash map, every structure under one mutex,
Treiber's stack, the two lock-free queues, the work-stealing deque with its
reclamation, and the shapes of the lock-free list and hash map are proved.  What is left
are theorems about the two other trees:

1. `McasBenchmarks`: `TreeStaysATree`, with the nodes each call still holds.
2. `LockFree`: `TreeIsASet`, up to the first compare-and-swap of a removal.
