--------------------------- MODULE McasSortedList ---------------------------
(***************************************************************************)
(* lockfree-mcas/SortedList.h under the benchmark's workers: a doubly      *)
(* linked list between two sentinels, walked with plain loads and changed  *)
(* with a qcas.  insert and remove walk to a position, test it, and link   *)
(* or unlink there; a deleted node has two null links, and a walk that     *)
(* runs into one starts over.  A qcas on a word of a node that turned out  *)
(* to be null ends the process.                                            *)
(***************************************************************************)
EXTENDS Naturals, Sequences, FiniteSets

CONSTANTS Thread,     \* the workers
          NoThread,   \* the owner of a free global_cas_lock
          Gem5,       \* the build of mcas.h
          Ops,        \* the calls each worker makes (n_ops / threadcnt)
          Key,        \* the data of a node
          MaxPrefill, \* the most nodes inserted before the workers start
          head, tail, \* the sentinels
          Null        \* nullptr

Node == 1 .. MaxPrefill + Ops * Cardinality(Thread)

ASSUME McasSortedListAssumption ==
  /\ NoThread \notin Thread /\ IsFiniteSet(Thread) /\ Gem5 \in BOOLEAN
  /\ Ops \in Nat /\ MaxPrefill \in Nat
  /\ Key \subseteq Nat \ {0}
  /\ Cardinality({head, tail, Null}) = 3
  /\ {head, tail, Null} \cap Node = {}

VARIABLES mem, lock, todo,  \* the links, and mcas.h: see MCAS
          data,     \* data[n]: the key of node n, 0 if it has not been allocated
          call,     \* call[t]: <<name, key, new_node>>, <<>> outside
          pc,       \* pc[t]: the statement t is at
          curr,     \* curr[t]: the node the walk of t has reached
          prev,     \* prev[t]: prev of insert_before and delete_node
          next,     \* next[t]: next of delete_node
          n_val,    \* n_val[t]: what a count has counted
          left,     \* left[t]: the calls t has still to finish
          crashed,  \* a null pointer was dereferenced: the process is gone
          stayed    \* history: the nodes with the key of a count that were in
                    \* the list from its call on

vars == <<mem, lock, todo, data, call, pc, curr, prev, next, n_val, left, crashed, stayed>>

\* The words.  Those at Null are there to be named: no step gets past Faults
\* with one.
Link == ({head, tail, Null} \cup Node) \X {"next", "prev"}

M == INSTANCE MCAS WITH Addr <- Link, Val <- {head, tail, Null} \cup Node

\* The list with the keys of q, one node each.
Filled(q) ==
  LET Nth(i) == IF i = 0 THEN head ELSE IF i > Len(q) THEN tail ELSE i
      Pos(a) == CHOOSE i \in 0 .. Len(q) + 1 : Nth(i) = a
  IN  [a \in Link |->
         CASE a[1] = Null \/ a = <<head, "prev">> \/ a = <<tail, "next">> -> Null
           [] a[1] \in Node /\ a[1] > Len(q) -> Null
           [] OTHER -> Nth(IF a[2] = "next" THEN Pos(a[1]) + 1 ELSE Pos(a[1]) - 1)]

Init ==
  /\ M!InitMCAS
  /\ \E q \in UNION {[1 .. k -> Key] : k \in 0 .. MaxPrefill} :
       /\ \A i, j \in DOMAIN q : i <= j => q[i] <= q[j]
       /\ mem = Filled(q)
       /\ data = [n \in Node |-> IF n <= Len(q) THEN q[n] ELSE 0]
  /\ call = [t \in Thread |-> <<>>]
  /\ pc = [t \in Thread |-> "idle"]
  /\ curr = [t \in Thread |-> head]
  /\ prev = [t \in Thread |-> Null]
  /\ next = [t \in Thread |-> Null]
  /\ n_val = [t \in Thread |-> 0]
  /\ left = [t \in Thread |-> Ops]
  /\ crashed = FALSE
  /\ stayed = [t \in Thread |-> {}]

Is(t, name) == call[t] # <<>> /\ call[t][1] = name
KeyOf(t) == call[t][2]
NewNode(t) == call[t][3]

\* Nodes that an insert has allocated and not linked yet.
Private == {NewNode(t) : t \in {u \in Thread : Is(u, "insert") /\ pc[u] \notin {"store", "return"}}}

\* The nodes of the list once the stores under way are made: those that are
\* the next of their prev.  ListIsWhole says that they are what a walk finds.
Linked ==
  LET m == M!Settled
  IN  {n \in Node : m[<<n, "prev">>] # Null /\ m[<<m[<<n, "prev">>], "next">>] = n}

\* The node i links away from the head, in the memory m.
After(m) ==
  LET follow == [n \in {head, tail, Null} \cup Node |-> IF n \in {tail, Null} THEN n ELSE m[<<n, "next">>]]
      Nth[i \in 0 .. Cardinality(Node) + 1] == IF i = 0 THEN head ELSE follow[Nth[i - 1]]
  IN  Nth

-----------------------------------------------------------------------------
\* The nodes that have not been allocated: Node is large enough for every call.
Unused == {n \in Node : data[n] = 0}

Call(t, name, k) ==
  /\ pc[t] = "idle" /\ left[t] > 0
  /\ IF name = "insert"
       THEN LET n == CHOOSE n \in Unused : \A m \in Unused : n <= m
            IN  /\ Unused # {}
                /\ data' = [data EXCEPT ![n] = k]
                /\ call' = [call EXCEPT ![t] = <<name, k, n>>]
       ELSE /\ call' = [call EXCEPT ![t] = <<name, k, Null>>]
            /\ UNCHANGED data
  /\ pc' = [pc EXCEPT ![t] = "walk"]
  /\ stayed' = [stayed EXCEPT ![t] = IF name = "count" THEN {n \in Linked : data[n] = k} ELSE {}]
  /\ M!NoStore
  /\ UNCHANGED <<curr, prev, next, n_val, left, crashed>>

\* Mutant: a count that starts over keeps what it has counted.
Restart_NoReset(t) ==
  /\ curr' = [curr EXCEPT ![t] = head]
  /\ prev' = [prev EXCEPT ![t] = Null]
  /\ next' = [next EXCEPT ![t] = Null]
  /\ pc' = [pc EXCEPT ![t] = "walk"]
  /\ UNCHANGED n_val

\* goto retry.
Restart(t) ==
  /\ curr' = [curr EXCEPT ![t] = head]
  /\ prev' = [prev EXCEPT ![t] = Null]
  /\ next' = [next EXCEPT ![t] = Null]
  /\ n_val' = [n_val EXCEPT ![t] = 0]
  /\ pc' = [pc EXCEPT ![t] = "walk"]

\* The walk is not over at node c.
WalksOn(t, c) == c \notin {tail, Null} /\ (Is(t, "count") \/ data[c] < KeyOf(t))

\* Where the walk ends, at node c that is not null.
AfterWalk(t, c) ==
  IF Is(t, "insert") \/ (Is(t, "remove") /\ c # tail /\ data[c] = KeyOf(t))
    THEN "test_next" ELSE "return"

\* The walk reaches node c.
Reach(t, c) ==
  /\ curr' = [curr EXCEPT ![t] = c]
  /\ n_val' = IF Is(t, "count") /\ c \in Node /\ data[c] = KeyOf(t)
                THEN [n_val EXCEPT ![t] = @ + 1] ELSE n_val
  /\ pc' = IF WalksOn(t, c) THEN pc ELSE [pc EXCEPT ![t] = AfterWalk(t, c)]
  /\ UNCHANGED <<prev, next>>

\* Mutant: a walk that runs into a deleted node stays there.
Walk_NoRetry(t) ==
  LET c == mem[<<curr[t], "next">>]
  IN  /\ pc[t] = "walk"
      /\ IF c = Null THEN UNCHANGED <<curr, prev, next, n_val, pc>> ELSE Reach(t, c)
      /\ M!NoStore
      /\ UNCHANGED <<data, call, left, crashed, stayed>>

\* Load the next node of the walk; a null one means that it was deleted.
Walk(t) ==
  LET c == mem[<<curr[t], "next">>]
  IN  /\ pc[t] = "walk"
      /\ IF c = Null THEN Restart(t) ELSE Reach(t, c)
      /\ M!NoStore
      /\ UNCHANGED <<data, call, left, crashed, stayed>>

\* The call goes on with statement l.
GoTo(t, l) == pc' = [pc EXCEPT ![t] = l] /\ UNCHANGED <<curr, prev, next, n_val>>

\* The tests of curr->next and curr->prev after the walk: insert starts over if
\* both are null, remove if one is.
TestNext(t) ==
  /\ pc[t] = "test_next"
  /\ IF mem[<<curr[t], "next">>] # Null
       THEN GoTo(t, IF Is(t, "insert") THEN "load_prev" ELSE "test_prev")
       ELSE IF Is(t, "insert") THEN GoTo(t, "test_prev") ELSE Restart(t)
  /\ M!NoStore
  /\ UNCHANGED <<data, call, left, crashed, stayed>>

TestPrev(t) ==
  /\ pc[t] = "test_prev"
  /\ IF mem[<<curr[t], "prev">>] = Null THEN Restart(t) ELSE GoTo(t, "load_prev")
  /\ M!NoStore
  /\ UNCHANGED <<data, call, left, crashed, stayed>>

\* insert_before tests next->prev; delete_node loads prev.
LoadPrev(t) ==
  LET p == mem[<<curr[t], "prev">>]
  IN  /\ pc[t] = "load_prev"
      /\ \/ Is(t, "insert") /\ p = Null /\ Restart(t)
         \/ Is(t, "insert") /\ p # Null /\ GoTo(t, "load_next")
         \/ /\ Is(t, "remove")
            /\ prev' = [prev EXCEPT ![t] = p]
            /\ pc' = [pc EXCEPT ![t] = "load_next"]
            /\ UNCHANGED <<curr, next, n_val>>
      /\ M!NoStore
      /\ UNCHANGED <<data, call, left, crashed, stayed>>

\* insert_before tests next->next, which is null at the tail; delete_node loads
\* next, and gives up if both are null.
LoadNext(t) ==
  LET c == mem[<<curr[t], "next">>]
      deleted == c = Null /\ (IF Is(t, "insert") THEN curr[t] # tail ELSE prev[t] = Null)
  IN  /\ pc[t] = "load_next"
      /\ \/ deleted /\ Restart(t)
         \/ ~deleted /\ Is(t, "insert") /\ GoTo(t, "reload_prev")
         \/ /\ ~deleted /\ Is(t, "remove")
            /\ next' = [next EXCEPT ![t] = c]
            /\ pc' = [pc EXCEPT ![t] = "qcas"]
            /\ UNCHANGED <<curr, prev, n_val>>
      /\ M!NoStore
      /\ UNCHANGED <<data, call, left, crashed, stayed>>

\* insert_before loads next->prev again and sets the links of the new node.
ReloadPrev(t) ==
  LET p == mem[<<curr[t], "prev">>]
  IN  /\ pc[t] = "reload_prev"
      /\ prev' = [prev EXCEPT ![t] = p]
      /\ mem' = [mem EXCEPT ![<<NewNode(t), "next">>] = curr[t], ![<<NewNode(t), "prev">>] = p]
      /\ pc' = [pc EXCEPT ![t] = "qcas"]
      /\ UNCHANGED <<lock, todo, data, call, curr, next, n_val, left, crashed, stayed>>

\* Mutant: the link back to the new node is left out.
InsertWords_OneLink(t) ==
  LET c == curr[t]  n == NewNode(t)
  IN  <<M!Word(<<prev[t], "next">>, c, n),
        M!Word(<<n, "next">>, c, c),
        M!Word(<<n, "prev">>, prev[t], prev[t])>>

\* The arguments of the qcas of insert_before.
InsertWords(t) ==
  LET c == curr[t]  n == NewNode(t)
  IN  <<M!Word(<<prev[t], "next">>, c, n),
        M!Word(<<c, "prev">>, prev[t], n),
        M!Word(<<n, "next">>, c, c),
        M!Word(<<n, "prev">>, prev[t], prev[t])>>

\* The arguments of the qcas of delete_node.
DeleteWords(t) ==
  LET c == curr[t]
  IN  <<M!Word(<<prev[t], "next">>, c, next[t]),
        M!Word(<<next[t], "prev">>, c, prev[t]),
        M!Word(<<c, "next">>, next[t], Null),
        M!Word(<<c, "prev">>, prev[t], Null)>>

QcasWords(t) == IF Is(t, "insert") THEN InsertWords(t) ELSE DeleteWords(t)

\* The comparison reaches a word of a null node: the simulated processor loads
\* all the words, the && of the mutex build stops at the first one that differs.
Faults(w) ==
  \E i \in DOMAIN w :
    /\ w[i].addr[1] = Null
    /\ Gem5 \/ \A j \in 1 .. i - 1 : mem[w[j].addr] = w[j].old

QcasFaults(t) ==
  /\ pc[t] = "qcas" /\ lock = NoThread
  /\ Faults(QcasWords(t))
  /\ crashed' = TRUE
  /\ M!NoStore
  /\ UNCHANGED <<data, call, pc, curr, prev, next, n_val, left, stayed>>

\* A step of a qcas that succeeds: the call returns after its last store.
Advance(t) == pc' = [pc EXCEPT ![t] = IF M!Returns(t) THEN "return" ELSE "store"]

QcasSucceeds(t) ==
  /\ pc[t] = "qcas"
  /\ ~Faults(QcasWords(t))
  /\ M!Succeed(t, QcasWords(t))
  /\ Advance(t)
  /\ stayed' = IF Is(t, "remove") THEN [u \in Thread |-> stayed[u] \ {curr[t]}] ELSE stayed
  /\ UNCHANGED <<data, call, curr, prev, next, n_val, left, crashed>>

QcasStores(t) ==
  /\ M!StoreNext(t)
  /\ Advance(t)
  /\ UNCHANGED <<data, call, curr, prev, next, n_val, left, crashed, stayed>>

\* Mutant: the result of the qcas is not looked at.
QcasFails_Returns(t) ==
  /\ pc[t] = "qcas"
  /\ ~Faults(QcasWords(t))
  /\ M!Fail(t, QcasWords(t))
  /\ pc' = [pc EXCEPT ![t] = "return"]
  /\ UNCHANGED <<data, call, curr, prev, next, n_val, left, crashed, stayed>>

\* An insert that starts over clears the links of its node.
QcasFails(t) ==
  /\ pc[t] = "qcas" /\ lock = NoThread
  /\ ~Faults(QcasWords(t))
  /\ ~M!Matches(QcasWords(t))
  /\ Restart(t)
  /\ mem' = [a \in Link |-> IF a[1] = NewNode(t) THEN Null ELSE mem[a]]
  /\ UNCHANGED <<lock, todo, data, call, left, crashed, stayed>>

Return(t) ==
  /\ pc[t] = "return"
  /\ call' = [call EXCEPT ![t] = <<>>]
  /\ pc' = [pc EXCEPT ![t] = "idle"]
  /\ curr' = [curr EXCEPT ![t] = head]
  /\ prev' = [prev EXCEPT ![t] = Null]
  /\ next' = [next EXCEPT ![t] = Null]
  /\ n_val' = [n_val EXCEPT ![t] = 0]
  /\ stayed' = [stayed EXCEPT ![t] = {}]
  /\ left' = [left EXCEPT ![t] = @ - 1]
  /\ M!NoStore
  /\ UNCHANGED <<data, crashed>>

\* The steps of a worker between its calls and inside them.
Step(t) ==
  /\ ~crashed
  /\ \/ \E name \in {"insert", "remove", "count"}, k \in Key : Call(t, name, k)
     \/ Walk(t)
     \/ TestNext(t)
     \/ TestPrev(t)
     \/ LoadPrev(t)
     \/ LoadNext(t)
     \/ ReloadPrev(t)
     \/ QcasFaults(t)
     \/ QcasSucceeds(t)
     \/ QcasStores(t)
     \/ QcasFails(t)
     \/ Return(t)

\* Every worker has returned and has been joined, or the process is gone.
Done == \A t \in Thread : left[t] = 0
Terminated == (Done \/ crashed) /\ UNCHANGED vars

Next == (\E t \in Thread : Step(t)) \/ Terminated

Spec == Init /\ [][Next]_vars

\* The scheduler runs every worker.
FairSpec == Spec /\ \A t \in Thread : WF_vars(Step(t))

-----------------------------------------------------------------------------
\* Types of the links and of the workers' local variables.
TypeOK ==
  /\ M!MCASTypeOK
  /\ M!LockDiscipline
  /\ data \in [Node -> Key \cup {0}]
  /\ call \in [Thread -> {<<>>} \cup ({"insert"} \X Key \X Node) \cup ({"remove", "count"} \X Key \X {Null})]
  /\ pc \in [Thread -> {"idle", "walk", "test_next", "test_prev", "load_prev", "load_next",
                        "reload_prev", "qcas", "store", "return"}]
  /\ curr \in [Thread -> {head, tail} \cup Node]
  /\ prev \in [Thread -> {head, Null} \cup Node]
  /\ next \in [Thread -> {tail, Null} \cup Node]
  /\ n_val \in [Thread -> 0 .. Cardinality(Node)]
  /\ left \in [Thread -> 0 .. Ops]
  /\ crashed \in BOOLEAN
  /\ stayed \in [Thread -> SUBSET Node]

\* Words and locals have their types, and the list is whole once the qcas under
\* way is over: the walk from the head
\* ends at the tail and meets every node whose prev has it as its next and no
\* other, the links back mirror the links forth, and a node that is out of the
\* list has no links.
ListIsWhole ==
  LET m == M!Settled
      way == {After(m)[i] : i \in 0 .. Cardinality(Node) + 1}
  IN  /\ TypeOK
      /\ way = {head, tail} \cup Linked
      /\ \A n \in way \ {tail} : m[<<m[<<n, "next">>], "prev">>] = n
      /\ \A n \in Node \ (Private \cup Linked) : m[<<n, "next">>] = Null /\ m[<<n, "prev">>] = Null

\* Every insert links its node once and every remove unlinks at most one node,
\* of its key: at the first store of the qcas.
Abstract == INSTANCE ListSpec
  WITH items <- Linked,
       call <- [t \in Thread |->
                  IF pc[t] \in {"store", "return"} \/ call[t] = <<>> THEN <<>>
                  ELSE IF call[t][1] = "insert" THEN call[t] ELSE <<call[t][1], call[t][2], 0>>],
       left <- [t \in Thread |-> IF pc[t] \in {"store", "return"} THEN left[t] - 1 ELSE left[t]]
EffectsAreAtomic == Abstract!Spec

\* A count that runs beside inserts and removes counts every node of its key
\* that is in the list from its call to its return, and none twice.
CountIsRegular ==
  \A t \in Thread : pc[t] = "return" /\ Is(t, "count") =>
    /\ Cardinality(stayed[t]) <= n_val[t]
    /\ n_val[t] <= Cardinality({n \in Node : data[n] = KeyOf(t)})

\* benchmark.h:65 "make sure all workers terminated": the walks that start over
\* and the qcas that fail end, unless the process does.
Termination == <>(Done \/ crashed)

\* The list is sorted whenever no worker is inside a call: what the walks rely
\* on when they stop at the first node that is not smaller.
Sorted ==
  (\A t \in Thread : pc[t] = "idle") =>
    \A n \in Linked : mem[<<n, "next">>] # tail => data[n] <= data[mem[<<n, "next">>]]

\* No null pointer is dereferenced: what the tests of insert_before and
\* delete_node are for.
NoNullDereference == ~crashed
=============================================================================
