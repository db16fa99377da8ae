----------------------------- MODULE McasDeque ------------------------------
(***************************************************************************)
(* lockfree-mcas/Deque.h, the Snark deque on mcas.h, and its wrappers      *)
(* Queue.h and Stack.h, under the benchmark's workers.                     *)
(*                                                                         *)
(* The code of the left and of the right end is the same text with L and R *)
(* exchanged; so are the actions, with a side as a parameter: "L" is front *)
(* and left, "R" back and right.  A node is named by the element it holds. *)
(* Nodes are never freed while workers run, so no name is used twice.      *)
(***************************************************************************)
EXTENDS Naturals, Sequences, FiniteSets

CONSTANTS Thread,    \* the workers
          NoThread,  \* the owner of a free global_cas_lock
          Gem5,      \* the build of mcas.h
          Share,     \* Share[k]: how many calls each worker may make when k elements
                     \* were pushed before (n_ops / threadcnt)
          MaxNodes,  \* the most nodes that can be allocated
          Menu,      \* the operations they use, as <<name, side>>
          MaxPrefill,\* the most elements pushed before the workers start
          This,      \* the deque object: the node whose links are the hats
          Dummy,     \* its dummy node
          Null,      \* a link of a node that has not been set
          Void,      \* the result of a push
          Empty,     \* the result -1 of a pop
          Pending    \* the result of a call that has not been decided

Side == {"L", "R"}
Node == 1 .. MaxNodes

ASSUME McasDequeAssumption ==
  /\ NoThread \notin Thread /\ Gem5 \in BOOLEAN
  /\ MaxNodes \in Nat /\ MaxPrefill \in 0 .. MaxNodes
  /\ Share \in [0 .. MaxPrefill -> SUBSET [Thread -> Nat]]
  /\ Menu \subseteq {"push", "pop"} \X Side
  /\ Cardinality({This, Dummy, Null, Void, Empty, Pending}) = 6
  /\ {This, Dummy, Null, Void, Empty, Pending} \cap Node = {}

Other(s) == IF s = "L" THEN "R" ELSE "L"

\* LeftHat and RightHat.
Hat(s) == <<This, s>>

VARIABLES mem, lock, todo,  \* the hats and the links, and mcas.h: see MCAS
          call,    \* call[t]: <<name, side, new_node>>, <<>> outside
          seen,    \* seen[t]: the pointers t has loaded in this round of its loop
          result,  \* result[t]: what the call returns, once it is decided
          left,    \* left[t]: the calls t has still to finish
          items    \* history: the deque its callers see, from left to right

vars == <<mem, lock, todo, call, seen, result, left, items>>

M == INSTANCE MCAS WITH Addr <- ({This, Dummy} \cup Node) \X Side,
                        Val <- {Dummy, Null} \cup Node

\* The memory after k calls of push_back on the deque the constructor made.
Filled(k) ==
  [a \in ({This, Dummy} \cup Node) \X Side |->
     CASE a[1] = This  -> IF k = 0 THEN Dummy ELSE IF a[2] = "L" THEN 1 ELSE k
       [] a[1] = Dummy -> Dummy
       [] a[1] \in Node /\ a[1] > k -> Null
       [] a[1] \in Node /\ a[1] <= k ->
            IF a[2] = "L" THEN IF a[1] = 1 THEN Dummy ELSE a[1] - 1
                          ELSE IF a[1] = k THEN Dummy ELSE a[1] + 1]

Init ==
  /\ M!InitMCAS
  /\ \E k \in 0 .. MaxPrefill :
       mem = Filled(k) /\ items = [i \in 1 .. k |-> i] /\ left \in Share[k]
  /\ call = [t \in Thread |-> <<>>]
  /\ seen = [t \in Thread |-> <<>>]
  /\ result = [t \in Thread |-> Pending]

\* The nodes that have not been allocated.
Unused == {n \in Node : mem[<<n, "L">>] = Null /\ mem[<<n, "R">>] = Null}

\* push: a new node, its outer link set to the dummy.  MaxNodes bounds how many
\* nodes there are.
CallPush(t, s) ==
  LET n == CHOOSE n \in Unused : \A k \in Unused : n <= k
  IN  /\ Unused # {}
      /\ mem' = [mem EXCEPT ![<<n, s>>] = Dummy]
      /\ call' = [call EXCEPT ![t] = <<"push", s, n>>]
      /\ UNCHANGED <<lock, todo>>

CallPop(t, s) ==
  /\ call' = [call EXCEPT ![t] = <<"pop", s, Null>>]
  /\ M!NoStore

Call(t, m) ==
  /\ left[t] > 0
  /\ call[t] = <<>>
  /\ IF m[1] = "push" THEN CallPush(t, m[2]) ELSE CallPop(t, m[2])
  /\ UNCHANGED <<seen, result, left, items>>

\* t is in a round of the loop of the operation name.
In(t, name) == call[t] # <<>> /\ call[t][1] = name /\ result[t] = Pending

SideOf(t) == call[t][2]
NewNode(t) == call[t][3]

\* The outer and the inner link of the node at the hat, as loaded: a pop has
\* loaded both, the left one first; a push only the outer one.
Outer(t) == IF In(t, "pop") /\ SideOf(t) = "R" THEN seen[t][3] ELSE seen[t][2]
Inner(t) == IF SideOf(t) = "R" THEN seen[t][2] ELSE seen[t][3]

\* Mutant: a push does not look for a dead node.
SelfLoop_PopOnly(t) == In(t, "pop") /\ Outer(t) = seen[t][1]

\* The node at the hat looks dead: its outer link points to itself.
SelfLoop(t) == Outer(t) = seen[t][1]

\* The next load of the round: the hat, the link or links of the node there,
\* and, when a push finds that node dead, the other hat.
LoadAddress(t) ==
  CASE Len(seen[t]) = 0 -> Hat(SideOf(t))
    [] Len(seen[t]) = 1 -> <<seen[t][1], IF In(t, "push") THEN SideOf(t) ELSE "L">>
    [] Len(seen[t]) = 2 -> IF In(t, "push") THEN Hat(Other(SideOf(t))) ELSE <<seen[t][1], "R">>

\* All the loads of the round have been made.
Loaded(t) ==
  \/ Len(seen[t]) = 3
  \/ In(t, "push") /\ Len(seen[t]) = 2 /\ ~SelfLoop(t)

Load(t) ==
  /\ In(t, "push") \/ In(t, "pop")
  /\ ~Loaded(t)
  /\ seen' = [seen EXCEPT ![t] = Append(@, mem[LoadAddress(t)])]
  /\ UNCHANGED <<call, result, left, items>>
  /\ IF Loaded(t)' /\ In(t, "push")
       THEN \* The new node, still private, gets its inner link.
            /\ mem' = [mem EXCEPT ![<<NewNode(t), Other(SideOf(t))>>] =
                         IF SelfLoop(t)' THEN Dummy ELSE seen[t][1]]
            /\ UNCHANGED <<lock, todo>>
       ELSE M!NoStore

\* The pop of a deque that looks empty: -1 if the hat has not moved.
PopEmpty(t) ==
  /\ In(t, "pop") /\ Loaded(t) /\ SelfLoop(t)
  /\ IF mem[Hat(SideOf(t))] = seen[t][1]
       THEN result' = [result EXCEPT ![t] = Empty] /\ UNCHANGED seen
       ELSE seen' = [seen EXCEPT ![t] = <<>>] /\ UNCHANGED result
  /\ M!NoStore
  /\ UNCHANGED <<call, left, items>>

\* Mutant: the first node of an empty deque is put at one hat only.
PushWords_OneHat(t) ==
  LET s == SideOf(t)  n == NewNode(t)  h == seen[t][1]
  IN  IF SelfLoop(t) THEN <<M!Word(Hat(s), h, n)>>
                     ELSE <<M!Word(Hat(s), h, n), M!Word(<<h, s>>, seen[t][2], n)>>

\* The arguments of the dcas of a push.
PushWords(t) ==
  LET s == SideOf(t)  n == NewNode(t)  h == seen[t][1]
  IN  <<M!Word(Hat(s), h, n),
        IF SelfLoop(t) THEN M!Word(Hat(Other(s)), seen[t][3], n)
                       ELSE M!Word(<<h, s>>, seen[t][2], n)>>

\* Mutant: the dcas of the original Snark, which leaves the outer link alone.
PopWords_TwoWords(t) ==
  LET s == SideOf(t)  h == seen[t][1]
  IN  <<M!Word(Hat(s), h, Inner(t)),
        M!Word(<<h, Other(s)>>, Inner(t), h)>>

\* The arguments of the tcas of a pop.
PopWords(t) ==
  LET s == SideOf(t)  h == seen[t][1]
  IN  <<M!Word(Hat(s), h, Inner(t)),
        M!Word(<<h, Other(s)>>, Inner(t), h),
        M!Word(<<h, s>>, Outer(t), h)>>

\* A push is seen by its callers with its last store.
PushAdvance(t) ==
  IF M!Returns(t)
    THEN /\ result' = [result EXCEPT ![t] = Void]
         /\ items' = IF SideOf(t) = "L" THEN <<NewNode(t)>> \o items
                                        ELSE Append(items, NewNode(t))
    ELSE UNCHANGED <<result, items>>

PushDcas(t) ==
  /\ In(t, "push") /\ Loaded(t)
  /\ M!Succeed(t, PushWords(t))
  /\ PushAdvance(t)
  /\ UNCHANGED <<call, seen, left>>

PushStores(t) ==
  /\ In(t, "push")
  /\ M!StoreNext(t)
  /\ PushAdvance(t)
  /\ UNCHANGED <<call, seen, left>>

\* A pop returns the data of the node once its last store is made ...
PopAdvance(t) ==
  result' = IF M!Returns(t) THEN [result EXCEPT ![t] = seen[t][1]] ELSE result

\* ... and is seen by its callers with its first store.
PopTcas(t) ==
  /\ In(t, "pop") /\ Loaded(t) /\ ~SelfLoop(t)
  /\ M!Succeed(t, PopWords(t))
  /\ PopAdvance(t)
  /\ items' = IF SideOf(t) = "L" THEN SubSeq(items, 2, Len(items))
                                 ELSE SubSeq(items, 1, Len(items) - 1)
  /\ UNCHANGED <<call, seen, left>>

PopStores(t) ==
  /\ In(t, "pop")
  /\ M!StoreNext(t)
  /\ PopAdvance(t)
  /\ UNCHANGED <<call, seen, left, items>>

\* Mutant: the round is repeated with the pointers loaded before.
Retry_NoReload(t) ==
  /\ \/ In(t, "push") /\ Loaded(t) /\ M!Fail(t, PushWords(t))
     \/ In(t, "pop") /\ Loaded(t) /\ ~SelfLoop(t) /\ M!Fail(t, PopWords(t))
  /\ UNCHANGED <<call, seen, result, left, items>>

\* The dcas or tcas fails: the loop starts over.
Retry(t) ==
  /\ \/ In(t, "push") /\ Loaded(t) /\ M!Fail(t, PushWords(t))
     \/ In(t, "pop") /\ Loaded(t) /\ ~SelfLoop(t) /\ M!Fail(t, PopWords(t))
  /\ seen' = [seen EXCEPT ![t] = <<>>]
  /\ UNCHANGED <<call, result, left, items>>

Return(t) ==
  /\ result[t] # Pending
  /\ call' = [call EXCEPT ![t] = <<>>]
  /\ seen' = [seen EXCEPT ![t] = <<>>]
  /\ result' = [result EXCEPT ![t] = Pending]
  /\ left' = [left EXCEPT ![t] = @ - 1]
  /\ M!NoStore
  /\ UNCHANGED items

\* The steps of a worker between its calls and inside them.
Step(t) ==
  \/ \E m \in Menu : Call(t, m)
  \/ Load(t)
  \/ PopEmpty(t)
  \/ PushDcas(t)
  \/ PushStores(t)
  \/ PopTcas(t)
  \/ PopStores(t)
  \/ Retry(t)
  \/ Return(t)

\* Every worker has returned and has been joined.
Done == \A t \in Thread : left[t] = 0
Terminated == Done /\ UNCHANGED vars

Next == (\E t \in Thread : Step(t)) \/ Terminated

Spec == Init /\ [][Next]_vars

\* The scheduler runs every worker.
FairSpec == Spec /\ \A t \in Thread : WF_vars(Step(t))

-----------------------------------------------------------------------------
\* Types of the links and of the workers' local variables.
TypeOK ==
  /\ M!MCASTypeOK
  /\ M!LockDiscipline
  /\ call \in [Thread -> {<<>>} \cup ({"push"} \X Side \X Node) \cup ({"pop"} \X Side \X {Null})]
  /\ seen \in [Thread -> UNION {[1 .. n -> {Dummy} \cup Node] : n \in 0 .. 3}]
  /\ result \in [Thread -> {Pending, Void, Empty} \cup Node]
  /\ left \in [Thread -> Nat]
  /\ items \in Seq(Node)

\* The deque is linearizable: a push takes effect with its last store, a pop
\* with its first one, and a pop that returns -1 when it finds the hat unmoved.
Abstract == INSTANCE DequeSpec
  WITH Elem <- Node \cup {Null},
       Prefill <- 0 .. MaxPrefill, Share <- UNION {Share[k] : k \in 0 .. MaxPrefill},
       result <- [t \in Thread |-> IF lock = t /\ In(t, "pop") THEN seen[t][1] ELSE result[t]]
Linearizable == Abstract!Spec

\* The deque once the stores under way are made: a push among them is in.
Contents ==
  IF lock \in Thread /\ In(lock, "push")
    THEN Abstract!Pushed(items, SideOf(lock), NewNode(lock))
    ELSE items

\* Link s of node n once the stores under way are made.
Link(n, s) == M!Settled[<<n, s>>]

\* Out of the deque for good: both links point to the node itself.
Dead(n) == Link(n, "L") = n /\ Link(n, "R") = n

\* Words and calls have their types, and the links agree with the contents: the hats point to the ends, neighbours to
\* each other, the ends outwards to dead nodes; when the deque is empty both
\* hats point to dead nodes.
WellLinked ==
  LET q == Contents  n == Len(q)
  IN  /\ TypeOK
      /\ q = <<>> => Dead(Link(This, "L")) /\ Dead(Link(This, "R"))
      /\ q # <<>> => /\ Link(This, "L") = q[1] /\ Link(This, "R") = q[n]
                     /\ Dead(Link(q[1], "L")) /\ Dead(Link(q[n], "R"))
      /\ \A i \in 1 .. n - 1 : Link(q[i], "R") = q[i + 1] /\ Link(q[i + 1], "L") = q[i]

\* A popped node is never linked in again: what makes it sound to compare
\* pointers only.
DeadForGood == [][\A n \in Node : Dead(n) => Dead(n)']_vars

\* benchmark.h:65 "make sure all workers terminated": no worker retries for
\* ever, because every retry follows a call of another worker that took effect.
Termination == <>Done
=============================================================================
