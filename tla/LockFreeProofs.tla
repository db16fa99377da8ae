--------------------------- MODULE LockFreeProofs ---------------------------
(***************************************************************************)
(* Proofs about LockFree, for any workers, calls and number of nodes:      *)
(* Treiber's stack and the queue of one producer and one consumer          *)
(* implement the atomic deque of DequeSpec; so does the queue of Michael   *)
(* and Scott, but for the moment at which a pop finds nothing, and the     *)
(* work-stealing deque, but for a steal that gives up or reads its slot    *)
(* too late.  The deque's buffers outlive the steals from them.  The       *)
(* proofs about the list and the hash map are in LockFreeListProofs.       *)
(***************************************************************************)
EXTENDS LockFree, TLAPS, SequenceTheorems, FiniteSetTheorems, WellFoundedInduction

-----------------------------------------------------------------------------
(***************************************************************************)
(* The elements of a structure are read along the links.  f is the walk    *)
(* from every node of D: it ends in Stop, and each node n before that      *)
(* gives val[n] and leads to nx[n].  It exists if a rank falls along the   *)
(* links.                                                                  *)
(***************************************************************************)
IsWalk(f, D, Stop, val, nx) ==
  f = [n \in D |-> IF n \in Stop THEN <<>> ELSE <<val[n]>> \o f[nx[n]]]

Falls(D, Stop, nx, r) ==
  \A n \in D \ Stop : nx[n] \in D /\ r[nx[n]] < r[n]

LEMMA Least ==
  ASSUME NEW S \in SUBSET Nat, S # {}
  PROVE  \E n \in S : \A k \in S : n <= k
<1> DEFINE R == OpToRel(<, Nat)
<1>1. IsWellFoundedOn(R, Nat)
  BY NatLessThanWellFounded
<1>2. ASSUME NEW i \in Nat, NEW j \in Nat, i < j PROVE <<i, j>> \in R
  BY <1>2 DEF OpToRel
<1> HIDE DEF R
<1>3. PICK n \in S : \A k \in S : ~ (<<k, n>> \in R)
  BY <1>1, WFMin
<1>4. ASSUME NEW k \in S PROVE n <= k
  <2>1. ~(k < n)
    BY <1>2, <1>3
  <2> QED  BY <2>1
<1> QED  BY <1>4

\* A node with a property is a node of least rank with it.
LEMMA Lowest ==
  ASSUME NEW D, NEW B \in SUBSET D, B # {}, NEW r \in [D -> Nat]
  PROVE  \E n \in B : \A k \in B : r[n] <= r[k]
<1> DEFINE S == {r[n] : n \in B}
<1>1. S \in SUBSET Nat /\ S # {}
  OBVIOUS
<1>2. PICK i \in S : \A k \in S : i <= k
  BY <1>1, Least
<1> QED  BY <1>2

\* Two walks that agree on what they meet from C on are equal there.
LEMMA WalksAgree ==
  ASSUME NEW D, NEW C \in SUBSET D, NEW r \in [D -> Nat],
         NEW stop, NEW val, NEW nx, NEW f, IsWalk(f, D, stop, val, nx), Falls(D, stop, nx, r),
         NEW halt, NEW val2, NEW mx, NEW g, IsWalk(g, D, halt, val2, mx),
         \A n \in C : n \in stop <=> n \in halt,
         \A n \in C \ stop : nx[n] \in C /\ mx[n] = nx[n] /\ val2[n] = val[n]
  PROVE  \A n \in C : f[n] = g[n]
<1>9. \A n \in D : f[n] = IF n \in stop THEN <<>> ELSE <<val[n]>> \o f[nx[n]]
  BY DEF IsWalk
<1>10. \A n \in D : g[n] = IF n \in halt THEN <<>> ELSE <<val2[n]>> \o g[mx[n]]
  BY DEF IsWalk
<1> DEFINE B == {n \in C : f[n] # g[n]}
<1> SUFFICES ASSUME B # {} PROVE FALSE
  OBVIOUS
<1>1. PICK n \in B : \A k \in B : r[n] <= r[k]
  <2>1. B \in SUBSET D
    OBVIOUS
  <2> QED  BY <2>1, Lowest
<1>2. n \in C /\ n \in D /\ f[n] # g[n]
  BY <1>1
<1>3. f[n] = (IF n \in stop THEN <<>> ELSE <<val[n]>> \o f[nx[n]])
  BY <1>2, <1>9
<1>4. g[n] = (IF n \in halt THEN <<>> ELSE <<val2[n]>> \o g[mx[n]])
  BY <1>2, <1>10
<1>5. n \notin stop /\ n \notin halt
  BY <1>2, <1>3, <1>4
<1>6. nx[n] \in C /\ mx[n] = nx[n] /\ val2[n] = val[n] /\ r[nx[n]] < r[n]
  BY <1>2, <1>5 DEF Falls
<1>7. f[nx[n]] # g[nx[n]]
  BY <1>2, <1>3, <1>4, <1>5, <1>6
<1>8. nx[n] \in B /\ r[nx[n]] \in Nat /\ r[n] \in Nat
  BY <1>2, <1>6, <1>7
<1> QED  BY <1>1, <1>6, <1>8

\* The values on a walk.
LEMMA WalkType ==
  ASSUME NEW D, NEW r \in [D -> Nat], NEW stop, NEW val, NEW nx,
         NEW f, IsWalk(f, D, stop, val, nx), Falls(D, stop, nx, r),
         NEW V, \A n \in D \ stop : val[n] \in V
  PROVE  \A n \in D : f[n] \in Seq(V)
<1>9. \A n \in D : f[n] = IF n \in stop THEN <<>> ELSE <<val[n]>> \o f[nx[n]]
  BY DEF IsWalk
<1> DEFINE B == {n \in D : f[n] \notin Seq(V)}
<1> SUFFICES ASSUME B # {} PROVE FALSE
  OBVIOUS
<1>1. PICK n \in B : \A k \in B : r[n] <= r[k]
  BY Lowest
<1>2. n \in D /\ f[n] \notin Seq(V)
  BY <1>1
<1>3. f[n] = (IF n \in stop THEN <<>> ELSE <<val[n]>> \o f[nx[n]])
  BY <1>2, <1>9
<1>4. n \notin stop
  BY <1>2, <1>3
<1>5. nx[n] \in D /\ r[nx[n]] < r[n] /\ <<val[n]>> \in Seq(V)
  BY <1>2, <1>4 DEF Falls
<1>6. f[nx[n]] \notin Seq(V)
  BY <1>2, <1>3, <1>4, <1>5, ConcatProperties
<1>7. nx[n] \in B /\ r[nx[n]] \in Nat /\ r[n] \in Nat
  BY <1>5, <1>6
<1> QED  BY <1>1, <1>5, <1>7

\* A walk from the nodes of rank at most k.
IsWalkTo(f, D, Stop, val, nx, r, k) ==
  \A n \in D : r[n] <= k => f[n] = IF n \in Stop THEN <<>> ELSE <<val[n]>> \o f[nx[n]]

LEMMA WalkExists ==
  ASSUME NEW D, NEW K \in Nat, NEW r \in [D -> 0 .. K], NEW stop, NEW val, NEW nx, Falls(D, stop, nx, r)
  PROVE  \E f : IsWalk(f, D, stop, val, nx)
<1> DEFINE P(k) == \E f : IsWalkTo(f, D, stop, val, nx, r, k)
           S == {k \in Nat : ~P(k)}
<1>1. r \in [D -> Nat] /\ \A n \in D : r[n] <= K
  OBVIOUS
<1>2. S = {}
  <2> SUFFICES ASSUME S # {} PROVE FALSE
    OBVIOUS
  <2>1. PICK k \in S : \A j \in S : k <= j
    BY Least
  <2>2. k \in Nat /\ ~P(k)
    BY <2>1
  <2>3. CASE k = 0
    <3> DEFINE g == [n \in D |-> <<>>]
    <3>1. ASSUME NEW n \in D, r[n] <= k PROVE n \in stop
      BY <1>1, <2>3, <3>1 DEF Falls
    <3>2. IsWalkTo(g, D, stop, val, nx, r, k)
      BY <3>1 DEF IsWalkTo
    <3> QED  BY <2>2, <3>2
  <2>4. CASE k # 0
    <3>1. k - 1 \in Nat /\ k - 1 \notin S
      BY <2>1, <2>2, <2>4
    <3>2. PICK f : IsWalkTo(f, D, stop, val, nx, r, k - 1)
      BY <3>1
    <3> DEFINE g == [n \in D |-> IF n \in stop THEN <<>> ELSE <<val[n]>> \o f[nx[n]]]
    <3>3. ASSUME NEW n \in D, r[n] <= k - 1 PROVE g[n] = f[n]
      BY <3>2, <3>3 DEF IsWalkTo
    <3>4. ASSUME NEW n \in D, r[n] <= k
          PROVE  g[n] = IF n \in stop THEN <<>> ELSE <<val[n]>> \o g[nx[n]]
      <4>1. CASE n \in stop
        BY <4>1
      <4>2. CASE n \notin stop
        <5>1. nx[n] \in D /\ r[nx[n]] < r[n]
          BY <4>2 DEF Falls
        <5>2. r[nx[n]] \in Nat /\ r[n] \in Nat
          BY <1>1, <5>1
        <5>3. r[nx[n]] <= k - 1
          BY <2>2, <3>4, <5>1, <5>2
        <5>4. g[nx[n]] = f[nx[n]]
          BY <3>3, <5>1, <5>3
        <5> QED  BY <4>2, <5>4
      <4> QED  BY <4>1, <4>2
    <3>5. IsWalkTo(g, D, stop, val, nx, r, k)
      BY <3>4 DEF IsWalkTo
    <3> QED  BY <2>2, <3>5
  <2> QED  BY <2>3, <2>4
<1>3. PICK f : IsWalkTo(f, D, stop, val, nx, r, K)
  BY <1>2
<1> DEFINE g == [n \in D |-> f[n]]
<1>4. ASSUME NEW n \in D PROVE g[n] = IF n \in stop THEN <<>> ELSE <<val[n]>> \o g[nx[n]]
  BY <1>1, <1>3 DEF IsWalkTo, Falls
<1>5. g = [n \in D |-> IF n \in stop THEN <<>> ELSE <<val[n]>> \o g[nx[n]]]
  BY <1>4
<1>6. IsWalk(g, D, stop, val, nx)
  BY <1>5 DEF IsWalk
<1> QED  BY <1>6

-----------------------------------------------------------------------------
(***************************************************************************)
(* The frames of the workers, and how many calls are still to come.        *)
(***************************************************************************)
LEMMA GoFacts ==
  ASSUME NEW t \in Thread, DOMAIN loc = Thread, NEW frame, Go(t, frame)
  PROVE  /\ DOMAIN loc' = Thread
         /\ \A u \in Thread : u # t => loc'[u] = loc[u]
         /\ DOMAIN loc'[t] = DOMAIN frame \union DOMAIN loc[t]
         /\ \A x \in DOMAIN frame : loc'[t][x] = frame[x]
         /\ \A x \in DOMAIN loc[t] \ DOMAIN frame : loc'[t][x] = loc[t][x]
BY DEF Go, Updated

\* The calls that have not begun: the calls left without the one under way.
Open == {c \in Thread \X (1 .. MaxNodes) : c[2] < left[c[1]] \/ (c[2] = left[c[1]] /\ At(c[1], "idle"))}

\* Each of them finds a node that has not been allocated.
Room(n) ==
  /\ DOMAIN loc = Thread /\ DOMAIN call = Thread /\ left \in [Thread -> 0 .. MaxNodes]
  /\ \A t \in Thread : ~At(t, "idle") => left[t] > 0
  /\ mem.made \in Nat /\ mem.made + Cardinality(Open) <= n

LEMMA OpenIsFinite ==
  IsFiniteSet(Open) /\ Cardinality(Open) \in Nat
<1>1. IsFiniteSet(Thread) /\ MaxNodes \in Nat
  BY LockFreeAssumption
<1>2. IsFiniteSet(1 .. MaxNodes)
  BY <1>1, FS_Interval
<1>3. IsFiniteSet(Thread \X (1 .. MaxNodes))
  BY <1>1, <1>2, FS_Product
<1>4. Open \subseteq Thread \X (1 .. MaxNodes)
  BY DEF Open
<1>5. IsFiniteSet(Open)
  BY <1>3, <1>4, FS_Subset
<1> QED  BY <1>5, FS_CardinalityType

\* At the start none of them has begun.
LEMMA RoomStarts ==
  ASSUME Init, chosen \in {"queue", "stack", "spsc", "deque", "sorted-list", "hashmap"}, NEW k \in Prefill \union {0}, NEW n \in Nat,
         mem.made \in Nat, mem.made - k <= n - MaxNodes
  PROVE  Room(n)
<1>1. loc = [t \in Thread |-> Idle] /\ call = [t \in Thread |-> <<>>] /\ left \in Share[chosen] /\ chosen \in Algorithm
  BY DEF Init
<1>2. DOMAIN loc = Thread /\ DOMAIN call = Thread /\ \A t \in Thread : At(t, "idle")
  BY <1>1 DEF At, Idle
<1>3. MaxNodes \in Nat /\ k \in Nat
  BY LockFreeAssumption
<1> DEFINE O == {c \in Thread \X (1 .. MaxNodes) : c[2] <= left[c[1]]}
<1>4. left \in [Thread -> 0 .. MaxNodes] /\ k + Cardinality(O) <= MaxNodes
  <2>1. chosen \in Algorithm \cap {"queue", "stack", "spsc", "deque", "sorted-list", "hashmap"}
    BY <1>1
  <2> HIDE DEF O
  <2>2. \A a \in Algorithm \cap {"queue", "stack", "spsc", "deque", "sorted-list", "hashmap"} : \A l \in Share[a], i \in Prefill \union {0} :
       /\ l \in [Thread -> 0 .. MaxNodes]
       /\ i + Cardinality({c \in Thread \X (1 .. MaxNodes) : c[2] <= l[c[1]]}) <= MaxNodes
    BY LockFreeAssumption
  <2> QED  BY <1>1, <2>1, <2>2 DEF O
<1>5. Open = O
  <2>1. \A c \in Thread \X (1 .. MaxNodes) :
          (c[2] < left[c[1]] \/ (c[2] = left[c[1]] /\ At(c[1], "idle"))) <=> c[2] <= left[c[1]]
    BY <1>2, <1>3, <1>4
  <2> QED  BY <2>1 DEF Open
<1> HIDE DEF O
<1>6. Cardinality(Open) \in Nat
  BY OpenIsFinite
<1>7. mem.made + Cardinality(Open) <= n
  BY <1>3, <1>4, <1>5, <1>6
<1> QED  BY <1>2, <1>4, <1>7 DEF Room

\* A call is one of those that had not begun, and leaves a node for each of
\* the others.
LEMMA RoomForCall ==
  ASSUME NEW n \in Nat, Room(n), NEW t \in Thread, left[t] > 0, At(t, "idle"),
         left' = left, DOMAIN loc' = Thread, DOMAIN call' = Thread, loc'[t].pc # "idle",
         \A u \in Thread : u # t => loc'[u] = loc[u], mem'.made \in {mem.made, mem.made + 1}
  PROVE  Room(n)' /\ mem.made < n
<1> DEFINE c == <<t, left[t]>>
<1>1. left[t] \in 1 .. MaxNodes /\ MaxNodes \in Nat
  BY LockFreeAssumption DEF Room
<1>2. c \in Open
  BY <1>1 DEF Open
<1>3. Open' \subseteq Open \ {c}
  <2> SUFFICES ASSUME NEW d \in Open' PROVE d \in Open \ {c}
    OBVIOUS
  <2>1. PICK u \in Thread, i \in 1 .. MaxNodes : d = <<u, i>> /\ (i < left[u] \/ (i = left[u] /\ At(u, "idle")'))
    BY DEF Open
  <2>2. CASE u = t
    <3>1. ~At(t, "idle")'
      BY DEF At
    <3>2. i < left[t]
      BY <2>1, <2>2, <3>1
    <3> QED  BY <1>1, <2>1, <2>2, <3>2 DEF Open
  <2>3. CASE u # t
    <3>1. At(u, "idle")' => At(u, "idle")
      BY <2>1, <2>3 DEF At
    <3> QED  BY <2>1, <2>3, <3>1 DEF Open
  <2> QED  BY <2>2, <2>3
<1>4. IsFiniteSet(Open) /\ Cardinality(Open) \in Nat
  BY OpenIsFinite
<1>5. IsFiniteSet(Open \ {c}) /\ Cardinality(Open \ {c}) = Cardinality(Open) - 1
  BY <1>2, <1>4, FS_RemoveElement
<1>6. Cardinality(Open') <= Cardinality(Open) - 1 /\ Cardinality(Open') \in Nat
  BY <1>3, <1>5, FS_Subset, FS_CardinalityType
<1>7. mem.made \in Nat /\ mem.made + Cardinality(Open) <= n
  BY DEF Room
<1>8. mem'.made \in Nat /\ mem'.made + Cardinality(Open') <= n /\ mem.made < n
  BY <1>4, <1>6, <1>7
<1>9. \A u \in Thread : ~At(u, "idle")' => left'[u] > 0
  BY DEF Room, At
<1> QED  BY <1>8, <1>9 DEF Room

\* The other steps of a worker.
LEMMA RoomStays ==
  ASSUME NEW n \in Nat, Room(n), NEW t \in Thread, ~At(t, "idle"),
         DOMAIN loc' = Thread, DOMAIN call' = Thread, mem'.made = mem.made,
         \A u \in Thread : u # t => loc'[u] = loc[u],
         \/ left' = left /\ loc'[t].pc # "idle"
         \/ left' = [left EXCEPT ![t] = @ - 1] /\ loc'[t].pc = "idle"
  PROVE  Room(n)'
<1>1. left \in [Thread -> 0 .. MaxNodes] /\ left[t] \in 1 .. MaxNodes
  BY DEF Room
<1>2. left' \in [Thread -> 0 .. MaxNodes] /\ \A u \in Thread : u # t => left'[u] = left[u]
  <2>1. left[t] - 1 \in 0 .. MaxNodes
    BY <1>1, LockFreeAssumption
  <2>2. CASE left' = left
    BY <1>1, <2>2
  <2>3. CASE left' = [left EXCEPT ![t] = @ - 1]
    BY <1>1, <2>1, <2>3
  <2> QED  BY <2>2, <2>3
<1>3. Open' = Open
  <2>1. ASSUME NEW u \in Thread, NEW i \in 1 .. MaxNodes
        PROVE  (i < left'[u] \/ (i = left'[u] /\ At(u, "idle")')) <=> (i < left[u] \/ (i = left[u] /\ At(u, "idle")))
    <3>1. CASE u # t
      BY <1>2, <3>1 DEF At
    <3>2. CASE u = t /\ left' = left /\ loc'[t].pc # "idle"
      BY <3>2 DEF At
    <3>3. CASE u = t /\ left' = [left EXCEPT ![t] = @ - 1] /\ loc'[t].pc = "idle"
      <4>1. left'[t] = left[t] - 1 /\ At(t, "idle")'
        BY <1>1, <3>3 DEF At
      <4>2. left[t] \in 1 .. MaxNodes
        BY <1>1
      <4> QED  BY <3>3, <4>1, <4>2
    <3> QED  BY <3>1, <3>2, <3>3
  <2> QED  BY <2>1 DEF Open
<1>4. \A u \in Thread : ~At(u, "idle")' => left'[u] > 0
  BY <1>1, <1>2 DEF Room, At
<1> QED  BY <1>2, <1>3, <1>4 DEF Room

\* The result of a call is the value in the frame.
Value(t) == IF "value" \in DOMAIN loc[t] THEN loc[t].value ELSE Pending

LEMMA ResultsAre ==
  ASSUME chosen # "queue", chosen' = chosen, NEW t \in Thread, \A u \in Thread : u # t => loc'[u] = loc[u]
  PROVE  /\ Results = [u \in Thread |-> Value(u)]
         /\ Results' = [Results EXCEPT ![t] = Value(t)']
<1>1. /\ \A u \in Thread : Result(u, Pending) = Value(u)
      /\ \A u \in Thread : Result(u, Pending)' = Value(u)'
  BY DEF Result, Value
<1>2. Results = [u \in Thread |-> Value(u)] /\ Results' = [u \in Thread |-> Value(u)']
  BY <1>1 DEF Results
<1>3. \A u \in Thread : u # t => Value(u)' = Value(u)
  BY DEF Value
<1> QED  BY <1>2, <1>3

Promised == Promise!Next \/ UNCHANGED promised

\* A step that changes neither the elements nor a result.
LEMMA Silent ==
  ASSUME chosen # "queue", chosen' = chosen, NEW t \in Thread, \A u \in Thread : u # t => loc'[u] = loc[u],
         Value(t)' = Value(t), Items' = Items, call' = call, left' = left
  PROVE  Promised
<1>1. Results' = Results
  BY ResultsAre
<1> QED  BY <1>1 DEF Promised, promised

\* A call begins.
LEMMA Begins ==
  ASSUME chosen # "queue", chosen' = chosen, NEW t \in Thread, \A u \in Thread : u # t => loc'[u] = loc[u],
         Value(t)' = Value(t), Items' = Items, left' = left, left[t] > 0, call[t] = <<>>,
         NEW name \in {"push", "pop"}, NEW s \in {"L", "R"}, NEW e \in 1 .. MaxNodes,
         call' = [call EXCEPT ![t] = <<name, s, e>>]
  PROVE  Promised
<1>1. Results' = Results
  BY ResultsAre
<1> DEFINE m == <<name, s>>
<1>2. m \in {"push", "pop"} \X {"L", "R"} /\ m[1] = name /\ m[2] = s
  OBVIOUS
<1>3. Promise!Invoke(t, m, e)
  BY <1>1 DEF Promise!Invoke
<1> QED  BY <1>2, <1>3 DEF Promised, Promise!Next

\* A call takes effect.
LEMMA Effect1 ==
  ASSUME chosen # "queue", chosen' = chosen, NEW t \in Thread, \A u \in Thread : u # t => loc'[u] = loc[u],
         Value(t) = Pending, call[t] # <<>>, call' = call, left' = left,
         \/ /\ call[t][1] = "push" /\ Value(t)' = Void
            /\ Items' = Promise!Pushed(Items, call[t][2], call[t][3])
         \/ /\ call[t][1] = "pop" /\ Items # <<>> /\ Value(t)' = Promise!End(Items, call[t][2])
            /\ Items' = Promise!Popped(Items, call[t][2])
         \/ /\ call[t][1] = "pop" /\ Items = <<>> /\ Value(t)' = Empty
            /\ Items' = Items
  PROVE  Promised
<1>1. Results[t] = Pending /\ Results' = [Results EXCEPT ![t] = Value(t)']
  BY ResultsAre
<1>2. Promise!Push(t) \/ Promise!Pop(t) \/ Promise!PopEmpty(t)
  BY <1>1 DEF Promise!Push, Promise!Pop, Promise!PopEmpty, Promise!Begun
<1> QED  BY <1>2 DEF Promised, Promise!Next

\* A call returns.
LEMMA Ends ==
  ASSUME chosen # "queue", chosen' = chosen, NEW t \in Thread, \A u \in Thread : u # t => loc'[u] = loc[u],
         Value(t) # Pending, Value(t)' = Pending, Items' = Items,
         call' = [call EXCEPT ![t] = <<>>], left' = [left EXCEPT ![t] = @ - 1]
  PROVE  Promised
<1>1. Results[t] # Pending /\ Results' = [Results EXCEPT ![t] = Pending]
  BY ResultsAre
<1>2. Promise!Return(t)
  BY <1>1 DEF Promise!Return
<1> QED  BY <1>2 DEF Promised, Promise!Next

-----------------------------------------------------------------------------
(***************************************************************************)
(* Treiber's stack.                                                        *)
(***************************************************************************)
Node == 1 .. MaxNodes
Cell == 0 .. MaxNodes

StackMem == [head : Cell, next : [Node -> Cell], made : Cell]

\* The links fall with the rank r; C holds the nodes of the stack, which are
\* closed under the links and lie below the head.
StackShape(m, r, C) ==
  /\ m \in StackMem
  /\ \E K \in Nat : r \in [Cell -> 0 .. K]
  /\ \A n \in Node : r[m.next[n]] < r[n] /\ m.next[n] <= m.made
  /\ C \subseteq 0 .. m.made /\ m.head \in C
  /\ \A n \in C : n # 0 => m.next[n] \in C
  /\ \A n \in C : n # m.head => r[n] < r[m.head]

\* What a worker's call and frame are.
StackFrame(t) ==
  \/ At(t, "idle") /\ call[t] = <<>> /\ "value" \notin DOMAIN loc[t]
  \/ /\ loc[t].pc \in {"push", "link"} /\ call[t] \in {"push"} \X {"L"} \X Node
     /\ "value" \notin DOMAIN loc[t]
  \/ /\ loc[t].pc \in {"pop", "next", "take"} /\ call[t] = <<"pop", "L", 1>>
     /\ "value" \notin DOMAIN loc[t]
     /\ loc[t].pc # "pop" => "first" \in DOMAIN loc[t]
  \/ /\ loc[t].pc \in {"clear", "return"} /\ call[t] # <<>>
     /\ "value" \in DOMAIN loc[t] /\ loc[t].value # Pending

\* The node of a push under way is nobody else's: it is not in the stack, no
\* link leads to it, and no pop has found it.  As long as the node that a pop
\* has found is in the stack, its link is the one that was loaded; a node that
\* was popped is not in the stack again.
Pushing(t) == loc[t].pc \in {"push", "link"}
Popping(t) == loc[t].pc \in {"next", "take", "clear"}

Private(t, C) ==
  /\ call[t][3] \in 1 .. mem.made /\ call[t][3] \notin C
  /\ \A n \in Node : mem.next[n] # call[t][3]
  /\ \A u \in Thread : Pushing(u) /\ u # t => call[u][3] # call[t][3]
  /\ \A u \in Thread : Popping(u) => loc[u].first # call[t][3]

Found(t, C) ==
  /\ loc[t].first \in 1 .. mem.made
  /\ loc[t].pc = "take" /\ loc[t].first \in C => loc[t].next = mem.next[loc[t].first]
  /\ loc[t].pc = "clear" => loc[t].first \notin C

StackLocals(C) ==
  \A t \in Thread : (Pushing(t) => Private(t, C)) /\ (Popping(t) => Found(t, C))

StackOK ==
  /\ \A t \in Thread : StackFrame(t)
  /\ \E r, C : StackShape(mem, r, C) /\ StackLocals(C)

\* The operators of Frames are those of the stack.
LEMMA StackFrames ==
  /\ \A t, l : Stack!At(t, l) <=> At(t, l)
  /\ \A t, f : Stack!Go(t, f) <=> Go(t, f)
  /\ \A t, c, l : Stack!Enter(t, c, l) <=> Enter(t, c, l)
  /\ \A t, v : Stack!Returns(t, v) <=> Go(t, [pc |-> "return", value |-> v])
BY DEF Stack!At, At, Stack!Go, Go, Stack!Updated, Updated, Stack!Enter, Enter, Stack!Returns

Names == [n \in Cell |-> n]
IsStackWalk(f, nx) == f = [n \in 0 .. MaxNodes |-> IF n = 0 THEN <<>> ELSE <<n>> \o f[nx[n]]]
StackWalk(nx) == CHOOSE f : IsStackWalk(f, nx)

LEMMA StackItems ==
  /\ Stack!Items = StackWalk(mem.next)[mem.head]
  /\ Stack!Items' = StackWalk(mem'.next)[mem'.head]
BY DEF Stack!Items, Stack!Null, StackWalk, IsStackWalk

LEMMA StackWalkFacts ==
  ASSUME NEW m, NEW r, NEW C, StackShape(m, r, C)
  PROVE  /\ IsWalk(StackWalk(m.next), Cell, {0}, Names, m.next)
         /\ Falls(Cell, {0}, m.next, r) /\ r \in [Cell -> Nat]
<1>1. PICK K \in Nat : r \in [Cell -> 0 .. K]
  BY DEF StackShape
<1>2. MaxNodes \in Nat /\ m.next \in [Node -> Cell]
  BY LockFreeAssumption DEF StackShape, StackMem
<1>3. Falls(Cell, {0}, m.next, r)
  <2> SUFFICES ASSUME NEW n \in Cell \ {0} PROVE m.next[n] \in Cell /\ r[m.next[n]] < r[n]
    BY DEF Falls
  <2>1. n \in Node
    BY <1>2 DEF Cell, Node
  <2> QED  BY <1>2, <2>1 DEF StackShape
<1>4. PICK f : IsWalk(f, Cell, {0}, Names, m.next)
  BY <1>1, <1>3, WalkExists
<1>5. \A g : IsWalk(g, Cell, {0}, Names, m.next) <=> IsStackWalk(g, m.next)
  <2>1. \A n \in Cell : (n \in {0} <=> n = 0) /\ Names[n] = n
    BY DEF Names
  <2>2. \A g : [n \in Cell |-> IF n \in {0} THEN <<>> ELSE <<Names[n]>> \o g[m.next[n]]]
               = [n \in Cell |-> IF n = 0 THEN <<>> ELSE <<n>> \o g[m.next[n]]]
    BY <2>1
  <2> QED  BY <2>2 DEF IsWalk, IsStackWalk, Cell
<1>6. IsStackWalk(StackWalk(m.next), m.next)
  BY <1>4, <1>5 DEF StackWalk
<1>7. r \in [Cell -> Nat]
  BY <1>1
<1> QED  BY <1>3, <1>5, <1>6, <1>7

\* What is read from the nodes of C does not depend on the other links.
LEMMA StackWalksAgree ==
  ASSUME NEW m, NEW r, NEW C, StackShape(m, r, C),
         NEW w, NEW s, NEW E, StackShape(w, s, E),
         \A n \in C : n # 0 => w.next[n] = m.next[n]
  PROVE  StackWalk(m.next)[m.head] = StackWalk(w.next)[m.head]
<1>1. /\ IsWalk(StackWalk(m.next), Cell, {0}, Names, m.next)
      /\ Falls(Cell, {0}, m.next, r) /\ r \in [Cell -> Nat]
  BY StackWalkFacts
<1>2. IsWalk(StackWalk(w.next), Cell, {0}, Names, w.next)
  BY StackWalkFacts
<1>3. C \in SUBSET Cell /\ m.head \in C /\ \A n \in C \ {0} : m.next[n] \in C
  BY LockFreeAssumption DEF StackShape, StackMem, Cell
<1> DEFINE f == StackWalk(m.next)  g == StackWalk(w.next)  nx == m.next  mx == w.next
<1> HIDE DEF f, g, nx, mx
<1>4. /\ IsWalk(f, Cell, {0}, Names, nx) /\ Falls(Cell, {0}, nx, r)
      /\ IsWalk(g, Cell, {0}, Names, mx)
  BY <1>1, <1>2 DEF f, g, nx, mx
<1>5. \A n \in C \ {0} : nx[n] \in C /\ mx[n] = nx[n]
  BY <1>3 DEF nx, mx
<1>6. \A n \in C : f[n] = g[n]
  BY <1>1, <1>3, <1>4, <1>5, WalksAgree, SMTT(30)
<1> QED  BY <1>3, <1>6 DEF f, g

\* The top of the stack.
LEMMA StackTop ==
  ASSUME NEW m, NEW r, NEW C, StackShape(m, r, C), NEW n \in Cell
  PROVE  StackWalk(m.next)[n] = IF n = 0 THEN <<>> ELSE <<n>> \o StackWalk(m.next)[m.next[n]]
<1> DEFINE f == StackWalk(m.next)
<1>1. IsWalk(f, Cell, {0}, Names, m.next)
  BY StackWalkFacts
<1>2. Names[n] = n
  BY DEF Names
<1> HIDE DEF f
<1>3. f[n] = IF n \in {0} THEN <<>> ELSE <<Names[n]>> \o f[m.next[n]]
  BY <1>1 DEF IsWalk
<1>4. f[n] = IF n = 0 THEN <<>> ELSE <<n>> \o f[m.next[n]]
  BY <1>2, <1>3
<1> QED  BY <1>4 DEF f

LEMMA StackWalkType ==
  ASSUME NEW m, NEW r, NEW C, StackShape(m, r, C), NEW n \in Cell
  PROVE  StackWalk(m.next)[n] \in Seq(Node)
<1>1. \A i \in Cell \ {0} : Names[i] \in Node
  BY LockFreeAssumption DEF Names, Cell, Node
<1> QED  BY <1>1, StackWalkFacts, WalkType

\* The stores.
LEMMA StackSetNext ==
  ASSUME NEW m \in StackMem, NEW n \in Node, NEW v \in Cell
  PROVE  LET w == [m EXCEPT !.next[n] = v]
         IN  /\ w \in StackMem /\ w.head = m.head /\ w.made = m.made
             /\ w.next[n] = v /\ \A i \in Node : i # n => w.next[i] = m.next[i]
<1> DEFINE w == [m EXCEPT !.next[n] = v]
<1>1. m.next \in [Node -> Cell]
  BY DEF StackMem
<1>2. w.head = m.head /\ w.made = m.made /\ w.next = [m.next EXCEPT ![n] = v]
  BY DEF StackMem
<1>3. w.next \in [Node -> Cell]
  BY <1>1, <1>2
<1>4. w \in StackMem
  BY <1>2, <1>3 DEF StackMem
<1> QED  BY <1>1, <1>2, <1>4

LEMMA StackSetHead ==
  ASSUME NEW m \in StackMem, NEW v \in Cell, NEW w, w = [m EXCEPT !.head = v]
  PROVE  w \in StackMem /\ w.head = v /\ w.made = m.made /\ w.next = m.next
BY DEF StackMem

\* A store to a node that nothing leads to.
LEMMA StackStore ==
  ASSUME NEW m, NEW r, NEW C, StackShape(m, r, C), NEW n \in Node, n \notin C, \A i \in Node : m.next[i] # n,
         NEW v \in Cell, v # n, v <= m.made, NEW w, w = [m EXCEPT !.next[n] = v]
  PROVE  \E s : StackShape(w, s, C)
<1>1. PICK K \in Nat : r \in [Cell -> 0 .. K]
  BY DEF StackShape
<1>2. /\ w \in StackMem /\ w.head = m.head /\ w.made = m.made
      /\ w.next[n] = v /\ \A i \in Node : i # n => w.next[i] = m.next[i]
  <2>1. m \in StackMem
    BY DEF StackShape
  <2> QED  BY <2>1, StackSetNext
<1> DEFINE s == [i \in Cell |-> IF i = n THEN K + 1 ELSE r[i]]
<1>3. s \in [Cell -> 0 .. K + 1]
  BY <1>1
<1>10. MaxNodes \in Nat
  BY LockFreeAssumption
<1>4. n \in Cell /\ Node \subseteq Cell /\ m.next \in [Node -> Cell] /\ C \subseteq Cell
  BY <1>10 DEF Node, Cell, StackShape, StackMem
<1>5. \A i \in Cell : i # n => s[i] = r[i]
  OBVIOUS
<1>6. s[n] = K + 1
  BY <1>4
<1> HIDE DEF s
<1>7. \A i \in Node : s[w.next[i]] < s[i] /\ w.next[i] <= w.made
  <2> TAKE i \in Node
  <2>1. CASE i = n
    <3>1. s[v] = r[v] /\ r[v] \in 0 .. K
      BY <1>1, <1>5
    <3> QED  BY <2>1, <1>2, <1>6, <3>1
  <2>2. CASE i # n
    <3>1. w.next[i] = m.next[i] /\ m.next[i] \in Cell /\ m.next[i] # n /\ i \in Cell
      BY <2>2, <1>2, <1>4
    <3> QED  BY <3>1, <2>2, <1>2, <1>5 DEF StackShape
  <2> QED  BY <2>1, <2>2
<1>8. \A i \in C : s[i] = r[i] /\ (i # 0 => w.next[i] = m.next[i])
  <2> TAKE i \in C
  <2>1. i # n /\ i \in Cell /\ (i # 0 => i \in Node)
    BY <1>4, LockFreeAssumption DEF Cell, Node
  <2> QED  BY <2>1, <1>2, <1>5
<1>9. \E L \in Nat : s \in [Cell -> 0 .. L]
  BY <1>1, <1>3
<1> QED  BY <1>2, <1>7, <1>8, <1>9 DEF StackShape

\* The head leads to a node whose link is the old head.
LEMMA StackPushed ==
  ASSUME NEW m, NEW r, NEW C, StackShape(m, r, C), NEW n \in Node, n <= m.made, n \notin C, m.next[n] = m.head,
         NEW w, w = [m EXCEPT !.head = n]
  PROVE  StackShape(w, r, C \union {n})
<1>1. PICK K \in Nat : r \in [Cell -> 0 .. K]
  BY DEF StackShape
<1>2. w \in StackMem /\ w.head = n /\ w.made = m.made /\ w.next = m.next /\ n \in Cell /\ n \in 0 .. m.made
  <2>1. m \in StackMem
    BY DEF StackShape
  <2>2. n \in Cell /\ n \in 0 .. m.made
    BY <2>1, LockFreeAssumption DEF StackMem, Node, Cell
  <2>3. w \in StackMem /\ w.head = n /\ w.made = m.made /\ w.next = m.next
    BY <2>1, <2>2, StackSetHead, Zenon
  <2> QED  BY <2>2, <2>3
<1>3. r[m.head] < r[n] /\ m.head \in C /\ C \subseteq Cell
  BY LockFreeAssumption DEF StackShape, StackMem, Cell
<1>4. \A i \in C \union {n} : i # n => r[i] < r[n]
  <2> TAKE i \in C \union {n}
  <2>1. r[i] \in Nat /\ r[m.head] \in Nat /\ r[n] \in Nat
    BY <1>1, <1>2, <1>3
  <2> QED  BY <2>1, <1>3 DEF StackShape
<1>5. \A i \in C \union {n} : i # 0 => w.next[i] \in C \union {n}
  BY <1>2, <1>3 DEF StackShape
<1> QED  BY <1>1, <1>2, <1>3, <1>4, <1>5 DEF StackShape

\* The head leads to the node below the top.
LEMMA StackPopped ==
  ASSUME NEW m, NEW r, NEW C, StackShape(m, r, C), m.head # 0, NEW w, w = [m EXCEPT !.head = m.next[m.head]]
  PROVE  \E E \in SUBSET C : m.head \notin E /\ StackShape(w, r, E)
<1> DEFINE n == m.next[m.head]
           E == {n} \union {i \in C : r[i] < r[n]}
<1>1. PICK K \in Nat : r \in [Cell -> 0 .. K]
  BY DEF StackShape
<1>2. m.head \in Node /\ m.head \in C /\ C \subseteq Cell /\ n \in C /\ r[n] < r[m.head]
  BY LockFreeAssumption DEF StackShape, StackMem, Node, Cell
<1>3. w \in StackMem /\ w.head = n /\ w.made = m.made /\ w.next = m.next
  <2>1. n \in Cell /\ m \in StackMem
    BY <1>2 DEF StackShape
  <2> QED  BY <2>1, StackSetHead
<1>4. \A i \in Cell : r[i] \in Nat
  BY <1>1
<1>5. E \in SUBSET C /\ m.head \notin E
  <2>1. m.head # n
    BY <1>2, <1>4
  <2>2. ~(r[m.head] < r[n])
    BY <1>2, <1>4
  <2> QED  BY <1>2, <2>1, <2>2
<1>6. \A i \in E : i # 0 => w.next[i] \in E
  <2> SUFFICES ASSUME NEW i \in E, i # 0 PROVE m.next[i] \in C /\ r[m.next[i]] < r[n]
    BY <1>3
  <2>1. i \in C /\ i \in Node /\ m.next[i] \in C
    BY <1>2, LockFreeAssumption DEF StackShape, Cell, Node
  <2>2. r[m.next[i]] < r[i]
    BY <2>1 DEF StackShape
  <2>3. r[i] \in Nat /\ r[m.next[i]] \in Nat /\ r[n] \in Nat
    BY <2>1, <1>2, <1>4
  <2>4. r[i] = r[n] \/ r[i] < r[n]
    OBVIOUS
  <2> QED  BY <2>1, <2>2, <2>3, <2>4
<1>7. \A i \in E : i # w.head => r[i] < r[w.head]
  BY <1>3
<1> HIDE DEF n, E
<1>8. StackShape(w, r, E)
  BY <1>1, <1>2, <1>3, <1>5, <1>6, <1>7 DEF StackShape, E
<1> QED  BY <1>5, <1>8

\* The parts of the invariant that one worker's step leaves to prove.
LEMMA StackFramesKeep ==
  ASSUME StackOK, NEW t \in Thread, StackFrame(t)',
         \A u \in Thread : u # t => loc'[u] = loc[u] /\ call'[u] = call[u]
  PROVE  \A u \in Thread : StackFrame(u)'
<1> TAKE u \in Thread
<1>1. CASE u = t
  BY <1>1
<1>2. CASE u # t
  <2>1. StackFrame(u) /\ loc'[u] = loc[u] /\ call'[u] = call[u]
    BY <1>2 DEF StackOK
  <2> QED  BY <2>1 DEF StackFrame, At
<1> QED  BY <1>1, <1>2

\* CallPush.
LEMMA StackCallPush ==
  ASSUME chosen = "stack", chosen' = chosen, StackOK, NEW t \in Thread, Room(MaxNodes), left[t] > 0, At(t, "idle"),
         left' = left, Stack!CallPush(t)
  PROVE  StackOK' /\ Promised /\ Room(MaxNodes)'
<1> DEFINE n == mem.made + 1
<1>1. PICK r, C : StackShape(mem, r, C) /\ StackLocals(C)
  BY DEF StackOK
<1>2. /\ call' = [call EXCEPT ![t] = <<"push", "L", n>>] /\ loc' = [loc EXCEPT ![t] = [pc |-> "push"]]
      /\ mem' = [mem EXCEPT !.made = n]
  BY StackFrames DEF Stack!CallPush, Enter
<1>3. DOMAIN loc = Thread /\ DOMAIN call = Thread /\ mem \in StackMem
  BY <1>1 DEF Room, StackShape
<1>4. mem'.made = n /\ mem'.head = mem.head /\ mem'.next = mem.next
  BY <1>2, <1>3 DEF StackMem
<1>5. /\ DOMAIN loc' = Thread /\ DOMAIN call' = Thread
      /\ loc'[t] = [pc |-> "push"] /\ call'[t] = <<"push", "L", n>>
      /\ \A u \in Thread : u # t => loc'[u] = loc[u] /\ call'[u] = call[u]
  BY <1>2, <1>3
<1>6. loc'[t].pc = "push" /\ "value" \notin DOMAIN loc'[t]
  BY <1>5
<1>7. Room(MaxNodes)' /\ mem.made < MaxNodes
  BY <1>4, <1>5, <1>6, RoomForCall, LockFreeAssumption
<1>8. mem.made \in Nat /\ n \in Node /\ MaxNodes \in Nat
  BY <1>7, LockFreeAssumption DEF Room, Node
<1>9. mem' \in StackMem
  <2>1. n \in Cell
    BY <1>8 DEF Cell, Node
  <2> QED  BY <1>2, <1>3, <2>1 DEF StackMem
<1>10. StackFrame(t)'
  BY <1>5, <1>6, <1>8 DEF StackFrame
<1>11. \A u \in Thread : StackFrame(u)'
  BY <1>5, <1>10, StackFramesKeep
<1>12. StackShape(mem', r, C)
  <2>1. \A i \in Node : mem.next[i] \in Nat /\ mem.next[i] <= mem.made
    BY <1>1, <1>3 DEF StackShape, StackMem, Cell
  <2>2. \A i \in Node : mem'.next[i] <= mem'.made
    BY <1>4, <1>8, <2>1
  <2>3. C \subseteq 0 .. mem'.made
    BY <1>1, <1>4, <1>8 DEF StackShape
  <2> QED  BY <1>1, <1>4, <1>9, <2>2, <2>3 DEF StackShape
<1>13. StackLocals(C)'
  <2> SUFFICES ASSUME NEW u \in Thread PROVE (Pushing(u)' => Private(u, C)') /\ (Popping(u)' => Found(u, C)')
    BY DEF StackLocals
  <2>1. \A i \in 1 .. mem.made : i # n
    BY <1>8
  <2>2. \A v \in Thread : v # t => /\ Pushing(v)' <=> Pushing(v)
                                   /\ Popping(v)' <=> Popping(v)
    BY <1>5 DEF Pushing, Popping
  <2>3. ~Popping(t)' /\ Pushing(t)'
    BY <1>6 DEF Popping, Pushing
  <2>4. 1 .. mem.made \subseteq 1 .. mem'.made
    BY <1>4, <1>8
  <2>5. CASE u = t
    <3>1. n \notin C /\ \A i \in Node : mem.next[i] # n
      BY <1>1, <1>3, <1>8 DEF StackShape, StackMem, Cell
    <3>2. \A v \in Thread : Pushing(v)' /\ v # t => call'[v][3] # n
      BY <1>1, <1>5, <2>1, <2>2 DEF StackLocals, Private
    <3>3. \A v \in Thread : Popping(v)' => loc'[v].first # n
      BY <1>1, <1>5, <2>1, <2>2, <2>3 DEF StackLocals, Found
    <3>4. n \in 1 .. mem'.made
      BY <1>4, <1>8
    <3>5. Private(t, C)'
      BY <1>4, <1>5, <3>1, <3>2, <3>3, <3>4 DEF Private
    <3> QED  BY <2>3, <2>5, <3>5
  <2>6. CASE u # t
    <3>1. Pushing(u)' => Private(u, C)'
      <4> SUFFICES ASSUME Pushing(u) PROVE Private(u, C)'
        BY <2>2, <2>6
      <4>1. Private(u, C) /\ call'[u][3] = call[u][3]
        BY <1>1, <1>5, <2>6 DEF StackLocals
      <4>2. \A v \in Thread : Pushing(v)' /\ v # u => call'[v][3] # call[u][3]
        BY <1>5, <2>1, <2>2, <4>1 DEF Private
      <4>3. \A v \in Thread : Popping(v)' => loc'[v].first # call[u][3]
        BY <1>5, <2>2, <2>3, <4>1 DEF Private
      <4> QED  BY <1>4, <2>4, <4>1, <4>2, <4>3 DEF Private
    <3>2. Popping(u)' => Found(u, C)'
      <4> SUFFICES ASSUME Popping(u) PROVE Found(u, C)'
        BY <2>2, <2>6
      <4>1. Found(u, C) /\ loc'[u] = loc[u]
        BY <1>1, <1>5, <2>6 DEF StackLocals
      <4> QED  BY <1>4, <2>4, <4>1 DEF Found
    <3> QED  BY <3>1, <3>2
  <2> QED  BY <2>5, <2>6
<1>14. StackOK'
  BY <1>11, <1>12, <1>13 DEF StackOK
<1>15. Value(t) = Pending /\ Value(t)' = Pending /\ call[t] = <<>>
  BY <1>6 DEF StackOK, StackFrame, Value, At
<1>16. Items' = Items
  <2>1. Items = Stack!Items /\ Items' = Stack!Items'
    BY DEF Items
  <2> QED  BY <2>1, <1>4, StackItems
<1>17. Promised
  BY <1>2, <1>5, <1>8, <1>15, <1>16, Begins DEF Node
<1> QED  BY <1>7, <1>14, <1>17

LEMMA StackLocalsKeep ==
  ASSUME NEW C, StackLocals(C), NEW E, NEW t \in Thread, mem'.made = mem.made,
         \A u \in Thread : u # t => loc'[u] = loc[u] /\ call'[u] = call[u],
         \A u \in Thread : u # t /\ Pushing(u) =>
           /\ call[u][3] \notin E
           /\ \A n \in Node : mem'.next[n] # call[u][3]
           /\ Pushing(t)' => call'[t][3] # call[u][3]
           /\ Popping(t)' => loc'[t].first # call[u][3],
         \A u \in Thread : u # t /\ Popping(u) =>
           /\ loc[u].pc = "take" /\ loc[u].first \in E =>
                loc[u].first \in C /\ mem'.next[loc[u].first] = mem.next[loc[u].first]
           /\ loc[u].pc = "clear" => loc[u].first \notin E,
         Pushing(t)' => Private(t, E)', Popping(t)' => Found(t, E)'
  PROVE  StackLocals(E)'
<1> SUFFICES ASSUME NEW u \in Thread PROVE (Pushing(u)' => Private(u, E)') /\ (Popping(u)' => Found(u, E)')
  BY DEF StackLocals
<1>1. \A v \in Thread : v # t => (Pushing(v)' <=> Pushing(v)) /\ (Popping(v)' <=> Popping(v))
  BY DEF Pushing, Popping
<1>2. CASE u = t
  BY <1>2
<1>3. CASE u # t
  <2>1. Pushing(u)' => Private(u, E)'
    <3> SUFFICES ASSUME Pushing(u) PROVE Private(u, E)'
      BY <1>1, <1>3
    <3>1. Private(u, C) /\ call'[u] = call[u]
      BY <1>3 DEF StackLocals
    <3>2. \A v \in Thread : Pushing(v)' /\ v # u => call'[v][3] # call[u][3]
      BY <1>1, <1>3, <3>1 DEF Private
    <3>3. \A v \in Thread : Popping(v)' => loc'[v].first # call[u][3]
      BY <1>1, <1>3, <3>1 DEF Private
    <3> QED  BY <1>3, <3>1, <3>2, <3>3 DEF Private
  <2>2. Popping(u)' => Found(u, E)'
    <3> SUFFICES ASSUME Popping(u) PROVE Found(u, E)'
      BY <1>1, <1>3
    <3>1. Found(u, C) /\ loc'[u] = loc[u]
      BY <1>3 DEF StackLocals
    <3> QED  BY <1>3, <3>1 DEF Found
  <2> QED  BY <2>1, <2>2
<1> QED  BY <1>2, <1>3

\* A step of a pop that changes no memory, or the return of a call.
LEMMA StackQuiet ==
  ASSUME chosen = "stack", chosen' = chosen, StackOK, NEW t \in Thread, mem' = mem, ~Pushing(t)', StackFrame(t)',
         \A u \in Thread : u # t => loc'[u] = loc[u] /\ call'[u] = call[u],
         Popping(t)' =>
           \/ Popping(t) /\ loc'[t].pc = "take" /\ loc'[t].first = loc[t].first
              /\ loc'[t].next = mem.next[loc[t].first]
           \/ loc'[t].pc = "next" /\ loc'[t].first = mem.head /\ mem.head # 0
  PROVE  StackOK' /\ Items' = Items
<1>1. PICK r, C : StackShape(mem, r, C) /\ StackLocals(C)
  BY DEF StackOK
<1>2. \A u \in Thread : StackFrame(u)'
  BY StackFramesKeep
<1>3. \A u \in Thread : Pushing(u) =>
        /\ call[u][3] \notin C
        /\ \A n \in Node : mem'.next[n] # call[u][3]
        /\ Popping(t)' => loc'[t].first # call[u][3]
  <2> SUFFICES ASSUME NEW u \in Thread, Pushing(u)
               PROVE  /\ call[u][3] \notin C
                      /\ \A n \in Node : mem'.next[n] # call[u][3]
                      /\ Popping(t)' => loc'[t].first # call[u][3]
    OBVIOUS
  <2>1. Private(u, C) /\ mem.head \in C
    BY <1>1 DEF StackLocals, StackShape
  <2>2. Popping(t) => loc[t].first # call[u][3]
    BY <2>1 DEF Private
  <2> QED  BY <2>1, <2>2 DEF Private
<1>4. Popping(t)' => Found(t, C)'
  <2>1. CASE Popping(t) /\ loc'[t].pc = "take" /\ loc'[t].first = loc[t].first
             /\ loc'[t].next = mem.next[loc[t].first]
    BY <1>1, <2>1 DEF StackLocals, Found
  <2>2. CASE loc'[t].pc = "next" /\ loc'[t].first = mem.head /\ mem.head # 0
    <3>1. mem.head \in 0 .. mem.made /\ mem.made \in Nat
      BY <1>1, LockFreeAssumption DEF StackShape, StackMem, Cell
    <3> QED  BY <2>2, <3>1 DEF Found
  <2> QED  BY <2>1, <2>2
<1>5. StackLocals(C)'
  <2>1. mem'.made = mem.made
    OBVIOUS
  <2>2. \A u \in Thread : u # t /\ Pushing(u) =>
          /\ call[u][3] \notin C
          /\ \A n \in Node : mem'.next[n] # call[u][3]
          /\ Pushing(t)' => call'[t][3] # call[u][3]
          /\ Popping(t)' => loc'[t].first # call[u][3]
    BY <1>3
  <2>3. \A u \in Thread : u # t /\ Popping(u) =>
          /\ loc[u].pc = "take" /\ loc[u].first \in C =>
               loc[u].first \in C /\ mem'.next[loc[u].first] = mem.next[loc[u].first]
          /\ loc[u].pc = "clear" => loc[u].first \notin C
    BY <1>1 DEF StackLocals, Found
  <2> QED  BY <1>1, <1>4, <2>1, <2>2, <2>3, StackLocalsKeep
<1>6. Items' = Items
  <2>1. Items = Stack!Items /\ Items' = Stack!Items'
    BY DEF Items
  <2> QED  BY <2>1, StackItems
<1> QED  BY <1>1, <1>2, <1>5, <1>6 DEF StackOK

LEMMA StackCallPop ==
  ASSUME chosen = "stack", chosen' = chosen, StackOK, NEW t \in Thread, Room(MaxNodes), left[t] > 0, At(t, "idle"),
         left' = left, Stack!CallPop(t)
  PROVE  StackOK' /\ Promised /\ Room(MaxNodes)'
<1>1. /\ call' = [call EXCEPT ![t] = <<"pop", "L", 1>>] /\ loc' = [loc EXCEPT ![t] = [pc |-> "pop"]]
      /\ mem' = mem
  BY StackFrames DEF Stack!CallPop, Enter
<1>2. DOMAIN loc = Thread /\ DOMAIN call = Thread
  BY DEF Room
<1>3. /\ DOMAIN loc' = Thread /\ DOMAIN call' = Thread
      /\ loc'[t] = [pc |-> "pop"] /\ call'[t] = <<"pop", "L", 1>>
      /\ \A u \in Thread : u # t => loc'[u] = loc[u] /\ call'[u] = call[u]
  BY <1>1, <1>2
<1>4. loc'[t].pc = "pop" /\ "value" \notin DOMAIN loc'[t]
  BY <1>3
<1>5. Room(MaxNodes)'
  BY <1>1, <1>3, <1>4, RoomForCall, LockFreeAssumption
<1>6. StackFrame(t)' /\ ~Pushing(t)' /\ ~Popping(t)'
  BY <1>3, <1>4 DEF StackFrame, Pushing, Popping
<1>7. StackOK' /\ Items' = Items
  BY <1>1, <1>3, <1>6, StackQuiet
<1>8. Value(t) = Pending /\ Value(t)' = Pending /\ call[t] = <<>> /\ 1 \in 1 .. MaxNodes
  BY <1>4, LockFreeAssumption DEF StackOK, StackFrame, Value, At
<1>9. Promised
  BY <1>1, <1>3, <1>7, <1>8, Begins
<1> QED  BY <1>5, <1>7, <1>9

LEMMA StackReturn ==
  ASSUME chosen = "stack", chosen' = chosen, StackOK, NEW t \in Thread, Room(MaxNodes), Return(t)
  PROVE  StackOK' /\ Promised /\ Room(MaxNodes)'
<1>1. /\ At(t, "return") /\ mem' = mem /\ left' = [left EXCEPT ![t] = @ - 1]
      /\ call' = [call EXCEPT ![t] = <<>>] /\ loc' = [loc EXCEPT ![t] = [pc |-> "idle"]]
  BY DEF Return, Leave, Idle
<1>2. DOMAIN loc = Thread /\ DOMAIN call = Thread
  BY DEF Room
<1>3. /\ DOMAIN loc' = Thread /\ DOMAIN call' = Thread
      /\ loc'[t] = [pc |-> "idle"] /\ call'[t] = <<>>
      /\ \A u \in Thread : u # t => loc'[u] = loc[u] /\ call'[u] = call[u]
  BY <1>1, <1>2
<1>4. loc'[t].pc = "idle" /\ "value" \notin DOMAIN loc'[t]
  BY <1>3
<1>5. Room(MaxNodes)'
  BY <1>1, <1>3, <1>4, RoomStays, LockFreeAssumption DEF At
<1>6. StackFrame(t)' /\ ~Pushing(t)' /\ ~Popping(t)'
  BY <1>3, <1>4 DEF StackFrame, Pushing, Popping, At
<1>7. StackOK' /\ Items' = Items
  BY <1>1, <1>3, <1>6, StackQuiet
<1>8. Value(t) # Pending /\ Value(t)' = Pending
  BY <1>1, <1>4 DEF StackOK, StackFrame, Value, At
<1>9. Promised
  BY <1>1, <1>3, <1>7, <1>8, Ends
<1> QED  BY <1>5, <1>7, <1>9

\* push stores the head in its node, at first or when the exchange has failed.
LEMMA StackStores ==
  ASSUME chosen = "stack", chosen' = chosen, StackOK, NEW t \in Thread, Room(MaxNodes), UNCHANGED <<call, left>>,
         Pushing(t), mem' = [mem EXCEPT !.next[call[t][3]] = mem.head],
         Go(t, [pc |-> "link"]) \/ (At(t, "link") /\ UNCHANGED loc)
  PROVE  StackOK' /\ Promised /\ Room(MaxNodes)'
<1> DEFINE n == call[t][3]
<1>1. PICK r, C : StackShape(mem, r, C) /\ StackLocals(C)
  BY DEF StackOK
<1>2. DOMAIN loc = Thread /\ DOMAIN call = Thread
  BY DEF Room
<1>3. StackFrame(t) /\ call[t] \in {"push"} \X {"L"} \X Node /\ "value" \notin DOMAIN loc[t] /\ n \in Node
  BY DEF StackOK, StackFrame, Pushing, At
<1>4. /\ DOMAIN loc' = Thread /\ loc'[t].pc = "link" /\ "value" \notin DOMAIN loc'[t]
      /\ \A u \in Thread : u # t => loc'[u] = loc[u]
  <2>1. CASE Go(t, [pc |-> "link"])
    <3> DEFINE frame == [pc |-> "link"]
    <3>1. DOMAIN frame = {"pc"} /\ frame["pc"] = "link"
      OBVIOUS
    <3> HIDE DEF frame
    <3>2. /\ DOMAIN loc' = Thread /\ \A u \in Thread : u # t => loc'[u] = loc[u]
          /\ DOMAIN loc'[t] = DOMAIN frame \union DOMAIN loc[t]
          /\ \A x \in DOMAIN frame : loc'[t][x] = frame[x]
      BY <1>2, <2>1, GoFacts DEF frame
    <3> QED  BY <1>3, <3>1, <3>2
  <2>2. CASE At(t, "link") /\ UNCHANGED loc
    BY <1>2, <1>3, <2>2 DEF At
  <2> QED  BY <2>1, <2>2
<1>5. Private(t, C)
  BY <1>1 DEF StackLocals
<1>6. mem.head \in C /\ mem.head \in Cell /\ mem.head # n /\ mem.head <= mem.made /\ mem \in StackMem
  BY <1>1, <1>5, LockFreeAssumption DEF Private, StackShape, StackMem, Cell
<1>7. /\ mem' \in StackMem /\ mem'.head = mem.head /\ mem'.made = mem.made
      /\ mem'.next[n] = mem.head /\ \A i \in Node : i # n => mem'.next[i] = mem.next[i]
  BY <1>3, <1>6, StackSetNext
<1>8. PICK s : StackShape(mem', s, C)
  BY <1>1, <1>3, <1>5, <1>6, StackStore DEF Private
<1>9. \A u \in Thread : StackFrame(u)'
  <2>1. StackFrame(t)'
    BY <1>3, <1>4 DEF StackFrame
  <2> QED  BY <1>4, <2>1, StackFramesKeep
<1>10. StackLocals(C)'
  <2>1. \A u \in Thread : u # t /\ Pushing(u) =>
          /\ call[u][3] \notin C
          /\ \A i \in Node : mem'.next[i] # call[u][3]
          /\ Pushing(t)' => call'[t][3] # call[u][3]
          /\ Popping(t)' => loc'[t].first # call[u][3]
    <3> SUFFICES ASSUME NEW u \in Thread, u # t, Pushing(u)
                 PROVE  /\ call[u][3] \notin C
                        /\ \A i \in Node : mem'.next[i] # call[u][3]
                        /\ call[t][3] # call[u][3] /\ ~Popping(t)'
      OBVIOUS
    <3>1. Private(u, C)
      BY <1>1 DEF StackLocals
    <3>2. \A i \in Node : mem'.next[i] # call[u][3]
      BY <1>6, <1>7, <3>1 DEF Private
    <3>3. ~Popping(t)'
      BY <1>4 DEF Popping
    <3> QED  BY <1>5, <3>1, <3>2, <3>3 DEF Private
  <2>2. \A u \in Thread : u # t /\ Popping(u) =>
          /\ loc[u].pc = "take" /\ loc[u].first \in C =>
               loc[u].first \in C /\ mem'.next[loc[u].first] = mem.next[loc[u].first]
          /\ loc[u].pc = "clear" => loc[u].first \notin C
    <3> SUFFICES ASSUME NEW u \in Thread, u # t, Popping(u)
                 PROVE  /\ mem'.next[loc[u].first] = mem.next[loc[u].first]
                        /\ loc[u].pc = "clear" => loc[u].first \notin C
      OBVIOUS
    <3>1. Found(u, C) /\ loc[u].first # n
      BY <1>1, <1>5 DEF StackLocals, Private
    <3>2. loc[u].first \in Node
      <4>1. mem.made \in 0 .. MaxNodes /\ MaxNodes \in Nat
        BY <1>6, LockFreeAssumption DEF StackMem, Cell
      <4>2. loc[u].first \in 1 .. mem.made
        BY <3>1 DEF Found
      <4> QED  BY <4>1, <4>2 DEF Node
    <3> QED  BY <1>7, <3>1, <3>2 DEF Found
  <2>3. Private(t, C)' /\ ~Popping(t)'
    <3>1. \A u \in Thread : Pushing(u)' /\ u # t => call'[u][3] # n
      BY <1>4, <1>5 DEF Private, Pushing
    <3>2. \A u \in Thread : Popping(u)' => loc'[u].first # n
      BY <1>4, <1>5 DEF Private, Popping
    <3>3. \A i \in Node : mem'.next[i] # n
      BY <1>5, <1>6, <1>7 DEF Private
    <3>4. ~Popping(t)'
      BY <1>4 DEF Popping
    <3> QED  BY <1>5, <1>7, <3>1, <3>2, <3>3, <3>4 DEF Private
  <2> QED  BY <1>1, <1>4, <1>7, <2>1, <2>2, <2>3, StackLocalsKeep
<1>11. StackOK'
  BY <1>8, <1>9, <1>10 DEF StackOK
<1>12. Items' = Items
  <2>1. Items = Stack!Items /\ Items' = Stack!Items'
    BY DEF Items
  <2>2. \A i \in C : i # 0 => mem'.next[i] = mem.next[i]
    <3> SUFFICES ASSUME NEW i \in C, i # 0 PROVE mem'.next[i] = mem.next[i]
      OBVIOUS
    <3>1. i \in Node /\ i # n
      BY <1>1, <1>5, LockFreeAssumption DEF StackShape, StackMem, Cell, Node, Private
    <3> QED  BY <1>7, <3>1
  <2>3. StackWalk(mem.next)[mem.head] = StackWalk(mem'.next)[mem.head]
    <3>1. PICK w : w = mem'
      OBVIOUS
    <3>2. StackShape(mem, r, C) /\ StackShape(w, s, C) /\ \A i \in C : i # 0 => w.next[i] = mem.next[i]
      BY <1>1, <1>8, <2>2, <3>1
    <3>3. StackWalk(mem.next)[mem.head] = StackWalk(w.next)[mem.head]
      BY <3>2, StackWalksAgree
    <3> QED  BY <3>1, <3>3
  <2> QED  BY <1>7, <2>1, <2>3, StackItems
<1>13. Value(t) = Pending /\ Value(t)' = Pending
  BY <1>3, <1>4 DEF Value
<1>14. Promised
  BY <1>4, <1>12, <1>13, Silent
<1>15. Room(MaxNodes)'
  BY <1>2, <1>4, <1>7, RoomStays, LockFreeAssumption DEF Pushing, At
<1> QED  BY <1>11, <1>14, <1>15

\* push swings the head to its node: the element is in the stack.
LEMMA StackLinks ==
  ASSUME chosen = "stack", chosen' = chosen, StackOK, NEW t \in Thread, Room(MaxNodes), UNCHANGED <<call, left>>,
         At(t, "link"), mem.head = mem.next[call[t][3]],
         mem' = [mem EXCEPT !.head = call[t][3]], Go(t, [pc |-> "return", value |-> Void])
  PROVE  StackOK' /\ Promised /\ Room(MaxNodes)'
<1> DEFINE n == call[t][3]
<1>1. PICK r, C : StackShape(mem, r, C) /\ StackLocals(C)
  BY DEF StackOK
<1>2. DOMAIN loc = Thread /\ DOMAIN call = Thread /\ Pushing(t) /\ mem \in StackMem
  BY <1>1 DEF Room, Pushing, At, StackShape
<1>3. StackFrame(t) /\ call[t] \in {"push"} \X {"L"} \X Node /\ "value" \notin DOMAIN loc[t] /\ n \in Node
  BY DEF StackOK, StackFrame, At
<1>4. /\ DOMAIN loc' = Thread /\ \A u \in Thread : u # t => loc'[u] = loc[u]
      /\ loc'[t].pc = "return" /\ "value" \in DOMAIN loc'[t] /\ loc'[t].value = Void
  <2> DEFINE frame == [pc |-> "return", value |-> Void]
  <2>1. DOMAIN frame = {"pc", "value"} /\ frame["pc"] = "return" /\ frame["value"] = Void
    OBVIOUS
  <2> HIDE DEF frame
  <2>2. /\ DOMAIN loc' = Thread /\ \A u \in Thread : u # t => loc'[u] = loc[u]
        /\ DOMAIN loc'[t] = DOMAIN frame \union DOMAIN loc[t]
        /\ \A x \in DOMAIN frame : loc'[t][x] = frame[x]
    BY <1>2, GoFacts DEF frame
  <2> QED  BY <2>1, <2>2
<1>5. Private(t, C)
  BY <1>1, <1>2 DEF StackLocals
<1>6. mem' \in StackMem /\ mem'.head = n /\ mem'.made = mem.made /\ mem'.next = mem.next
  <2>1. n \in Cell
    BY <1>3, LockFreeAssumption DEF Node, Cell
  <2> QED  BY <1>2, <2>1, StackSetHead
<1>16. PICK E : E = C \union {n}
  OBVIOUS
<1>7. StackShape(mem', r, E)
  <2>1. n <= mem.made /\ n \notin C /\ n \in Node /\ mem.next[n] = mem.head
    BY <1>3, <1>5 DEF Private
  <2> QED  BY <1>1, <1>16, <2>1, StackPushed
<1>8. \A u \in Thread : StackFrame(u)'
  <2>1. StackFrame(t)'
    BY <1>3, <1>4, LockFreeAssumption DEF StackFrame
  <2> QED  BY <1>4, <2>1, StackFramesKeep
<1>9. ~Pushing(t)' /\ ~Popping(t)'
  BY <1>4 DEF Pushing, Popping
<1>10. StackLocals(E)'
  <2>1. \A u \in Thread : u # t /\ Pushing(u) =>
          /\ call[u][3] \notin E
          /\ \A i \in Node : mem'.next[i] # call[u][3]
          /\ Pushing(t)' => call'[t][3] # call[u][3]
          /\ Popping(t)' => loc'[t].first # call[u][3]
    <3> SUFFICES ASSUME NEW u \in Thread, u # t, Pushing(u)
                 PROVE  call[u][3] \notin E /\ \A i \in Node : mem'.next[i] # call[u][3]
      BY <1>9
    <3>1. Private(u, C) /\ call[u][3] # n
      BY <1>1, <1>5 DEF StackLocals, Private
    <3> QED  BY <1>6, <1>16, <3>1 DEF Private
  <2>2. \A u \in Thread : u # t /\ Popping(u) =>
          /\ loc[u].pc = "take" /\ loc[u].first \in E =>
               loc[u].first \in C /\ mem'.next[loc[u].first] = mem.next[loc[u].first]
          /\ loc[u].pc = "clear" => loc[u].first \notin E
    <3> SUFFICES ASSUME NEW u \in Thread, u # t, Popping(u)
                 PROVE  /\ loc[u].first \in E => loc[u].first \in C
                        /\ loc[u].pc = "clear" => loc[u].first \notin E
      BY <1>6
    <3>1. Found(u, C) /\ loc[u].first # n
      BY <1>1, <1>5 DEF StackLocals, Private
    <3> QED  BY <1>16, <3>1 DEF Found
  <2>3. mem'.made = mem.made /\ \A u \in Thread : u # t => loc'[u] = loc[u] /\ call'[u] = call[u]
    BY <1>4, <1>6
  <2>4. (Pushing(t)' => Private(t, E)') /\ (Popping(t)' => Found(t, E)') /\ StackLocals(C)
    BY <1>1, <1>9
  <2> QED  BY <2>1, <2>2, <2>3, <2>4, StackLocalsKeep
<1>11. StackOK'
  <2>1. \E s, D : StackShape(mem', s, D) /\ StackLocals(D)'
    BY <1>7, <1>10, ZenonT(60)
  <2> QED  BY <1>8, <2>1 DEF StackOK
<1>12. Items' = Promise!Pushed(Items, call[t][2], call[t][3])
  <2>1. Items = StackWalk(mem.next)[mem.head] /\ Items' = StackWalk(mem.next)[n]
    BY <1>6, StackItems DEF Items
  <2>2. n \in Cell /\ n # 0
    BY <1>3, LockFreeAssumption DEF Node, Cell
  <2>3. StackWalk(mem.next)[n] = <<n>> \o StackWalk(mem.next)[mem.next[n]]
    BY <1>1, <2>2, StackTop
  <2>4. call[t][2] = "L"
    BY <1>3
  <2> QED  BY <2>1, <2>3, <2>4 DEF Promise!Pushed
<1>13. Value(t) = Pending /\ Value(t)' = Void /\ call[t][1] = "push" /\ call[t] # <<>>
  BY <1>3, <1>4 DEF Value
<1>14. Promised
  BY <1>4, <1>12, <1>13, Effect1
<1>15. Room(MaxNodes)'
  BY <1>2, <1>4, <1>6, RoomStays, LockFreeAssumption DEF Pushing, At
<1> QED  BY <1>11, <1>14, <1>15

\* pop finds the head: there is nothing to pop, or it goes on with that node.
LEMMA StackFinds ==
  ASSUME chosen = "stack", chosen' = chosen, StackOK, NEW t \in Thread, Room(MaxNodes), UNCHANGED <<call, left, mem>>,
         At(t, "pop") \/ At(t, "take"), Stack!HaveHead(t)
  PROVE  StackOK' /\ Promised /\ Room(MaxNodes)'
<1>1. DOMAIN loc = Thread /\ DOMAIN call = Thread
  BY DEF Room
<1>2. StackFrame(t) /\ call[t] = <<"pop", "L", 1>> /\ "value" \notin DOMAIN loc[t]
  BY DEF StackOK, StackFrame, At
<1>3. CASE mem.head = 0
  <2> DEFINE frame == [pc |-> "return", value |-> Empty]
  <2>1. DOMAIN frame = {"pc", "value"} /\ frame["pc"] = "return" /\ frame["value"] = Empty
    OBVIOUS
  <2>2. Go(t, frame)
    BY <1>3, StackFrames DEF Stack!HaveHead, Stack!Null
  <2> HIDE DEF frame
  <2>3. /\ DOMAIN loc' = Thread /\ \A u \in Thread : u # t => loc'[u] = loc[u]
        /\ DOMAIN loc'[t] = DOMAIN frame \union DOMAIN loc[t]
        /\ \A x \in DOMAIN frame : loc'[t][x] = frame[x]
    BY <1>1, <2>2, GoFacts
  <2>4. loc'[t].pc = "return" /\ "value" \in DOMAIN loc'[t] /\ loc'[t].value = Empty
    BY <2>1, <2>3
  <2>5. StackFrame(t)' /\ ~Pushing(t)' /\ ~Popping(t)'
    BY <1>2, <2>4, LockFreeAssumption DEF StackFrame, Pushing, Popping
  <2>6. StackOK' /\ Items' = Items
    BY <2>3, <2>5, StackQuiet
  <2>7. Items = <<>>
    <3>1. Items = StackWalk(mem.next)[mem.head]
      BY StackItems DEF Items
    <3>2. PICK r, C : StackShape(mem, r, C)
      BY DEF StackOK
    <3>3. 0 \in Cell
      BY LockFreeAssumption DEF Cell
    <3> QED  BY <1>3, <3>1, <3>2, <3>3, StackTop
  <2>8. Value(t) = Pending /\ Value(t)' = Empty /\ call[t][1] = "pop" /\ call[t] # <<>>
    BY <1>2, <2>4 DEF Value
  <2>9. Promised
    BY <2>3, <2>6, <2>7, <2>8, Effect1
  <2>10. Room(MaxNodes)'
    BY <1>1, <2>3, <2>4, RoomStays, LockFreeAssumption DEF At
  <2> QED  BY <2>6, <2>9, <2>10
<1>4. CASE mem.head # 0
  <2> DEFINE frame == [pc |-> "next", first |-> mem.head]
  <2>1. DOMAIN frame = {"pc", "first"} /\ frame["pc"] = "next" /\ frame["first"] = mem.head
    OBVIOUS
  <2>2. Go(t, frame)
    BY <1>4, StackFrames DEF Stack!HaveHead, Stack!Null
  <2> HIDE DEF frame
  <2>3. /\ DOMAIN loc' = Thread /\ \A u \in Thread : u # t => loc'[u] = loc[u]
        /\ DOMAIN loc'[t] = DOMAIN frame \union DOMAIN loc[t]
        /\ \A x \in DOMAIN frame : loc'[t][x] = frame[x]
    BY <1>1, <2>2, GoFacts
  <2>4. /\ loc'[t].pc = "next" /\ "first" \in DOMAIN loc'[t] /\ loc'[t].first = mem.head
        /\ "value" \notin DOMAIN loc'[t]
    BY <1>2, <2>1, <2>3
  <2>5. StackFrame(t)' /\ ~Pushing(t)'
    BY <1>2, <2>4 DEF StackFrame, Pushing
  <2>6. StackOK' /\ Items' = Items
    BY <1>4, <2>3, <2>4, <2>5, StackQuiet
  <2>7. Value(t) = Pending /\ Value(t)' = Pending
    BY <1>2, <2>4 DEF Value
  <2>8. Promised
    BY <2>3, <2>6, <2>7, Silent
  <2>9. Room(MaxNodes)'
    BY <1>1, <2>3, <2>4, RoomStays, LockFreeAssumption DEF At
  <2> QED  BY <2>6, <2>8, <2>9
<1> QED  BY <1>3, <1>4

\* pop loads the link of the node it has found.
LEMMA StackLoads ==
  ASSUME chosen = "stack", chosen' = chosen, StackOK, NEW t \in Thread, Room(MaxNodes), UNCHANGED <<call, left, mem>>,
         At(t, "next"), Go(t, [pc |-> "take", next |-> mem.next[loc[t].first]])
  PROVE  StackOK' /\ Promised /\ Room(MaxNodes)'
<1>1. DOMAIN loc = Thread /\ DOMAIN call = Thread
  BY DEF Room
<1>2. StackFrame(t) /\ call[t] = <<"pop", "L", 1>> /\ "value" \notin DOMAIN loc[t] /\ "first" \in DOMAIN loc[t]
  BY DEF StackOK, StackFrame, At
<1>3. PICK v : v = mem.next[loc[t].first]
  OBVIOUS
<1> DEFINE frame == [pc |-> "take", next |-> v]
<1>4. DOMAIN frame = {"pc", "next"} /\ frame["pc"] = "take" /\ frame["next"] = v
  OBVIOUS
<1>5. Go(t, frame)
  BY <1>3
<1> HIDE DEF frame
<1>6. /\ DOMAIN loc' = Thread /\ \A u \in Thread : u # t => loc'[u] = loc[u]
      /\ DOMAIN loc'[t] = DOMAIN frame \union DOMAIN loc[t]
      /\ \A x \in DOMAIN frame : loc'[t][x] = frame[x]
      /\ \A x \in DOMAIN loc[t] \ DOMAIN frame : loc'[t][x] = loc[t][x]
  BY <1>1, <1>5, GoFacts
<1>7. /\ loc'[t].pc = "take" /\ "first" \in DOMAIN loc'[t] /\ loc'[t].first = loc[t].first
      /\ loc'[t].next = v /\ "value" \notin DOMAIN loc'[t]
  BY <1>2, <1>4, <1>6
<1>8. StackFrame(t)' /\ ~Pushing(t)' /\ Popping(t)
  BY <1>2, <1>7 DEF StackFrame, Pushing, Popping, At
<1>9. StackOK' /\ Items' = Items
  BY <1>3, <1>6, <1>7, <1>8, StackQuiet
<1>10. Value(t) = Pending /\ Value(t)' = Pending
  BY <1>2, <1>7 DEF Value
<1>11. Promised
  BY <1>6, <1>9, <1>10, Silent
<1>12. Room(MaxNodes)'
  BY <1>1, <1>6, <1>7, RoomStays, LockFreeAssumption DEF At
<1> QED  BY <1>9, <1>11, <1>12

\* pop takes the node at the head, which is still the one it has found.
LEMMA StackTakes ==
  ASSUME chosen = "stack", chosen' = chosen, StackOK, NEW t \in Thread, Room(MaxNodes), UNCHANGED <<call, left>>,
         At(t, "take"), mem.head = loc[t].first,
         mem' = [mem EXCEPT !.head = loc[t].next], Go(t, [pc |-> "clear", value |-> loc[t].first])
  PROVE  StackOK' /\ Promised /\ Room(MaxNodes)'
<1>1. PICK r, C : StackShape(mem, r, C) /\ StackLocals(C)
  BY DEF StackOK
<1>2. DOMAIN loc = Thread /\ DOMAIN call = Thread /\ Popping(t) /\ mem \in StackMem
  BY <1>1 DEF Room, Popping, At, StackShape
<1>3. StackFrame(t) /\ call[t] = <<"pop", "L", 1>> /\ "value" \notin DOMAIN loc[t] /\ "first" \in DOMAIN loc[t]
  BY DEF StackOK, StackFrame, At
<1>4. PICK n : n = loc[t].first
  OBVIOUS
<1>5. n \in 1 .. mem.made /\ n \in C /\ mem.head = n /\ loc[t].next = mem.next[n] /\ n \in Node /\ n \in Cell
  <2>1. Found(t, C) /\ mem.head \in C
    BY <1>1, <1>2 DEF StackLocals, StackShape
  <2>2. n \in 1 .. mem.made /\ n \in C /\ mem.head = n /\ loc[t].next = mem.next[n]
    BY <1>4, <2>1 DEF Found, At
  <2>3. mem.made \in 0 .. MaxNodes /\ MaxNodes \in Nat
    BY <1>2, LockFreeAssumption DEF StackMem, Cell
  <2> QED  BY <2>2, <2>3 DEF Node, Cell
<1>6. /\ DOMAIN loc' = Thread /\ \A u \in Thread : u # t => loc'[u] = loc[u]
      /\ loc'[t].pc = "clear" /\ "value" \in DOMAIN loc'[t] /\ loc'[t].value = n /\ loc'[t].first = n
  <2> DEFINE frame == [pc |-> "clear", value |-> n]
  <2>1. DOMAIN frame = {"pc", "value"} /\ frame["pc"] = "clear" /\ frame["value"] = n
    OBVIOUS
  <2>2. Go(t, frame)
    BY <1>4
  <2> HIDE DEF frame
  <2>3. /\ DOMAIN loc' = Thread /\ \A u \in Thread : u # t => loc'[u] = loc[u]
        /\ DOMAIN loc'[t] = DOMAIN frame \union DOMAIN loc[t]
        /\ \A x \in DOMAIN frame : loc'[t][x] = frame[x]
        /\ \A x \in DOMAIN loc[t] \ DOMAIN frame : loc'[t][x] = loc[t][x]
    BY <1>2, <2>2, GoFacts
  <2> QED  BY <1>3, <1>4, <2>1, <2>3
<1>7. mem' = [mem EXCEPT !.head = mem.next[mem.head]]
  BY <1>5
<1>8. mem' \in StackMem /\ mem'.head = mem.next[n] /\ mem'.made = mem.made /\ mem'.next = mem.next
  <2>1. mem.next[n] \in Cell
    BY <1>2, <1>5 DEF StackMem
  <2> QED  BY <1>2, <1>5, <1>7, <2>1, StackSetHead
<1>9. n # 0
  BY <1>5 DEF Node
<1>10. PICK E \in SUBSET C : n \notin E /\ StackShape(mem', r, E)
  <2>1. \E E \in SUBSET C : mem.head \notin E /\ StackShape(mem', r, E)
    BY <1>1, <1>5, <1>7, <1>9, StackPopped
  <2> QED  BY <1>5, <2>1
<1>11. \A u \in Thread : StackFrame(u)'
  <2>1. n # Pending
    BY <1>5, LockFreeAssumption DEF Cell
  <2>2. StackFrame(t)'
    BY <1>3, <1>6, <2>1 DEF StackFrame
  <2> QED  BY <1>6, <2>2, StackFramesKeep
<1>12. StackLocals(E)'
  <2>1. \A u \in Thread : u # t /\ Pushing(u) =>
          /\ call[u][3] \notin E
          /\ \A i \in Node : mem'.next[i] # call[u][3]
          /\ Pushing(t)' => call'[t][3] # call[u][3]
          /\ Popping(t)' => loc'[t].first # call[u][3]
    <3> SUFFICES ASSUME NEW u \in Thread, u # t, Pushing(u)
                 PROVE  /\ call[u][3] \notin E /\ \A i \in Node : mem'.next[i] # call[u][3]
                        /\ ~Pushing(t)' /\ loc'[t].first # call[u][3]
      OBVIOUS
    <3>1. Private(u, C) /\ loc[t].first # call[u][3]
      BY <1>1, <1>2 DEF StackLocals, Private
    <3>2. ~Pushing(t)'
      BY <1>6 DEF Pushing
    <3> QED  BY <1>4, <1>6, <1>8, <3>1, <3>2 DEF Private
  <2>2. \A u \in Thread : u # t /\ Popping(u) =>
          /\ loc[u].pc = "take" /\ loc[u].first \in E =>
               loc[u].first \in C /\ mem'.next[loc[u].first] = mem.next[loc[u].first]
          /\ loc[u].pc = "clear" => loc[u].first \notin E
    BY <1>1, <1>8 DEF StackLocals, Found
  <2>3. mem'.made = mem.made /\ \A u \in Thread : u # t => loc'[u] = loc[u] /\ call'[u] = call[u]
    BY <1>6, <1>8
  <2>4. ~Pushing(t)' /\ Found(t, E)'
    BY <1>5, <1>6, <1>8, <1>10 DEF Pushing, Found
  <2> QED  BY <1>1, <2>1, <2>2, <2>3, <2>4, StackLocalsKeep
<1>13. StackOK'
  BY <1>10, <1>11, <1>12 DEF StackOK
<1>14. Items # <<>> /\ n = Promise!End(Items, "L") /\ Items' = Promise!Popped(Items, "L")
  <2>1. Items = StackWalk(mem.next)[n] /\ Items' = StackWalk(mem.next)[mem.next[n]]
    BY <1>5, <1>8, StackItems DEF Items
  <2>2. PICK q : q = StackWalk(mem.next)[mem.next[n]]
    OBVIOUS
  <2>3. q \in Seq(Node)
    <3>1. mem.next[n] \in Cell
      BY <1>2, <1>5 DEF StackMem
    <3> QED  BY <1>1, <2>2, <3>1, StackWalkType
  <2>4. Items = <<n>> \o q
    BY <1>1, <1>5, <1>9, <2>1, <2>2, StackTop
  <2>5. <<n>> \o q # <<>> /\ (<<n>> \o q)[1] = n /\ SubSeq(<<n>> \o q, 2, Len(<<n>> \o q)) = q
    <3>1. Len(<<n>> \o q) = Len(q) + 1 /\ (<<n>> \o q)[1] = n /\ <<n>> \o q \in Seq(Node)
      BY <1>5, <2>3
    <3>2. Len(q) \in Nat
      BY <2>3
    <3>3. <<n>> \o q # <<>>
      BY <3>1, <3>2
    <3>4. Tail(<<n>> \o q) = q
      BY <1>5, <2>3
    <3>5. Tail(<<n>> \o q) = SubSeq(<<n>> \o q, 2, Len(<<n>> \o q))
      BY <3>1, <3>3
    <3> QED  BY <3>1, <3>3, <3>4, <3>5
  <2> QED  BY <2>1, <2>2, <2>4, <2>5 DEF Promise!End, Promise!Popped
<1>15. Value(t) = Pending /\ Value(t)' = n /\ call[t][1] = "pop" /\ call[t][2] = "L" /\ call[t] # <<>>
  BY <1>3, <1>6 DEF Value
<1>16. Promised
  BY <1>6, <1>14, <1>15, Effect1
<1>17. Room(MaxNodes)'
  BY <1>2, <1>6, <1>8, RoomStays, LockFreeAssumption DEF At
<1> QED  BY <1>13, <1>16, <1>17

\* A node outside the stack loses its link.
LEMMA StackCut ==
  ASSUME NEW m, NEW r, NEW C, StackShape(m, r, C), NEW n \in Node, n \notin C,
         NEW w, w = [m EXCEPT !.next[n] = 0]
  PROVE  StackShape(w, r, C)
<1>1. PICK K \in Nat : r \in [Cell -> 0 .. K]
  BY DEF StackShape
<1>2. 0 \in Cell /\ Node \subseteq Cell /\ m \in StackMem /\ \A i \in Cell : i # 0 => i \in Node
  BY LockFreeAssumption DEF Cell, Node, StackShape
<1>3. /\ w \in StackMem /\ w.head = m.head /\ w.made = m.made
      /\ w.next[n] = 0 /\ \A i \in Node : i # n => w.next[i] = m.next[i]
  BY <1>2, StackSetNext
<1>4. r[0] < r[n]
  <2>1. r \in [Cell -> Nat]
    BY <1>1
  <2>2. PICK i \in Cell : \A k \in Cell : r[i] <= r[k]
    BY <1>2, <2>1, Lowest
  <2>3. i = 0
    <3> SUFFICES ASSUME i # 0 PROVE FALSE
      OBVIOUS
    <3>1. i \in Node /\ m.next[i] \in Cell
      BY <1>2 DEF StackMem
    <3>2. r[m.next[i]] < r[i]
      BY <3>1 DEF StackShape
    <3>3. r[m.next[i]] \in Nat /\ r[i] \in Nat
      BY <2>1, <3>1
    <3> QED  BY <2>2, <3>1, <3>2, <3>3
  <2>4. m.next[n] \in Cell /\ r[m.next[n]] < r[n]
    BY <1>2 DEF StackMem, StackShape
  <2>5. r[0] \in Nat /\ r[n] \in Nat /\ r[m.next[n]] \in Nat /\ r[0] <= r[m.next[n]]
    BY <1>2, <2>1, <2>2, <2>3, <2>4
  <2> QED  BY <2>4, <2>5
<1>5. \A i \in Node : r[w.next[i]] < r[i] /\ w.next[i] <= w.made
  <2> TAKE i \in Node
  <2>1. CASE i = n
    <3>1. 0 <= m.made
      BY <1>2, LockFreeAssumption DEF StackMem, Cell
    <3> QED  BY <1>3, <1>4, <2>1, <3>1
  <2>2. CASE i # n
    BY <1>3, <2>2 DEF StackShape
  <2> QED  BY <2>1, <2>2
<1>6. \A i \in C : i # 0 => w.next[i] \in C
  <2> SUFFICES ASSUME NEW i \in C, i # 0 PROVE w.next[i] \in C
    OBVIOUS
  <2>1. i \in Node /\ i # n
    BY LockFreeAssumption DEF StackShape, StackMem, Cell, Node
  <2> QED  BY <1>3, <2>1 DEF StackShape
<1> QED  BY <1>1, <1>3, <1>5, <1>6 DEF StackShape

\* pop clears the link of the node it has taken.
LEMMA StackClears ==
  ASSUME chosen = "stack", chosen' = chosen, StackOK, NEW t \in Thread, Room(MaxNodes), UNCHANGED <<call, left>>,
         At(t, "clear"), mem' = [mem EXCEPT !.next[loc[t].first] = 0],
         Go(t, [pc |-> "return", value |-> loc[t].value])
  PROVE  StackOK' /\ Promised /\ Room(MaxNodes)'
<1>1. PICK r, C : StackShape(mem, r, C) /\ StackLocals(C)
  BY DEF StackOK
<1>2. DOMAIN loc = Thread /\ DOMAIN call = Thread /\ Popping(t) /\ mem \in StackMem
  BY <1>1 DEF Room, Popping, At, StackShape
<1>3. StackFrame(t) /\ call[t] # <<>> /\ "value" \in DOMAIN loc[t] /\ loc[t].value # Pending
  BY DEF StackOK, StackFrame, At
<1>4. PICK n, v : n = loc[t].first /\ v = loc[t].value
  OBVIOUS
<1>5. n \in Node /\ n \notin C
  <2>1. n \in 1 .. mem.made /\ n \notin C
    BY <1>1, <1>2, <1>4 DEF StackLocals, Found, At
  <2>2. mem.made \in 0 .. MaxNodes /\ MaxNodes \in Nat
    BY <1>2, LockFreeAssumption DEF StackMem, Cell
  <2> QED  BY <2>1, <2>2 DEF Node
<1>6. /\ DOMAIN loc' = Thread /\ \A u \in Thread : u # t => loc'[u] = loc[u]
      /\ loc'[t].pc = "return" /\ "value" \in DOMAIN loc'[t] /\ loc'[t].value = v
  <2> DEFINE frame == [pc |-> "return", value |-> v]
  <2>1. DOMAIN frame = {"pc", "value"} /\ frame["pc"] = "return" /\ frame["value"] = v
    OBVIOUS
  <2>2. Go(t, frame)
    BY <1>4
  <2> HIDE DEF frame
  <2>3. /\ DOMAIN loc' = Thread /\ \A u \in Thread : u # t => loc'[u] = loc[u]
        /\ DOMAIN loc'[t] = DOMAIN frame \union DOMAIN loc[t]
        /\ \A x \in DOMAIN frame : loc'[t][x] = frame[x]
    BY <1>2, <2>2, GoFacts
  <2> QED  BY <2>1, <2>3
<1>7. 0 \in Cell /\ mem' = [mem EXCEPT !.next[n] = 0]
  BY <1>4, LockFreeAssumption DEF Cell
<1>8. /\ mem' \in StackMem /\ mem'.head = mem.head /\ mem'.made = mem.made
      /\ mem'.next[n] = 0 /\ \A i \in Node : i # n => mem'.next[i] = mem.next[i]
  <2>1. PICK w : w = mem'
    OBVIOUS
  <2>2. mem \in StackMem /\ n \in Node /\ 0 \in Cell
    BY <1>2, <1>5, <1>7
  <2> HIDE <1>4
  <2>3. LET s == [mem EXCEPT !.next[n] = 0]
        IN  /\ s \in StackMem /\ s.head = mem.head /\ s.made = mem.made
            /\ s.next[n] = 0 /\ \A i \in Node : i # n => s.next[i] = mem.next[i]
    BY <2>2, StackSetNext
  <2>4. w = [mem EXCEPT !.next[n] = 0]
    BY <1>7, <2>1
  <2>5. /\ w \in StackMem /\ w.head = mem.head /\ w.made = mem.made
        /\ w.next[n] = 0 /\ \A i \in Node : i # n => w.next[i] = mem.next[i]
    BY <2>3, <2>4
  <2> QED  BY <2>1, <2>5
<1>9. StackShape(mem', r, C)
  BY <1>1, <1>5, <1>7, StackCut
<1>10. \A u \in Thread : StackFrame(u)'
  <2>1. StackFrame(t)'
    BY <1>3, <1>4, <1>6 DEF StackFrame
  <2> QED  BY <1>6, <2>1, StackFramesKeep
<1>11. StackLocals(C)'
  <2>1. \A u \in Thread : u # t /\ Pushing(u) =>
          /\ call[u][3] \notin C
          /\ \A i \in Node : mem'.next[i] # call[u][3]
          /\ Pushing(t)' => call'[t][3] # call[u][3]
          /\ Popping(t)' => loc'[t].first # call[u][3]
    <3> SUFFICES ASSUME NEW u \in Thread, u # t, Pushing(u)
                 PROVE  /\ call[u][3] \notin C /\ \A i \in Node : mem'.next[i] # call[u][3]
                        /\ ~Pushing(t)' /\ ~Popping(t)'
      OBVIOUS
    <3>1. Private(u, C)
      BY <1>1 DEF StackLocals
    <3>2. ~Pushing(t)' /\ ~Popping(t)'
      BY <1>6 DEF Pushing, Popping
    <3>3. call[u][3] # 0
      BY <1>2, <3>1 DEF Private, StackMem, Cell
    <3> QED  BY <1>8, <3>1, <3>2, <3>3 DEF Private
  <2>2. \A u \in Thread : u # t /\ Popping(u) =>
          /\ loc[u].pc = "take" /\ loc[u].first \in C =>
               loc[u].first \in C /\ mem'.next[loc[u].first] = mem.next[loc[u].first]
          /\ loc[u].pc = "clear" => loc[u].first \notin C
    <3> SUFFICES ASSUME NEW u \in Thread, u # t, Popping(u)
                 PROVE  /\ loc[u].first \in C => mem'.next[loc[u].first] = mem.next[loc[u].first]
                        /\ loc[u].pc = "clear" => loc[u].first \notin C
      OBVIOUS
    <3>1. Found(u, C)
      BY <1>1 DEF StackLocals
    <3>2. loc[u].first \in Node
      <4>1. mem.made \in 0 .. MaxNodes /\ MaxNodes \in Nat
        BY <1>2, LockFreeAssumption DEF StackMem, Cell
      <4>2. loc[u].first \in 1 .. mem.made
        BY <3>1 DEF Found
      <4> QED  BY <4>1, <4>2 DEF Node
    <3> QED  BY <1>5, <1>8, <3>1, <3>2 DEF Found
  <2>3. mem'.made = mem.made /\ \A u \in Thread : u # t => loc'[u] = loc[u] /\ call'[u] = call[u]
    BY <1>6, <1>8
  <2>4. ~Pushing(t)' /\ ~Popping(t)'
    BY <1>6 DEF Pushing, Popping
  <2> QED  BY <1>1, <2>1, <2>2, <2>3, <2>4, StackLocalsKeep, ZenonT(40)
<1>12. StackOK'
  BY <1>9, <1>10, <1>11 DEF StackOK
<1>13. Items' = Items
  <2>1. Items = Stack!Items /\ Items' = Stack!Items'
    BY DEF Items
  <2>2. \A i \in C : i # 0 => mem'.next[i] = mem.next[i]
    <3> SUFFICES ASSUME NEW i \in C, i # 0 PROVE mem'.next[i] = mem.next[i]
      OBVIOUS
    <3>1. i \in Node /\ i # n
      BY <1>1, <1>5, LockFreeAssumption DEF StackShape, StackMem, Cell, Node
    <3> QED  BY <1>8, <3>1
  <2>3. StackWalk(mem.next)[mem.head] = StackWalk(mem'.next)[mem.head]
    <3>1. PICK w : w = mem'
      OBVIOUS
    <3>2. StackShape(mem, r, C) /\ StackShape(w, r, C) /\ \A i \in C : i # 0 => w.next[i] = mem.next[i]
      BY <1>1, <1>9, <2>2, <3>1
    <3>3. StackWalk(mem.next)[mem.head] = StackWalk(w.next)[mem.head]
      BY <3>2, StackWalksAgree
    <3> QED  BY <3>1, <3>3
  <2> QED  BY <1>8, <2>1, <2>3, StackItems
<1>14. Value(t)' = Value(t)
  BY <1>3, <1>4, <1>6 DEF Value
<1>15. Promised
  BY <1>6, <1>13, <1>14, Silent
<1>16. Room(MaxNodes)'
  BY <1>2, <1>6, <1>8, RoomStays, LockFreeAssumption DEF At
<1> QED  BY <1>12, <1>15, <1>16

\* Every step of a call.
LEMMA StackWork ==
  ASSUME chosen = "stack", chosen' = chosen, StackOK, NEW t \in Thread, Room(MaxNodes), UNCHANGED <<call, left>>,
         Stack!Step(t)
  PROVE  StackOK' /\ Promised /\ Room(MaxNodes)'
<1>1. CASE Stack!Push(t)
  <2>1. CASE At(t, "push") /\ mem' = [mem EXCEPT !.next[call[t][3]] = mem.head] /\ Go(t, [pc |-> "link"])
    <3>1. Pushing(t)
      BY <2>1 DEF Pushing, At
    <3> QED  BY <2>1, <3>1, StackStores
  <2>2. CASE /\ At(t, "link") /\ mem.head = mem.next[call[t][3]]
             /\ mem' = [mem EXCEPT !.head = call[t][3]] /\ Go(t, [pc |-> "return", value |-> Void])
    BY <2>2, StackLinks
  <2>3. CASE At(t, "link") /\ mem' = [mem EXCEPT !.next[call[t][3]] = mem.head] /\ UNCHANGED loc
    <3>1. Pushing(t)
      BY <2>3 DEF Pushing, At
    <3> QED  BY <2>3, <3>1, StackStores
  <2> QED  BY <1>1, <2>1, <2>2, <2>3, StackFrames DEF Stack!Push
<1>2. CASE Stack!Pop(t)
  <2>1. CASE (At(t, "pop") \/ At(t, "take")) /\ Stack!HaveHead(t) /\ UNCHANGED mem
    BY <2>1, StackFinds
  <2>2. CASE At(t, "next") /\ Go(t, [pc |-> "take", next |-> mem.next[loc[t].first]]) /\ UNCHANGED mem
    BY <2>2, StackLoads
  <2>3. CASE /\ At(t, "take") /\ mem.head = loc[t].first
             /\ mem' = [mem EXCEPT !.head = loc[t].next] /\ Go(t, [pc |-> "clear", value |-> loc[t].first])
    BY <2>3, StackTakes
  <2>4. CASE /\ At(t, "clear") /\ mem' = [mem EXCEPT !.next[loc[t].first] = 0]
             /\ Go(t, [pc |-> "return", value |-> loc[t].value])
    BY <2>4, StackClears
  <2> QED  BY <1>2, <2>1, <2>2, <2>3, <2>4, StackFrames DEF Stack!Pop, Stack!Exchange, Stack!Null
<1> QED  BY <1>1, <1>2 DEF Stack!Step

\* The stack at the start.
LEMMA StackStarts ==
  ASSUME Init, chosen = "stack"
  PROVE  StackOK /\ Room(MaxNodes)
<1>1. PICK k \in Prefill :
        mem = [head |-> IF k = 0 THEN 0 ELSE 1, made |-> k,
               next |-> [n \in 1 .. MaxNodes |-> IF n < k THEN n + 1 ELSE 0]]
  BY DEF Init, Stack!Init, Stack!Null
<1>2. MaxNodes \in Nat \ {0} /\ k \in 0 .. MaxNodes
  BY LockFreeAssumption
<1>3. /\ mem.head = (IF k = 0 THEN 0 ELSE 1) /\ mem.made = k
      /\ mem.next = [n \in Node |-> IF n < k THEN n + 1 ELSE 0]
      /\ DOMAIN mem = {"head", "made", "next"}
  BY <1>1 DEF Node
<1>4. mem \in StackMem
  <2>1. mem.next \in [Node -> Cell]
    BY <1>2, <1>3 DEF Node, Cell
  <2>2. mem.head \in Cell /\ mem.made \in Cell
    BY <1>2, <1>3 DEF Cell
  <2> QED  BY <1>1, <1>2, <2>1, <2>2, <1>3 DEF StackMem, Cell, Node
<1>5. loc = [t \in Thread |-> Idle] /\ call = [t \in Thread |-> <<>>]
  BY DEF Init
<1>6. \A t \in Thread : loc[t] = [pc |-> "idle"] /\ call[t] = <<>>
  BY <1>5 DEF Idle
<1>7. \A t \in Thread : loc[t].pc = "idle" /\ "value" \notin DOMAIN loc[t]
  BY <1>6
<1>8. Room(MaxNodes)
  <2>1. mem.made \in Nat /\ mem.made - k <= MaxNodes - MaxNodes
    BY <1>2, <1>3
  <2> QED  BY <1>2, <2>1, RoomStarts
<1>9. \A t \in Thread : StackFrame(t) /\ ~Pushing(t) /\ ~Popping(t)
  BY <1>6, <1>7 DEF StackFrame, Pushing, Popping, At
<1> DEFINE r == [n \in Cell |-> IF n = 0 THEN 0 ELSE IF n <= k THEN k - n + 1 ELSE 1]
           C == 0 .. k
<1>10. r \in [Cell -> 0 .. MaxNodes]
  BY <1>2 DEF Cell
<1>11. \A n \in Node : r[mem.next[n]] < r[n] /\ mem.next[n] <= mem.made
  <2> TAKE n \in Node
  <2>1. n \in 1 .. MaxNodes /\ n \in Cell
    BY <1>2 DEF Node, Cell
  <2>2. CASE n < k
    <3>1. mem.next[n] = n + 1 /\ n + 1 \in Cell /\ n + 1 # 0 /\ n + 1 <= k /\ n # 0 /\ n <= k
      BY <1>2, <1>3, <2>1, <2>2 DEF Cell
    <3>2. r[n + 1] = k - (n + 1) + 1 /\ r[n] = k - n + 1
      BY <2>1, <3>1
    <3> HIDE DEF r
    <3> QED  BY <1>2, <1>3, <2>1, <3>1, <3>2
  <2>3. CASE ~(n < k)
    <3>1. mem.next[n] = 0 /\ 0 \in Cell
      BY <1>2, <1>3, <2>3 DEF Cell
    <3>2. r[0] = 0 /\ r[n] \in {k - n + 1, 1} /\ (n <= k => r[n] = k - n + 1) /\ (~(n <= k) => r[n] = 1)
      BY <2>1, <3>1
    <3> HIDE DEF r
    <3>3. 0 < r[n]
      BY <1>2, <2>1, <2>3, <3>2
    <3> QED  BY <1>2, <1>3, <3>1, <3>2, <3>3
  <2> QED  BY <2>2, <2>3
<1>12. \A n \in C : n # 0 => mem.next[n] \in C
  BY <1>2, <1>3 DEF Node
<1>13. \A n \in C : n # mem.head => r[n] < r[mem.head]
  <2> SUFFICES ASSUME NEW n \in C, n # mem.head PROVE r[n] < r[mem.head]
    OBVIOUS
  <2>1. k # 0 /\ mem.head = 1 /\ 1 \in Cell /\ 1 <= k
    BY <1>2, <1>3 DEF Cell
  <2>2. r[1] = k
    BY <1>2, <2>1
  <2>3. n \in Cell /\ n <= k /\ n \in Nat
    BY <1>2 DEF Cell
  <2>4. (n = 0 => r[n] = 0) /\ (n # 0 => r[n] = k - n + 1)
    BY <2>3
  <2> HIDE DEF r
  <2> QED  BY <1>2, <2>1, <2>2, <2>3, <2>4
<1>14. StackShape(mem, r, C)
  <2>1. C \subseteq 0 .. mem.made /\ mem.head \in C
    BY <1>2, <1>3
  <2>2. \E K \in Nat : r \in [Cell -> 0 .. K]
    BY <1>2, <1>10
  <2> HIDE DEF r, C
  <2> QED  BY <1>4, <1>11, <1>12, <1>13, <2>1, <2>2 DEF StackShape
<1>15. StackLocals(C)
  BY <1>9 DEF StackLocals
<1> HIDE DEF r, C
<1> QED  BY <1>8, <1>9, <1>14, <1>15 DEF StackOK

-----------------------------------------------------------------------------
(***************************************************************************)
(* The queue of one producer and one consumer.                             *)
(***************************************************************************)
Slot == 1 .. MaxNodes + 1
Place == 0 .. MaxNodes + 1

SPSCMem == [head : Slot, tail : Slot, made : Slot, next : [Slot -> Place], data : [Slot -> Place]]

\* The nodes are in the order of their allocation: those from the head to the
\* tail are linked and hold their data, and the others lead nowhere else.
SPSCShape(m) ==
  /\ m \in SPSCMem /\ m.head <= m.tail /\ m.tail <= m.made
  /\ \A n \in Slot : m.next[n] \in {0, n + 1}
  /\ \A n \in Slot : m.head <= n /\ n < m.tail => m.next[n] = n + 1 /\ m.data[n] = n

Resting(t) ==
  \/ At(t, "idle") /\ call[t] = <<>> /\ "value" \notin DOMAIN loc[t]
  \/ At(t, "return") /\ call[t] # <<>> /\ "value" \in DOMAIN loc[t] /\ loc[t].value # Pending

\* The producer fills in the tail and links the node allocated last to it.
ProducerOK ==
  \/ Resting(Owner) /\ mem.made = mem.tail
  \/ /\ loc[Owner].pc \in {"push", "link", "publish"}
     /\ call[Owner] = <<"push", "R", mem.tail>> /\ "value" \notin DOMAIN loc[Owner]
     /\ mem.made = mem.tail + 1
     /\ loc[Owner].pc # "push" => mem.data[mem.tail] = mem.tail
     /\ loc[Owner].pc = "publish" => mem.next[mem.tail] = mem.made

\* What the consumer has found it alone can take, and what it has taken is
\* behind the head.
ConsumerOK(t) ==
  \/ Resting(t)
  \/ /\ loc[t].pc \in {"pop", "next"} /\ call[t] = <<"pop", "L", 1>> /\ "value" \notin DOMAIN loc[t]
     /\ loc[t].pc = "next" => "first" \in DOMAIN loc[t] /\ loc[t].first = mem.head /\ mem.head < mem.tail
  \/ /\ loc[t].pc \in {"data", "delete"} /\ call[t] # <<>> /\ {"first", "value"} \subseteq DOMAIN loc[t]
     /\ loc[t].first \in 1 .. mem.head - 1 /\ loc[t].value # Pending
     /\ loc[t].pc = "data" => mem.data[loc[t].first] = loc[t].value

OneConsumer == \A t, u \in Thread \ {Owner} : left[t] > 0 /\ left[u] > 0 => t = u

SPSCOK ==
  /\ SPSCShape(mem) /\ ProducerOK /\ OneConsumer
  /\ \A t \in Thread \ {Owner} : ConsumerOK(t)

\* The operators of Frames are those of the queue.
LEMMA SPSCFrames ==
  /\ \A t, l : SPSC!At(t, l) <=> At(t, l)
  /\ \A t, f : SPSC!Go(t, f) <=> Go(t, f)
  /\ \A t, c, l : SPSC!Enter(t, c, l) <=> Enter(t, c, l)
  /\ \A t, v : SPSC!Returns(t, v) <=> Go(t, [pc |-> "return", value |-> v])
BY DEF SPSC!At, At, SPSC!Go, Go, SPSC!Updated, Updated, SPSC!Enter, Enter, SPSC!Returns

\* The nodes from h up to before k, as a sequence.
Run(h, k) == [i \in 1 .. k - h |-> h + i - 1]

LEMMA RunFacts ==
  ASSUME NEW h \in Nat, NEW k \in Nat, h <= k
  PROVE  /\ Run(h, k) \in Seq(Nat) /\ Len(Run(h, k)) = k - h
         /\ Append(Run(h, k), k) = Run(h, k + 1)
         /\ h = k => Run(h, k) = <<>>
         /\ h < k => /\ Run(h, k) # <<>> /\ Run(h, k)[1] = h
                     /\ Run(h, k) = <<h>> \o Run(h + 1, k)
                     /\ SubSeq(Run(h, k), 2, Len(Run(h, k))) = Run(h + 1, k)
<1>1. Run(h, k) \in Seq(Nat) /\ Len(Run(h, k)) = k - h
  BY DEF Run
<1>2. Append(Run(h, k), k) = Run(h, k + 1)
  BY DEF Run
<1>3. h = k => Run(h, k) = <<>>
  BY DEF Run
<1>4. ASSUME h < k PROVE Run(h, k) # <<>> /\ Run(h, k)[1] = h
  BY <1>4 DEF Run
<1>5. ASSUME h < k PROVE Run(h, k) = <<h>> \o Run(h + 1, k)
  BY <1>5 DEF Run
<1>6. ASSUME h < k PROVE SubSeq(Run(h, k), 2, Len(Run(h, k))) = Run(h + 1, k)
  BY <1>1, <1>6 DEF Run
<1> QED  BY <1>1, <1>2, <1>3, <1>4, <1>5, <1>6

IsSPSCWalk(f, m) ==
  f = [n \in 0 .. MaxNodes + 1 |-> IF n \in {m.tail, 0} THEN <<>> ELSE <<m.data[n]>> \o f[m.next[n]]]
SPSCWalk(m) == CHOOSE f : IsSPSCWalk(f, m)

\* The elements are the nodes from the head to before the tail.
LEMMA SPSCItems ==
  ASSUME NEW m, SPSCShape(m)
  PROVE  SPSCWalk(m)[m.head] = Run(m.head, m.tail)
<1> DEFINE r == [n \in Place |-> IF n = 0 THEN 0 ELSE MaxNodes + 2 - n]
           stop == {m.tail, 0}
<1>1. MaxNodes \in Nat /\ m \in SPSCMem
  BY LockFreeAssumption DEF SPSCShape
<1>2. m.next \in [Slot -> Place] /\ m.head \in Slot /\ m.tail \in Slot
  BY <1>1 DEF SPSCMem
<1>3. r \in [Place -> 0 .. MaxNodes + 2] /\ \A n \in Slot : n \in Place /\ n \in Nat /\ r[n] = MaxNodes + 2 - n
  BY <1>1 DEF Place, Slot
<1>4. r[0] = 0
  BY <1>1 DEF Place
<1> HIDE DEF r
<1>5. Falls(Place, stop, m.next, r)
  <2> SUFFICES ASSUME NEW n \in Place \ stop PROVE m.next[n] \in Place /\ r[m.next[n]] < r[n]
    BY DEF Falls
  <2>1. n \in Slot /\ m.next[n] \in Place
    BY <1>1, <1>2 DEF Place, Slot
  <2>2. CASE m.next[n] = 0
    BY <1>1, <1>3, <1>4, <2>1, <2>2 DEF Slot
  <2>3. CASE m.next[n] = n + 1
    <3>1. n + 1 \in Slot
      BY <1>1, <2>1, <2>3 DEF Place, Slot
    <3> QED  BY <1>1, <1>3, <2>1, <2>3, <3>1
  <2> QED  BY <2>1, <2>2, <2>3 DEF SPSCShape
<1>6. PICK f : IsWalk(f, Place, stop, m.data, m.next)
  <2>1. MaxNodes + 2 \in Nat
    BY <1>1
  <2> QED  BY <1>3, <1>5, <2>1, WalkExists
<1>7. \A g : IsWalk(g, Place, stop, m.data, m.next) <=> IsSPSCWalk(g, m)
  BY DEF IsWalk, IsSPSCWalk, Place
<1> DEFINE g == SPSCWalk(m)
<1>8. IsWalk(g, Place, stop, m.data, m.next)
  BY <1>6, <1>7 DEF SPSCWalk
<1> HIDE DEF g
<1>9. \A n \in Place : g[n] = IF n \in stop THEN <<>> ELSE <<m.data[n]>> \o g[m.next[n]]
  BY <1>8 DEF IsWalk
<1> DEFINE B == {n \in Place : m.head <= n /\ n <= m.tail /\ g[n] # Run(n, m.tail)}
<1>10. B = {}
  <2> SUFFICES ASSUME B # {} PROVE FALSE
    OBVIOUS
  <2>1. r \in [Place -> Nat] /\ B \in SUBSET Place
    BY <1>1, <1>3
  <2>2. PICK n \in B : \A k \in B : r[n] <= r[k]
    BY <2>1, Lowest
  <2>3. n \in Place /\ m.head <= n /\ n <= m.tail /\ g[n] # Run(n, m.tail)
    OBVIOUS
  <2>4. n \in Slot /\ n \in Nat /\ m.tail \in Nat
    BY <1>1, <1>2, <2>3 DEF Slot, Place
  <2>5. n # m.tail
    <3> SUFFICES ASSUME n = m.tail PROVE FALSE
      OBVIOUS
    <3>1. g[n] = <<>> /\ Run(n, m.tail) = <<>>
      BY <1>9, <2>3, <2>4, RunFacts
    <3> QED  BY <2>3, <3>1
  <2>6. n < m.tail /\ n # 0
    BY <1>1, <2>3, <2>4, <2>5 DEF Slot
  <2>7. m.next[n] = n + 1 /\ m.data[n] = n
    BY <2>3, <2>4, <2>6 DEF SPSCShape
  <2>8. g[n] = <<n>> \o g[n + 1]
    BY <1>9, <2>3, <2>5, <2>6, <2>7
  <2>9. Run(n, m.tail) = <<n>> \o Run(n + 1, m.tail)
    BY <2>4, <2>6, RunFacts
  <2>10. n + 1 \in Slot /\ m.head <= n + 1 /\ n + 1 <= m.tail
    BY <1>1, <1>2, <2>3, <2>4, <2>6 DEF Slot
  <2>11. g[n + 1] # Run(n + 1, m.tail)
    BY <2>3, <2>8, <2>9
  <2>12. n + 1 \in B
    BY <1>3, <2>10, <2>11
  <2>13. r[n] <= r[n + 1]
    BY <2>2, <2>12
  <2> QED  BY <1>1, <1>3, <2>4, <2>10, <2>13
<1>11. m.head \in Place /\ m.head <= m.head /\ m.head <= m.tail
  BY <1>1, <1>2 DEF SPSCShape, Slot, Place
<1> QED  BY <1>10, <1>11 DEF g

LEMMA SPSCContents ==
  ASSUME chosen = "spsc", chosen' = chosen, SPSCShape(mem), SPSCShape(mem')
  PROVE  Items = Run(mem.head, mem.tail) /\ Items' = Run(mem'.head, mem'.tail)
<1>1. Items = SPSCWalk(mem)[mem.head] /\ Items' = SPSCWalk(mem')[mem'.head]
  BY DEF Items, SPSC!Items, SPSC!Null, SPSCWalk, IsSPSCWalk
<1>2. PICK w : w = mem'
  OBVIOUS
<1>3. SPSCShape(w)
  BY <1>2
<1>4. SPSCWalk(w)[w.head] = Run(w.head, w.tail) /\ SPSCWalk(mem)[mem.head] = Run(mem.head, mem.tail)
  BY <1>3, SPSCItems
<1> QED  BY <1>1, <1>2, <1>4

\* A step of the producer leaves the consumer alone.
LEMMA ProducerKeeps ==
  ASSUME SPSCOK, SPSCShape(mem'), ProducerOK', mem'.head = mem.head, mem.tail <= mem'.tail,
         \A n \in 1 .. mem.head - 1 : mem'.data[n] = mem.data[n],
         \A u \in Thread : u # Owner => loc'[u] = loc[u] /\ call'[u] = call[u],
         \A u \in Thread : left'[u] > 0 => left[u] > 0
  PROVE  SPSCOK'
<1>1. ASSUME NEW u \in Thread \ {Owner} PROVE ConsumerOK(u)'
  <2>1. ConsumerOK(u) /\ loc'[u] = loc[u] /\ call'[u] = call[u]
    BY DEF SPSCOK
  <2>2. mem.head \in Nat /\ mem.tail \in Nat /\ mem'.tail \in Nat
    BY LockFreeAssumption DEF SPSCOK, SPSCShape, SPSCMem, Slot
  <2>3. mem.head < mem.tail => mem'.head < mem'.tail
    BY <2>2
  <2> QED  BY <2>1, <2>3 DEF ConsumerOK, Resting, At
<1>2. OneConsumer'
  BY DEF SPSCOK, OneConsumer
<1> QED  BY <1>1, <1>2 DEF SPSCOK

\* A step of the consumer leaves the producer alone, and there is no other
\* consumer.
LEMMA ConsumerKeeps ==
  ASSUME SPSCOK, NEW n \in Nat, Room(n), NEW t \in Thread \ {Owner}, left[t] > 0, SPSCShape(mem'), ConsumerOK(t)',
         mem'.tail = mem.tail, mem'.made = mem.made,
         mem'.data[mem.tail] = mem.data[mem.tail], mem'.next[mem.tail] = mem.next[mem.tail],
         \A u \in Thread : u # t => loc'[u] = loc[u] /\ call'[u] = call[u],
         \A u \in Thread : left'[u] > 0 => left[u] > 0
  PROVE  SPSCOK'
<1>1. ASSUME NEW u \in Thread \ {Owner}, u # t PROVE ConsumerOK(u)'
  <2>1. At(u, "idle")
    BY <1>1 DEF Room, SPSCOK, OneConsumer
  <2>2. Resting(u)
    BY <2>1 DEF SPSCOK, ConsumerOK, At
  <2>3. Resting(u)'
    BY <1>1, <2>2 DEF Resting, At
  <2> QED  BY <2>3 DEF ConsumerOK
<1>2. ProducerOK'
  <2>1. ProducerOK /\ loc'[Owner] = loc[Owner] /\ call'[Owner] = call[Owner]
    BY LockFreeAssumption DEF SPSCOK
  <2> QED  BY <2>1 DEF ProducerOK, Resting, At
<1>3. OneConsumer'
  BY DEF SPSCOK, OneConsumer
<1> QED  BY <1>1, <1>2, <1>3 DEF SPSCOK

\* push begins.
LEMMA SPSCCallPush ==
  ASSUME chosen = "spsc", chosen' = chosen, SPSCOK, Room(MaxNodes + 1), left[Owner] > 0, At(Owner, "idle"),
         left' = left, SPSC!CallPush(Owner)
  PROVE  SPSCOK' /\ Promised /\ Room(MaxNodes + 1)'
<1>1. /\ call' = [call EXCEPT ![Owner] = <<"push", "R", mem.made>>] /\ loc' = [loc EXCEPT ![Owner] = [pc |-> "push"]]
      /\ mem' = [mem EXCEPT !.made = mem.made + 1]
  BY SPSCFrames DEF SPSC!CallPush, Enter
<1>2. DOMAIN loc = Thread /\ DOMAIN call = Thread /\ mem \in SPSCMem /\ Owner \in Thread /\ MaxNodes \in Nat
  BY LockFreeAssumption DEF Room, SPSCOK, SPSCShape
<1>3. /\ mem'.made = mem.made + 1 /\ mem'.head = mem.head /\ mem'.tail = mem.tail
      /\ mem'.next = mem.next /\ mem'.data = mem.data
  BY <1>1, <1>2 DEF SPSCMem
<1>4. /\ DOMAIN loc' = Thread /\ DOMAIN call' = Thread
      /\ loc'[Owner] = [pc |-> "push"] /\ call'[Owner] = <<"push", "R", mem.made>>
      /\ \A u \in Thread : u # Owner => loc'[u] = loc[u] /\ call'[u] = call[u]
  BY <1>1, <1>2
<1>5. loc'[Owner].pc = "push" /\ "value" \notin DOMAIN loc'[Owner]
  BY <1>4
<1>6. Room(MaxNodes + 1)' /\ mem.made < MaxNodes + 1
  BY <1>2, <1>3, <1>4, <1>5, RoomForCall
<1>7. mem.made = mem.tail /\ call[Owner] = <<>> /\ "value" \notin DOMAIN loc[Owner]
  BY DEF SPSCOK, ProducerOK, Resting, At
<1>8. mem.tail \in Slot /\ mem.head \in Slot /\ mem.made \in 1 .. MaxNodes
  BY <1>2, <1>6 DEF SPSCMem, Slot
<1>9. SPSCShape(mem')
  <2>1. mem.made + 1 \in Slot
    BY <1>2, <1>8 DEF Slot
  <2>2. mem' \in SPSCMem
    BY <1>1, <1>2, <2>1 DEF SPSCMem
  <2>3. mem'.tail <= mem'.made
    BY <1>3, <1>7, <1>8
  <2> QED  BY <1>3, <2>2, <2>3 DEF SPSCOK, SPSCShape
<1>10. ProducerOK'
  BY <1>3, <1>4, <1>5, <1>7 DEF ProducerOK
<1>11. SPSCOK'
  <2>1. mem.tail <= mem'.tail
    BY <1>3, <1>8 DEF Slot
  <2> QED  BY <1>3, <1>4, <1>9, <1>10, <2>1, ProducerKeeps
<1>12. Items' = Items
  BY <1>3, <1>9, SPSCContents DEF SPSCOK
<1>13. Value(Owner) = Pending /\ Value(Owner)' = Pending
  BY <1>5, <1>7 DEF Value
<1>14. Promised
  BY <1>1, <1>2, <1>4, <1>7, <1>8, <1>12, <1>13, Begins
<1> QED  BY <1>6, <1>11, <1>14

\* The stores to a node.
LEMMA SPSCSetData ==
  ASSUME NEW m \in SPSCMem, NEW n \in Slot, NEW v \in Place
  PROVE  LET w == [m EXCEPT !.data[n] = v]
         IN  /\ w \in SPSCMem /\ w.head = m.head /\ w.tail = m.tail /\ w.made = m.made /\ w.next = m.next
             /\ w.data[n] = v /\ \A i \in Slot : i # n => w.data[i] = m.data[i]
<1>1. m.data \in [Slot -> Place]
  BY DEF SPSCMem
<1> DEFINE w == [m EXCEPT !.data[n] = v]
<1>2. /\ w.head = m.head /\ w.tail = m.tail /\ w.made = m.made /\ w.next = m.next
      /\ w.data = [m.data EXCEPT ![n] = v]
  BY DEF SPSCMem
<1>3. w.data \in [Slot -> Place]
  BY <1>1, <1>2
<1>4. w \in SPSCMem
  BY <1>2, <1>3 DEF SPSCMem
<1> QED  BY <1>1, <1>2, <1>4

LEMMA SPSCSetNext ==
  ASSUME NEW m \in SPSCMem, NEW n \in Slot, NEW v \in Place
  PROVE  LET w == [m EXCEPT !.next[n] = v]
         IN  /\ w \in SPSCMem /\ w.head = m.head /\ w.tail = m.tail /\ w.made = m.made /\ w.data = m.data
             /\ w.next[n] = v /\ \A i \in Slot : i # n => w.next[i] = m.next[i]
<1>1. m.next \in [Slot -> Place]
  BY DEF SPSCMem
<1> DEFINE w == [m EXCEPT !.next[n] = v]
<1>2. /\ w.head = m.head /\ w.tail = m.tail /\ w.made = m.made /\ w.data = m.data
      /\ w.next = [m.next EXCEPT ![n] = v]
  BY DEF SPSCMem
<1>3. w.next \in [Slot -> Place]
  BY <1>1, <1>2
<1>4. w \in SPSCMem
  BY <1>2, <1>3 DEF SPSCMem
<1> QED  BY <1>1, <1>2, <1>4

\* pop begins.
LEMMA SPSCCallPop ==
  ASSUME chosen = "spsc", chosen' = chosen, SPSCOK, NEW t \in Thread \ {Owner}, Room(MaxNodes + 1), left[t] > 0,
         At(t, "idle"), left' = left, SPSC!CallPop(t)
  PROVE  SPSCOK' /\ Promised /\ Room(MaxNodes + 1)'
<1>1. /\ call' = [call EXCEPT ![t] = <<"pop", "L", 1>>] /\ loc' = [loc EXCEPT ![t] = [pc |-> "pop"]]
      /\ mem' = mem
  BY SPSCFrames DEF SPSC!CallPop, Enter
<1>2. DOMAIN loc = Thread /\ DOMAIN call = Thread /\ MaxNodes \in Nat \ {0}
  BY LockFreeAssumption DEF Room
<1>3. /\ DOMAIN loc' = Thread /\ DOMAIN call' = Thread
      /\ loc'[t] = [pc |-> "pop"] /\ call'[t] = <<"pop", "L", 1>>
      /\ \A u \in Thread : u # t => loc'[u] = loc[u] /\ call'[u] = call[u]
  BY <1>1, <1>2
<1>4. loc'[t].pc = "pop" /\ "value" \notin DOMAIN loc'[t]
  BY <1>3
<1>5. Room(MaxNodes + 1)'
  BY <1>1, <1>2, <1>3, <1>4, RoomForCall
<1>6. ConsumerOK(t)' /\ SPSCShape(mem')
  BY <1>1, <1>3, <1>4 DEF ConsumerOK, SPSCOK
<1>7. SPSCOK'
  <2>1. MaxNodes + 1 \in Nat
    BY <1>2
  <2> QED  BY <1>1, <1>3, <1>6, <2>1, ConsumerKeeps
<1>8. Items' = Items
  BY <1>1, <1>6, SPSCContents DEF SPSCOK
<1>9. Value(t) = Pending /\ Value(t)' = Pending /\ call[t] = <<>> /\ 1 \in 1 .. MaxNodes
  BY <1>2, <1>4 DEF SPSCOK, ConsumerOK, Resting, Value, At
<1>10. Promised
  BY <1>1, <1>3, <1>8, <1>9, Begins
<1> QED  BY <1>5, <1>7, <1>10

\* A call returns.
LEMMA SPSCReturn ==
  ASSUME chosen = "spsc", chosen' = chosen, SPSCOK, NEW t \in Thread, Room(MaxNodes + 1), Return(t)
  PROVE  SPSCOK' /\ Promised /\ Room(MaxNodes + 1)'
<1>1. /\ At(t, "return") /\ mem' = mem /\ left' = [left EXCEPT ![t] = @ - 1]
      /\ call' = [call EXCEPT ![t] = <<>>] /\ loc' = [loc EXCEPT ![t] = [pc |-> "idle"]]
  BY DEF Return, Leave, Idle
<1>2. /\ DOMAIN loc = Thread /\ DOMAIN call = Thread /\ MaxNodes \in Nat
      /\ left \in [Thread -> 0 .. MaxNodes] /\ left[t] > 0
  BY <1>1, LockFreeAssumption DEF Room, At
<1>3. /\ DOMAIN loc' = Thread /\ DOMAIN call' = Thread
      /\ loc'[t] = [pc |-> "idle"] /\ call'[t] = <<>>
      /\ \A u \in Thread : u # t => loc'[u] = loc[u] /\ call'[u] = call[u]
  BY <1>1, <1>2
<1>4. loc'[t].pc = "idle" /\ "value" \notin DOMAIN loc'[t]
  BY <1>3
<1>5. MaxNodes + 1 \in Nat
  BY <1>2
<1>6. Room(MaxNodes + 1)'
  BY <1>1, <1>3, <1>4, <1>5, RoomStays DEF At
<1>7. Resting(t) /\ Resting(t)' /\ (t = Owner => mem.made = mem.tail)
  BY <1>1, <1>3, <1>4 DEF SPSCOK, ProducerOK, ConsumerOK, Resting, At
<1>8. \A u \in Thread : left'[u] > 0 => left[u] > 0
  BY <1>1, <1>2
<1>9. SPSCShape(mem') /\ SPSCShape(mem)
  BY <1>1 DEF SPSCOK
<1>10. SPSCOK'
  <2>1. CASE t = Owner
    <3>1. ProducerOK'
      BY <1>1, <1>7, <2>1 DEF ProducerOK
    <3>2. mem.tail <= mem'.tail
      BY <1>1, LockFreeAssumption DEF SPSCOK, SPSCShape, SPSCMem, Slot
    <3> QED  BY <1>1, <1>3, <1>8, <1>9, <2>1, <3>1, <3>2, ProducerKeeps
  <2>2. CASE t # Owner
    <3>1. ConsumerOK(t)' /\ t \in Thread \ {Owner}
      BY <1>7, <2>2 DEF ConsumerOK
    <3> QED  BY <1>1, <1>2, <1>3, <1>5, <1>8, <1>9, <3>1, ConsumerKeeps
  <2> QED  BY <2>1, <2>2
<1>11. Items' = Items
  BY <1>1, <1>9, SPSCContents
<1>12. Value(t) # Pending /\ Value(t)' = Pending
  BY <1>1, <1>4, <1>7 DEF Resting, Value, At
<1>13. Promised
  BY <1>1, <1>3, <1>11, <1>12, Ends
<1> QED  BY <1>6, <1>10, <1>13

\* What the steps of push and pop have in common.
LEMMA SPSCStep ==
  ASSUME chosen = "spsc", chosen' = chosen, SPSCOK, SPSCShape(mem'), NEW t \in Thread, Room(MaxNodes + 1),
         UNCHANGED <<call, left>>, ~At(t, "idle"), mem'.made = mem.made,
         NEW frame, Go(t, frame), "pc" \in DOMAIN frame, frame["pc"] # "idle"
  PROVE  /\ DOMAIN loc' = Thread /\ \A u \in Thread : u # t => loc'[u] = loc[u] /\ call'[u] = call[u]
         /\ DOMAIN loc'[t] = DOMAIN frame \union DOMAIN loc[t]
         /\ \A x \in DOMAIN frame : loc'[t][x] = frame[x]
         /\ \A x \in DOMAIN loc[t] \ DOMAIN frame : loc'[t][x] = loc[t][x]
         /\ Room(MaxNodes + 1)' /\ left[t] > 0 /\ MaxNodes + 1 \in Nat
         /\ \A u \in Thread : left'[u] > 0 => left[u] > 0
         /\ Items = Run(mem.head, mem.tail) /\ Items' = Run(mem'.head, mem'.tail)
         /\ mem.head \in Nat /\ mem.tail \in Nat /\ mem.head \in Slot /\ mem.tail \in Slot /\ mem.head <= mem.tail
<1>1. MaxNodes \in Nat /\ MaxNodes + 1 \in Nat /\ DOMAIN loc = Thread /\ DOMAIN call = Thread /\ left[t] > 0
  BY LockFreeAssumption DEF Room
<1>2. /\ DOMAIN loc' = Thread /\ \A u \in Thread : u # t => loc'[u] = loc[u]
      /\ DOMAIN loc'[t] = DOMAIN frame \union DOMAIN loc[t]
      /\ \A x \in DOMAIN frame : loc'[t][x] = frame[x]
      /\ \A x \in DOMAIN loc[t] \ DOMAIN frame : loc'[t][x] = loc[t][x]
  BY <1>1, GoFacts
<1>3. loc'[t].pc # "idle"
  BY <1>2
<1>4. DOMAIN call' = Thread /\ left' = left
  BY <1>1
<1>5. Room(MaxNodes + 1)'
  BY <1>1, <1>2, <1>3, <1>4, RoomStays
<1>6. Items = Run(mem.head, mem.tail) /\ Items' = Run(mem'.head, mem'.tail)
  BY SPSCContents DEF SPSCOK
<1>7. /\ mem.head \in Nat /\ mem.tail \in Nat /\ mem.head \in Slot /\ mem.tail \in Slot /\ mem.head <= mem.tail
  BY DEF SPSCOK, SPSCShape, SPSCMem, Slot
<1> QED  BY <1>1, <1>2, <1>5, <1>6, <1>7

\* push fills in the tail.
LEMMA SPSCFills ==
  ASSUME chosen = "spsc", chosen' = chosen, SPSCOK, Room(MaxNodes + 1), UNCHANGED <<call, left>>,
         At(Owner, "push"), mem' = [mem EXCEPT !.data[mem.tail] = call[Owner][3]], Go(Owner, [pc |-> "link"])
  PROVE  SPSCOK' /\ Promised /\ Room(MaxNodes + 1)'
<1>1. /\ call[Owner] = <<"push", "R", mem.tail>> /\ "value" \notin DOMAIN loc[Owner] /\ mem.made = mem.tail + 1
      /\ ~At(Owner, "idle") /\ Owner \in Thread
  BY LockFreeAssumption DEF SPSCOK, ProducerOK, Resting, At
<1>2. mem \in SPSCMem /\ mem.tail \in Slot /\ mem.tail \in Place
  BY LockFreeAssumption DEF SPSCOK, SPSCShape, SPSCMem, Slot, Place
<1>3. /\ mem' \in SPSCMem /\ mem'.head = mem.head /\ mem'.tail = mem.tail /\ mem'.made = mem.made
      /\ mem'.next = mem.next /\ mem'.data[mem.tail] = mem.tail
      /\ \A i \in Slot : i # mem.tail => mem'.data[i] = mem.data[i]
  <2>1. PICK w, k : w = mem' /\ k = mem.tail
    OBVIOUS
  <2>2. k \in Slot /\ k \in Place
    BY <1>2, <2>1
  <2>3. LET s == [mem EXCEPT !.data[k] = k]
        IN  /\ s \in SPSCMem /\ s.head = mem.head /\ s.tail = mem.tail /\ s.made = mem.made /\ s.next = mem.next
            /\ s.data[k] = k /\ \A i \in Slot : i # k => s.data[i] = mem.data[i]
    BY <1>2, <2>2, SPSCSetData
  <2>4. w = [mem EXCEPT !.data[k] = k]
    BY <1>1, <2>1
  <2>5. /\ w \in SPSCMem /\ w.head = mem.head /\ w.tail = mem.tail /\ w.made = mem.made /\ w.next = mem.next
        /\ w.data[k] = k /\ \A i \in Slot : i # k => w.data[i] = mem.data[i]
    BY <2>3, <2>4
  <2> QED  BY <2>1, <2>5
<1>4. SPSCShape(mem')
  <2>1. mem.tail \in Nat
    BY <1>2 DEF Slot
  <2>2. \A n \in Slot : mem'.head <= n /\ n < mem'.tail => mem'.next[n] = n + 1 /\ mem'.data[n] = n
    BY <1>3, <2>1 DEF SPSCOK, SPSCShape, Slot
  <2> QED  BY <1>3, <2>2 DEF SPSCOK, SPSCShape
<1> DEFINE frame == [pc |-> "link"]
<1>5. DOMAIN frame = {"pc"} /\ frame["pc"] = "link" /\ Go(Owner, frame)
  OBVIOUS
<1> HIDE DEF frame
<1>6. /\ DOMAIN loc' = Thread /\ \A u \in Thread : u # Owner => loc'[u] = loc[u] /\ call'[u] = call[u]
      /\ DOMAIN loc'[Owner] = DOMAIN frame \union DOMAIN loc[Owner]
      /\ \A x \in DOMAIN frame : loc'[Owner][x] = frame[x]
      /\ Room(MaxNodes + 1)' /\ \A u \in Thread : left'[u] > 0 => left[u] > 0
      /\ Items = Run(mem.head, mem.tail) /\ Items' = Run(mem'.head, mem'.tail)
      /\ mem.head \in Nat /\ mem.tail \in Nat /\ mem.head \in Slot /\ mem.tail \in Slot /\ mem.head <= mem.tail
  BY <1>1, <1>3, <1>4, <1>5, SPSCStep
<1>7. loc'[Owner].pc = "link" /\ "value" \notin DOMAIN loc'[Owner]
  BY <1>1, <1>5, <1>6
<1>8. ProducerOK'
  BY <1>1, <1>3, <1>7 DEF ProducerOK
<1>9. SPSCOK'
  <2>1. mem.tail <= mem'.tail /\ \A n \in 1 .. mem.head - 1 : mem'.data[n] = mem.data[n]
    <3>1. mem.head \in 1 .. MaxNodes + 1 /\ MaxNodes \in Nat /\ mem.tail \in Nat /\ mem.head <= mem.tail
      BY <1>6, LockFreeAssumption DEF Slot
    <3>2. \A n \in 1 .. mem.head - 1 : n \in Slot /\ n # mem.tail
      BY <3>1 DEF Slot
    <3> QED  BY <1>3, <3>1, <3>2
  <2> QED  BY <1>3, <1>4, <1>6, <1>8, <2>1, ProducerKeeps
<1>10. Promised
  <2>1. Value(Owner)' = Value(Owner) /\ Items' = Items
    BY <1>1, <1>3, <1>6, <1>7 DEF Value
  <2> QED  BY <1>1, <1>6, <2>1, Silent
<1> QED  BY <1>6, <1>9, <1>10

\* push links the new node to the tail.
LEMMA SPSCLinks ==
  ASSUME chosen = "spsc", chosen' = chosen, SPSCOK, Room(MaxNodes + 1), UNCHANGED <<call, left>>,
         At(Owner, "link"), mem' = [mem EXCEPT !.next[mem.tail] = mem.made], Go(Owner, [pc |-> "publish"])
  PROVE  SPSCOK' /\ Promised /\ Room(MaxNodes + 1)'
<1>1. /\ call[Owner] = <<"push", "R", mem.tail>> /\ "value" \notin DOMAIN loc[Owner] /\ mem.made = mem.tail + 1
      /\ ~At(Owner, "idle") /\ Owner \in Thread /\ mem.data[mem.tail] = mem.tail
  BY LockFreeAssumption DEF SPSCOK, ProducerOK, Resting, At
<1>2. mem \in SPSCMem /\ mem.tail \in Slot /\ mem.made \in Place
  BY LockFreeAssumption DEF SPSCOK, SPSCShape, SPSCMem, Slot, Place
<1>3. /\ mem' \in SPSCMem /\ mem'.head = mem.head /\ mem'.tail = mem.tail /\ mem'.made = mem.made
      /\ mem'.data = mem.data /\ mem'.next[mem.tail] = mem.made
      /\ \A i \in Slot : i # mem.tail => mem'.next[i] = mem.next[i]
  <2>1. PICK w, k, v : w = mem' /\ k = mem.tail /\ v = mem.made
    OBVIOUS
  <2>2. k \in Slot /\ v \in Place
    BY <1>2, <2>1
  <2>3. LET s == [mem EXCEPT !.next[k] = v]
        IN  /\ s \in SPSCMem /\ s.head = mem.head /\ s.tail = mem.tail /\ s.made = mem.made /\ s.data = mem.data
            /\ s.next[k] = v /\ \A i \in Slot : i # k => s.next[i] = mem.next[i]
    BY <1>2, <2>2, SPSCSetNext
  <2>4. w = [mem EXCEPT !.next[k] = v]
    BY <2>1
  <2>5. /\ w \in SPSCMem /\ w.head = mem.head /\ w.tail = mem.tail /\ w.made = mem.made /\ w.data = mem.data
        /\ w.next[k] = v /\ \A i \in Slot : i # k => w.next[i] = mem.next[i]
    BY <2>3, <2>4
  <2> QED  BY <2>1, <2>5
<1>4. SPSCShape(mem')
  <2>1. mem.tail \in Nat
    BY <1>2 DEF Slot
  <2>2. \A n \in Slot : mem'.head <= n /\ n < mem'.tail => mem'.next[n] = n + 1 /\ mem'.data[n] = n
    BY <1>3, <2>1 DEF SPSCOK, SPSCShape, Slot
  <2>3. \A n \in Slot : mem'.next[n] \in {0, n + 1}
    BY <1>1, <1>3 DEF SPSCOK, SPSCShape
  <2> QED  BY <1>3, <2>2, <2>3 DEF SPSCOK, SPSCShape
<1> DEFINE frame == [pc |-> "publish"]
<1>5. DOMAIN frame = {"pc"} /\ frame["pc"] = "publish" /\ Go(Owner, frame)
  OBVIOUS
<1> HIDE DEF frame
<1>6. /\ DOMAIN loc' = Thread /\ \A u \in Thread : u # Owner => loc'[u] = loc[u] /\ call'[u] = call[u]
      /\ DOMAIN loc'[Owner] = DOMAIN frame \union DOMAIN loc[Owner]
      /\ \A x \in DOMAIN frame : loc'[Owner][x] = frame[x]
      /\ Room(MaxNodes + 1)' /\ \A u \in Thread : left'[u] > 0 => left[u] > 0
      /\ Items = Run(mem.head, mem.tail) /\ Items' = Run(mem'.head, mem'.tail)
      /\ mem.tail \in Nat
  BY <1>1, <1>3, <1>4, <1>5, SPSCStep
<1>7. loc'[Owner].pc = "publish" /\ "value" \notin DOMAIN loc'[Owner]
  BY <1>1, <1>5, <1>6
<1>8. ProducerOK'
  BY <1>1, <1>3, <1>7 DEF ProducerOK
<1>9. SPSCOK'
  <2>1. mem.tail <= mem'.tail /\ \A n \in 1 .. mem.head - 1 : mem'.data[n] = mem.data[n]
    BY <1>3, <1>6
  <2> QED  BY <1>3, <1>4, <1>6, <1>8, <2>1, ProducerKeeps
<1>10. Promised
  <2>1. Value(Owner)' = Value(Owner) /\ Items' = Items
    BY <1>1, <1>3, <1>6, <1>7 DEF Value
  <2> QED  BY <1>1, <1>6, <2>1, Silent
<1> QED  BY <1>6, <1>9, <1>10

\* push stores the tail: the element is in the queue.
LEMMA SPSCPublishes ==
  ASSUME chosen = "spsc", chosen' = chosen, SPSCOK, Room(MaxNodes + 1), UNCHANGED <<call, left>>,
         At(Owner, "publish"), mem' = [mem EXCEPT !.tail = mem.made], Go(Owner, [pc |-> "return", value |-> Void])
  PROVE  SPSCOK' /\ Promised /\ Room(MaxNodes + 1)'
<1>1. /\ call[Owner] = <<"push", "R", mem.tail>> /\ "value" \notin DOMAIN loc[Owner] /\ mem.made = mem.tail + 1
      /\ ~At(Owner, "idle") /\ Owner \in Thread /\ mem.data[mem.tail] = mem.tail /\ mem.next[mem.tail] = mem.made
  BY LockFreeAssumption DEF SPSCOK, ProducerOK, Resting, At
<1>2. mem \in SPSCMem /\ mem.made \in Slot /\ mem.tail \in Nat /\ mem.head \in Nat /\ mem.head <= mem.tail
  BY LockFreeAssumption DEF SPSCOK, SPSCShape, SPSCMem, Slot
<1>3. /\ mem' \in SPSCMem /\ mem'.head = mem.head /\ mem'.tail = mem.tail + 1 /\ mem'.made = mem.made
      /\ mem'.data = mem.data /\ mem'.next = mem.next
  BY <1>1, <1>2 DEF SPSCMem
<1>4. SPSCShape(mem')
  <2>1. \A n \in Slot : n < mem'.tail => n < mem.tail \/ n = mem.tail
    BY <1>2, <1>3 DEF Slot
  <2>2. \A n \in Slot : mem'.head <= n /\ n < mem'.tail => mem'.next[n] = n + 1 /\ mem'.data[n] = n
    BY <1>1, <1>3, <2>1 DEF SPSCOK, SPSCShape
  <2>3. mem'.head <= mem'.tail /\ mem'.tail <= mem'.made
    BY <1>1, <1>2, <1>3
  <2> QED  BY <1>3, <2>2, <2>3 DEF SPSCOK, SPSCShape
<1> DEFINE frame == [pc |-> "return", value |-> Void]
<1>5. DOMAIN frame = {"pc", "value"} /\ frame["pc"] = "return" /\ frame["value"] = Void /\ Go(Owner, frame)
  OBVIOUS
<1> HIDE DEF frame
<1>6. /\ DOMAIN loc' = Thread /\ \A u \in Thread : u # Owner => loc'[u] = loc[u] /\ call'[u] = call[u]
      /\ DOMAIN loc'[Owner] = DOMAIN frame \union DOMAIN loc[Owner]
      /\ \A x \in DOMAIN frame : loc'[Owner][x] = frame[x]
      /\ Room(MaxNodes + 1)' /\ \A u \in Thread : left'[u] > 0 => left[u] > 0
      /\ Items = Run(mem.head, mem.tail) /\ Items' = Run(mem'.head, mem'.tail)
  BY <1>1, <1>3, <1>4, <1>5, SPSCStep
<1>7. loc'[Owner].pc = "return" /\ "value" \in DOMAIN loc'[Owner] /\ loc'[Owner].value = Void
  BY <1>5, <1>6
<1>8. ProducerOK'
  <2>1. call'[Owner] # <<>> /\ Void # Pending
    BY <1>1, LockFreeAssumption
  <2>2. Resting(Owner)'
    BY <1>7, <2>1 DEF Resting, At
  <2> QED  BY <1>1, <1>3, <2>2 DEF ProducerOK
<1>9. SPSCOK'
  <2>1. mem.tail <= mem'.tail /\ \A n \in 1 .. mem.head - 1 : mem'.data[n] = mem.data[n]
    BY <1>2, <1>3
  <2> QED  BY <1>3, <1>4, <1>6, <1>8, <2>1, ProducerKeeps
<1>10. Promised
  <2>1. Value(Owner) = Pending /\ Value(Owner)' = Void
    BY <1>1, <1>7 DEF Value
  <2>2. Items' = Promise!Pushed(Items, call[Owner][2], call[Owner][3])
    <3>1. Append(Run(mem.head, mem.tail), mem.tail) = Run(mem.head, mem.tail + 1)
      BY <1>2, RunFacts
    <3>2. Items' = Append(Items, mem.tail)
      BY <1>3, <1>6, <3>1
    <3>3. call[Owner][2] # "L" /\ call[Owner][3] = mem.tail
      BY <1>1
    <3> QED  BY <3>2, <3>3 DEF Promise!Pushed
  <2>3. call[Owner] # <<>> /\ call[Owner][1] = "push" /\ left' = left /\ call' = call
    BY <1>1
  <2> QED  BY <1>1, <1>6, <2>1, <2>2, <2>3, Effect1
<1> QED  BY <1>6, <1>9, <1>10

\* pop finds the queue empty.
LEMMA SPSCFindsNothing ==
  ASSUME chosen = "spsc", chosen' = chosen, SPSCOK, NEW t \in Thread \ {Owner}, Room(MaxNodes + 1),
         UNCHANGED <<call, left>>, At(t, "pop"), mem.head = mem.tail, mem' = mem, Go(t, [pc |-> "return", value |-> Empty])
  PROVE  SPSCOK' /\ Promised /\ Room(MaxNodes + 1)'
<1>1. call[t] = <<"pop", "L", 1>> /\ "value" \notin DOMAIN loc[t] /\ ~At(t, "idle") /\ t # Owner /\ t \in Thread
  BY DEF SPSCOK, ConsumerOK, Resting, At
<1>2. SPSCShape(mem') /\ mem'.made = mem.made
  BY DEF SPSCOK
<1> DEFINE frame == [pc |-> "return", value |-> Empty]
<1>3. DOMAIN frame = {"pc", "value"} /\ frame["pc"] = "return" /\ frame["value"] = Empty /\ Go(t, frame)
  OBVIOUS
<1> HIDE DEF frame
<1>4. /\ DOMAIN loc' = Thread /\ \A u \in Thread : u # t => loc'[u] = loc[u] /\ call'[u] = call[u]
      /\ DOMAIN loc'[t] = DOMAIN frame \union DOMAIN loc[t]
      /\ \A x \in DOMAIN frame : loc'[t][x] = frame[x]
      /\ \A x \in DOMAIN loc[t] \ DOMAIN frame : loc'[t][x] = loc[t][x]
      /\ Room(MaxNodes + 1)' /\ left[t] > 0 /\ MaxNodes + 1 \in Nat
      /\ \A u \in Thread : left'[u] > 0 => left[u] > 0
      /\ Items = Run(mem.head, mem.tail) /\ Items' = Run(mem'.head, mem'.tail)
      /\ mem.head \in Nat /\ mem.tail \in Nat /\ mem.head \in Slot /\ mem.tail \in Slot /\ mem.head <= mem.tail
  BY <1>1, <1>2, <1>3, SPSCStep
<1>5. loc'[t].pc = "return" /\ "value" \in DOMAIN loc'[t] /\ loc'[t].value = Empty
  BY <1>3, <1>4
<1>6. ConsumerOK(t)'
  <2>1. call'[t] # <<>> /\ Empty # Pending
    BY <1>1, LockFreeAssumption
  <2>2. Resting(t)'
    BY <1>5, <2>1 DEF Resting, At
  <2> QED  BY <2>2 DEF ConsumerOK
<1>7. SPSCOK'
  BY <1>2, <1>4, <1>6, ConsumerKeeps
<1>8. Promised
  <2>1. Value(t) = Pending /\ Value(t)' = Empty
    BY <1>1, <1>5 DEF Value
  <2>2. Items = <<>> /\ Items' = Items
    BY <1>4, RunFacts
  <2>3. call[t] # <<>> /\ call[t][1] = "pop" /\ left' = left /\ call' = call
    BY <1>1
  <2> QED  BY <1>1, <1>4, <2>1, <2>2, <2>3, Effect1
<1> QED  BY <1>4, <1>7, <1>8

\* pop finds an element.
LEMMA SPSCFinds ==
  ASSUME chosen = "spsc", chosen' = chosen, SPSCOK, NEW t \in Thread \ {Owner}, Room(MaxNodes + 1),
         UNCHANGED <<call, left>>, At(t, "pop"), mem.head # mem.tail, mem' = mem, Go(t, [pc |-> "next", first |-> mem.head])
  PROVE  SPSCOK' /\ Promised /\ Room(MaxNodes + 1)'
<1>1. call[t] = <<"pop", "L", 1>> /\ "value" \notin DOMAIN loc[t] /\ ~At(t, "idle") /\ t # Owner /\ t \in Thread
  BY DEF SPSCOK, ConsumerOK, Resting, At
<1>2. SPSCShape(mem') /\ mem'.made = mem.made
  BY DEF SPSCOK
<1> DEFINE frame == [pc |-> "next", first |-> mem.head]
<1>3. DOMAIN frame = {"pc", "first"} /\ frame["pc"] = "next" /\ frame["first"] = mem.head /\ Go(t, frame)
  OBVIOUS
<1> HIDE DEF frame
<1>4. /\ DOMAIN loc' = Thread /\ \A u \in Thread : u # t => loc'[u] = loc[u] /\ call'[u] = call[u]
      /\ DOMAIN loc'[t] = DOMAIN frame \union DOMAIN loc[t]
      /\ \A x \in DOMAIN frame : loc'[t][x] = frame[x]
      /\ \A x \in DOMAIN loc[t] \ DOMAIN frame : loc'[t][x] = loc[t][x]
      /\ Room(MaxNodes + 1)' /\ left[t] > 0 /\ MaxNodes + 1 \in Nat
      /\ \A u \in Thread : left'[u] > 0 => left[u] > 0
      /\ Items = Run(mem.head, mem.tail) /\ Items' = Run(mem'.head, mem'.tail)
      /\ mem.head \in Nat /\ mem.tail \in Nat /\ mem.head \in Slot /\ mem.tail \in Slot /\ mem.head <= mem.tail
  BY <1>1, <1>2, <1>3, SPSCStep
<1>5. loc'[t].pc = "next" /\ "value" \notin DOMAIN loc'[t] /\ "first" \in DOMAIN loc'[t] /\ loc'[t].first = mem.head
  BY <1>1, <1>3, <1>4
<1>6. ConsumerOK(t)'
  <2>1. mem'.head < mem'.tail
    BY <1>4
  <2> QED  BY <1>1, <1>5, <2>1 DEF ConsumerOK
<1>7. SPSCOK'
  BY <1>2, <1>4, <1>6, ConsumerKeeps
<1>8. Promised
  <2>1. Value(t)' = Value(t) /\ Items' = Items
    BY <1>1, <1>4, <1>5 DEF Value
  <2> QED  BY <1>1, <1>4, <2>1, Silent
<1> QED  BY <1>4, <1>7, <1>8

\* pop stores the head: the element is taken.
LEMMA SPSCTakes ==
  ASSUME chosen = "spsc", chosen' = chosen, SPSCOK, NEW t \in Thread \ {Owner}, Room(MaxNodes + 1),
         UNCHANGED <<call, left>>, At(t, "next"), mem' = [mem EXCEPT !.head = mem.next[loc[t].first]],
         Go(t, [pc |-> "data", value |-> mem.data[loc[t].first]])
  PROVE  SPSCOK' /\ Promised /\ Room(MaxNodes + 1)'
<1>1. /\ call[t] = <<"pop", "L", 1>> /\ "value" \notin DOMAIN loc[t] /\ ~At(t, "idle") /\ t # Owner /\ t \in Thread
      /\ "first" \in DOMAIN loc[t] /\ loc[t].first = mem.head /\ mem.head < mem.tail
  BY DEF SPSCOK, ConsumerOK, Resting, At
<1>2. /\ mem \in SPSCMem /\ mem.head \in Slot /\ mem.head \in Nat /\ mem.tail \in Slot /\ mem.tail \in Nat
      /\ MaxNodes \in Nat
  BY LockFreeAssumption DEF SPSCOK, SPSCShape, SPSCMem, Slot
<1>3. mem.next[mem.head] = mem.head + 1 /\ mem.data[mem.head] = mem.head
  BY <1>1, <1>2 DEF SPSCOK, SPSCShape
<1>4. /\ mem'.head = mem.head + 1 /\ mem'.tail = mem.tail /\ mem'.made = mem.made
      /\ mem'.next = mem.next /\ mem'.data = mem.data /\ mem' \in SPSCMem
  <2>1. mem' = [mem EXCEPT !.head = mem.head + 1]
    BY <1>1, <1>3
  <2>2. mem.head + 1 \in Slot
    BY <1>1, <1>2 DEF Slot
  <2> QED  BY <1>2, <2>1, <2>2 DEF SPSCMem
<1>5. SPSCShape(mem')
  <2>1. mem'.head <= mem'.tail /\ \A n \in Slot : mem'.head <= n => mem.head <= n
    BY <1>1, <1>2, <1>4 DEF Slot
  <2> QED  BY <1>4, <2>1 DEF SPSCOK, SPSCShape
<1> DEFINE frame == [pc |-> "data", value |-> mem.data[loc[t].first]]
<1>6. DOMAIN frame = {"pc", "value"} /\ frame["pc"] = "data" /\ frame["value"] = mem.head /\ Go(t, frame)
  BY <1>1, <1>3
<1> HIDE DEF frame
<1>7. /\ DOMAIN loc' = Thread /\ \A u \in Thread : u # t => loc'[u] = loc[u] /\ call'[u] = call[u]
      /\ DOMAIN loc'[t] = DOMAIN frame \union DOMAIN loc[t]
      /\ \A x \in DOMAIN frame : loc'[t][x] = frame[x]
      /\ \A x \in DOMAIN loc[t] \ DOMAIN frame : loc'[t][x] = loc[t][x]
      /\ Room(MaxNodes + 1)' /\ left[t] > 0 /\ MaxNodes + 1 \in Nat
      /\ \A u \in Thread : left'[u] > 0 => left[u] > 0
      /\ Items = Run(mem.head, mem.tail) /\ Items' = Run(mem'.head, mem'.tail)
      /\ mem.head \in Nat /\ mem.tail \in Nat /\ mem.head \in Slot /\ mem.tail \in Slot /\ mem.head <= mem.tail
  BY <1>1, <1>4, <1>5, <1>6, SPSCStep
<1>8. /\ loc'[t].pc = "data" /\ {"first", "value"} \subseteq DOMAIN loc'[t]
      /\ loc'[t].value = mem.head /\ loc'[t].first = mem.head
  <2>1. "first" \in DOMAIN loc[t] \ DOMAIN frame
    BY <1>1, <1>6
  <2> QED  BY <1>1, <1>6, <1>7, <2>1
<1>9. mem.head # Pending
  <2>1. mem.head \in 0 .. MaxNodes + 1
    BY <1>2 DEF Slot
  <2> QED  BY <2>1, LockFreeAssumption
<1>10. ConsumerOK(t)'
  <2>1. mem.head \in 1 .. mem'.head - 1
    BY <1>2, <1>4 DEF Slot
  <2> QED  BY <1>1, <1>3, <1>4, <1>8, <1>9, <2>1 DEF ConsumerOK
<1>11. SPSCOK'
  BY <1>4, <1>5, <1>7, <1>10, ConsumerKeeps
<1>12. Promised
  <2>1. Value(t) = Pending /\ Value(t)' = mem.head
    BY <1>1, <1>8 DEF Value
  <2>2. /\ Run(mem.head, mem.tail) # <<>> /\ Run(mem.head, mem.tail)[1] = mem.head
        /\ SubSeq(Run(mem.head, mem.tail), 2, Len(Run(mem.head, mem.tail))) = Run(mem.head + 1, mem.tail)
    BY <1>1, <1>2, <1>7, RunFacts
  <2>3. call[t] # <<>> /\ call[t][1] = "pop" /\ call[t][2] = "L" /\ left' = left /\ call' = call
    BY <1>1
  <2>4. /\ Items # <<>> /\ Value(t)' = Promise!End(Items, call[t][2])
        /\ Items' = Promise!Popped(Items, call[t][2])
    BY <1>4, <1>7, <2>1, <2>2, <2>3 DEF Promise!End, Promise!Popped
  <2> QED  BY <1>1, <1>7, <2>1, <2>3, <2>4, Effect1
<1> QED  BY <1>7, <1>11, <1>12

\* pop reads the data of the node it has taken: nobody has stored to it.
LEMMA SPSCReads ==
  ASSUME chosen = "spsc", chosen' = chosen, SPSCOK, NEW t \in Thread \ {Owner}, Room(MaxNodes + 1),
         UNCHANGED <<call, left>>, At(t, "data"), mem' = mem, Go(t, [pc |-> "delete", value |-> mem.data[loc[t].first]])
  PROVE  SPSCOK' /\ Promised /\ Room(MaxNodes + 1)'
<1>1. /\ call[t] # <<>> /\ {"first", "value"} \subseteq DOMAIN loc[t] /\ ~At(t, "idle") /\ t # Owner /\ t \in Thread
      /\ loc[t].first \in 1 .. mem.head - 1 /\ loc[t].value # Pending /\ mem.data[loc[t].first] = loc[t].value
  BY DEF SPSCOK, ConsumerOK, Resting, At
<1>2. SPSCShape(mem') /\ mem'.made = mem.made
  BY DEF SPSCOK
<1> DEFINE frame == [pc |-> "delete", value |-> mem.data[loc[t].first]]
<1>3. DOMAIN frame = {"pc", "value"} /\ frame["pc"] = "delete" /\ frame["value"] = loc[t].value /\ Go(t, frame)
  BY <1>1
<1> HIDE DEF frame
<1>4. /\ DOMAIN loc' = Thread /\ \A u \in Thread : u # t => loc'[u] = loc[u] /\ call'[u] = call[u]
      /\ DOMAIN loc'[t] = DOMAIN frame \union DOMAIN loc[t]
      /\ \A x \in DOMAIN frame : loc'[t][x] = frame[x]
      /\ \A x \in DOMAIN loc[t] \ DOMAIN frame : loc'[t][x] = loc[t][x]
      /\ Room(MaxNodes + 1)' /\ left[t] > 0 /\ MaxNodes + 1 \in Nat
      /\ \A u \in Thread : left'[u] > 0 => left[u] > 0
      /\ Items = Run(mem.head, mem.tail) /\ Items' = Run(mem'.head, mem'.tail)
      /\ mem.head \in Nat /\ mem.tail \in Nat /\ mem.head \in Slot /\ mem.tail \in Slot /\ mem.head <= mem.tail
  BY <1>1, <1>2, <1>3, SPSCStep
<1>5. /\ loc'[t].pc = "delete" /\ {"first", "value"} \subseteq DOMAIN loc'[t]
      /\ loc'[t].value = loc[t].value /\ loc'[t].first = loc[t].first
  <2>1. "first" \in DOMAIN loc[t] \ DOMAIN frame
    BY <1>1, <1>3
  <2> QED  BY <1>1, <1>3, <1>4, <2>1
<1>6. ConsumerOK(t)'
  BY <1>1, <1>5 DEF ConsumerOK
<1>7. SPSCOK'
  BY <1>2, <1>4, <1>6, ConsumerKeeps
<1>8. Promised
  <2>1. Value(t)' = Value(t) /\ Items' = Items
    BY <1>1, <1>4, <1>5 DEF Value
  <2> QED  BY <1>1, <1>4, <2>1, Silent
<1> QED  BY <1>4, <1>7, <1>8

LEMMA SPSCDeletes ==
  ASSUME NEW m \in SPSCMem, NEW n \in Slot
  PROVE  LET w == [m EXCEPT !.data[n] = 0, !.next[n] = 0]
         IN  /\ w \in SPSCMem /\ w.head = m.head /\ w.tail = m.tail /\ w.made = m.made
             /\ w.next[n] = 0 /\ \A i \in Slot : i # n => w.next[i] = m.next[i] /\ w.data[i] = m.data[i]
<1>1. m.next \in [Slot -> Place] /\ m.data \in [Slot -> Place] /\ 0 \in Place
  BY LockFreeAssumption DEF SPSCMem, Place
<1> DEFINE w == [m EXCEPT !.data[n] = 0, !.next[n] = 0]
<1>2. /\ w.head = m.head /\ w.tail = m.tail /\ w.made = m.made
      /\ w.next = [m.next EXCEPT ![n] = 0] /\ w.data = [m.data EXCEPT ![n] = 0]
  BY DEF SPSCMem
<1>3. w.next \in [Slot -> Place] /\ w.data \in [Slot -> Place]
  BY <1>1, <1>2
<1>4. w \in SPSCMem
  BY <1>2, <1>3 DEF SPSCMem
<1> QED  BY <1>1, <1>2, <1>4

\* pop deletes the node, which the producer has left behind.
LEMMA SPSCFreed ==
  ASSUME SPSCOK, NEW f \in 1 .. mem.head - 1, NEW w, w = [mem EXCEPT !.data[f] = 0, !.next[f] = 0]
  PROVE  /\ SPSCShape(w) /\ w.head = mem.head /\ w.tail = mem.tail /\ w.made = mem.made
         /\ w.data[mem.tail] = mem.data[mem.tail] /\ w.next[mem.tail] = mem.next[mem.tail]
<1>1. /\ mem \in SPSCMem /\ mem.head \in Slot /\ mem.head \in Nat /\ mem.tail \in Slot /\ mem.tail \in Nat
      /\ mem.head <= mem.tail /\ MaxNodes \in Nat
  BY LockFreeAssumption DEF SPSCOK, SPSCShape, SPSCMem, Slot
<1>2. f \in Slot /\ f < mem.head /\ f # mem.tail /\ f \in Nat
  <2>1. mem.head \in 1 .. MaxNodes + 1
    BY <1>1 DEF Slot
  <2> QED  BY <1>1, <2>1 DEF Slot
<1>3. LET s == [mem EXCEPT !.data[f] = 0, !.next[f] = 0]
      IN  /\ s \in SPSCMem /\ s.head = mem.head /\ s.tail = mem.tail /\ s.made = mem.made
          /\ s.next[f] = 0 /\ \A i \in Slot : i # f => s.next[i] = mem.next[i] /\ s.data[i] = mem.data[i]
  BY <1>1, <1>2, SPSCDeletes
<1>4. /\ w \in SPSCMem /\ w.head = mem.head /\ w.tail = mem.tail /\ w.made = mem.made
      /\ w.next[f] = 0 /\ \A i \in Slot : i # f => w.next[i] = mem.next[i] /\ w.data[i] = mem.data[i]
  BY <1>3
<1>5. SPSCShape(w)
  <2>1. \A n \in Slot : w.head <= n => n # f
    BY <1>1, <1>2, <1>4 DEF Slot
  <2>2. \A n \in Slot : w.next[n] \in {0, n + 1}
    BY <1>4 DEF SPSCOK, SPSCShape
  <2>3. \A n \in Slot : w.head <= n /\ n < w.tail => w.next[n] = n + 1 /\ w.data[n] = n
    BY <1>4, <2>1 DEF SPSCOK, SPSCShape
  <2> QED  BY <1>4, <2>2, <2>3 DEF SPSCOK, SPSCShape
<1> QED  BY <1>1, <1>2, <1>4, <1>5

LEMMA SPSCFrees ==
  ASSUME chosen = "spsc", chosen' = chosen, SPSCOK, NEW t \in Thread \ {Owner}, Room(MaxNodes + 1),
         UNCHANGED <<call, left>>, At(t, "delete"), Go(t, [pc |-> "return", value |-> loc[t].value]),
         SPSCShape(mem'), mem'.head = mem.head, mem'.tail = mem.tail, mem'.made = mem.made,
         mem'.data[mem.tail] = mem.data[mem.tail], mem'.next[mem.tail] = mem.next[mem.tail]
  PROVE  SPSCOK' /\ Promised /\ Room(MaxNodes + 1)'
<1>1. /\ call[t] # <<>> /\ "value" \in DOMAIN loc[t] /\ ~At(t, "idle") /\ t # Owner /\ t \in Thread
      /\ loc[t].first \in 1 .. mem.head - 1 /\ loc[t].value # Pending
  BY DEF SPSCOK, ConsumerOK, Resting, At
<1> DEFINE frame == [pc |-> "return", value |-> loc[t].value]
<1>2. DOMAIN frame = {"pc", "value"} /\ frame["pc"] = "return" /\ frame["value"] = loc[t].value /\ Go(t, frame)
  OBVIOUS
<1> HIDE DEF frame
<1>3. /\ DOMAIN loc' = Thread /\ \A u \in Thread : u # t => loc'[u] = loc[u] /\ call'[u] = call[u]
      /\ DOMAIN loc'[t] = DOMAIN frame \union DOMAIN loc[t]
      /\ \A x \in DOMAIN frame : loc'[t][x] = frame[x]
      /\ \A x \in DOMAIN loc[t] \ DOMAIN frame : loc'[t][x] = loc[t][x]
      /\ Room(MaxNodes + 1)' /\ left[t] > 0 /\ MaxNodes + 1 \in Nat
      /\ \A u \in Thread : left'[u] > 0 => left[u] > 0
      /\ Items = Run(mem.head, mem.tail) /\ Items' = Run(mem'.head, mem'.tail)
      /\ mem.head \in Nat /\ mem.tail \in Nat /\ mem.head \in Slot /\ mem.tail \in Slot /\ mem.head <= mem.tail
  BY <1>1, <1>2, SPSCStep
<1>4. loc'[t].pc = "return" /\ "value" \in DOMAIN loc'[t] /\ loc'[t].value = loc[t].value
  BY <1>2, <1>3
<1>5. ConsumerOK(t)'
  <2>1. Resting(t)'
    BY <1>1, <1>4 DEF Resting, At
  <2> QED  BY <2>1 DEF ConsumerOK
<1>6. SPSCOK'
  BY <1>3, <1>5, ConsumerKeeps
<1>7. Promised
  <2>1. Value(t)' = Value(t) /\ Items' = Items
    BY <1>1, <1>3, <1>4 DEF Value
  <2> QED  BY <1>1, <1>3, <2>1, Silent
<1> QED  BY <1>3, <1>6, <1>7

\* Every step of a call.
LEMMA SPSCWork ==
  ASSUME chosen = "spsc", chosen' = chosen, SPSCOK, NEW t \in Thread, Room(MaxNodes + 1), UNCHANGED <<call, left>>,
         SPSC!Step(t)
  PROVE  SPSCOK' /\ Promised /\ Room(MaxNodes + 1)'
<1>1. CASE SPSC!Push(t)
  <2>1. loc[t].pc \in {"push", "link", "publish"}
    BY <1>1, SPSCFrames DEF SPSC!Push, At
  <2>2. t = Owner
    BY <2>1 DEF SPSCOK, ConsumerOK, Resting, At
  <2>3. CASE /\ At(t, "push") /\ mem' = [mem EXCEPT !.data[mem.tail] = call[t][3]] /\ Go(t, [pc |-> "link"])
    BY <2>2, <2>3, SPSCFills
  <2>4. CASE /\ At(t, "link") /\ mem' = [mem EXCEPT !.next[mem.tail] = mem.made] /\ Go(t, [pc |-> "publish"])
    BY <2>2, <2>4, SPSCLinks
  <2>5. CASE /\ At(t, "publish") /\ mem' = [mem EXCEPT !.tail = mem.made]
             /\ Go(t, [pc |-> "return", value |-> Void])
    BY <2>2, <2>5, SPSCPublishes
  <2> QED  BY <1>1, <2>3, <2>4, <2>5, SPSCFrames DEF SPSC!Push
<1>2. CASE SPSC!Pop(t)
  <2>1. loc[t].pc \in {"pop", "next", "data", "delete"}
    BY <1>2, SPSCFrames DEF SPSC!Pop, At
  <2>2. t \in Thread \ {Owner}
    BY <2>1 DEF SPSCOK, ProducerOK, Resting, At
  <2>3. CASE At(t, "pop") /\ mem.head = mem.tail /\ mem' = mem /\ Go(t, [pc |-> "return", value |-> Empty])
    BY <2>2, <2>3, SPSCFindsNothing
  <2>4. CASE At(t, "pop") /\ mem.head # mem.tail /\ mem' = mem /\ Go(t, [pc |-> "next", first |-> mem.head])
    BY <2>2, <2>4, SPSCFinds
  <2>5. CASE /\ At(t, "next") /\ mem' = [mem EXCEPT !.head = mem.next[loc[t].first]]
             /\ Go(t, [pc |-> "data", value |-> mem.data[loc[t].first]])
    BY <2>2, <2>5, SPSCTakes
  <2>6. CASE At(t, "data") /\ mem' = mem /\ Go(t, [pc |-> "delete", value |-> mem.data[loc[t].first]])
    BY <2>2, <2>6, SPSCReads
  <2>7. CASE /\ At(t, "delete") /\ mem' = [mem EXCEPT !.data[loc[t].first] = 0, !.next[loc[t].first] = 0]
             /\ Go(t, [pc |-> "return", value |-> loc[t].value])
    <3>1. loc[t].first \in 1 .. mem.head - 1
      BY <2>2, <2>7 DEF SPSCOK, ConsumerOK, Resting, At
    <3>2. PICK f, w : f = loc[t].first /\ w = mem'
      OBVIOUS
    <3>3. f \in 1 .. mem.head - 1 /\ w = [mem EXCEPT !.data[f] = 0, !.next[f] = 0]
      BY <2>7, <3>1, <3>2
    <3>4. /\ SPSCShape(w) /\ w.head = mem.head /\ w.tail = mem.tail /\ w.made = mem.made
          /\ w.data[mem.tail] = mem.data[mem.tail] /\ w.next[mem.tail] = mem.next[mem.tail]
      BY <3>3, SPSCFreed
    <3>5. /\ SPSCShape(mem') /\ mem'.head = mem.head /\ mem'.tail = mem.tail /\ mem'.made = mem.made
          /\ mem'.data[mem.tail] = mem.data[mem.tail] /\ mem'.next[mem.tail] = mem.next[mem.tail]
      BY <3>2, <3>4
    <3>6. At(t, "delete") /\ Go(t, [pc |-> "return", value |-> loc[t].value])
      BY <2>7
    <3> QED  BY <2>2, <3>5, <3>6, SPSCFrees
  <2> QED  BY <1>2, <2>3, <2>4, <2>5, <2>6, <2>7, SPSCFrames DEF SPSC!Pop, SPSC!Garbage, SPSC!Null
<1> QED  BY <1>1, <1>2 DEF SPSC!Step

LEMMA SPSCStarts ==
  ASSUME Init, chosen = "spsc"
  PROVE  SPSCOK /\ Room(MaxNodes + 1)
<1>1. mem = [head |-> 1, tail |-> 1, made |-> 1,
             next |-> [n \in 1 .. MaxNodes + 1 |-> 0], data |-> [n \in 1 .. MaxNodes + 1 |-> 0]]
  BY DEF Init, SPSC!Init, SPSC!Null, SPSC!Garbage
<1>2. MaxNodes \in Nat \ {0} /\ Owner \in Thread
  BY LockFreeAssumption
<1>3. /\ mem.head = 1 /\ mem.tail = 1 /\ mem.made = 1
      /\ mem.next = [n \in Slot |-> 0] /\ mem.data = [n \in Slot |-> 0]
  BY <1>1 DEF Slot
<1>4. mem \in SPSCMem
  <2>1. 1 \in Slot /\ 0 \in Place
    BY <1>2 DEF Slot, Place
  <2> QED  BY <1>1, <2>1 DEF SPSCMem, Slot
<1>5. SPSCShape(mem)
  BY <1>3, <1>4 DEF SPSCShape, Slot
<1>6. Room(MaxNodes + 1)
  <2>1. PICK k, n : k = 0 /\ n = MaxNodes + 1
    OBVIOUS
  <2>2. k \in Prefill \union {0} /\ n \in Nat /\ mem.made \in Nat /\ mem.made - k <= n - MaxNodes
    BY <1>2, <1>3, <2>1
  <2>3. Room(n)
    BY <2>2, RoomStarts
  <2> QED  BY <2>1, <2>3
<1>7. loc = [t \in Thread |-> Idle] /\ call = [t \in Thread |-> <<>>]
  BY DEF Init
<1>8. \A t \in Thread : loc[t] = [pc |-> "idle"] /\ call[t] = <<>>
  BY <1>7 DEF Idle
<1>9. \A t \in Thread : loc[t].pc = "idle" /\ "value" \notin DOMAIN loc[t]
  BY <1>8
<1>10. \A t \in Thread : Resting(t)
  BY <1>8, <1>9 DEF Resting, At
<1>11. OneConsumer
  <2>1. "spsc" \in Algorithm /\ left \in Share["spsc"]
    BY DEF Init
  <2> QED  BY <2>1, LockFreeAssumption DEF OneConsumer
<1> QED  BY <1>2, <1>3, <1>5, <1>6, <1>10, <1>11 DEF SPSCOK, ProducerOK, ConsumerOK

-----------------------------------------------------------------------------
(***************************************************************************)
(* The queue of Michael and Scott.  The links make a path from the         *)
(* sentinel that only grows, at its end, and along which the head and the  *)
(* tail only go on; what a worker has found is a place on it.              *)
(***************************************************************************)
\* No node.
Nil == MaxNodes + 1

QueueMem == [head : Cell, tail : Cell, made : Cell, next : [Cell -> Place]]

\* The links make a path p with the head at h and the tail at l, the last node
\* or the one before it; the other nodes lead nowhere.
QueueShape(m, p, k, h, l) ==
  /\ m \in QueueMem
  /\ k \in Nat /\ l \in 0 .. k /\ h \in 0 .. l /\ k <= l + 1
  /\ p \in [0 .. k -> 0 .. m.made] /\ p[0] = 0
  /\ \A i, j \in 0 .. k : p[i] = p[j] => i = j
  /\ \A i \in 0 .. k - 1 : m.next[p[i]] = p[i + 1]
  /\ m.next[p[k]] = Nil
  /\ \A n \in Cell : (\A i \in 0 .. k : p[i] # n) => m.next[n] = Nil
  /\ m.head = p[h] /\ m.tail = p[l]

\* What t has found: the node at j of the path, and the next one.
LastAt(t, p, j) == "last" \in DOMAIN loc[t] /\ loc[t].last = p[j]
FirstAt(t, p, j) == "first" \in DOMAIN loc[t] /\ loc[t].first = p[j]
NextAt(t, p, k, j) == j < k /\ "next" \in DOMAIN loc[t] /\ loc[t].next = p[j + 1]
NextNil(t) == "next" \in DOMAIN loc[t] /\ loc[t].next = Nil

\* The node of a push is off the path until it is linked, behind a node that
\* has been the tail.
PushFrame(t, p, k, l) ==
  /\ call[t] \in {"push"} \X {"R"} \X (1 .. mem.made) /\ "value" \notin DOMAIN loc[t]
  /\ ~At(t, "swing") => \A i \in 0 .. k : p[i] # call[t][3]
  /\ \/ At(t, "push")
     \/ \E j \in 0 .. l :
          /\ LastAt(t, p, j)
          /\ \/ At(t, "push_next") \/ At(t, "link")
             \/ At(t, "push_check") /\ (NextNil(t) \/ NextAt(t, p, k, j))
             \/ At(t, "push_help") /\ NextAt(t, p, k, j)
             \/ At(t, "swing") /\ j < k /\ call[t][3] = p[j + 1]

\* A pop has found the head before the tail, at i and j; if they were one node
\* which still is the head it saw no element.
PopFrame(t, p, k, h, l) ==
  /\ call[t] = <<"pop", "L", 1>> /\ "value" \notin DOMAIN loc[t]
  /\ \/ At(t, "pop")
     \/ \E i \in 0 .. h :
          /\ FirstAt(t, p, i)
          /\ \/ At(t, "pop_tail")
             \/ \E j \in i .. l :
                  /\ LastAt(t, p, j) /\ "saw" \in DOMAIN loc[t] /\ (i = j /\ h = i => loc[t].saw)
                  /\ \/ At(t, "pop_next")
                     \/ At(t, "pop_check") /\ ((i = j /\ NextNil(t)) \/ NextAt(t, p, k, i))
                     \/ (At(t, "pop_value") \/ At(t, "pop_help")) /\ i = j /\ NextAt(t, p, k, i)
                     \/ At(t, "take") /\ i < j /\ NextAt(t, p, k, i)

QueueFrame(t, p, k, h, l) == Resting(t) \/ PushFrame(t, p, k, l) \/ PopFrame(t, p, k, h, l)

Adding(t) == loc[t].pc \in {"push", "push_next", "push_check", "link", "push_help", "swing"}

\* The pushes have nodes of their own, and one of them has linked the node
\* behind the tail.
QueueWorkers(p, k, h, l) ==
  /\ \A t \in Thread : QueueFrame(t, p, k, h, l)
  /\ \A t, u \in Thread : t # u /\ Adding(t) /\ Adding(u) => call[t][3] # call[u][3]
  /\ k = l + 1 => \E t \in Thread : At(t, "swing") /\ call[t][3] = p[k]

QueueOK == \E p, k, h, l : QueueShape(mem, p, k, h, l) /\ QueueWorkers(p, k, h, l)

\* The operators of Frames are those of the queue.
LEMMA QueueFrames ==
  /\ \A t, x : Queue!At(t, x) <=> At(t, x)
  /\ \A t, f : Queue!Go(t, f) <=> Go(t, f)
  /\ \A t, c, x : Queue!Enter(t, c, x) <=> Enter(t, c, x)
  /\ \A t, v : Queue!Returns(t, v) <=> Go(t, [pc |-> "return", value |-> v])
  /\ Queue!Null = Nil /\ Queue!Sentinel = 0
BY DEF Queue!At, At, Queue!Go, Go, Queue!Updated, Updated, Queue!Enter, Enter, Queue!Returns,
       Queue!Null, Queue!Sentinel, Nil

\* The nodes of the path after i up to j.
Span(p, i, j) == [n \in 1 .. j - i |-> p[i + n]]

LEMMA SpanFacts ==
  ASSUME NEW k \in Nat, NEW p \in [0 .. k -> Cell], NEW j \in 0 .. k, NEW i \in 0 .. j
  PROVE  /\ Span(p, i, j) \in Seq(Cell) /\ Len(Span(p, i, j)) = j - i
         /\ j < k => Append(Span(p, i, j), p[j + 1]) = Span(p, i, j + 1)
         /\ i = j <=> Span(p, i, j) = <<>>
         /\ i < j => /\ Span(p, i, j)[1] = p[i + 1]
                     /\ Span(p, i, j) = <<p[i + 1]>> \o Span(p, i + 1, j)
                     /\ SubSeq(Span(p, i, j), 2, Len(Span(p, i, j))) = Span(p, i + 1, j)
<1>1. Span(p, i, j) \in Seq(Cell) /\ Len(Span(p, i, j)) = j - i
  <2>1. \A n \in 1 .. j - i : p[i + n] \in Cell
    OBVIOUS
  <2> QED  BY <2>1 DEF Span
<1>2. ASSUME j < k PROVE Append(Span(p, i, j), p[j + 1]) = Span(p, i, j + 1)
  BY <1>2 DEF Span
<1>3. i = j <=> Span(p, i, j) = <<>>
  <2>1. i = j => Span(p, i, j) = <<>>
    BY DEF Span
  <2>2. Span(p, i, j) = <<>> => Len(Span(p, i, j)) = 0
    OBVIOUS
  <2> QED  BY <1>1, <2>1, <2>2
<1>4. ASSUME i < j PROVE Span(p, i, j)[1] = p[i + 1]
  BY <1>4 DEF Span
<1>5. ASSUME i < j PROVE Span(p, i, j) = <<p[i + 1]>> \o Span(p, i + 1, j)
  BY <1>5 DEF Span
<1>6. ASSUME i < j PROVE SubSeq(Span(p, i, j), 2, Len(Span(p, i, j))) = Span(p, i + 1, j)
  BY <1>1, <1>6 DEF Span
<1> QED  BY <1>1, <1>2, <1>3, <1>4, <1>5, <1>6

LEMMA SpanEmpty ==
  ASSUME NEW p, NEW i \in Nat
  PROVE  Span(p, i, i) = <<>>
<1>1. i - i = 0
  OBVIOUS
<1> QED  BY <1>1 DEF Span

\* The numbers of a path.
LEMMA QueueTypes ==
  ASSUME NEW m, NEW p, NEW k, NEW h, NEW l, QueueShape(m, p, k, h, l)
  PROVE  /\ MaxNodes \in Nat /\ k \in Nat /\ l \in Nat /\ h \in Nat /\ h <= l /\ l <= k /\ k <= l + 1
         /\ m.head \in Cell /\ m.tail \in Cell /\ m.made \in Cell /\ m.next \in [Cell -> Place]
         /\ p \in [0 .. k -> Cell] /\ Nil \in Place /\ Nil \notin Cell
<1>1. MaxNodes \in Nat /\ m.made \in Cell
  BY LockFreeAssumption DEF QueueShape, QueueMem
<1>2. 0 .. m.made \subseteq Cell
  BY <1>1 DEF Cell
<1>3. p \in [0 .. k -> Cell]
  BY <1>2 DEF QueueShape
<1>4. Nil \in Place /\ Nil \notin Cell
  BY <1>1 DEF Nil, Place, Cell
<1> QED  BY <1>1, <1>3, <1>4 DEF QueueShape, QueueMem

IsQueueWalk(f, m) ==
  f = [n \in 0 .. MaxNodes + 1 |-> IF n \in {m.tail, Nil} THEN <<>> ELSE <<m.next[n]>> \o f[m.next[n]]]
QueueWalk(m) == CHOOSE f : IsQueueWalk(f, m)

\* The elements are the nodes of the path after the head up to the tail.
LEMMA QueueItems ==
  ASSUME NEW m, NEW p, NEW k, NEW h, NEW l, QueueShape(m, p, k, h, l)
  PROVE  QueueWalk(m)[m.head] = Span(p, h, l)
<1> DEFINE Rank(n) == IF n = Nil THEN 0
                      ELSE IF \E i \in 0 .. k : p[i] = n THEN k + 1 - (CHOOSE i \in 0 .. k : p[i] = n) ELSE 1
           r == [n \in Place |-> Rank(n)]
           stop == {m.tail, Nil}
<1>1. /\ MaxNodes \in Nat /\ k \in Nat /\ l \in Nat /\ h \in Nat /\ h <= l /\ l <= k
      /\ m.next \in [Cell -> Place] /\ p \in [0 .. k -> Cell] /\ Nil \in Place /\ Nil \notin Cell
  BY QueueTypes
<1>2. \A n \in Cell : n \in Place
  BY <1>1 DEF Cell, Place
<1>3. \A n \in Place : n # Nil => n \in Cell
  BY <1>1 DEF Cell, Place, Nil
<1>4. r[Nil] = 0
  BY <1>1
<1>5. ASSUME NEW i \in 0 .. k PROVE p[i] \in Cell /\ p[i] \in Place /\ p[i] # Nil /\ r[p[i]] = k + 1 - i
  <2>1. p[i] \in Cell /\ p[i] \in Place /\ p[i] # Nil
    BY <1>1, <1>2
  <2>2. (CHOOSE j \in 0 .. k : p[j] = p[i]) = i
    BY DEF QueueShape
  <2> QED  BY <2>1, <2>2
<1>6. ASSUME NEW n \in Place, n # Nil, \A i \in 0 .. k : p[i] # n PROVE r[n] = 1
  BY <1>6
<1>7. r \in [Place -> 0 .. k + 1]
  <2> SUFFICES ASSUME NEW n \in Place PROVE Rank(n) \in 0 .. k + 1
    OBVIOUS
  <2>1. CASE n = Nil
    BY <1>1, <2>1
  <2>2. CASE n # Nil /\ \A i \in 0 .. k : p[i] # n
    BY <1>1, <2>2
  <2>3. CASE n # Nil /\ \E i \in 0 .. k : p[i] = n
    <3>1. (CHOOSE i \in 0 .. k : p[i] = n) \in 0 .. k
      BY <2>3
    <3> QED  BY <1>1, <2>3, <3>1
  <2> QED  BY <2>1, <2>2, <2>3
<1> HIDE DEF r, Rank
<1>8. Falls(Place, stop, m.next, r)
  <2> SUFFICES ASSUME NEW n \in Place \ stop PROVE m.next[n] \in Place /\ r[m.next[n]] < r[n]
    BY DEF Falls
  <2>1. n \in Cell /\ n # Nil /\ m.next[n] \in Place
    BY <1>1, <1>3
  <2>2. CASE \A i \in 0 .. k : p[i] # n
    <3>1. m.next[n] = Nil /\ r[n] = 1
      BY <1>6, <2>1, <2>2 DEF QueueShape
    <3> QED  BY <1>4, <2>1, <3>1
  <2>3. ASSUME NEW i \in 0 .. k, p[i] = n PROVE r[m.next[n]] < r[n]
    <3>1. r[n] = k + 1 - i
      BY <1>5, <2>3
    <3>2. CASE i = k
      BY <1>1, <1>4, <2>3, <3>1, <3>2 DEF QueueShape
    <3>3. CASE i # k
      <4>1. i \in 0 .. k - 1 /\ i + 1 \in 0 .. k
        BY <1>1, <3>3
      <4>2. m.next[n] = p[i + 1] /\ r[p[i + 1]] = k + 1 - (i + 1)
        BY <1>5, <2>3, <4>1 DEF QueueShape
      <4> QED  BY <1>1, <3>1, <4>1, <4>2
    <3> QED  BY <3>2, <3>3
  <2> QED  BY <2>1, <2>2, <2>3
<1>9. PICK f : IsWalk(f, Place, stop, m.next, m.next)
  <2>1. k + 1 \in Nat
    BY <1>1
  <2> QED  BY <1>7, <1>8, <2>1, WalkExists
<1>10. \A g : IsWalk(g, Place, stop, m.next, m.next) <=> IsQueueWalk(g, m)
  BY DEF IsWalk, IsQueueWalk, Place
<1> DEFINE g == QueueWalk(m)
<1>11. IsWalk(g, Place, stop, m.next, m.next)
  BY <1>9, <1>10 DEF QueueWalk
<1> HIDE DEF g
<1>12. \A n \in Place : g[n] = IF n \in stop THEN <<>> ELSE <<m.next[n]>> \o g[m.next[n]]
  BY <1>11 DEF IsWalk
<1>15. ASSUME NEW i \in 0 .. l
       PROVE  (i = l => Span(p, i, l) = <<>>) /\ (i < l => Span(p, i, l) = <<p[i + 1]>> \o Span(p, i + 1, l))
  <2>1. k \in Nat /\ p \in [0 .. k -> Cell] /\ l \in 0 .. k
    BY <1>1
  <2> QED  BY <2>1, SpanFacts
<1> DEFINE B == {n \in Place : \E i \in 0 .. l : n = p[i] /\ g[n] # Span(p, i, l)}
<1>13. B = {}
  <2> SUFFICES ASSUME B # {} PROVE FALSE
    OBVIOUS
  <2>1. r \in [Place -> Nat] /\ B \in SUBSET Place
    BY <1>1, <1>7
  <2>2. PICK n \in B : \A j \in B : r[n] <= r[j]
    BY <2>1, Lowest
  <2>3. PICK i \in 0 .. l : n = p[i] /\ g[n] # Span(p, i, l)
    BY <2>2
  <2>4. l \in 0 .. k /\ i \in 0 .. k /\ p[l] = m.tail
    BY <1>1 DEF QueueShape
  <2>14. (i = l => Span(p, i, l) = <<>>) /\ (i < l => Span(p, i, l) = <<p[i + 1]>> \o Span(p, i + 1, l))
    BY <1>15, <2>3
  <2>5. i # l
    <3> SUFFICES ASSUME i = l PROVE FALSE
      OBVIOUS
    <3>1. g[n] = <<>>
      BY <1>5, <1>12, <2>3, <2>4
    <3>2. Span(p, i, l) = <<>>
      BY <2>14
    <3> QED  BY <2>3, <3>1, <3>2
  <2>6. i < l /\ i \in 0 .. k - 1 /\ i + 1 \in 0 .. l /\ i + 1 \in 0 .. k
    BY <1>1, <2>3, <2>5
  <2>7. n \in Place /\ n # Nil /\ n # m.tail
    BY <1>5, <2>3, <2>4, <2>5 DEF QueueShape
  <2>8. m.next[n] = p[i + 1]
    BY <2>3, <2>6 DEF QueueShape
  <2>9. g[n] = <<p[i + 1]>> \o g[p[i + 1]]
    BY <1>12, <2>7, <2>8
  <2>10. Span(p, i, l) = <<p[i + 1]>> \o Span(p, i + 1, l)
    BY <2>6, <2>14
  <2>11. g[p[i + 1]] # Span(p, i + 1, l)
    BY <2>3, <2>9, <2>10
  <2>12. p[i + 1] \in B
    BY <1>5, <2>6, <2>11
  <2>13. r[n] <= r[p[i + 1]] /\ r[n] = k + 1 - i /\ r[p[i + 1]] = k + 1 - (i + 1)
    BY <1>5, <2>2, <2>3, <2>4, <2>6, <2>12
  <2> QED  BY <1>1, <2>4, <2>13
<1>14. h \in 0 .. l /\ p[h] = m.head /\ p[h] \in Place
  BY <1>1, <1>5 DEF QueueShape
<1> QED  BY <1>13, <1>14 DEF g

\* One store.
LEMMA QueueSets ==
  ASSUME NEW m \in QueueMem, NEW n \in Cell
  PROVE  /\ LET w == [m EXCEPT !.head = n]
            IN  w \in QueueMem /\ w.head = n /\ w.tail = m.tail /\ w.made = m.made /\ w.next = m.next
         /\ LET w == [m EXCEPT !.tail = n]
            IN  w \in QueueMem /\ w.head = m.head /\ w.tail = n /\ w.made = m.made /\ w.next = m.next
         /\ LET w == [m EXCEPT !.made = n]
            IN  w \in QueueMem /\ w.head = m.head /\ w.tail = m.tail /\ w.made = n /\ w.next = m.next
BY DEF QueueMem

LEMMA QueueSetNext ==
  ASSUME NEW m \in QueueMem, NEW n \in Cell, NEW v \in Place
  PROVE  LET w == [m EXCEPT !.next[n] = v]
         IN  /\ w \in QueueMem /\ w.head = m.head /\ w.tail = m.tail /\ w.made = m.made
             /\ w.next[n] = v /\ \A i \in Cell : i # n => w.next[i] = m.next[i]
<1> DEFINE x == [m.next EXCEPT ![n] = v]
           w == [m EXCEPT !.next = x]
<1>1. x \in [Cell -> Place] /\ x[n] = v /\ \A i \in Cell : i # n => x[i] = m.next[i]
  BY DEF QueueMem
<1> HIDE DEF x
<1>2. w \in QueueMem /\ w.head = m.head /\ w.tail = m.tail /\ w.made = m.made /\ w.next = x
  BY <1>1 DEF QueueMem
<1>3. w = [m EXCEPT !.next[n] = v]
  BY DEF x
<1> QED  BY <1>1, <1>2, <1>3

\* A node is linked behind the last one.
Longer(p, k, n) == [i \in 0 .. k + 1 |-> IF i = k + 1 THEN n ELSE p[i]]

LEMMA QueueGrows ==
  ASSUME NEW m, NEW p, NEW k, NEW h, NEW l, QueueShape(m, p, k, h, l), k = l,
         NEW n \in 1 .. m.made, \A i \in 0 .. k : p[i] # n,
         NEW w \in QueueMem, w.head = m.head, w.tail = m.tail, w.made = m.made,
         w.next[p[k]] = n, \A i \in Cell : i # p[k] => w.next[i] = m.next[i]
  PROVE  QueueShape(w, Longer(p, k, n), k + 1, h, l)
<1>1. /\ MaxNodes \in Nat /\ k \in Nat /\ l \in Nat /\ h \in Nat /\ h <= l /\ l <= k
      /\ p \in [0 .. k -> Cell] /\ m.made \in Cell
  BY QueueTypes
<1> DEFINE q == Longer(p, k, n)
<1>2. q[k + 1] = n /\ \A i \in 0 .. k : q[i] = p[i]
  BY <1>1 DEF Longer
<1>3. q \in [0 .. k + 1 -> 0 .. m.made]
  BY <1>1 DEF Longer, QueueShape, Cell
<1> HIDE DEF q
<1>4. \A i \in 0 .. k + 1 : i = k + 1 \/ i \in 0 .. k
  BY <1>1
<1>5. \A i, j \in 0 .. k + 1 : q[i] = q[j] => i = j
  BY <1>2, <1>4 DEF QueueShape
<1>6. ASSUME NEW i \in 0 .. (k + 1) - 1 PROVE w.next[q[i]] = q[i + 1]
  <2>1. CASE i = k
    BY <1>1, <1>2, <2>1
  <2>2. CASE i # k
    <3>1. i \in 0 .. k - 1 /\ i + 1 \in 0 .. k /\ i \in 0 .. k /\ k \in 0 .. k
      BY <1>1, <2>2
    <3>2. p[i] \in Cell /\ p[i] # p[k]
      BY <1>1, <2>2, <3>1 DEF QueueShape
    <3>3. w.next[p[i]] = m.next[p[i]]
      BY <3>2
    <3>4. m.next[p[i]] = p[i + 1]
      BY <3>1 DEF QueueShape
    <3>5. q[i] = p[i] /\ q[i + 1] = p[i + 1]
      BY <1>2, <3>1
    <3> QED  BY <3>3, <3>4, <3>5
  <2> QED  BY <2>1, <2>2
<1>7. n \in Cell /\ n # p[k] /\ w.next[n] = Nil
  <2>1. n \in Cell /\ n # p[k]
    BY <1>1 DEF Cell
  <2> QED  BY <2>1 DEF QueueShape
<1>8. ASSUME NEW i \in Cell, \A j \in 0 .. k + 1 : q[j] # i PROVE w.next[i] = Nil
  <2>1. \A j \in 0 .. k : j \in 0 .. k + 1 /\ p[j] # i
    BY <1>1, <1>2, <1>8
  <2>2. k \in 0 .. k
    BY <1>1
  <2> QED  BY <2>1, <2>2 DEF QueueShape
<1>9. k + 1 \in Nat /\ l \in 0 .. k + 1 /\ h \in 0 .. l /\ k + 1 <= l + 1
  BY <1>1
<1>10. q[0] = 0 /\ w.head = q[h] /\ w.tail = q[l]
  BY <1>1, <1>2 DEF QueueShape
<1>11. QueueShape(w, q, k + 1, h, l)
  BY <1>2, <1>3, <1>5, <1>6, <1>7, <1>8, <1>9, <1>10 DEF QueueShape
<1> QED  BY <1>11 DEF q

\* The tail is swung to the last node.
LEMMA QueueSwings ==
  ASSUME NEW m, NEW p, NEW k, NEW h, NEW l, QueueShape(m, p, k, h, l), l < k,
         NEW w \in QueueMem, w.head = m.head, w.tail = p[l + 1], w.made = m.made, w.next = m.next
  PROVE  QueueShape(w, p, k, h, l + 1)
BY QueueTypes DEF QueueShape

\* The head goes on by one node.
LEMMA QueueShrinks ==
  ASSUME NEW m, NEW p, NEW k, NEW h, NEW l, QueueShape(m, p, k, h, l), h < l,
         NEW w \in QueueMem, w.head = p[h + 1], w.tail = m.tail, w.made = m.made, w.next = m.next
  PROVE  QueueShape(w, p, k, h + 1, l)
BY QueueTypes DEF QueueShape

\* A node is allocated.
LEMMA QueueAllocates ==
  ASSUME NEW m, NEW p, NEW k, NEW h, NEW l, QueueShape(m, p, k, h, l),
         NEW w \in QueueMem, w.head = m.head, w.tail = m.tail, w.made = m.made + 1, w.next = m.next
  PROVE  QueueShape(w, p, k, h, l)
<1>1. m.made \in Nat
  BY QueueTypes DEF Cell
<1>2. p \in [0 .. k -> 0 .. w.made]
  BY <1>1 DEF QueueShape
<1> QED  BY <1>2 DEF QueueShape

\* What the result of a call is.
Outcome(t, p, l) ==
  IF "value" \in DOMAIN loc[t] THEN loc[t].value
  ELSE IF At(t, "swing") /\ \E i \in 0 .. l : p[i] = call[t][3] THEN Void ELSE Pending

\* The tail leads to the node of a push that has not swung it, and to no other.
LEMMA QueueResult ==
  ASSUME NEW m, NEW p, NEW k, NEW h, NEW l, QueueShape(m, p, k, h, l), NEW n \in 1 .. m.made,
         NEW j \in 0 .. l, j < k, n = p[j + 1]
  PROVE  m.next[m.tail] # n <=> \E i \in 0 .. l : p[i] = n
<1>1. /\ MaxNodes \in Nat /\ k \in Nat /\ l \in Nat /\ h \in Nat /\ l <= k /\ k <= l + 1
      /\ p \in [0 .. k -> Cell] /\ m.made \in Cell /\ Nil \notin Cell
  BY QueueTypes
<1>2. j \in 0 .. k /\ j + 1 \in 0 .. k /\ l \in 0 .. k /\ n \in Cell
  BY <1>1 DEF Cell
<1>3. m.tail = p[l] /\ (l = k => m.next[m.tail] = Nil)
  BY DEF QueueShape
<1>4. CASE j = l
  <2>1. m.next[m.tail] = n
    BY <1>1, <1>3, <1>4 DEF QueueShape
  <2>2. \A i \in 0 .. l : p[i] # n
    <3> SUFFICES ASSUME NEW i \in 0 .. l, p[i] = p[j + 1] PROVE FALSE
      OBVIOUS
    <3>1. i \in 0 .. k /\ i # j + 1
      BY <1>1, <1>4
    <3> QED  BY <1>2, <3>1 DEF QueueShape
  <2> QED  BY <2>1, <2>2
<1>5. CASE j # l
  <2>1. j + 1 \in 0 .. l
    BY <1>1, <1>5
  <2>2. m.next[m.tail] # n
    <3>1. CASE l = k
      BY <1>1, <1>2, <1>3, <3>1
    <3>2. CASE l # k
      <4>1. l \in 0 .. k - 1 /\ l + 1 \in 0 .. k /\ l + 1 # j + 1
        BY <1>1, <1>5, <3>2
      <4>2. m.next[m.tail] = p[l + 1]
        BY <1>3, <4>1 DEF QueueShape
      <4> QED  BY <1>2, <4>1, <4>2 DEF QueueShape
    <3> QED  BY <3>1, <3>2
  <2> QED  BY <2>1, <2>2
<1> QED  BY <1>4, <1>5

\* What is promised, in terms of the path.
LEMMA QueueOutcome ==
  ASSUME NEW t \in Thread, NEW p, NEW k, NEW h, NEW l
  PROVE  /\ QueueShape(mem, p, k, h, l) /\ QueueFrame(t, p, k, h, l) =>
              Queue!ResultOf(t, Pending) = Outcome(t, p, l)
         /\ QueueShape(mem', p, k, h, l) /\ QueueFrame(t, p, k, h, l)' =>
              Queue!ResultOf(t, Pending)' = Outcome(t, p, l)'
<1>1. ASSUME QueueShape(mem, p, k, h, l), QueueFrame(t, p, k, h, l)
      PROVE  Queue!ResultOf(t, Pending) = Outcome(t, p, l)
  <2>1. CASE At(t, "swing")
    <3>1. PICK j \in 0 .. l : j < k /\ call[t][3] = p[j + 1]
      BY <1>1, <2>1 DEF QueueFrame, Resting, PushFrame, PopFrame, At
    <3>2. call[t][3] \in 1 .. mem.made /\ "value" \notin DOMAIN loc[t]
      BY <1>1, <2>1 DEF QueueFrame, Resting, PushFrame, PopFrame, At
    <3>3. mem.next[mem.tail] # call[t][3] <=> \E i \in 0 .. l : p[i] = call[t][3]
      BY <1>1, <3>1, <3>2, QueueResult
    <3> QED  BY <2>1, <3>2, <3>3 DEF Queue!ResultOf, Queue!At, Queue!Result, At, Outcome
  <2>2. CASE ~At(t, "swing")
    BY <2>2 DEF Queue!ResultOf, Queue!At, Queue!Result, At, Outcome
  <2> QED  BY <2>1, <2>2
<1>2. ASSUME QueueShape(mem', p, k, h, l), QueueFrame(t, p, k, h, l)'
      PROVE  Queue!ResultOf(t, Pending)' = Outcome(t, p, l)'
  <2>1. CASE At(t, "swing")'
    <3>1. PICK j \in 0 .. l : j < k /\ call'[t][3] = p[j + 1]
      BY <1>2, <2>1 DEF QueueFrame, Resting, PushFrame, PopFrame, At
    <3>2. call'[t][3] \in 1 .. mem'.made /\ "value" \notin DOMAIN loc'[t]
      BY <1>2, <2>1 DEF QueueFrame, Resting, PushFrame, PopFrame, At
    <3>3. mem'.next[mem'.tail] # call'[t][3] <=> \E i \in 0 .. l : p[i] = call'[t][3]
      BY <1>2, <3>1, <3>2, QueueResult
    <3> QED  BY <2>1, <3>2, <3>3 DEF Queue!ResultOf, Queue!At, Queue!Result, At, Outcome
  <2>2. CASE ~At(t, "swing")'
    BY <2>2 DEF Queue!ResultOf, Queue!At, Queue!Result, At, Outcome
  <2> QED  BY <2>1, <2>2
<1> QED  BY <1>1, <1>2

LEMMA QueueView ==
  ASSUME chosen = "queue", chosen' = chosen,
         NEW p, NEW k, NEW h, NEW l, QueueShape(mem, p, k, h, l), QueueWorkers(p, k, h, l),
         NEW q, NEW k2, NEW h2, NEW l2, QueueShape(mem', q, k2, h2, l2), QueueWorkers(q, k2, h2, l2)'
  PROVE  /\ Items = Span(p, h, l) /\ Items' = Span(q, h2, l2)
         /\ Results = [t \in Thread |-> Outcome(t, p, l)]
         /\ Results' = [t \in Thread |-> Outcome(t, q, l2)']
<1>1. Items = QueueWalk(mem)[mem.head] /\ Items' = QueueWalk(mem')[mem'.head]
  BY DEF Items, Queue!Items, Queue!Null, Nil, QueueWalk, IsQueueWalk
<1>2. PICK w : w = mem'
  OBVIOUS
<1>3. QueueWalk(mem)[mem.head] = Span(p, h, l) /\ QueueWalk(w)[w.head] = Span(q, h2, l2)
  BY <1>2, QueueItems
<1>4. /\ \A t \in Thread : Queue!ResultOf(t, Pending) = Outcome(t, p, l)
      /\ \A t \in Thread : Queue!ResultOf(t, Pending)' = Outcome(t, q, l2)'
  BY QueueOutcome DEF QueueWorkers
<1>5. /\ Results = [t \in Thread |-> Queue!ResultOf(t, Pending)]
      /\ Results' = [t \in Thread |-> Queue!ResultOf(t, Pending)']
  BY DEF Results
<1> QED  BY <1>1, <1>2, <1>3, <1>4, <1>5

\* What another worker does keeps the frame of u: the path grows at its end,
\* head and tail go on.
LEMMA QueueFramesKeep ==
  ASSUME NEW u \in Thread, loc'[u] = loc[u], call'[u] = call[u], mem.made \in Nat, mem'.made \in Nat, mem.made <= mem'.made,
         NEW p, NEW k \in Nat, NEW h \in Nat, NEW l \in Nat, h <= l, l <= k, QueueFrame(u, p, k, h, l),
         NEW q, NEW k2 \in Nat, NEW h2 \in Nat, NEW l2 \in Nat, k <= k2, h <= h2, l <= l2,
         \A i \in 0 .. k : q[i] = p[i], Adding(u) => \A i \in k + 1 .. k2 : q[i] # call[u][3]
  PROVE  QueueFrame(u, q, k2, h2, l2)'
<1>1. CASE Resting(u)
  BY <1>1 DEF QueueFrame, Resting, At
<1>2. CASE PushFrame(u, p, k, l)
  <2>1. /\ call'[u] \in {"push"} \X {"R"} \X (1 .. mem'.made) /\ "value" \notin DOMAIN loc'[u] /\ Adding(u)
    <3>1. 1 .. mem.made \subseteq 1 .. mem'.made
      OBVIOUS
    <3> QED  BY <1>2, <3>1 DEF PushFrame, Adding, At
  <2>2. ~At(u, "swing")' => \A i \in 0 .. k2 : q[i] # call'[u][3]
    <3> SUFFICES ASSUME ~At(u, "swing"), NEW i \in 0 .. k2 PROVE q[i] # call[u][3]
      BY DEF At
    <3>1. CASE i \in 0 .. k
      BY <1>2, <3>1 DEF PushFrame
    <3>2. CASE i \in k + 1 .. k2
      BY <2>1, <3>2
    <3> QED  BY <3>1, <3>2
  <2>3. CASE At(u, "push")
    BY <2>1, <2>2, <2>3 DEF QueueFrame, PushFrame, At
  <2>4. CASE ~At(u, "push")
    <3>1. PICK j \in 0 .. l :
          /\ LastAt(u, p, j)
          /\ \/ At(u, "push_next") \/ At(u, "link")
             \/ At(u, "push_check") /\ (NextNil(u) \/ NextAt(u, p, k, j))
             \/ At(u, "push_help") /\ NextAt(u, p, k, j)
             \/ At(u, "swing") /\ j < k /\ call[u][3] = p[j + 1]
      BY <1>2, <2>4 DEF PushFrame
    <3>2. j \in 0 .. l2 /\ q[j] = p[j] /\ (j < k => j < k2 /\ q[j + 1] = p[j + 1])
      OBVIOUS
    <3>3. LastAt(u, q, j)' /\ (NextNil(u) => NextNil(u)') /\ (NextAt(u, p, k, j) => NextAt(u, q, k2, j)')
      BY <3>1, <3>2 DEF LastAt, NextNil, NextAt
    <3>4. \/ At(u, "push_next")' \/ At(u, "link")'
          \/ At(u, "push_check")' /\ (NextNil(u)' \/ NextAt(u, q, k2, j)')
          \/ At(u, "push_help")' /\ NextAt(u, q, k2, j)'
          \/ At(u, "swing")' /\ j < k2 /\ call'[u][3] = q[j + 1]
      BY <3>1, <3>2, <3>3 DEF At
    <3> QED  BY <2>1, <2>2, <3>2, <3>3, <3>4 DEF QueueFrame, PushFrame
  <2> QED  BY <2>3, <2>4
<1>3. CASE PopFrame(u, p, k, h, l)
  <2>1. call'[u] = <<"pop", "L", 1>> /\ "value" \notin DOMAIN loc'[u]
    BY <1>3 DEF PopFrame
  <2>2. CASE At(u, "pop")
    BY <2>1, <2>2 DEF QueueFrame, PopFrame, At
  <2>3. CASE ~At(u, "pop")
    <3>1. PICK i \in 0 .. h :
            /\ FirstAt(u, p, i)
            /\ At(u, "pop_tail") \/ \E j \in i .. l :
                  /\ LastAt(u, p, j) /\ "saw" \in DOMAIN loc[u] /\ (i = j /\ h = i => loc[u].saw)
                  /\ \/ At(u, "pop_next")
                     \/ At(u, "pop_check") /\ ((i = j /\ NextNil(u)) \/ NextAt(u, p, k, i))
                     \/ (At(u, "pop_value") \/ At(u, "pop_help")) /\ i = j /\ NextAt(u, p, k, i)
                     \/ At(u, "take") /\ i < j /\ NextAt(u, p, k, i)
      BY <1>3, <2>3 DEF PopFrame
    <3>2. i \in 0 .. h2 /\ i \in 0 .. k /\ FirstAt(u, q, i)'
      BY <3>1 DEF FirstAt
    <3>3. CASE At(u, "pop_tail")
      <4>1. At(u, "pop_tail")'
        BY <3>3 DEF At
      <4> QED  BY <2>1, <3>2, <4>1 DEF QueueFrame, PopFrame
    <3>4. CASE ~At(u, "pop_tail")
      <4>1. PICK j \in i .. l :
                  /\ LastAt(u, p, j) /\ "saw" \in DOMAIN loc[u] /\ (i = j /\ h = i => loc[u].saw)
                  /\ \/ At(u, "pop_next")
                     \/ At(u, "pop_check") /\ ((i = j /\ NextNil(u)) \/ NextAt(u, p, k, i))
                     \/ (At(u, "pop_value") \/ At(u, "pop_help")) /\ i = j /\ NextAt(u, p, k, i)
                     \/ At(u, "take") /\ i < j /\ NextAt(u, p, k, i)
        BY <3>1, <3>4
      <4>2. j \in i .. l2 /\ j \in 0 .. k /\ (i = j /\ h2 = i => h = i)
        BY <3>1
      <4>3. (i < k => i < k2 /\ q[i + 1] = p[i + 1]) /\ q[j] = p[j]
        BY <4>2
      <4>4. LastAt(u, q, j)' /\ (NextNil(u) => NextNil(u)') /\ (NextAt(u, p, k, i) => NextAt(u, q, k2, i)')
        BY <4>1, <4>3 DEF LastAt, NextNil, NextAt
      <4>5. "saw" \in DOMAIN loc'[u] /\ (i = j /\ h2 = i => loc'[u].saw)
        BY <4>1, <4>2
      <4>6. \/ At(u, "pop_next")'
            \/ At(u, "pop_check")' /\ ((i = j /\ NextNil(u)') \/ NextAt(u, q, k2, i)')
            \/ (At(u, "pop_value")' \/ At(u, "pop_help")') /\ i = j /\ NextAt(u, q, k2, i)'
            \/ At(u, "take")' /\ i < j /\ NextAt(u, q, k2, i)'
        BY <4>1, <4>4 DEF At
      <4> QED  BY <2>1, <3>2, <4>2, <4>4, <4>5, <4>6 DEF QueueFrame, PopFrame
    <3> QED  BY <3>3, <3>4
  <2> QED  BY <2>2, <2>3
<1> QED  BY <1>1, <1>2, <1>3 DEF QueueFrame

\* What the steps of push and pop have in common.
LEMMA QueueStep ==
  ASSUME chosen = "queue", chosen' = chosen, NEW t \in Thread, Room(MaxNodes), ~At(t, "idle"),
         UNCHANGED <<call, left>>, mem'.made = mem.made, NEW frame, Go(t, frame), "pc" \in DOMAIN frame, frame["pc"] # "idle",
         NEW p, NEW k, NEW h, NEW l, QueueShape(mem, p, k, h, l), QueueWorkers(p, k, h, l),
         NEW q, NEW k2, NEW h2, NEW l2, QueueShape(mem', q, k2, h2, l2), k <= k2, h <= h2, l <= l2,
         \A i \in 0 .. k : q[i] = p[i], \A i \in k + 1 .. k2 : Adding(t) /\ q[i] = call[t][3],
         QueueFrame(t, q, k2, h2, l2)', Adding(t)' => Adding(t),
         k2 = l2 + 1 => \E u \in Thread : At(u, "swing")' /\ call[u][3] = q[k2]
  PROVE  /\ QueueOK' /\ Room(MaxNodes)' /\ \A u \in Thread : u # t => loc'[u] = loc[u]
         /\ Items = Span(p, h, l) /\ Items' = Span(q, h2, l2)
         /\ Results = [u \in Thread |-> Outcome(u, p, l)]
         /\ Results' = [u \in Thread |-> Outcome(u, q, l2)']
<1>1. MaxNodes \in Nat /\ DOMAIN loc = Thread /\ DOMAIN call = Thread
  BY LockFreeAssumption DEF Room
<1>2. /\ DOMAIN loc' = Thread /\ \A u \in Thread : u # t => loc'[u] = loc[u]
      /\ \A x \in DOMAIN frame : loc'[t][x] = frame[x]
  BY <1>1, GoFacts
<1>3. loc'[t].pc # "idle"
  BY <1>2
<1>4. DOMAIN call' = Thread /\ left' = left /\ call' = call
  BY <1>1
<1>5. Room(MaxNodes)'
  BY <1>1, <1>2, <1>3, <1>4, RoomStays
<1>6. /\ k \in Nat /\ h \in Nat /\ l \in Nat /\ h <= l /\ l <= k /\ mem.made \in Nat
      /\ k2 \in Nat /\ h2 \in Nat /\ l2 \in Nat
  <2>1. PICK w : w = mem'
    OBVIOUS
  <2>2. QueueShape(w, q, k2, h2, l2)
    BY <2>1
  <2>3. mem.made \in Cell
    BY QueueTypes
  <2> QED  BY <2>2, <2>3, QueueTypes DEF Cell
<1>7. ASSUME NEW u \in Thread, u # t PROVE QueueFrame(u, q, k2, h2, l2)'
  <2>1. QueueFrame(u, p, k, h, l)
    BY DEF QueueWorkers
  <2>2. Adding(u) => \A i \in k + 1 .. k2 : q[i] # call[u][3]
    BY <1>7 DEF QueueWorkers
  <2>3. loc'[u] = loc[u] /\ call'[u] = call[u]
    BY <1>2, <1>4, <1>7
  <2>4. mem'.made \in Nat /\ mem.made <= mem'.made
    BY <1>6
  <2> QED  BY <1>6, <2>1, <2>2, <2>3, <2>4, QueueFramesKeep
<1>8. \A u, v \in Thread : u # v /\ Adding(u)' /\ Adding(v)' => call'[u][3] # call'[v][3]
  <2>1. \A u \in Thread : Adding(u)' => Adding(u)
    BY <1>2 DEF Adding
  <2> QED  BY <1>4, <2>1 DEF QueueWorkers
<1>9. \A u \in Thread : QueueFrame(u, q, k2, h2, l2)'
  BY <1>7
<1>10. k2 = l2 + 1 => \E u \in Thread : At(u, "swing")' /\ call'[u][3] = q[k2]
  BY <1>4
<1>11. QueueWorkers(q, k2, h2, l2)'
  BY <1>8, <1>9, <1>10 DEF QueueWorkers
<1>12. QueueOK'
  BY <1>11 DEF QueueOK
<1>13. /\ Items = Span(p, h, l) /\ Items' = Span(q, h2, l2)
       /\ Results = [u \in Thread |-> Outcome(u, p, l)]
       /\ Results' = [u \in Thread |-> Outcome(u, q, l2)']
  BY <1>11, QueueView
<1> QED  BY <1>2, <1>5, <1>12, <1>13

QueuePromised == Promise!Next \/ (\E t \in Thread : PopsNothing(t)) \/ UNCHANGED promised

\* The steps that only look.
LEMMA QueueLooks ==
  ASSUME chosen = "queue", chosen' = chosen, NEW t \in Thread, Room(MaxNodes), ~At(t, "idle"),
         UNCHANGED <<call, left, mem>>, NEW frame, Go(t, frame), "pc" \in DOMAIN frame, frame["pc"] # "idle",
         NEW p, NEW k, NEW h, NEW l, QueueShape(mem, p, k, h, l), QueueWorkers(p, k, h, l),
         QueueFrame(t, p, k, h, l)', Adding(t)' => Adding(t),
         ~At(t, "swing"), ~At(t, "swing")', Value(t)' = Value(t)
  PROVE  QueueOK' /\ Room(MaxNodes)' /\ QueuePromised
<1>1. k \in Nat /\ h \in Nat /\ l \in Nat
  BY QueueTypes
<1>2. \A u \in Thread : u # t => loc'[u] = loc[u]
  <2>1. DOMAIN loc = Thread
    BY DEF Room
  <2> QED  BY <2>1, GoFacts
<1>3. k = l + 1 => \E u \in Thread : At(u, "swing")' /\ call[u][3] = p[k]
  <2> SUFFICES ASSUME k = l + 1 PROVE \E u \in Thread : At(u, "swing")' /\ call[u][3] = p[k]
    OBVIOUS
  <2>1. PICK u \in Thread : At(u, "swing") /\ call[u][3] = p[k]
    BY DEF QueueWorkers
  <2>2. u # t
    BY <2>1
  <2>3. loc'[u] = loc[u]
    BY <1>2, <2>2
  <2> QED  BY <2>1, <2>3 DEF At
<1>4. QueueShape(mem', p, k, h, l) /\ mem'.made = mem.made /\ UNCHANGED <<call, left>>
  OBVIOUS
<1>5. k <= k /\ h <= h /\ l <= l /\ \A i \in k + 1 .. k : Adding(t) /\ p[i] = call[t][3]
  BY <1>1
<1>6. /\ QueueOK' /\ Room(MaxNodes)'
      /\ Items = Span(p, h, l) /\ Items' = Span(p, h, l)
      /\ Results = [u \in Thread |-> Outcome(u, p, l)]
      /\ Results' = [u \in Thread |-> Outcome(u, p, l)']
  BY <1>3, <1>4, <1>5, QueueStep
<1>7. \A u \in Thread : Outcome(u, p, l)' = Outcome(u, p, l)
  BY <1>2 DEF Outcome, Value, At
<1>8. UNCHANGED promised
  BY <1>6, <1>7 DEF promised
<1> QED  BY <1>6, <1>8 DEF QueuePromised

\* The link of a node of the path.
LEMMA QueueLink ==
  ASSUME NEW m, NEW p, NEW k, NEW h, NEW l, QueueShape(m, p, k, h, l), NEW j \in 0 .. k
  PROVE  p[j] \in Cell /\ (j < k => m.next[p[j]] = p[j + 1] /\ p[j + 1] \in Cell /\ p[j + 1] # Nil) /\ (j = k => m.next[p[j]] = Nil)
<1>1. k \in Nat /\ p \in [0 .. k -> Cell] /\ Nil \notin Cell
  BY QueueTypes
<1>2. j < k => j \in 0 .. k - 1 /\ j + 1 \in 0 .. k
  BY <1>1
<1> QED  BY <1>1, <1>2 DEF QueueShape

\* A push that has not linked its node looks at the tail.
LEMMA QueuePushLooks ==
  ASSUME chosen = "queue", chosen' = chosen, NEW t \in Thread, Room(MaxNodes), QueueOK, UNCHANGED <<call, left, mem>>,
         \/ At(t, "push") /\ Go(t, [pc |-> "push_next", last |-> mem.tail])
         \/ At(t, "push_next") /\ Go(t, [pc |-> "push_check", next |-> mem.next[loc[t].last]])
         \/ /\ At(t, "push_check")
            /\ Go(t, [pc |-> IF loc[t].last # mem.tail THEN "push" ELSE IF loc[t].next = Nil THEN "link" ELSE "push_help"])
         \/ At(t, "link") /\ Go(t, [pc |-> "push"])
  PROVE  QueueOK' /\ Room(MaxNodes)' /\ QueuePromised
<1>1. PICK p, k, h, l : QueueShape(mem, p, k, h, l) /\ QueueWorkers(p, k, h, l)
  BY DEF QueueOK
<1>2. /\ k \in Nat /\ h \in Nat /\ l \in Nat /\ h <= l /\ l <= k /\ mem.tail = p[l]
  BY <1>1, QueueTypes DEF QueueShape
<1>3. /\ PushFrame(t, p, k, l) /\ ~At(t, "idle") /\ ~At(t, "swing") /\ Adding(t) /\ Value(t) = Pending
      /\ \A i \in 0 .. k : p[i] # call[t][3]
  <2>1. QueueFrame(t, p, k, h, l)
    BY <1>1 DEF QueueWorkers
  <2> QED  BY <2>1 DEF QueueFrame, Resting, PushFrame, PopFrame, Adding, Value, At
<1>4. DOMAIN loc = Thread /\ call' = call
  BY DEF Room
<1>5. ASSUME NEW frame, Go(t, frame), "value" \notin DOMAIN frame, "pc" \in DOMAIN frame,
             frame["pc"] \in {"push", "push_next", "push_check", "link", "push_help"},
             frame["pc"] # "push" =>
               \E j \in 0 .. l :
                 /\ LastAt(t, p, j)'
                 /\ frame["pc"] = "push_check" => NextNil(t)' \/ NextAt(t, p, k, j)'
                 /\ frame["pc"] = "push_help" => NextAt(t, p, k, j)'
      PROVE  QueueOK' /\ Room(MaxNodes)' /\ QueuePromised
  <2>1. /\ DOMAIN loc'[t] = DOMAIN frame \union DOMAIN loc[t]
        /\ \A x \in DOMAIN frame : loc'[t][x] = frame[x]
    BY <1>4, <1>5, GoFacts
  <2>2. loc'[t].pc = frame["pc"] /\ "value" \notin DOMAIN loc'[t]
    BY <1>3, <1>5, <2>1 DEF PushFrame
  <2>3. ~At(t, "swing")' /\ Value(t)' = Value(t) /\ frame["pc"] # "idle"
    BY <1>3, <1>5, <2>2 DEF At, Value
  <2>4. call'[t] \in {"push"} \X {"R"} \X (1 .. mem'.made) /\ \A i \in 0 .. k : p[i] # call'[t][3]
    BY <1>3, <1>4 DEF PushFrame
  <2>5. \/ At(t, "push")'
        \/ \E j \in 0 .. l :
             /\ LastAt(t, p, j)'
             /\ \/ At(t, "push_next")' \/ At(t, "link")'
                \/ At(t, "push_check")' /\ (NextNil(t)' \/ NextAt(t, p, k, j)')
                \/ At(t, "push_help")' /\ NextAt(t, p, k, j)'
    BY <1>5, <2>2 DEF At
  <2>6. PushFrame(t, p, k, l)'
    BY <2>2, <2>3, <2>4, <2>5 DEF PushFrame
  <2> QED  BY <1>1, <1>3, <1>5, <2>3, <2>6, QueueLooks DEF QueueFrame
<1>6. CASE At(t, "push") /\ Go(t, [pc |-> "push_next", last |-> mem.tail])
  <2> DEFINE frame == [pc |-> "push_next", last |-> mem.tail]
  <2>1. DOMAIN frame = {"pc", "last"} /\ frame["pc"] = "push_next" /\ frame["last"] = mem.tail /\ Go(t, frame)
    BY <1>6
  <2> HIDE DEF frame
  <2>2. LastAt(t, p, l)' /\ l \in 0 .. l
    BY <1>2, <1>4, <2>1, GoFacts DEF LastAt
  <2> QED  BY <1>5, <2>1, <2>2
<1>7. CASE ~At(t, "push")
  <2>1. PICK j \in 0 .. l :
          /\ LastAt(t, p, j)
          /\ At(t, "push_check") => NextNil(t) \/ NextAt(t, p, k, j)
    BY <1>3, <1>7 DEF PushFrame, At
  <2>2. j \in 0 .. k
    BY <1>2
  <2>3. CASE At(t, "push_next") /\ Go(t, [pc |-> "push_check", next |-> mem.next[loc[t].last]])
    <3> DEFINE frame == [pc |-> "push_check", next |-> mem.next[loc[t].last]]
    <3>1. DOMAIN frame = {"pc", "next"} /\ frame["pc"] = "push_check" /\ frame["next"] = mem.next[p[j]] /\ Go(t, frame)
      BY <2>1, <2>3 DEF LastAt
    <3> HIDE DEF frame
    <3>2. /\ "last" \in DOMAIN loc'[t] /\ loc'[t].last = p[j]
          /\ "next" \in DOMAIN loc'[t] /\ loc'[t].next = mem.next[p[j]]
      BY <1>4, <2>1, <3>1, GoFacts DEF LastAt
    <3>3. LastAt(t, p, j)' /\ (NextNil(t)' \/ NextAt(t, p, k, j)')
      BY <1>1, <1>2, <2>2, <3>2, QueueLink DEF LastAt, NextNil, NextAt
    <3> QED  BY <1>5, <3>1, <3>3
  <2>4. CASE /\ At(t, "push_check")
             /\ Go(t, [pc |-> IF loc[t].last # mem.tail THEN "push" ELSE IF loc[t].next = Nil THEN "link" ELSE "push_help"])
    <3> DEFINE frame == [pc |-> IF loc[t].last # mem.tail THEN "push" ELSE IF loc[t].next = Nil THEN "link" ELSE "push_help"]
    <3>1. /\ DOMAIN frame = {"pc"} /\ Go(t, frame) /\ frame["pc"] \in {"push", "link", "push_help"}
          /\ frame["pc"] = "push_help" => loc[t].next # Nil
      BY <2>4
    <3> HIDE DEF frame
    <3>2. /\ "last" \in DOMAIN loc'[t] /\ loc'[t].last = p[j]
          /\ "next" \in DOMAIN loc[t] => "next" \in DOMAIN loc'[t] /\ loc'[t].next = loc[t].next
      BY <1>4, <2>1, <3>1, GoFacts DEF LastAt
    <3>3. LastAt(t, p, j)' /\ (frame["pc"] = "push_help" => NextAt(t, p, k, j)')
      BY <2>1, <2>4, <3>1, <3>2 DEF LastAt, NextNil, NextAt
    <3> QED  BY <1>5, <3>1, <3>3
  <2>5. CASE At(t, "link") /\ Go(t, [pc |-> "push"])
    <3> DEFINE frame == [pc |-> "push"]
    <3>1. DOMAIN frame = {"pc"} /\ frame["pc"] = "push" /\ Go(t, frame)
      BY <2>5
    <3> HIDE DEF frame
    <3> QED  BY <1>5, <3>1
  <2> QED  BY <1>7, <2>3, <2>4, <2>5
<1> QED  BY <1>6, <1>7 DEF At

\* A pop that has not taken a node looks at the head and the tail.
LEMMA QueuePopLooks ==
  ASSUME chosen = "queue", chosen' = chosen, NEW t \in Thread, Room(MaxNodes), UNCHANGED <<call, left, mem>>,
         NEW p, NEW k, NEW h, NEW l, QueueShape(mem, p, k, h, l), QueueWorkers(p, k, h, l), PopFrame(t, p, k, h, l),
         NEW frame, Go(t, frame), "value" \notin DOMAIN frame, "pc" \in DOMAIN frame,
         frame["pc"] \in {"pop", "pop_tail", "pop_next", "pop_check", "pop_value", "pop_help", "take"},
         frame["pc"] # "pop" =>
           \E i \in 0 .. h :
             /\ FirstAt(t, p, i)'
             /\ frame["pc"] # "pop_tail" =>
                  \E j \in i .. l :
                    /\ LastAt(t, p, j)' /\ "saw" \in DOMAIN loc'[t] /\ (i = j /\ h = i => loc'[t].saw)
                    /\ frame["pc"] = "pop_check" => (i = j /\ NextNil(t)') \/ NextAt(t, p, k, i)'
                    /\ frame["pc"] \in {"pop_value", "pop_help"} => i = j /\ NextAt(t, p, k, i)'
                    /\ frame["pc"] = "take" => i < j /\ NextAt(t, p, k, i)'
  PROVE  QueueOK' /\ Room(MaxNodes)' /\ QueuePromised
<1>1. DOMAIN loc = Thread /\ call' = call
  BY DEF Room
<1>2. /\ DOMAIN loc'[t] = DOMAIN frame \union DOMAIN loc[t]
      /\ \A x \in DOMAIN frame : loc'[t][x] = frame[x]
  BY <1>1, GoFacts
<1>3. call[t] = <<"pop", "L", 1>> /\ "value" \notin DOMAIN loc[t] /\ ~At(t, "idle") /\ ~At(t, "swing")
  BY DEF PopFrame, At
<1>4. loc'[t].pc = frame["pc"] /\ "value" \notin DOMAIN loc'[t] /\ call'[t] = <<"pop", "L", 1>>
  BY <1>1, <1>2, <1>3
<1>5. ~At(t, "swing")' /\ ~Adding(t)' /\ Value(t)' = Value(t) /\ frame["pc"] # "idle"
  BY <1>3, <1>4 DEF At, Adding, Value
<1>6. \/ At(t, "pop")'
      \/ \E i \in 0 .. h :
           /\ FirstAt(t, p, i)'
           /\ \/ At(t, "pop_tail")'
              \/ \E j \in i .. l :
                   /\ LastAt(t, p, j)' /\ "saw" \in DOMAIN loc'[t] /\ (i = j /\ h = i => loc'[t].saw)
                   /\ \/ At(t, "pop_next")'
                      \/ At(t, "pop_check")' /\ ((i = j /\ NextNil(t)') \/ NextAt(t, p, k, i)')
                      \/ (At(t, "pop_value")' \/ At(t, "pop_help")') /\ i = j /\ NextAt(t, p, k, i)'
                      \/ At(t, "take")' /\ i < j /\ NextAt(t, p, k, i)'
  <2>1. CASE frame["pc"] = "pop"
    BY <1>4, <2>1 DEF At
  <2>2. CASE frame["pc"] # "pop"
    <3>1. PICK i \in 0 .. h :
             /\ FirstAt(t, p, i)'
             /\ frame["pc"] # "pop_tail" =>
                  \E j \in i .. l :
                    /\ LastAt(t, p, j)' /\ "saw" \in DOMAIN loc'[t] /\ (i = j /\ h = i => loc'[t].saw)
                    /\ frame["pc"] = "pop_check" => (i = j /\ NextNil(t)') \/ NextAt(t, p, k, i)'
                    /\ frame["pc"] \in {"pop_value", "pop_help"} => i = j /\ NextAt(t, p, k, i)'
                    /\ frame["pc"] = "take" => i < j /\ NextAt(t, p, k, i)'
      BY <2>2
    <3>2. CASE frame["pc"] = "pop_tail"
      BY <1>4, <3>1, <3>2 DEF At
    <3>3. CASE frame["pc"] # "pop_tail"
      <4>1. PICK j \in i .. l :
                    /\ LastAt(t, p, j)' /\ "saw" \in DOMAIN loc'[t] /\ (i = j /\ h = i => loc'[t].saw)
                    /\ frame["pc"] = "pop_check" => (i = j /\ NextNil(t)') \/ NextAt(t, p, k, i)'
                    /\ frame["pc"] \in {"pop_value", "pop_help"} => i = j /\ NextAt(t, p, k, i)'
                    /\ frame["pc"] = "take" => i < j /\ NextAt(t, p, k, i)'
        BY <3>1, <3>3
      <4>2. \/ At(t, "pop_next")'
            \/ At(t, "pop_check")' /\ ((i = j /\ NextNil(t)') \/ NextAt(t, p, k, i)')
            \/ (At(t, "pop_value")' \/ At(t, "pop_help")') /\ i = j /\ NextAt(t, p, k, i)'
            \/ At(t, "take")' /\ i < j /\ NextAt(t, p, k, i)'
        BY <1>4, <2>2, <3>3, <4>1 DEF At
      <4> QED  BY <3>1, <4>1, <4>2
    <3> QED  BY <3>2, <3>3
  <2> QED  BY <2>1, <2>2
<1>7. PopFrame(t, p, k, h, l)'
  BY <1>4, <1>6 DEF PopFrame
<1> QED  BY <1>3, <1>5, <1>7, QueueLooks DEF QueueFrame

\* A pop returns -1 when it has seen no element.
LEMMA QueueFindsNothing ==
  ASSUME chosen = "queue", chosen' = chosen, NEW t \in Thread, Room(MaxNodes), UNCHANGED <<call, left, mem>>,
         NEW p, NEW k, NEW h, NEW l, QueueShape(mem, p, k, h, l), QueueWorkers(p, k, h, l), PopFrame(t, p, k, h, l),
         "saw" \in DOMAIN loc[t], loc[t].saw, Go(t, [pc |-> "return", value |-> Empty])
  PROVE  QueueOK' /\ Room(MaxNodes)' /\ QueuePromised
<1> DEFINE frame == [pc |-> "return", value |-> Empty]
<1>1. DOMAIN frame = {"pc", "value"} /\ frame["pc"] = "return" /\ frame["value"] = Empty /\ Go(t, frame)
  OBVIOUS
<1> HIDE DEF frame
<1>2. DOMAIN loc = Thread /\ call' = call
  BY DEF Room
<1>3. /\ DOMAIN loc'[t] = DOMAIN frame \union DOMAIN loc[t]
      /\ \A x \in DOMAIN frame : loc'[t][x] = frame[x]
      /\ \A u \in Thread : u # t => loc'[u] = loc[u]
  BY <1>1, <1>2, GoFacts
<1>4. loc'[t].pc = "return" /\ "value" \in DOMAIN loc'[t] /\ loc'[t].value = Empty /\ Empty # Pending
  BY <1>1, <1>3, LockFreeAssumption
<1>5. call[t] = <<"pop", "L", 1>> /\ "value" \notin DOMAIN loc[t] /\ ~At(t, "idle") /\ ~At(t, "swing")
  BY DEF PopFrame, At
<1>6. QueueFrame(t, p, k, h, l)' /\ ~Adding(t)'
  BY <1>2, <1>4, <1>5 DEF QueueFrame, Resting, Adding, At
<1>7. k \in Nat /\ h \in Nat /\ l \in Nat
  BY QueueTypes
<1>8. k = l + 1 => \E u \in Thread : At(u, "swing")' /\ call[u][3] = p[k]
  <2> SUFFICES ASSUME k = l + 1 PROVE \E u \in Thread : At(u, "swing")' /\ call[u][3] = p[k]
    OBVIOUS
  <2>1. PICK u \in Thread : At(u, "swing") /\ call[u][3] = p[k]
    BY DEF QueueWorkers
  <2>2. u # t
    BY <1>5, <2>1
  <2> QED  BY <1>3, <2>1, <2>2 DEF At
<1>9. QueueShape(mem', p, k, h, l) /\ mem'.made = mem.made /\ UNCHANGED <<call, left>>
  OBVIOUS
<1>10. k <= k /\ h <= h /\ l <= l /\ \A i \in k + 1 .. k : Adding(t) /\ p[i] = call[t][3]
  BY <1>7
<1>11. "pc" \in DOMAIN frame /\ frame["pc"] # "idle"
  BY <1>1
<1>12. /\ QueueOK' /\ Room(MaxNodes)'
       /\ Items = Span(p, h, l) /\ Items' = Span(p, h, l)
       /\ Results = [u \in Thread |-> Outcome(u, p, l)]
       /\ Results' = [u \in Thread |-> Outcome(u, p, l)']
  BY <1>1, <1>5, <1>6, <1>8, <1>9, <1>10, <1>11, QueueStep
<1>13. \A u \in Thread : u # t => Outcome(u, p, l)' = Outcome(u, p, l)
  BY <1>2, <1>3 DEF Outcome, At
<1>14. Outcome(t, p, l) = Pending /\ Outcome(t, p, l)' = Empty
  BY <1>4, <1>5 DEF Outcome
<1>15. Results' = [Results EXCEPT ![t] = Empty] /\ Results[t] = Pending
  BY <1>12, <1>13, <1>14
<1>16. PopsNothing(t)
  BY <1>5, <1>12, <1>15 DEF PopsNothing, Promise!Begun
<1> QED  BY <1>12, <1>16 DEF QueuePromised

\* What a pop has found, once it has looked at the tail.
LEMMA QueueFound ==
  ASSUME NEW t, NEW p, NEW k, NEW h, NEW l, PopFrame(t, p, k, h, l), ~At(t, "pop"), ~At(t, "pop_tail")
  PROVE  \E i \in 0 .. h : \E j \in i .. l :
           /\ FirstAt(t, p, i) /\ LastAt(t, p, j) /\ "saw" \in DOMAIN loc[t] /\ (i = j /\ h = i => loc[t].saw)
           /\ At(t, "pop_check") => (i = j /\ NextNil(t)) \/ NextAt(t, p, k, i)
           /\ At(t, "pop_value") \/ At(t, "pop_help") => i = j /\ NextAt(t, p, k, i)
           /\ At(t, "take") => i < j /\ NextAt(t, p, k, i)
BY DEF PopFrame, At

\* The elements of the queue are the nodes of the path between its ends.
LEMMA QueueContents ==
  ASSUME NEW p, NEW k, NEW h, NEW l, QueueShape(mem, p, k, h, l)
  PROVE  Queue!Items = Span(p, h, l)
<1>1. Queue!Items = QueueWalk(mem)[mem.head]
  BY DEF Queue!Items, Queue!Null, Nil, QueueWalk, IsQueueWalk
<1> QED  BY <1>1, QueueItems

\* The steps of a pop before it takes a node.
LEMMA QueueLook ==
  ASSUME chosen = "queue", chosen' = chosen, NEW t \in Thread, Room(MaxNodes), QueueOK, UNCHANGED <<call, left, mem>>,
         \/ At(t, "pop") /\ Go(t, [pc |-> "pop_tail", first |-> mem.head])
         \/ At(t, "pop_tail") /\ Go(t, [pc |-> "pop_next", last |-> mem.tail, saw |-> Queue!Items = <<>>])
         \/ At(t, "pop_next") /\ Go(t, [pc |-> "pop_check", next |-> mem.next[loc[t].first]])
         \/ /\ At(t, "pop_check")
            /\ IF loc[t].first = mem.head /\ loc[t].first = loc[t].last /\ loc[t].next = Nil
               THEN Go(t, [pc |-> "return", value |-> Empty])
               ELSE Go(t, [pc |-> IF loc[t].first # mem.head THEN "pop"
                                  ELSE IF loc[t].first = loc[t].last THEN "pop_value" ELSE "take"])
         \/ /\ At(t, "pop_value")
            /\ IF mem.head = 0 THEN Go(t, [pc |-> "return", value |-> Empty]) ELSE Go(t, [pc |-> "pop_help"])
         \/ At(t, "take") /\ Go(t, [pc |-> "pop"])
  PROVE  QueueOK' /\ Room(MaxNodes)' /\ QueuePromised
<1>1. PICK p, k, h, l : QueueShape(mem, p, k, h, l) /\ QueueWorkers(p, k, h, l)
  BY DEF QueueOK
<1>2. /\ k \in Nat /\ h \in Nat /\ l \in Nat /\ h <= l /\ l <= k /\ mem.tail = p[l] /\ mem.head = p[h] /\ p[0] = 0
      /\ \A i, j \in 0 .. k : p[i] = p[j] => i = j
  BY <1>1, QueueTypes DEF QueueShape
<1>3. PopFrame(t, p, k, h, l)
  <2>1. QueueFrame(t, p, k, h, l)
    BY <1>1 DEF QueueWorkers
  <2> QED  BY <2>1 DEF QueueFrame, Resting, PushFrame, PopFrame, At
<1>4. DOMAIN loc = Thread
  BY DEF Room
<1>5. CASE At(t, "pop") /\ Go(t, [pc |-> "pop_tail", first |-> mem.head])
  <2> DEFINE frame == [pc |-> "pop_tail", first |-> mem.head]
  <2>1. DOMAIN frame = {"pc", "first"} /\ frame["pc"] = "pop_tail" /\ frame["first"] = mem.head /\ Go(t, frame)
    BY <1>5
  <2> HIDE DEF frame
  <2>2. FirstAt(t, p, h)' /\ h \in 0 .. h
    BY <1>2, <1>4, <2>1, GoFacts DEF FirstAt
  <2> QED  BY <1>1, <1>3, <2>1, <2>2, QueuePopLooks
<1>6. CASE At(t, "pop_tail") /\ Go(t, [pc |-> "pop_next", last |-> mem.tail, saw |-> Queue!Items = <<>>])
  <2> DEFINE e == Queue!Items = <<>>
             frame == [pc |-> "pop_next", last |-> mem.tail, saw |-> e]
  <2>5. Go(t, frame)
    BY <1>6
  <2> HIDE DEF e
  <2>1. /\ DOMAIN frame = {"pc", "last", "saw"} /\ frame["pc"] = "pop_next" /\ frame["last"] = mem.tail
        /\ frame["saw"] = e
    OBVIOUS
  <2> HIDE DEF frame
  <2>2. PICK i \in 0 .. h : FirstAt(t, p, i)
    BY <1>3, <1>6 DEF PopFrame, At
  <2>3. h = l => e
    <3>1. Queue!Items = Span(p, h, l)
      BY <1>1, QueueContents
    <3>2. h = l => Span(p, h, l) = <<>>
      BY <1>2, SpanEmpty
    <3>3. h = l => Queue!Items = <<>>
      BY <3>1, <3>2
    <3> QED  BY <3>3 DEF e
  <2>4. /\ FirstAt(t, p, i)' /\ LastAt(t, p, l)' /\ "saw" \in DOMAIN loc'[t] /\ l \in i .. l
        /\ i = l /\ h = i => loc'[t].saw
    <3>1. /\ DOMAIN loc'[t] = DOMAIN frame \union DOMAIN loc[t]
          /\ \A x \in DOMAIN frame : loc'[t][x] = frame[x]
          /\ \A x \in DOMAIN loc[t] \ DOMAIN frame : loc'[t][x] = loc[t][x]
      BY <1>4, <2>5, GoFacts
    <3>2. "first" \in DOMAIN loc[t] \ DOMAIN frame
      BY <2>1, <2>2 DEF FirstAt
    <3>3. loc'[t].saw = e /\ loc'[t].last = mem.tail /\ loc'[t].first = loc[t].first
      BY <2>1, <3>1, <3>2
    <3> QED  BY <1>2, <2>1, <2>2, <2>3, <3>1, <3>3 DEF FirstAt, LastAt
  <2> QED  BY <1>1, <1>3, <2>1, <2>4, <2>5, QueuePopLooks
<1>7. CASE ~At(t, "pop") /\ ~At(t, "pop_tail")
  <2>10. PICK i \in 0 .. h : \E j \in i .. l :
           /\ FirstAt(t, p, i) /\ LastAt(t, p, j) /\ "saw" \in DOMAIN loc[t] /\ (i = j /\ h = i => loc[t].saw)
           /\ At(t, "pop_check") => (i = j /\ NextNil(t)) \/ NextAt(t, p, k, i)
           /\ At(t, "pop_value") \/ At(t, "pop_help") => i = j /\ NextAt(t, p, k, i)
           /\ At(t, "take") => i < j /\ NextAt(t, p, k, i)
    BY <1>3, <1>7, QueueFound
  <2>1. PICK j \in i .. l :
           /\ FirstAt(t, p, i) /\ LastAt(t, p, j) /\ "saw" \in DOMAIN loc[t] /\ (i = j /\ h = i => loc[t].saw)
           /\ At(t, "pop_check") => (i = j /\ NextNil(t)) \/ NextAt(t, p, k, i)
           /\ At(t, "pop_value") \/ At(t, "pop_help") => i = j /\ NextAt(t, p, k, i)
           /\ At(t, "take") => i < j /\ NextAt(t, p, k, i)
    BY <2>10
  <2>2. i \in 0 .. k /\ j \in 0 .. k /\ h \in 0 .. k /\ 0 \in 0 .. k
    BY <1>2
  <2>3. ASSUME NEW frame, Go(t, frame), {"first", "last", "saw"} \cap DOMAIN frame = {}
        PROVE  /\ FirstAt(t, p, i)' /\ LastAt(t, p, j)' /\ "saw" \in DOMAIN loc'[t] /\ (i = j /\ h = i => loc'[t].saw)
               /\ "next" \notin DOMAIN frame /\ "next" \in DOMAIN loc[t] => "next" \in DOMAIN loc'[t] /\ loc'[t].next = loc[t].next
               /\ "next" \in DOMAIN frame => "next" \in DOMAIN loc'[t] /\ loc'[t].next = frame["next"]
    BY <1>4, <2>1, <2>3, GoFacts DEF FirstAt, LastAt
  <2>4. CASE At(t, "pop_next") /\ Go(t, [pc |-> "pop_check", next |-> mem.next[loc[t].first]])
    <3> DEFINE frame == [pc |-> "pop_check", next |-> mem.next[loc[t].first]]
    <3>1. DOMAIN frame = {"pc", "next"} /\ frame["pc"] = "pop_check" /\ frame["next"] = mem.next[p[i]] /\ Go(t, frame)
      BY <2>1, <2>4 DEF FirstAt
    <3> HIDE DEF frame
    <3>2. /\ FirstAt(t, p, i)' /\ LastAt(t, p, j)' /\ "saw" \in DOMAIN loc'[t] /\ (i = j /\ h = i => loc'[t].saw)
          /\ "next" \in DOMAIN loc'[t] /\ loc'[t].next = mem.next[p[i]]
      BY <2>3, <3>1
    <3>3. (i = j /\ NextNil(t)') \/ NextAt(t, p, k, i)'
      <4>1. i = k => i = j
        BY <1>2
      <4> QED  BY <1>1, <1>2, <2>2, <3>2, <4>1, QueueLink DEF NextNil, NextAt
    <3> QED  BY <1>1, <1>3, <3>1, <3>2, <3>3, QueuePopLooks
  <2>5. CASE /\ At(t, "pop_check")
             /\ loc[t].first = mem.head /\ loc[t].first = loc[t].last /\ loc[t].next = Nil
             /\ Go(t, [pc |-> "return", value |-> Empty])
    <3>1. loc[t].saw
      <4>1. p[i] = p[h] /\ p[i] = p[j]
        BY <1>2, <2>1, <2>5 DEF FirstAt, LastAt
      <4>2. i = h /\ i = j
        BY <1>2, <2>2, <4>1
      <4> QED  BY <2>1, <4>2
    <3> QED  BY <1>1, <1>3, <2>1, <2>5, <3>1, QueueFindsNothing
  <2>6. CASE /\ At(t, "pop_check")
             /\ ~(loc[t].first = mem.head /\ loc[t].first = loc[t].last /\ loc[t].next = Nil)
             /\ Go(t, [pc |-> IF loc[t].first # mem.head THEN "pop"
                              ELSE IF loc[t].first = loc[t].last THEN "pop_value" ELSE "take"])
    <3> DEFINE frame == [pc |-> IF loc[t].first # mem.head THEN "pop"
                                ELSE IF loc[t].first = loc[t].last THEN "pop_value" ELSE "take"]
    <3>1. /\ DOMAIN frame = {"pc"} /\ frame["pc"] \in {"pop", "pop_value", "take"} /\ Go(t, frame)
          /\ frame["pc"] = "pop_value" => p[i] = p[j] /\ loc[t].next # Nil
          /\ frame["pc"] = "take" => p[i] # p[j]
      BY <2>1, <2>6 DEF FirstAt, LastAt
    <3> HIDE DEF frame
    <3>2. /\ FirstAt(t, p, i)' /\ LastAt(t, p, j)' /\ "saw" \in DOMAIN loc'[t] /\ (i = j /\ h = i => loc'[t].saw)
          /\ "next" \in DOMAIN loc[t] => "next" \in DOMAIN loc'[t] /\ loc'[t].next = loc[t].next
      BY <2>3, <3>1
    <3>3. /\ frame["pc"] = "pop_value" => i = j /\ NextAt(t, p, k, i)
          /\ frame["pc"] = "take" => i < j /\ NextAt(t, p, k, i)
      BY <1>2, <2>1, <2>2, <2>6, <3>1 DEF NextNil
    <3>4. NextAt(t, p, k, i) => NextAt(t, p, k, i)'
      BY <3>2 DEF NextAt
    <3> QED  BY <1>1, <1>3, <3>1, <3>2, <3>3, <3>4, QueuePopLooks
  <2>7. CASE At(t, "pop_value") /\ mem.head = 0 /\ Go(t, [pc |-> "return", value |-> Empty])
    <3>1. i = h /\ i = j
      <4>1. p[h] = p[0]
        BY <1>2, <2>7
      <4>2. h = 0
        BY <1>2, <2>2, <4>1
      <4> QED  BY <2>1, <2>7, <4>2
    <3> QED  BY <1>1, <1>3, <2>1, <2>7, <3>1, QueueFindsNothing
  <2>8. CASE At(t, "pop_value") /\ Go(t, [pc |-> "pop_help"])
    <3> DEFINE frame == [pc |-> "pop_help"]
    <3>1. DOMAIN frame = {"pc"} /\ frame["pc"] = "pop_help" /\ Go(t, frame)
      BY <2>8
    <3> HIDE DEF frame
    <3>2. /\ FirstAt(t, p, i)' /\ LastAt(t, p, j)' /\ "saw" \in DOMAIN loc'[t] /\ (i = j /\ h = i => loc'[t].saw)
          /\ "next" \in DOMAIN loc[t] => "next" \in DOMAIN loc'[t] /\ loc'[t].next = loc[t].next
      BY <2>3, <3>1
    <3>3. i = j /\ NextAt(t, p, k, i)'
      BY <2>1, <2>8, <3>2 DEF NextAt
    <3> QED  BY <1>1, <1>3, <3>1, <3>2, <3>3, QueuePopLooks
  <2>9. CASE At(t, "take") /\ Go(t, [pc |-> "pop"])
    <3> DEFINE frame == [pc |-> "pop"]
    <3>1. DOMAIN frame = {"pc"} /\ frame["pc"] = "pop" /\ Go(t, frame)
      BY <2>9
    <3> HIDE DEF frame
    <3> QED  BY <1>1, <1>3, <3>1, QueuePopLooks
  <2> QED  BY <1>7, <2>4, <2>5, <2>6, <2>7, <2>8, <2>9
<1> QED  BY <1>5, <1>6, <1>7 DEF At

\* What the compare-and-exchanges of a push and of a pop write.
QueueLinked(t) == mem' = [mem EXCEPT !.next[loc[t].last] = call[t][3]]
QueueTaken(t) == mem' = [mem EXCEPT !.head = loc[t].next]

\* The first node of a part of the path.
LEMMA SpanFirst ==
  ASSUME NEW k \in Nat, NEW p \in [0 .. k -> Cell], NEW i \in Nat, NEW j \in Nat, i < j, j <= k
  PROVE  /\ Span(p, i, j) # <<>> /\ Span(p, i, j)[1] = p[i + 1]
         /\ SubSeq(Span(p, i, j), 2, Len(Span(p, i, j))) = Span(p, i + 1, j)
<1>1. j \in 0 .. k /\ i \in 0 .. j /\ i # j
  OBVIOUS
<1> QED  BY <1>1, SpanFacts

\* A push links its node behind the last one, which is the tail.
LEMMA QueueLinks ==
  ASSUME chosen = "queue", chosen' = chosen, NEW t \in Thread, Room(MaxNodes), QueueOK, UNCHANGED <<call, left>>,
         At(t, "link"), mem.next[loc[t].last] = Nil, QueueLinked(t),
         Go(t, [pc |-> "swing"])
  PROVE  QueueOK' /\ Room(MaxNodes)' /\ QueuePromised
<1>1. PICK p, k, h, l : QueueShape(mem, p, k, h, l) /\ QueueWorkers(p, k, h, l)
  BY DEF QueueOK
<1>2. /\ k \in Nat /\ h \in Nat /\ l \in Nat /\ h <= l /\ l <= k
      /\ mem \in QueueMem /\ mem.made \in Cell /\ p \in [0 .. k -> Cell] /\ MaxNodes \in Nat
  <2>1. mem \in QueueMem
    BY <1>1 DEF QueueShape
  <2> QED  BY <1>1, <2>1, QueueTypes
<1>3. /\ PushFrame(t, p, k, l) /\ ~At(t, "idle") /\ ~At(t, "swing") /\ Adding(t) /\ "value" \notin DOMAIN loc[t]
      /\ call[t] \in {"push"} \X {"R"} \X (1 .. mem.made)
      /\ \A i \in 0 .. k : p[i] # call[t][3]
  <2>1. QueueFrame(t, p, k, h, l)
    BY <1>1 DEF QueueWorkers
  <2> QED  BY <2>1 DEF QueueFrame, Resting, PushFrame, PopFrame, Adding, At
<1>4. PICK j \in 0 .. l : LastAt(t, p, j)
  BY <1>3 DEF PushFrame, At
<1>5. j = k /\ l = k /\ loc[t].last = p[k]
  <2>1. j \in 0 .. k
    BY <1>2
  <2>3. mem.next[p[j]] = Nil
    BY <1>4 DEF LastAt
  <2>4. j < k => mem.next[p[j]] = p[j + 1] /\ p[j + 1] # Nil
    BY <1>1, <2>1, QueueLink
  <2>2. j = k
    BY <1>2, <2>1, <2>3, <2>4
  <2> QED  BY <1>2, <1>4, <2>2 DEF LastAt
<1>6. PICK n : n = call[t][3]
  OBVIOUS
<1>7. n \in 1 .. mem.made /\ n \in Place /\ p[k] \in Cell
  BY <1>2, <1>3, <1>6 DEF Cell, Place
<1>8. PICK w : w = mem'
  OBVIOUS
<1>9. /\ w \in QueueMem /\ w.head = mem.head /\ w.tail = mem.tail /\ w.made = mem.made
      /\ w.next[p[k]] = n /\ \A i \in Cell : i # p[k] => w.next[i] = mem.next[i]
  <2>1. PICK c : c = p[k]
    OBVIOUS
  <2>2. LET s == [mem EXCEPT !.next[c] = n]
        IN  /\ s \in QueueMem /\ s.head = mem.head /\ s.tail = mem.tail /\ s.made = mem.made
            /\ s.next[c] = n /\ \A i \in Cell : i # c => s.next[i] = mem.next[i]
    BY <1>2, <1>7, <2>1, QueueSetNext
  <2>3. w = [mem EXCEPT !.next[c] = n]
    BY <1>5, <1>6, <1>8, <2>1 DEF QueueLinked
  <2> QED  BY <2>1, <2>2, <2>3
<1>10. PICK q : q = Longer(p, k, n)
  OBVIOUS
<1>11. q[k + 1] = n /\ \A i \in 0 .. k : q[i] = p[i]
  BY <1>2, <1>10 DEF Longer
<1>12. QueueShape(mem', q, k + 1, h, l) /\ mem'.made = mem.made
  <2>1. QueueShape(w, Longer(p, k, n), k + 1, h, l)
    BY <1>1, <1>3, <1>5, <1>6, <1>7, <1>9, QueueGrows
  <2> QED  BY <1>8, <1>9, <1>10, <2>1
<1> DEFINE frame == [pc |-> "swing"]
<1>13. DOMAIN frame = {"pc"} /\ frame["pc"] = "swing" /\ Go(t, frame)
  OBVIOUS
<1> HIDE DEF frame
<1>14. /\ DOMAIN loc'[t] = DOMAIN frame \union DOMAIN loc[t] /\ \A u \in Thread : u # t => loc'[u] = loc[u]
       /\ \A x \in DOMAIN frame : loc'[t][x] = frame[x]
       /\ \A x \in DOMAIN loc[t] \ DOMAIN frame : loc'[t][x] = loc[t][x]
  <2>1. DOMAIN loc = Thread
    BY DEF Room
  <2> QED  BY <1>13, <2>1, GoFacts
<1>15. loc'[t].pc = "swing" /\ "value" \notin DOMAIN loc'[t] /\ "last" \in DOMAIN loc'[t] /\ loc'[t].last = p[k]
  BY <1>3, <1>4, <1>5, <1>13, <1>14 DEF LastAt
<1>16. QueueFrame(t, q, k + 1, h, l)'
  <2>1. LastAt(t, q, k)' /\ k \in 0 .. l /\ k < k + 1 /\ call'[t][3] = q[k + 1]
    BY <1>2, <1>5, <1>6, <1>11, <1>15 DEF LastAt
  <2>2. At(t, "swing")' /\ call'[t] \in {"push"} \X {"R"} \X (1 .. mem'.made)
    BY <1>3, <1>12, <1>15 DEF At
  <2> QED  BY <1>15, <2>1, <2>2 DEF QueueFrame, PushFrame
<1>17. /\ QueueOK' /\ Room(MaxNodes)'
       /\ Items = Span(p, h, l) /\ Items' = Span(q, h, l)
       /\ Results = [u \in Thread |-> Outcome(u, p, l)]
       /\ Results' = [u \in Thread |-> Outcome(u, q, l)']
  <2>1. k <= k + 1 /\ h <= h /\ l <= l /\ \A i \in k + 1 .. k + 1 : Adding(t) /\ q[i] = call[t][3]
    BY <1>2, <1>3, <1>6, <1>11
  <2>2. \E u \in Thread : At(u, "swing")' /\ call[u][3] = q[k + 1]
    BY <1>6, <1>11, <1>15 DEF At
  <2>3. "pc" \in DOMAIN frame /\ frame["pc"] # "idle"
    BY <1>13
  <2>4. PICK k2 : k2 = k + 1
    OBVIOUS
  <2>5. /\ QueueShape(mem', q, k2, h, l) /\ QueueFrame(t, q, k2, h, l)' /\ k <= k2
        /\ \A i \in 0 .. k : q[i] = p[i]
        /\ \A i \in k + 1 .. k2 : Adding(t) /\ q[i] = call[t][3]
        /\ k2 = l + 1 => \E u \in Thread : At(u, "swing")' /\ call[u][3] = q[k2]
    BY <1>11, <1>12, <1>16, <2>1, <2>2, <2>4
  <2> QED  BY <1>1, <1>3, <1>12, <1>13, <2>1, <2>3, <2>5, QueueStep
<1>18. \A u \in Thread : Outcome(u, q, l)' = Outcome(u, p, l)
  <2>1. \A i \in 0 .. l : i \in 0 .. k /\ q[i] = p[i]
    BY <1>2, <1>11
  <2>2. ASSUME NEW u \in Thread, u # t PROVE Outcome(u, q, l)' = Outcome(u, p, l)
    <3>1. loc'[u] = loc[u] /\ call'[u] = call[u]
      BY <1>14, <2>2
    <3> QED  BY <2>1, <3>1 DEF Outcome, At
  <2>3. Outcome(t, q, l)' = Pending /\ Outcome(t, p, l) = Pending
    <3>1. \A i \in 0 .. l : q[i] # call'[t][3]
      BY <1>3, <2>1
    <3> QED  BY <1>3, <1>15, <3>1 DEF Outcome
  <2> QED  BY <2>2, <2>3
<1>19. Span(q, h, l) = Span(p, h, l)
  <2>1. \A i \in 1 .. l - h : h + i \in 0 .. k
    BY <1>2
  <2>2. \A i \in 1 .. l - h : q[h + i] = p[h + i]
    BY <1>11, <2>1
  <2> QED  BY <2>2 DEF Span
<1>20. UNCHANGED promised
  BY <1>17, <1>18, <1>19 DEF promised
<1> QED  BY <1>17, <1>20 DEF QueuePromised

\* The head goes on to the node that the pop has found behind it.
LEMMA QueueTakes ==
  ASSUME chosen = "queue", chosen' = chosen, NEW t \in Thread, Room(MaxNodes), QueueOK, UNCHANGED <<call, left>>,
         At(t, "take"), mem.head = loc[t].first, QueueTaken(t),
         Go(t, [pc |-> "return", value |-> loc[t].next])
  PROVE  QueueOK' /\ Room(MaxNodes)' /\ QueuePromised
<1>1. PICK p, k, h, l : QueueShape(mem, p, k, h, l) /\ QueueWorkers(p, k, h, l)
  BY DEF QueueOK
<1>2. /\ k \in Nat /\ h \in Nat /\ l \in Nat /\ h <= l /\ l <= k /\ mem.head = p[h] /\ mem \in QueueMem
      /\ p \in [0 .. k -> Cell] /\ \A i, j \in 0 .. k : p[i] = p[j] => i = j
  <2>1. mem.head = p[h] /\ mem \in QueueMem /\ \A i, j \in 0 .. k : p[i] = p[j] => i = j
    BY <1>1 DEF QueueShape
  <2> QED  BY <1>1, <2>1, QueueTypes
<1>3. PopFrame(t, p, k, h, l) /\ ~At(t, "pop") /\ ~At(t, "pop_tail")
  <2>1. QueueFrame(t, p, k, h, l)
    BY <1>1 DEF QueueWorkers
  <2> QED  BY <2>1 DEF QueueFrame, Resting, PushFrame, PopFrame, At
<1>4. PICK i \in 0 .. h : FirstAt(t, p, i) /\ \E j \in i .. l : i < j /\ NextAt(t, p, k, i)
  BY <1>3, QueueFound
<1>5. i = h /\ h < l /\ loc[t].next = p[h + 1]
  <2>1. i \in 0 .. k /\ h \in 0 .. k
    BY <1>2
  <2>3. p[i] = p[h]
    BY <1>2, <1>4 DEF FirstAt
  <2>2. i = h
    BY <1>2, <2>1, <2>3
  <2> QED  BY <1>2, <1>4, <2>2 DEF NextAt
<1>6. PICK n : n = loc[t].next
  OBVIOUS
<1>7. n = p[h + 1] /\ n \in Cell /\ n # Pending
  <2>1. h + 1 \in 0 .. k
    BY <1>2, <1>5
  <2>2. p[h + 1] \in Cell
    BY <1>2, <2>1
  <2> QED  BY <1>5, <1>6, <2>2, LockFreeAssumption DEF Cell
<1>8. QueueShape(mem', p, k, h + 1, l) /\ mem'.made = mem.made
  <2>1. PICK w : w = mem'
    OBVIOUS
  <2>2. LET s == [mem EXCEPT !.head = n]
        IN  s \in QueueMem /\ s.head = n /\ s.tail = mem.tail /\ s.made = mem.made /\ s.next = mem.next
    BY <1>2, <1>7, QueueSets
  <2>3. w = [mem EXCEPT !.head = n]
    BY <1>6, <2>1 DEF QueueTaken
  <2>4. w \in QueueMem /\ w.head = p[h + 1] /\ w.tail = mem.tail /\ w.made = mem.made /\ w.next = mem.next
    BY <1>7, <2>2, <2>3
  <2>5. QueueShape(w, p, k, h + 1, l)
    BY <1>1, <1>5, <2>4, QueueShrinks
  <2> QED  BY <2>1, <2>4, <2>5
<1> DEFINE frame == [pc |-> "return", value |-> n]
<1>9. DOMAIN frame = {"pc", "value"} /\ frame["pc"] = "return" /\ frame["value"] = n /\ Go(t, frame)
  BY <1>6
<1> HIDE DEF frame
<1>10. /\ DOMAIN loc'[t] = DOMAIN frame \union DOMAIN loc[t] /\ \A u \in Thread : u # t => loc'[u] = loc[u]
       /\ \A x \in DOMAIN frame : loc'[t][x] = frame[x]
  <2>1. DOMAIN loc = Thread
    BY DEF Room
  <2> QED  BY <1>9, <2>1, GoFacts
<1>11. loc'[t].pc = "return" /\ "value" \in DOMAIN loc'[t] /\ loc'[t].value = n
  BY <1>9, <1>10
<1>12. /\ call[t] = <<"pop", "L", 1>> /\ "value" \notin DOMAIN loc[t] /\ ~At(t, "idle") /\ ~At(t, "swing")
       /\ call' = call
  BY <1>3 DEF PopFrame, At
<1>13. QueueFrame(t, p, k, h + 1, l)' /\ ~Adding(t)'
  BY <1>7, <1>11, <1>12 DEF QueueFrame, Resting, Adding, At
<1>14. k = l + 1 => \E u \in Thread : At(u, "swing")' /\ call[u][3] = p[k]
  <2> SUFFICES ASSUME k = l + 1 PROVE \E u \in Thread : At(u, "swing")' /\ call[u][3] = p[k]
    OBVIOUS
  <2>1. PICK u \in Thread : At(u, "swing") /\ call[u][3] = p[k]
    BY <1>1 DEF QueueWorkers
  <2>2. u # t
    BY <1>12, <2>1
  <2> QED  BY <1>10, <2>1, <2>2 DEF At
<1>15. /\ QueueOK' /\ Room(MaxNodes)'
       /\ Items = Span(p, h, l) /\ Items' = Span(p, h + 1, l)
       /\ Results = [u \in Thread |-> Outcome(u, p, l)]
       /\ Results' = [u \in Thread |-> Outcome(u, p, l)']
  <2>1. k <= k /\ h <= h + 1 /\ l <= l /\ \A x \in k + 1 .. k : Adding(t) /\ p[x] = call[t][3]
    BY <1>2
  <2>2. "pc" \in DOMAIN frame /\ frame["pc"] # "idle"
    BY <1>9
  <2> QED  BY <1>1, <1>8, <1>9, <1>12, <1>13, <1>14, <2>1, <2>2, QueueStep
<1>16. \A u \in Thread : u # t => Outcome(u, p, l)' = Outcome(u, p, l)
  BY <1>10, <1>12 DEF Outcome, At
<1>17. Outcome(t, p, l) = Pending /\ Outcome(t, p, l)' = n
  BY <1>11, <1>12 DEF Outcome
<1>18. Results' = [Results EXCEPT ![t] = n] /\ Results[t] = Pending
  BY <1>15, <1>16, <1>17
<1>19. /\ Items # <<>> /\ n = Promise!End(Items, "L") /\ Items' = Promise!Popped(Items, "L")
  <2>1. /\ Span(p, h, l) # <<>> /\ Span(p, h, l)[1] = p[h + 1]
        /\ SubSeq(Span(p, h, l), 2, Len(Span(p, h, l))) = Span(p, h + 1, l)
    BY <1>2, <1>5, SpanFirst
  <2> QED  BY <1>7, <1>15, <2>1 DEF Promise!End, Promise!Popped
<1>20. Promise!Pop(t)
  BY <1>12, <1>18, <1>19 DEF Promise!Pop, Promise!Begun
<1> QED  BY <1>15, <1>20 DEF QueuePromised, Promise!Next

\* Stores that change nothing.
LEMMA QueueKeeps ==
  ASSUME NEW m, NEW p, NEW k, NEW h, NEW l, QueueShape(m, p, k, h, l),
         NEW w \in QueueMem, w.head = m.head, w.tail = m.tail, w.made = m.made, w.next = m.next
  PROVE  QueueShape(w, p, k, h, l)
BY DEF QueueShape

\* What the compare-and-exchange of the tail changes.
LEMMA QueueTail ==
  ASSUME NEW t, NEW n \in Cell, mem \in QueueMem, Queue!SwingTail(t, n)
  PROVE  /\ mem' \in QueueMem /\ mem'.head = mem.head /\ mem'.made = mem.made /\ mem'.next = mem.next
         /\ mem'.tail = IF mem.tail = loc[t].last THEN n ELSE mem.tail
<1> DEFINE v == IF mem.tail = loc[t].last THEN n ELSE mem.tail
<1>1. v \in Cell /\ mem' = [mem EXCEPT !.tail = v]
  BY DEF Queue!SwingTail, QueueMem
<1> HIDE DEF v
<1>2. mem' \in QueueMem /\ mem'.head = mem.head /\ mem'.tail = v /\ mem'.made = mem.made /\ mem'.next = mem.next
  BY <1>1 DEF QueueMem
<1> QED  BY <1>2 DEF v

\* The path after another node.
LEMMA SpanLast ==
  ASSUME NEW k \in Nat, NEW p \in [0 .. k -> Cell], NEW i \in Nat, NEW j \in Nat, i <= j, j < k
  PROVE  Span(p, i, j + 1) = Append(Span(p, i, j), p[j + 1])
<1>1. j \in 0 .. k /\ i \in 0 .. j
  OBVIOUS
<1> QED  BY <1>1, SpanFacts

\* The compare-and-exchange of the tail, by any worker that has found a node
\* which has been the tail and the next one: a push takes effect if the node is
\* the tail.
LEMMA QueueSwingTail ==
  ASSUME chosen = "queue", chosen' = chosen, NEW t \in Thread, Room(MaxNodes), ~At(t, "idle"), UNCHANGED <<call, left>>,
         NEW p, NEW k, NEW h, NEW l, QueueShape(mem, p, k, h, l), QueueWorkers(p, k, h, l),
         NEW j \in 0 .. l, LastAt(t, p, j), j < k, NEW n, n = p[j + 1], Queue!SwingTail(t, n),
         NEW frame, Go(t, frame), "pc" \in DOMAIN frame, frame["pc"] # "idle",
         Adding(t)' => Adding(t), \A i \in {l, l + 1} : QueueFrame(t, p, k, h, i)',
         "value" \notin DOMAIN loc[t], ~At(t, "swing")',
         At(t, "swing") => call[t][3] = n /\ "value" \in DOMAIN loc'[t] /\ loc'[t].value = Void,
         ~At(t, "swing") => "value" \notin DOMAIN loc'[t]
  PROVE  QueueOK' /\ Room(MaxNodes)' /\ QueuePromised
<1>1. /\ k \in Nat /\ h \in Nat /\ l \in Nat /\ h <= l /\ l <= k /\ k <= l + 1 /\ p \in [0 .. k -> Cell]
      /\ mem.tail \in Cell /\ j \in 0 .. k /\ j + 1 \in 0 .. k
  <2>1. /\ k \in Nat /\ h \in Nat /\ l \in Nat /\ h <= l /\ l <= k /\ k <= l + 1 /\ p \in [0 .. k -> Cell]
        /\ mem.tail \in Cell
    BY QueueTypes
  <2> QED  BY <2>1
<1>2. mem \in QueueMem /\ mem.tail = p[l] /\ \A x, y \in 0 .. k : p[x] = p[y] => x = y
  BY DEF QueueShape
<1>3. n \in Cell /\ loc[t].last = p[j]
  BY <1>1 DEF LastAt
<1>4. \A u \in Thread : u # t => loc'[u] = loc[u]
  <2>1. DOMAIN loc = Thread
    BY DEF Room
  <2> QED  BY <2>1, GoFacts
<1>5. call' = call
  OBVIOUS
<1>6. Void # Pending
  BY LockFreeAssumption
<1>7. CASE j = l
  <2>1. k = l + 1 /\ n = p[l + 1] /\ l < k
    BY <1>1, <1>7
  <2>2. QueueShape(mem', p, k, h, l + 1) /\ mem'.made = mem.made
    <3>1. PICK w : w = mem'
      OBVIOUS
    <3>4. w \in QueueMem /\ w.head = mem.head /\ w.tail = p[l + 1] /\ w.made = mem.made /\ w.next = mem.next
      BY <1>2, <1>3, <1>7, <2>1, <3>1, QueueTail
    <3>5. QueueShape(w, p, k, h, l + 1)
      BY <2>1, <3>4, QueueSwings
    <3> QED  BY <3>1, <3>4, <3>5
  <2>3. PICK u \in Thread : At(u, "swing") /\ call[u][3] = p[k]
    BY <2>1 DEF QueueWorkers
  <2>4. call[u] \in {"push"} \X {"R"} \X (1 .. mem.made) /\ "value" \notin DOMAIN loc[u]
    <3>1. QueueFrame(u, p, k, h, l)
      BY DEF QueueWorkers
    <3> QED  BY <2>3, <3>1 DEF QueueFrame, Resting, PushFrame, PopFrame, At
  <2>5. \A v \in Thread : v # u /\ At(v, "swing") => call[v][3] # p[k]
    BY <2>3 DEF QueueWorkers, Adding, At
  <2>6. At(t, "swing") => t = u
    BY <2>1, <2>5
  <2>7. PICK l2 : l2 = l + 1
    OBVIOUS
  <2>8. /\ QueueOK' /\ Room(MaxNodes)'
        /\ Items = Span(p, h, l) /\ Items' = Span(p, h, l2)
        /\ Results = [v \in Thread |-> Outcome(v, p, l)]
        /\ Results' = [v \in Thread |-> Outcome(v, p, l2)']
    <3>1. /\ k <= k /\ h <= h /\ l <= l2 /\ k # l2 + 1
          /\ \A i \in k + 1 .. k : Adding(t) /\ p[i] = call[t][3]
      BY <1>1, <2>1, <2>7
    <3>2. QueueShape(mem', p, k, h, l2) /\ QueueFrame(t, p, k, h, l2)'
      BY <2>2, <2>7
    <3> QED  BY <2>2, <3>1, <3>2, QueueStep
  <2>9. l2 \in 0 .. l2 /\ p[l2] = p[k] /\ \A i \in 0 .. l : i \in 0 .. l2 /\ p[i] # p[k]
    BY <1>1, <1>2, <2>1, <2>7
  <2>10. Outcome(u, p, l) = Pending
    BY <2>3, <2>4, <2>9 DEF Outcome
  <2>11. Outcome(u, p, l2)' = Void
    <3>1. CASE u = t
      BY <2>3, <3>1 DEF Outcome
    <3>2. CASE u # t
      <4>1. loc'[u] = loc[u] /\ call'[u][3] = p[l2]
        BY <1>4, <1>5, <2>3, <2>9, <3>2
      <4> QED  BY <2>3, <2>4, <2>9, <4>1 DEF Outcome, At
    <3> QED  BY <3>1, <3>2
  <2>12. ASSUME NEW v \in Thread, v # u PROVE Outcome(v, p, l2)' = Outcome(v, p, l)
    <3>1. CASE v = t
      BY <2>6, <2>12, <3>1 DEF Outcome
    <3>2. CASE v # t
      <4>1. loc'[v] = loc[v] /\ call'[v] = call[v]
        BY <1>4, <1>5, <3>2
      <4>2. At(v, "swing") => call[v][3] # p[l2]
        BY <2>5, <2>9, <2>12
      <4>3. At(v, "swing") => ((\E i \in 0 .. l2 : p[i] = call[v][3]) <=> \E i \in 0 .. l : p[i] = call[v][3])
        <5>1. \A i \in 0 .. l2 : i # l2 => i \in 0 .. l
          BY <1>1, <2>7
        <5> QED  BY <2>9, <4>2, <5>1
      <4> QED  BY <4>1, <4>3 DEF Outcome, At
    <3> QED  BY <3>1, <3>2
  <2>13. Results' = [Results EXCEPT ![u] = Void] /\ Results[u] = Pending
    BY <2>8, <2>10, <2>11, <2>12
  <2>14. Items' = Append(Items, p[k])
    <3>1. Span(p, h, l + 1) = Append(Span(p, h, l), p[l + 1])
      <4>1. k \in Nat /\ p \in [0 .. k -> Cell] /\ h \in Nat /\ l \in Nat /\ h <= l /\ l < k
        BY <1>1, <2>1
      <4> QED  BY <4>1, SpanLast, ZenonT(60)
    <3> QED  BY <2>1, <2>7, <2>8, <3>1
  <2>15. Promise!Push(u)
    <3>1. call[u] # <<>> /\ call[u][1] = "push" /\ call[u][2] = "R"
      BY <2>4
    <3> QED  BY <2>3, <2>13, <2>14, <3>1 DEF Promise!Push, Promise!Begun, Promise!Pushed
  <2> QED  BY <2>8, <2>15 DEF QueuePromised, Promise!Next
<1>8. CASE j # l
  <2>1. p[j] # p[l] /\ j + 1 \in 0 .. l
    BY <1>1, <1>2, <1>8
  <2>2. QueueShape(mem', p, k, h, l) /\ mem'.made = mem.made
    <3>1. PICK w : w = mem'
      OBVIOUS
    <3>4. w \in QueueMem /\ w.head = mem.head /\ w.tail = mem.tail /\ w.made = mem.made /\ w.next = mem.next
      BY <1>2, <1>3, <2>1, <3>1, QueueTail
    <3>5. QueueShape(w, p, k, h, l)
      BY <3>4, QueueKeeps
    <3> QED  BY <3>1, <3>4, <3>5
  <2>3. k = l + 1 => \E u \in Thread : At(u, "swing")' /\ call[u][3] = p[k]
    <3> SUFFICES ASSUME k = l + 1 PROVE \E u \in Thread : At(u, "swing")' /\ call[u][3] = p[k]
      OBVIOUS
    <3>1. PICK u \in Thread : At(u, "swing") /\ call[u][3] = p[k]
      BY DEF QueueWorkers
    <3>2. p[j + 1] # p[k]
      BY <1>1, <1>2, <2>1
    <3>3. u # t
      BY <3>1, <3>2
    <3> QED  BY <1>4, <3>1, <3>3 DEF At
  <2>4. /\ QueueOK' /\ Room(MaxNodes)'
        /\ Items = Span(p, h, l) /\ Items' = Span(p, h, l)
        /\ Results = [v \in Thread |-> Outcome(v, p, l)]
        /\ Results' = [v \in Thread |-> Outcome(v, p, l)']
    <3>1. /\ k <= k /\ h <= h /\ l <= l
          /\ \A i \in k + 1 .. k : Adding(t) /\ p[i] = call[t][3]
      BY <1>1
    <3>2. QueueFrame(t, p, k, h, l)'
      OBVIOUS
    <3> QED  BY <2>2, <2>3, <3>1, <3>2, QueueStep
  <2>5. Outcome(t, p, l)' = Outcome(t, p, l)
    BY <2>1 DEF Outcome
  <2>6. ASSUME NEW v \in Thread, v # t PROVE Outcome(v, p, l)' = Outcome(v, p, l)
    BY <1>4, <1>5, <2>6 DEF Outcome, At
  <2>7. UNCHANGED promised
    BY <1>5, <2>4, <2>5, <2>6 DEF promised
  <2> QED  BY <2>4, <2>7 DEF QueuePromised
<1> QED  BY <1>7, <1>8

\* No node is allocated by it.
LEMMA QueueSwung ==
  ASSUME NEW t, NEW p, NEW k, NEW h, NEW l, QueueShape(mem, p, k, h, l), NEW j \in 0 .. l, j < k,
         NEW n, n = p[j + 1], Queue!SwingTail(t, n)
  PROVE  mem'.made = mem.made
<1>1. mem \in QueueMem /\ k \in Nat /\ p \in [0 .. k -> Cell]
  <2>1. mem \in QueueMem
    BY DEF QueueShape
  <2> QED  BY <2>1, QueueTypes
<1>2. l \in Nat
  BY QueueTypes
<1>3. n \in Cell
  BY <1>1, <1>2
<1> QED  BY <1>1, <1>3, QueueTail

\* A push or a pop that has found a node behind the tail helps its push, and
\* starts again.
LEMMA QueueHelps ==
  ASSUME chosen = "queue", chosen' = chosen, NEW t \in Thread, Room(MaxNodes), QueueOK, UNCHANGED <<call, left>>,
         Queue!SwingTail(t, loc[t].next),
         \/ At(t, "push_help") /\ Go(t, [pc |-> "push"])
         \/ At(t, "pop_help") /\ Go(t, [pc |-> "pop"])
  PROVE  QueueOK' /\ Room(MaxNodes)' /\ QueuePromised
<1>1. PICK p, k, h, l : QueueShape(mem, p, k, h, l) /\ QueueWorkers(p, k, h, l)
  BY DEF QueueOK
<1>2. k \in Nat /\ h \in Nat /\ l \in Nat /\ h <= l /\ DOMAIN loc = Thread /\ call' = call
  BY <1>1, QueueTypes DEF Room
<1>3. QueueFrame(t, p, k, h, l)
  BY <1>1 DEF QueueWorkers
<1>4. PICK n : n = loc[t].next
  OBVIOUS
<1>5. Queue!SwingTail(t, n)
  BY <1>4
<1>6. CASE At(t, "push_help") /\ Go(t, [pc |-> "push"])
  <2> DEFINE frame == [pc |-> "push"]
  <2>1. DOMAIN frame = {"pc"} /\ frame["pc"] = "push" /\ Go(t, frame)
    BY <1>6
  <2> HIDE DEF frame
  <2>2. PushFrame(t, p, k, l) /\ Adding(t) /\ ~At(t, "idle") /\ ~At(t, "swing") /\ "value" \notin DOMAIN loc[t]
    BY <1>3, <1>6 DEF QueueFrame, Resting, PushFrame, PopFrame, Adding, At
  <2>3. PICK j \in 0 .. l : LastAt(t, p, j) /\ NextAt(t, p, k, j)
    BY <1>6, <2>2 DEF PushFrame, At
  <2>4. j < k /\ n = p[j + 1]
    BY <1>4, <2>3 DEF NextAt
  <2>5. loc'[t].pc = "push" /\ "value" \notin DOMAIN loc'[t]
    BY <1>2, <2>1, <2>2, GoFacts
  <2>6. mem'.made = mem.made
    BY <1>1, <1>5, <2>3, <2>4, QueueSwung
  <2>7. \A i \in {l, l + 1} : QueueFrame(t, p, k, h, i)'
    BY <1>2, <2>2, <2>5, <2>6 DEF QueueFrame, PushFrame, At
  <2>8. ~At(t, "swing")' /\ "pc" \in DOMAIN frame /\ frame["pc"] # "idle"
    BY <2>1, <2>5 DEF At
  <2> QED  BY <1>1, <1>5, <2>1, <2>2, <2>3, <2>4, <2>5, <2>7, <2>8, QueueSwingTail
<1>7. CASE At(t, "pop_help") /\ Go(t, [pc |-> "pop"])
  <2> DEFINE frame == [pc |-> "pop"]
  <2>1. DOMAIN frame = {"pc"} /\ frame["pc"] = "pop" /\ Go(t, frame)
    BY <1>7
  <2> HIDE DEF frame
  <2>2. /\ PopFrame(t, p, k, h, l) /\ ~At(t, "idle") /\ ~At(t, "swing") /\ ~At(t, "pop") /\ ~At(t, "pop_tail")
        /\ call[t] = <<"pop", "L", 1>> /\ "value" \notin DOMAIN loc[t]
    BY <1>3, <1>7 DEF QueueFrame, Resting, PushFrame, PopFrame, At
  <2>3. PICK j \in 0 .. l : LastAt(t, p, j) /\ NextAt(t, p, k, j)
    <3>1. PICK i \in 0 .. h : \E j \in i .. l : LastAt(t, p, j) /\ i = j /\ NextAt(t, p, k, i)
      BY <1>7, <2>2, QueueFound
    <3> QED  BY <1>2, <3>1
  <2>4. j < k /\ n = p[j + 1]
    BY <1>4, <2>3 DEF NextAt
  <2>5. loc'[t].pc = "pop" /\ "value" \notin DOMAIN loc'[t]
    BY <1>2, <2>1, <2>2, GoFacts
  <2>6. \A i \in {l, l + 1} : QueueFrame(t, p, k, h, i)'
    BY <1>2, <2>2, <2>5 DEF QueueFrame, PopFrame, At
  <2>7. ~At(t, "swing")' /\ ~Adding(t)' /\ "pc" \in DOMAIN frame /\ frame["pc"] # "idle"
    BY <2>1, <2>5 DEF At, Adding
  <2> QED  BY <1>1, <1>5, <2>1, <2>2, <2>3, <2>4, <2>5, <2>6, <2>7, QueueSwingTail
<1> QED  BY <1>6, <1>7

\* A push that has linked its node swings the tail and returns.
LEMMA QueuePushReturns ==
  ASSUME chosen = "queue", chosen' = chosen, NEW t \in Thread, Room(MaxNodes), QueueOK, UNCHANGED <<call, left>>,
         At(t, "swing"), Queue!SwingTail(t, call[t][3]), Go(t, [pc |-> "return", value |-> Void])
  PROVE  QueueOK' /\ Room(MaxNodes)' /\ QueuePromised
<1>1. PICK p, k, h, l : QueueShape(mem, p, k, h, l) /\ QueueWorkers(p, k, h, l)
  BY DEF QueueOK
<1>2. k \in Nat /\ h \in Nat /\ l \in Nat /\ DOMAIN loc = Thread /\ call' = call
  BY <1>1, QueueTypes DEF Room
<1>3. QueueFrame(t, p, k, h, l)
  BY <1>1 DEF QueueWorkers
<1>4. PICK n : n = call[t][3]
  OBVIOUS
<1>5. Queue!SwingTail(t, n)
  BY <1>4
<1> DEFINE frame == [pc |-> "return", value |-> Void]
<1>6. DOMAIN frame = {"pc", "value"} /\ frame["pc"] = "return" /\ frame["value"] = Void /\ Go(t, frame)
  OBVIOUS
<1> HIDE DEF frame
<1>7. PushFrame(t, p, k, l) /\ ~At(t, "idle") /\ "value" \notin DOMAIN loc[t] /\ call[t] \in {"push"} \X {"R"} \X (1 .. mem.made)
  BY <1>3 DEF QueueFrame, Resting, PushFrame, PopFrame, At
<1>8. PICK j \in 0 .. l : LastAt(t, p, j) /\ j < k /\ n = p[j + 1]
  BY <1>4, <1>7 DEF PushFrame, At
<1>9. loc'[t].pc = "return" /\ "value" \in DOMAIN loc'[t] /\ loc'[t].value = Void /\ Void # Pending
  BY <1>2, <1>6, GoFacts, LockFreeAssumption
<1>10. \A i \in {l, l + 1} : QueueFrame(t, p, k, h, i)'
  BY <1>2, <1>7, <1>9 DEF QueueFrame, Resting, At
<1>11. ~At(t, "swing")' /\ ~Adding(t)' /\ "pc" \in DOMAIN frame /\ frame["pc"] # "idle"
  BY <1>6, <1>9 DEF At, Adding
<1>12. /\ At(t, "swing") => call[t][3] = n /\ "value" \in DOMAIN loc'[t] /\ loc'[t].value = Void
       /\ ~At(t, "swing") => "value" \notin DOMAIN loc'[t]
       /\ LastAt(t, p, j) /\ j < k /\ n = p[j + 1] /\ "value" \notin DOMAIN loc[t] /\ ~At(t, "idle")
       /\ Adding(t)' => Adding(t)
  BY <1>4, <1>7, <1>8, <1>9, <1>11
<1> QED  BY <1>1, <1>5, <1>6, <1>10, <1>11, <1>12, QueueSwingTail

\* The steps of push and pop.
LEMMA QueueWork ==
  ASSUME chosen = "queue", chosen' = chosen, NEW t \in Thread, Room(MaxNodes), QueueOK, UNCHANGED <<call, left>>,
         Queue!Step(t)
  PROVE  QueueOK' /\ Room(MaxNodes)' /\ QueuePromised
<1>1. CASE Queue!Push(t)
  <2>1. CASE Queue!Link(t)
    <3>1. CASE At(t, "link") /\ mem.next[loc[t].last] = Nil /\ QueueLinked(t) /\ Go(t, [pc |-> "swing"])
      BY <3>1, QueueLinks
    <3>2. CASE At(t, "link") /\ Go(t, [pc |-> "push"]) /\ mem' = mem
      BY <3>2, QueuePushLooks
    <3> QED  BY <2>1, <3>1, <3>2, QueueFrames DEF Queue!Link, QueueLinked
  <2>2. CASE /\ UNCHANGED mem
             /\ \/ At(t, "push") /\ Go(t, [pc |-> "push_next", last |-> mem.tail])
                \/ At(t, "push_next") /\ Go(t, [pc |-> "push_check", next |-> mem.next[loc[t].last]])
                \/ /\ At(t, "push_check")
                   /\ Go(t, [pc |-> IF loc[t].last # mem.tail THEN "push"
                                    ELSE IF loc[t].next = Nil THEN "link" ELSE "push_help"])
    BY <2>2, QueuePushLooks
  <2>3. CASE At(t, "push_help") /\ Queue!SwingTail(t, loc[t].next) /\ Go(t, [pc |-> "push"])
    BY <2>3, QueueHelps
  <2>4. CASE /\ At(t, "swing") /\ Queue!SwingTail(t, call[t][3])
             /\ Go(t, [pc |-> "return", value |-> Void])
    BY <2>4, QueuePushReturns
  <2> QED  BY <1>1, <2>1, <2>2, <2>3, <2>4, QueueFrames DEF Queue!Push
<1>2. CASE Queue!Look(t)
  <2>1. /\ UNCHANGED mem
        /\ \/ At(t, "pop") /\ Go(t, [pc |-> "pop_tail", first |-> mem.head])
           \/ At(t, "pop_tail") /\ Go(t, [pc |-> "pop_next", last |-> mem.tail, saw |-> Queue!Items = <<>>])
           \/ At(t, "pop_next") /\ Go(t, [pc |-> "pop_check", next |-> mem.next[loc[t].first]])
           \/ /\ At(t, "pop_check")
              /\ IF loc[t].first = mem.head /\ loc[t].first = loc[t].last /\ loc[t].next = Nil
                 THEN Go(t, [pc |-> "return", value |-> Empty])
                 ELSE Go(t, [pc |-> IF loc[t].first # mem.head THEN "pop"
                                    ELSE IF loc[t].first = loc[t].last THEN "pop_value" ELSE "take"])
    BY <1>2, QueueFrames DEF Queue!Look
  <2> QED  BY <2>1, QueueLook
<1>3. CASE Queue!Help(t)
  <2>1. CASE /\ At(t, "pop_value") /\ UNCHANGED mem
             /\ IF mem.head = 0 THEN Go(t, [pc |-> "return", value |-> Empty]) ELSE Go(t, [pc |-> "pop_help"])
    BY <2>1, QueueLook
  <2>2. CASE At(t, "pop_help") /\ Queue!SwingTail(t, loc[t].next) /\ Go(t, [pc |-> "pop"])
    BY <2>2, QueueHelps
  <2> QED  BY <1>3, <2>1, <2>2, QueueFrames DEF Queue!Help
<1>4. CASE Queue!Take(t)
  <2>1. CASE /\ At(t, "take") /\ mem.head = loc[t].first /\ QueueTaken(t)
             /\ Go(t, [pc |-> "return", value |-> loc[t].next])
    BY <2>1, QueueTakes
  <2>2. CASE At(t, "take") /\ Go(t, [pc |-> "pop"]) /\ UNCHANGED mem
    BY <2>2, QueueLook
  <2> QED  BY <1>4, <2>1, <2>2, QueueFrames DEF Queue!Take, QueueTaken
<1> QED  BY <1>1, <1>2, <1>3, <1>4 DEF Queue!Step

\* A call begins or returns.
LEMMA QueueTurn ==
  ASSUME chosen = "queue", chosen' = chosen, NEW t \in Thread, \A u \in Thread : u # t => loc'[u] = loc[u] /\ call'[u] = call[u],
         NEW p, NEW k, NEW h, NEW l, QueueShape(mem, p, k, h, l), QueueWorkers(p, k, h, l), QueueShape(mem', p, k, h, l),
         mem.made <= mem'.made, QueueFrame(t, p, k, h, l)', ~At(t, "swing"), ~At(t, "swing")',
         Adding(t)' => \A u \in Thread : u # t /\ Adding(u) => call[u][3] # call'[t][3]
  PROVE  /\ QueueOK' /\ Items' = Items
         /\ Results = [u \in Thread |-> Outcome(u, p, l)]
         /\ Results' = [Results EXCEPT ![t] = Value(t)']
<1>1. /\ k \in Nat /\ h \in Nat /\ l \in Nat /\ h <= l /\ l <= k /\ mem.made \in Nat /\ mem'.made \in Nat
  <2>1. PICK w : w = mem'
    OBVIOUS
  <2>2. QueueShape(w, p, k, h, l)
    BY <2>1
  <2>3. mem.made \in Cell /\ w.made \in Cell
    BY <2>2, QueueTypes
  <2> QED  BY <2>1, <2>3, QueueTypes DEF Cell
<1>2. ASSUME NEW u \in Thread, u # t PROVE QueueFrame(u, p, k, h, l)'
  <2>1. loc'[u] = loc[u] /\ call'[u] = call[u] /\ QueueFrame(u, p, k, h, l)
    BY <1>2 DEF QueueWorkers
  <2>2. /\ k <= k /\ h <= h /\ l <= l /\ \A i \in 0 .. k : p[i] = p[i]
        /\ Adding(u) => \A i \in k + 1 .. k : p[i] # call[u][3]
    BY <1>1
  <2> QED  BY <1>1, <2>1, <2>2, QueueFramesKeep
<1>3. \A u \in Thread : u # t => (Adding(u)' <=> Adding(u)) /\ (At(u, "swing")' <=> At(u, "swing"))
  BY DEF Adding, At
<1>4. \A u, v \in Thread : u # v /\ Adding(u)' /\ Adding(v)' => call'[u][3] # call'[v][3]
  BY <1>3 DEF QueueWorkers
<1>5. k = l + 1 => \E u \in Thread : At(u, "swing")' /\ call'[u][3] = p[k]
  BY <1>3 DEF QueueWorkers
<1>6. QueueWorkers(p, k, h, l)'
  BY <1>2, <1>4, <1>5 DEF QueueWorkers
<1>7. QueueOK'
  BY <1>6 DEF QueueOK
<1>8. /\ Items = Span(p, h, l) /\ Items' = Span(p, h, l)
      /\ Results = [u \in Thread |-> Outcome(u, p, l)]
      /\ Results' = [u \in Thread |-> Outcome(u, p, l)']
  BY <1>6, QueueView
<1>9. \A u \in Thread : u # t => Outcome(u, p, l)' = Outcome(u, p, l)
  BY <1>3 DEF Outcome
<1>10. Outcome(t, p, l)' = Value(t)'
  BY DEF Outcome, Value
<1> QED  BY <1>7, <1>8, <1>9, <1>10

LEMMA QueueCallPush ==
  ASSUME chosen = "queue", chosen' = chosen, QueueOK, NEW t \in Thread, Room(MaxNodes), left[t] > 0, At(t, "idle"),
         left' = left, Queue!CallPush(t)
  PROVE  QueueOK' /\ Room(MaxNodes)' /\ QueuePromised
<1>1. PICK p, k, h, l : QueueShape(mem, p, k, h, l) /\ QueueWorkers(p, k, h, l)
  BY DEF QueueOK
<1>2. PICK n : n = mem.made + 1
  OBVIOUS
<1>3. /\ call' = [call EXCEPT ![t] = <<"push", "R", n>>] /\ loc' = [loc EXCEPT ![t] = [pc |-> "push"]]
      /\ mem' = [mem EXCEPT !.made = n]
  BY <1>2, QueueFrames DEF Queue!CallPush, Enter
<1>4. DOMAIN loc = Thread /\ DOMAIN call = Thread /\ mem \in QueueMem
  BY <1>1 DEF Room, QueueShape
<1>5. mem'.made = n /\ mem'.head = mem.head /\ mem'.tail = mem.tail /\ mem'.next = mem.next
  BY <1>3, <1>4 DEF QueueMem
<1>6. /\ DOMAIN loc' = Thread /\ DOMAIN call' = Thread
      /\ loc'[t] = [pc |-> "push"] /\ call'[t] = <<"push", "R", n>>
      /\ \A u \in Thread : u # t => loc'[u] = loc[u] /\ call'[u] = call[u]
  BY <1>3, <1>4
<1>7. loc'[t].pc = "push" /\ "value" \notin DOMAIN loc'[t]
  BY <1>6
<1>8. Room(MaxNodes)' /\ mem.made < MaxNodes
  BY <1>2, <1>5, <1>6, <1>7, RoomForCall, LockFreeAssumption
<1>9. mem.made \in Nat /\ n \in 1 .. MaxNodes /\ n \in Cell /\ MaxNodes \in Nat
  BY <1>2, <1>8, LockFreeAssumption DEF Room, Cell
<1>10. mem' \in QueueMem
  BY <1>3, <1>4, <1>9 DEF QueueMem
<1>11. QueueShape(mem', p, k, h, l)
  <2>1. PICK w : w = mem'
    OBVIOUS
  <2>2. w \in QueueMem /\ w.head = mem.head /\ w.tail = mem.tail /\ w.made = mem.made + 1 /\ w.next = mem.next
    BY <1>2, <1>5, <1>10, <2>1
  <2>3. QueueShape(w, p, k, h, l)
    BY <1>1, <2>2, QueueAllocates
  <2> QED  BY <2>1, <2>3
<1>12. QueueFrame(t, p, k, h, l)
  BY <1>1 DEF QueueWorkers
<1>13. call[t] = <<>> /\ "value" \notin DOMAIN loc[t] /\ ~At(t, "swing") /\ ~At(t, "swing")'
  BY <1>7, <1>12 DEF QueueFrame, Resting, PushFrame, PopFrame, At
<1>14. QueueFrame(t, p, k, h, l)'
  <2>1. k \in Nat /\ p \in [0 .. k -> 0 .. mem.made]
    BY <1>1, QueueTypes DEF QueueShape
  <2>2. \A i \in 0 .. k : p[i] # n
    BY <1>2, <1>9, <2>1
  <2>3. n \in 1 .. mem'.made /\ call'[t] \in {"push"} \X {"R"} \X (1 .. mem'.made) /\ call'[t][3] = n
    BY <1>5, <1>6, <1>9
  <2> QED  BY <1>7, <2>2, <2>3 DEF QueueFrame, PushFrame, At
<1>15. \A u \in Thread : u # t /\ Adding(u) => call[u][3] # call'[t][3]
  <2> SUFFICES ASSUME NEW u \in Thread, Adding(u) PROVE call[u][3] # n
    BY <1>6
  <2>1. QueueFrame(u, p, k, h, l)
    BY <1>1 DEF QueueWorkers
  <2>2. call[u] \in {"push"} \X {"R"} \X (1 .. mem.made)
    BY <2>1 DEF QueueFrame, Resting, PushFrame, PopFrame, Adding, At
  <2> QED  BY <1>2, <1>9, <2>2
<1>16. /\ QueueOK' /\ Items' = Items
       /\ Results = [u \in Thread |-> Outcome(u, p, l)]
       /\ Results' = [Results EXCEPT ![t] = Value(t)']
  <2>1. mem.made <= mem'.made
    BY <1>2, <1>5, <1>9
  <2> QED  BY <1>1, <1>6, <1>11, <1>13, <1>14, <1>15, <2>1, QueueTurn
<1>17. Results' = Results
  <2>1. Results[t] = Pending /\ Value(t)' = Pending
    BY <1>7, <1>13, <1>16 DEF Outcome, Value
  <2> QED  BY <1>16, <2>1
<1>18. Promise!Invoke(t, <<"push", "R">>, n)
  BY <1>3, <1>13, <1>16, <1>17 DEF Promise!Invoke
<1>19. <<"push", "R">> \in {"push", "pop"} \X {"L", "R"}
  OBVIOUS
<1> QED  BY <1>8, <1>9, <1>16, <1>18, <1>19 DEF QueuePromised, Promise!Next

LEMMA QueueCallPop ==
  ASSUME chosen = "queue", chosen' = chosen, QueueOK, NEW t \in Thread, Room(MaxNodes), left[t] > 0, At(t, "idle"),
         left' = left, Queue!CallPop(t)
  PROVE  QueueOK' /\ Room(MaxNodes)' /\ QueuePromised
<1>1. PICK p, k, h, l : QueueShape(mem, p, k, h, l) /\ QueueWorkers(p, k, h, l)
  BY DEF QueueOK
<1>2. /\ call' = [call EXCEPT ![t] = <<"pop", "L", 1>>] /\ loc' = [loc EXCEPT ![t] = [pc |-> "pop"]]
      /\ mem' = mem
  BY QueueFrames DEF Queue!CallPop, Enter
<1>3. DOMAIN loc = Thread /\ DOMAIN call = Thread /\ mem.made \in Nat
  BY DEF Room
<1>4. /\ DOMAIN loc' = Thread /\ DOMAIN call' = Thread
      /\ loc'[t] = [pc |-> "pop"] /\ call'[t] = <<"pop", "L", 1>>
      /\ \A u \in Thread : u # t => loc'[u] = loc[u] /\ call'[u] = call[u]
  BY <1>2, <1>3
<1>5. loc'[t].pc = "pop" /\ "value" \notin DOMAIN loc'[t]
  BY <1>4
<1>6. Room(MaxNodes)'
  BY <1>2, <1>4, <1>5, RoomForCall, LockFreeAssumption
<1>7. QueueFrame(t, p, k, h, l)
  BY <1>1 DEF QueueWorkers
<1>8. call[t] = <<>> /\ "value" \notin DOMAIN loc[t] /\ ~At(t, "swing") /\ ~At(t, "swing")' /\ ~Adding(t)'
  BY <1>5, <1>7 DEF QueueFrame, Resting, PushFrame, PopFrame, Adding, At
<1>9. QueueFrame(t, p, k, h, l)'
  BY <1>4, <1>5 DEF QueueFrame, PopFrame, At
<1>10. QueueShape(mem', p, k, h, l) /\ mem.made <= mem'.made
  BY <1>1, <1>2, <1>3
<1>11. /\ QueueOK' /\ Items' = Items
       /\ Results = [u \in Thread |-> Outcome(u, p, l)]
       /\ Results' = [Results EXCEPT ![t] = Value(t)']
  BY <1>1, <1>4, <1>8, <1>9, <1>10, QueueTurn
<1>12. Results' = Results
  <2>1. Results[t] = Pending /\ Value(t)' = Pending
    BY <1>5, <1>8, <1>11 DEF Outcome, Value
  <2> QED  BY <1>11, <2>1
<1>13. Promise!Invoke(t, <<"pop", "L">>, 1)
  BY <1>2, <1>8, <1>11, <1>12 DEF Promise!Invoke
<1>14. <<"pop", "L">> \in {"push", "pop"} \X {"L", "R"} /\ 1 \in 1 .. MaxNodes
  BY LockFreeAssumption
<1> QED  BY <1>6, <1>11, <1>13, <1>14 DEF QueuePromised, Promise!Next

LEMMA QueueReturn ==
  ASSUME chosen = "queue", chosen' = chosen, QueueOK, NEW t \in Thread, Room(MaxNodes), Return(t)
  PROVE  QueueOK' /\ Room(MaxNodes)' /\ QueuePromised
<1>1. PICK p, k, h, l : QueueShape(mem, p, k, h, l) /\ QueueWorkers(p, k, h, l)
  BY DEF QueueOK
<1>2. /\ At(t, "return") /\ mem' = mem /\ left' = [left EXCEPT ![t] = @ - 1]
      /\ call' = [call EXCEPT ![t] = <<>>] /\ loc' = [loc EXCEPT ![t] = [pc |-> "idle"]]
  BY DEF Return, Leave, Idle
<1>3. DOMAIN loc = Thread /\ DOMAIN call = Thread /\ mem.made \in Nat
  BY DEF Room
<1>4. /\ DOMAIN loc' = Thread /\ DOMAIN call' = Thread
      /\ loc'[t] = [pc |-> "idle"] /\ call'[t] = <<>>
      /\ \A u \in Thread : u # t => loc'[u] = loc[u] /\ call'[u] = call[u]
  BY <1>2, <1>3
<1>5. loc'[t].pc = "idle" /\ "value" \notin DOMAIN loc'[t]
  BY <1>4
<1>6. Room(MaxNodes)'
  BY <1>2, <1>4, <1>5, RoomStays, LockFreeAssumption DEF At
<1>7. QueueFrame(t, p, k, h, l)
  BY <1>1 DEF QueueWorkers
<1>8. "value" \in DOMAIN loc[t] /\ loc[t].value # Pending /\ ~At(t, "swing") /\ ~At(t, "swing")' /\ ~Adding(t)'
  BY <1>2, <1>5, <1>7 DEF QueueFrame, Resting, PushFrame, PopFrame, Adding, At
<1>9. QueueFrame(t, p, k, h, l)'
  BY <1>4, <1>5 DEF QueueFrame, Resting, At
<1>10. QueueShape(mem', p, k, h, l) /\ mem.made <= mem'.made
  BY <1>1, <1>2, <1>3
<1>11. /\ QueueOK' /\ Items' = Items
       /\ Results = [u \in Thread |-> Outcome(u, p, l)]
       /\ Results' = [Results EXCEPT ![t] = Value(t)']
  BY <1>1, <1>4, <1>8, <1>9, <1>10, QueueTurn
<1>12. Results[t] # Pending /\ Results' = [Results EXCEPT ![t] = Pending]
  <2>1. Results[t] = Outcome(t, p, l) /\ Value(t)' = Pending
    BY <1>5, <1>11 DEF Value
  <2>2. Outcome(t, p, l) # Pending
    BY <1>8 DEF Outcome
  <2> QED  BY <1>11, <2>1, <2>2
<1>13. Promise!Return(t)
  BY <1>2, <1>11, <1>12 DEF Promise!Return
<1> QED  BY <1>6, <1>11, <1>13 DEF QueuePromised, Promise!Next

\* The queue at the start: the nodes are linked in their order behind the sentinel.
LEMMA QueueStarts ==
  ASSUME chosen = "queue", Init
  PROVE  QueueOK /\ Room(MaxNodes)
<1>1. /\ call = [t \in Thread |-> <<>>] /\ loc = [t \in Thread |-> Idle] /\ chosen \in Algorithm /\ Queue!Init
      /\ MaxNodes \in Nat \ {0} /\ Prefill \subseteq 0 .. MaxNodes
  BY LockFreeAssumption DEF Init
<1>2. PICK k \in Prefill : mem = [head |-> 0, tail |-> k, made |-> k,
                                  next |-> [n \in 0 .. MaxNodes |-> IF n < k THEN n + 1 ELSE Nil]]
  BY <1>1, QueueFrames DEF Queue!Init
<1>3. k \in 0 .. MaxNodes /\ MaxNodes \in Nat
  BY <1>1
<1>4. /\ mem.head = 0 /\ mem.tail = k /\ mem.made = k
      /\ mem.next = [n \in 0 .. MaxNodes |-> IF n < k THEN n + 1 ELSE Nil]
  BY <1>2
<1>5. mem \in QueueMem
  <2>1. [n \in 0 .. MaxNodes |-> IF n < k THEN n + 1 ELSE Nil] \in [Cell -> Place]
    BY <1>3 DEF Cell, Place, Nil
  <2>2. 0 \in Cell /\ k \in Cell
    BY <1>3 DEF Cell
  <2> QED  BY <1>2, <2>1, <2>2 DEF QueueMem
<1> DEFINE p == [i \in 0 .. k |-> i]
<1>6. QueueShape(mem, p, k, 0, k)
  <2>1. /\ k \in Nat /\ k \in 0 .. k /\ 0 \in 0 .. k /\ k <= k + 1
        /\ p \in [0 .. k -> 0 .. mem.made] /\ p[0] = 0 /\ p[k] = k
        /\ \A i, j \in 0 .. k : p[i] = p[j] => i = j
    BY <1>3, <1>4
  <2>2. \A i \in 0 .. k - 1 : mem.next[p[i]] = p[i + 1]
    BY <1>3, <1>4
  <2>3. \A n \in Cell : ~(n < k) => mem.next[n] = Nil
    BY <1>3, <1>4 DEF Cell
  <2>4. mem.next[p[k]] = Nil
    BY <1>3, <2>1, <2>3 DEF Cell
  <2>5. \A n \in Cell : (\A i \in 0 .. k : p[i] # n) => mem.next[n] = Nil
    <3>1. ASSUME NEW n \in Cell, n < k PROVE n \in 0 .. k /\ p[n] = n
      BY <1>3, <3>1 DEF Cell
    <3> QED  BY <2>3, <3>1
  <2> QED  BY <1>4, <1>5, <2>1, <2>2, <2>4, <2>5 DEF QueueShape
<1>7. \A t \in Thread : loc[t].pc = "idle" /\ "value" \notin DOMAIN loc[t] /\ call[t] = <<>>
  BY <1>1 DEF Idle
<1>8. QueueWorkers(p, k, 0, k)
  <2>1. k # k + 1
    BY <1>3
  <2> QED  BY <1>7, <2>1 DEF QueueWorkers, QueueFrame, Resting, Adding, At
<1>9. QueueOK
  BY <1>6, <1>8 DEF QueueOK
<1>10. Room(MaxNodes)
  <2>1. k \in Prefill \union {0} /\ MaxNodes - MaxNodes = 0 /\ mem.made - k <= 0
    BY <1>3, <1>4
  <2> QED  BY <1>3, <1>4, <2>1, RoomStarts
<1> QED  BY <1>9, <1>10

\* A step that changes nothing.
LEMMA QueueStays ==
  ASSUME chosen = "queue", chosen' = chosen, QueueOK, mem' = mem, call' = call, loc' = loc, left' = left
  PROVE  QueueOK' /\ UNCHANGED promised
<1>1. PICK p, k, h, l : QueueShape(mem, p, k, h, l) /\ QueueWorkers(p, k, h, l)
  BY DEF QueueOK
<1>2. QueueShape(mem', p, k, h, l)
  BY <1>1
<1>3. QueueWorkers(p, k, h, l)'
  BY <1>1 DEF QueueWorkers, QueueFrame, Resting, PushFrame, PopFrame, LastAt, FirstAt, NextAt, NextNil, Adding, At
<1>4. QueueOK'
  BY <1>2, <1>3 DEF QueueOK
<1>5. /\ Items = Span(p, h, l) /\ Items' = Span(p, h, l)
      /\ Results = [u \in Thread |-> Outcome(u, p, l)]
      /\ Results' = [u \in Thread |-> Outcome(u, p, l)']
  BY <1>1, <1>2, <1>3, QueueView
<1>6. \A u \in Thread : Outcome(u, p, l)' = Outcome(u, p, l)
  BY DEF Outcome, At
<1> QED  BY <1>4, <1>5, <1>6 DEF promised

-----------------------------------------------------------------------------
(***************************************************************************)
(* The work-stealing deque: which buffers the stealers may still read.     *)
(***************************************************************************)
Stealer == Thread \ {Owner}

\* A stealer has a record of its own, which is busy, without a buffer, from
\* before it loads the buffer until it has read the slot.
Enlisted(t) ==
  loc[t].pc \in {"busy", "steal", "steal_bottom", "steal_buffer", "claim", "get", "rest", "last", "last_id"}
Busy(t) == loc[t].pc \in {"steal", "steal_bottom", "steal_buffer", "claim", "get", "rest"}
Holds(t) == loc[t].pc \in {"claim", "get"}

RecordsOK ==
  /\ mem.tls \in Seq([idle : BOOLEAN, id : Nat]) /\ Len(mem.tls) > 0
  /\ \A t \in Stealer :
       /\ Enlisted(t) \/ At(t, "enlist") => "tls" \in DOMAIN loc[t]
       /\ Enlisted(t) => loc[t].tls \in 1 .. Len(mem.tls)
       /\ Enlisted(t) /\ loc[t].pc \notin {"last", "last_id"} => mem.tls[loc[t].tls].id = 0
       /\ Busy(t) => ~mem.tls[loc[t].tls].idle
       /\ At(t, "last_id") => "buffer" \in DOMAIN loc[t] /\ loc[t].buffer \in Nat
  /\ \A t, u \in Stealer : t # u /\ Enlisted(t) /\ Enlisted(u) => loc[t].tls # loc[u].tls

\* The buffer of a stealer is not deleted.
BuffersOK ==
  /\ mem.buffer \in Nat /\ mem.unlinked \in -1 .. mem.buffer /\ (mem.unlinked = -1 => mem.buffer = 0)
  /\ \A t \in Stealer :
       Holds(t) => "buffer" \in DOMAIN loc[t] /\ loc[t].buffer \in Nat /\ mem.unlinked <= loc[t].buffer

\* Nor will it be when the owner has gone through the records: it has still to
\* come to the stealer's, or the stealer loads its buffer later.
Scanning == loc[Owner].pc \in {"scan", "scan_id"}
ScanOK ==
  /\ loc[Owner].pc \in {"resize", "reclaim", "scan", "scan_id", "delete"} =>
       "after" \in DOMAIN loc[Owner] /\ loc[Owner].after \in {"put", "return"}
  /\ Scanning => "tls" \in DOMAIN loc[Owner] /\ loc[Owner].tls \in 1 .. Len(mem.tls)
  /\ Scanning \/ At(Owner, "delete") =>
       /\ "min" \in DOMAIN loc[Owner] /\ loc[Owner].min \in 0 .. mem.buffer
       /\ \A t \in Stealer : Holds(t) => \/ loc[Owner].min <= loc[t].buffer
                                         \/ Scanning /\ loc[t].tls <= loc[Owner].tls

StealingOK ==
  /\ DOMAIN loc = Thread /\ Owner \in Thread
  /\ {"tls", "buffer", "unlinked", "undefined"} \subseteq DOMAIN mem
  /\ RecordsOK /\ BuffersOK /\ ScanOK /\ "slot" \notin mem.undefined

\* The operators of Frames are those of the deque.
LEMMA StealingFrames ==
  /\ \A t, x : Stealing!At(t, x) <=> At(t, x)
  /\ \A t, f : Stealing!Go(t, f) <=> Go(t, f)
  /\ \A t, c, x : Stealing!Enter(t, c, x) <=> Enter(t, c, x)
  /\ \A t, v : Stealing!Returns(t, v) <=> Go(t, [pc |-> "return", value |-> v])
BY DEF Stealing!At, At, Stealing!Go, Go, Stealing!Updated, Updated, Stealing!Enter, Enter, Stealing!Returns

\* A step of a stealer writes at most its own record, and loads the buffer
\* while its record is busy.
LEMMA StealerMoves ==
  ASSUME StealingOK, NEW t \in Stealer, DOMAIN loc' = Thread, \A u \in Thread : u # t => loc'[u] = loc[u],
         {"tls", "buffer", "unlinked", "undefined"} \subseteq DOMAIN mem',
         mem'.buffer = mem.buffer, mem'.unlinked = mem.unlinked, "slot" \notin mem'.undefined,
         mem'.tls \in Seq([idle : BOOLEAN, id : Nat]), Len(mem.tls) <= Len(mem'.tls),
         \A u \in Stealer : u # t /\ Enlisted(u) => mem'.tls[loc[u].tls] = mem.tls[loc[u].tls],
         Enlisted(t)' \/ At(t, "enlist")' => "tls" \in DOMAIN loc'[t],
         Enlisted(t)' => /\ loc'[t].tls \in 1 .. Len(mem'.tls)
                         /\ \A u \in Stealer : u # t /\ Enlisted(u) => loc[u].tls # loc'[t].tls,
         Enlisted(t)' /\ loc'[t].pc \notin {"last", "last_id"} => mem'.tls[loc'[t].tls].id = 0,
         Busy(t)' => ~mem'.tls[loc'[t].tls].idle,
         At(t, "last_id")' => "buffer" \in DOMAIN loc'[t] /\ loc'[t].buffer \in Nat,
         Holds(t)' => /\ "buffer" \in DOMAIN loc'[t] /\ loc'[t].buffer \in Nat
                      /\ \/ loc'[t].buffer = mem.buffer
                         \/ Holds(t) /\ loc'[t].buffer = loc[t].buffer /\ loc'[t].tls = loc[t].tls
  PROVE  StealingOK'
<1>1. Owner \in Thread /\ Owner # t /\ loc'[Owner] = loc[Owner] /\ mem.tls \in Seq([idle : BOOLEAN, id : Nat]) /\ Len(mem.tls) > 0
  BY DEF StealingOK, Stealer, RecordsOK
<1>2. Len(mem.tls) \in Nat /\ Len(mem'.tls) \in Nat
  BY <1>1, LenProperties
<1>3. ASSUME NEW u \in Stealer, u # t
      PROVE  /\ Enlisted(u)' <=> Enlisted(u)
             /\ Busy(u)' <=> Busy(u)
             /\ Holds(u)' <=> Holds(u)
             /\ loc'[u] = loc[u] /\ (At(u, "enlist")' <=> At(u, "enlist")) /\ (At(u, "last_id")' <=> At(u, "last_id"))
  BY <1>3 DEF Stealer, Enlisted, Busy, Holds, At
<1>4. RecordsOK'
  <2>1. Len(mem'.tls) > 0
    BY <1>1, <1>2
  <2>2. ASSUME NEW u \in Stealer, u # t
        PROVE  /\ Enlisted(u)' \/ At(u, "enlist")' => "tls" \in DOMAIN loc'[u]
               /\ Enlisted(u)' => loc'[u].tls \in 1 .. Len(mem'.tls)
               /\ Enlisted(u)' /\ loc'[u].pc \notin {"last", "last_id"} => mem'.tls[loc'[u].tls].id = 0
               /\ Busy(u)' => ~mem'.tls[loc'[u].tls].idle
               /\ At(u, "last_id")' => "buffer" \in DOMAIN loc'[u] /\ loc'[u].buffer \in Nat
    <3>1. /\ Enlisted(u) \/ At(u, "enlist") => "tls" \in DOMAIN loc[u]
          /\ Enlisted(u) => loc[u].tls \in 1 .. Len(mem.tls)
          /\ Enlisted(u) /\ loc[u].pc \notin {"last", "last_id"} => mem.tls[loc[u].tls].id = 0
          /\ Busy(u) => ~mem.tls[loc[u].tls].idle
          /\ At(u, "last_id") => "buffer" \in DOMAIN loc[u] /\ loc[u].buffer \in Nat
      BY DEF StealingOK, RecordsOK
    <3>2. 1 .. Len(mem.tls) \subseteq 1 .. Len(mem'.tls)
      BY <1>2
    <3>3. Busy(u) => Enlisted(u)
      BY DEF Busy, Enlisted
    <3> QED  BY <1>3, <2>2, <3>1, <3>2, <3>3
  <2>3. \A u, v \in Stealer : u # v /\ Enlisted(u)' /\ Enlisted(v)' => loc'[u].tls # loc'[v].tls
    <3>1. \A u, v \in Stealer : u # v /\ Enlisted(u) /\ Enlisted(v) => loc[u].tls # loc[v].tls
      BY DEF StealingOK, RecordsOK
    <3> QED  BY <1>3, <3>1
  <2> QED  BY <2>1, <2>2, <2>3 DEF RecordsOK
<1>5. BuffersOK'
  <2>1. /\ mem.buffer \in Nat /\ mem.unlinked \in -1 .. mem.buffer /\ (mem.unlinked = -1 => mem.buffer = 0)
        /\ \A u \in Stealer : Holds(u) => "buffer" \in DOMAIN loc[u] /\ loc[u].buffer \in Nat /\ mem.unlinked <= loc[u].buffer
    BY DEF StealingOK, BuffersOK
  <2>2. Holds(t)' => mem.unlinked <= loc'[t].buffer
    BY <2>1
  <2> QED  BY <1>3, <2>1, <2>2 DEF BuffersOK
<1>6. ScanOK'
  <2>1. /\ loc[Owner].pc \in {"resize", "reclaim", "scan", "scan_id", "delete"} =>
             "after" \in DOMAIN loc[Owner] /\ loc[Owner].after \in {"put", "return"}
        /\ Scanning => "tls" \in DOMAIN loc[Owner] /\ loc[Owner].tls \in 1 .. Len(mem.tls)
        /\ Scanning \/ At(Owner, "delete") =>
             /\ "min" \in DOMAIN loc[Owner] /\ loc[Owner].min \in 0 .. mem.buffer
             /\ \A u \in Stealer : Holds(u) => \/ loc[Owner].min <= loc[u].buffer
                                               \/ Scanning /\ loc[u].tls <= loc[Owner].tls
    BY DEF StealingOK, ScanOK
  <2>2. (Scanning' <=> Scanning) /\ (At(Owner, "delete")' <=> At(Owner, "delete"))
    BY <1>1 DEF Scanning, At
  <2>3. Scanning => loc[Owner].tls \in 1 .. Len(mem'.tls)
    BY <1>2, <2>1
  <2>4. ASSUME Scanning \/ At(Owner, "delete"), NEW u \in Stealer, Holds(u)'
        PROVE  loc[Owner].min <= loc'[u].buffer \/ (Scanning /\ loc'[u].tls <= loc[Owner].tls)
    <3>1. loc[Owner].min <= mem.buffer
      BY <2>1, <2>4
    <3> QED  BY <1>3, <2>1, <2>4, <3>1
  <2> QED  BY <1>1, <2>1, <2>2, <2>3, <2>4 DEF ScanOK
<1> QED  BY <1>1, <1>4, <1>5, <1>6 DEF StealingOK

\* A step of the owner.
LEMMA OwnerMoves ==
  ASSUME StealingOK, DOMAIN loc' = Thread, \A u \in Stealer : loc'[u] = loc[u],
         {"tls", "buffer", "unlinked", "undefined"} \subseteq DOMAIN mem',
         mem'.tls = mem.tls, "slot" \notin mem'.undefined,
         mem'.buffer \in Nat, mem'.unlinked \in -1 .. mem'.buffer, mem'.unlinked = -1 => mem'.buffer = 0,
         \A t \in Stealer : Holds(t) => mem'.unlinked <= loc[t].buffer,
         ScanOK'
  PROVE  StealingOK'
<1>1. \A u \in Stealer : /\ Enlisted(u)' <=> Enlisted(u)
                         /\ Busy(u)' <=> Busy(u)
                         /\ Holds(u)' <=> Holds(u)
                         /\ (At(u, "enlist")' <=> At(u, "enlist")) /\ (At(u, "last_id")' <=> At(u, "last_id"))
  BY DEF Enlisted, Busy, Holds, At
<1>2. RecordsOK'
  BY <1>1 DEF StealingOK, RecordsOK
<1>3. BuffersOK'
  BY <1>1 DEF StealingOK, BuffersOK
<1> QED  BY <1>2, <1>3 DEF StealingOK

\* A step of the owner after which it is not at the records, and that leaves
\* the buffers as they are.
OwnerAway ==
  /\ DOMAIN loc' = Thread /\ \A u \in Stealer : loc'[u] = loc[u]
  /\ {"tls", "buffer", "unlinked", "undefined"} \subseteq DOMAIN mem'
  /\ mem'.tls = mem.tls /\ mem'.buffer = mem.buffer /\ mem'.unlinked = mem.unlinked /\ mem'.undefined = mem.undefined
  /\ loc'[Owner].pc \notin {"scan", "scan_id", "delete"}
  /\ loc'[Owner].pc \in {"resize", "reclaim"} =>
       "after" \in DOMAIN loc'[Owner] /\ loc'[Owner].after \in {"put", "return"}

LEMMA OwnerStaysAway ==
  ASSUME StealingOK, OwnerAway
  PROVE  StealingOK'
<1>1. ScanOK'
  BY DEF OwnerAway, ScanOK, Scanning, At
<1>2. /\ mem.buffer \in Nat /\ mem.unlinked \in -1 .. mem.buffer /\ (mem.unlinked = -1 => mem.buffer = 0)
      /\ \A t \in Stealer : Holds(t) => mem.unlinked <= loc[t].buffer
      /\ "slot" \notin mem.undefined
  BY DEF StealingOK, BuffersOK
<1> QED  BY <1>1, <1>2, OwnerMoves DEF OwnerAway

\* The owner goes on at a frame.
LEMMA OwnerGoFacts ==
  ASSUME StealingOK, NEW frame, Go(Owner, frame)
  PROVE  /\ DOMAIN loc' = Thread /\ \A u \in Stealer : loc'[u] = loc[u]
         /\ DOMAIN loc'[Owner] = DOMAIN frame \union DOMAIN loc[Owner]
         /\ \A x \in DOMAIN frame : loc'[Owner][x] = frame[x]
         /\ \A x \in DOMAIN loc[Owner] \ DOMAIN frame : loc'[Owner][x] = loc[Owner][x]
<1>1. DOMAIN loc = Thread /\ Owner \in Thread
  BY DEF StealingOK
<1> QED  BY <1>1, GoFacts DEF Stealer

LEMMA OwnerGoesAway ==
  ASSUME StealingOK, NEW frame, Go(Owner, frame), mem' = mem, "pc" \in DOMAIN frame,
         frame.pc \notin {"scan", "scan_id", "delete"},
         frame.pc \in {"resize", "reclaim"} => "after" \in DOMAIN frame /\ frame.after \in {"put", "return"}
  PROVE  OwnerAway
<1>1. /\ DOMAIN loc' = Thread /\ \A u \in Stealer : loc'[u] = loc[u]
      /\ DOMAIN loc'[Owner] = DOMAIN frame \union DOMAIN loc[Owner]
      /\ \A x \in DOMAIN frame : loc'[Owner][x] = frame[x]
  BY OwnerGoFacts
<1>2. loc'[Owner].pc = frame.pc
  BY <1>1
<1>3. "after" \in DOMAIN frame => "after" \in DOMAIN loc'[Owner] /\ loc'[Owner].after = frame.after
  BY <1>1
<1> QED  BY <1>1, <1>2, <1>3 DEF OwnerAway, StealingOK

LEMMA OwnerGoesOn ==
  ASSUME StealingOK, NEW resize, NEW frame, mem' = mem, "pc" \in DOMAIN frame, "after" \notin DOMAIN frame,
         frame.pc \in {"put", "return"}, Stealing!OwnerGoes(resize, frame)
  PROVE  OwnerAway
<1> DEFINE then == Updated(frame, [after |-> frame.pc])
           grow == Updated(then, [pc |-> "resize", size |-> resize])
           reclaim == Updated(then, [pc |-> "reclaim"])
<1>1. Go(Owner, CASE resize # 0 -> grow [] resize = 0 /\ mem.unlinked # -1 -> reclaim [] OTHER -> frame)
  BY StealingFrames DEF Stealing!OwnerGoes, Stealing!Updated, Updated, Stealing!None
<1>2. "after" \in DOMAIN then /\ then["after"] = frame.pc /\ "pc" \in DOMAIN then
  BY DEF Updated
<1> HIDE DEF then
<1>3. /\ "pc" \in DOMAIN grow /\ grow["pc"] = "resize" /\ "after" \in DOMAIN grow /\ grow["after"] = frame.pc
      /\ "pc" \in DOMAIN reclaim /\ reclaim["pc"] = "reclaim" /\ "after" \in DOMAIN reclaim /\ reclaim["after"] = frame.pc
  BY <1>2 DEF Updated
<1> HIDE DEF grow, reclaim
<1>4. \/ Go(Owner, grow) \/ Go(Owner, reclaim) \/ Go(Owner, frame)
  BY <1>1
<1> QED  BY <1>3, <1>4, OwnerGoesAway

LEMMA StealingOwnerCalls ==
  ASSUME StealingOK, Stealing!CallPush \/ Stealing!CallPop
  PROVE  StealingOK'
<1>1. PICK x \in {"push", "pop"} : \E c : Enter(Owner, c, x)
  BY StealingFrames DEF Stealing!CallPush, Stealing!CallPop
<1>2. /\ {"tls", "buffer", "unlinked", "undefined"} \subseteq DOMAIN mem'
      /\ mem'.tls = mem.tls /\ mem'.buffer = mem.buffer /\ mem'.unlinked = mem.unlinked /\ mem'.undefined = mem.undefined
  BY DEF Stealing!CallPush, Stealing!CallPop, StealingOK
<1>3. DOMAIN loc = Thread /\ Owner \in Thread
  BY DEF StealingOK
<1>4. DOMAIN loc' = Thread /\ (\A u \in Stealer : loc'[u] = loc[u]) /\ loc'[Owner] = [pc |-> x]
  BY <1>1, <1>3 DEF Enter, Stealer
<1>5. loc'[Owner].pc = x
  BY <1>4
<1> QED  BY <1>2, <1>4, <1>5, OwnerStaysAway DEF OwnerAway

LEMMA StealingPushTop ==
  ASSUME StealingOK, Stealing!PushTop
  PROVE  StealingOK'
<1> DEFINE frame == [pc |-> "put", top |-> mem.top, end |-> mem.bottom]
<1>1. PICK r : Stealing!OwnerGoes(r, frame) /\ mem' = mem
  BY DEF Stealing!PushTop
<1>2. "pc" \in DOMAIN frame /\ frame["pc"] = "put" /\ "after" \notin DOMAIN frame
  OBVIOUS
<1> HIDE DEF frame
<1> QED  BY <1>1, <1>2, OwnerGoesOn, OwnerStaysAway

\* The owner goes on at a frame away from the records, and stores the top, the
\* bottom or a slot.
LEMMA OwnerWrites ==
  ASSUME StealingOK, NEW frame, Go(Owner, frame), "pc" \in DOMAIN frame,
         frame.pc \in {"publish", "return", "pop_top", "restore", "race"},
         {"tls", "buffer", "unlinked", "undefined"} \subseteq DOMAIN mem',
         mem'.tls = mem.tls, mem'.buffer = mem.buffer, mem'.unlinked = mem.unlinked, mem'.undefined = mem.undefined
  PROVE  StealingOK'
<1>1. /\ DOMAIN loc' = Thread /\ \A u \in Stealer : loc'[u] = loc[u]
      /\ \A x \in DOMAIN frame : loc'[Owner][x] = frame[x]
  BY OwnerGoFacts
<1>2. loc'[Owner].pc = frame.pc
  BY <1>1
<1> QED  BY <1>1, <1>2, OwnerStaysAway DEF OwnerAway

LEMMA StealingPushStores ==
  ASSUME StealingOK, Stealing!PushStores
  PROVE  StealingOK'
<1>1. {"tls", "buffer", "unlinked", "undefined"} \subseteq DOMAIN mem
  BY DEF StealingOK
<1>2. /\ {"tls", "buffer", "unlinked", "undefined"} \subseteq DOMAIN mem'
      /\ mem'.tls = mem.tls /\ mem'.buffer = mem.buffer /\ mem'.unlinked = mem.unlinked /\ mem'.undefined = mem.undefined
  BY <1>1 DEF Stealing!PushStores
<1>3. Go(Owner, [pc |-> "publish"]) \/ Go(Owner, [pc |-> "return", value |-> Void])
  BY StealingFrames DEF Stealing!PushStores
<1>4. CASE Go(Owner, [pc |-> "publish"])
  BY <1>2, <1>4, OwnerWrites
<1>5. CASE Go(Owner, [pc |-> "return", value |-> Void])
  <2> DEFINE frame == [pc |-> "return", value |-> Void]
  <2>1. "pc" \in DOMAIN frame /\ frame["pc"] = "return"
    OBVIOUS
  <2> HIDE DEF frame
  <2>2. Go(Owner, frame)
    BY <1>5 DEF frame
  <2> QED  BY <1>2, <2>1, <2>2, OwnerWrites
<1> QED  BY <1>3, <1>4, <1>5

\* A frame with a value, at restore or return.
LEMMA OwnerHasValue ==
  ASSUME StealingOK, NEW x \in {"restore", "return"}, NEW v, Go(Owner, [pc |-> x, value |-> v]),
         {"tls", "buffer", "unlinked", "undefined"} \subseteq DOMAIN mem',
         mem'.tls = mem.tls, mem'.buffer = mem.buffer, mem'.unlinked = mem.unlinked, mem'.undefined = mem.undefined
  PROVE  StealingOK'
<1> DEFINE frame == [pc |-> x, value |-> v]
<1>1. "pc" \in DOMAIN frame /\ frame["pc"] = x
  OBVIOUS
<1> HIDE DEF frame
<1>2. Go(Owner, frame)
  BY DEF frame
<1> QED  BY <1>1, <1>2, OwnerWrites

LEMMA StealingPopBottom ==
  ASSUME StealingOK, Stealing!PopBottom
  PROVE  StealingOK'
<1>1. {"tls", "buffer", "unlinked", "undefined"} \subseteq DOMAIN mem
  BY DEF StealingOK
<1>2. CASE mem' = [mem EXCEPT !.bottom = @ - 1] /\ Go(Owner, [pc |-> "pop_top"])
  <2>1. /\ {"tls", "buffer", "unlinked", "undefined"} \subseteq DOMAIN mem'
        /\ mem'.tls = mem.tls /\ mem'.buffer = mem.buffer /\ mem'.unlinked = mem.unlinked /\ mem'.undefined = mem.undefined
    BY <1>1, <1>2
  <2> QED  BY <1>2, <2>1, OwnerWrites
<1>3. CASE Go(Owner, [pc |-> "restore", value |-> Empty]) /\ mem' = mem
  BY <1>1, <1>3, OwnerHasValue
<1>4. CASE Go(Owner, [pc |-> "race", top |-> mem.top]) /\ mem' = mem
  <2> DEFINE frame == [pc |-> "race", top |-> mem.top]
  <2>1. "pc" \in DOMAIN frame /\ frame["pc"] = "race"
    OBVIOUS
  <2> HIDE DEF frame
  <2>2. Go(Owner, frame)
    BY <1>4 DEF frame
  <2> QED  BY <1>1, <1>4, <2>1, <2>2, OwnerWrites
<1>5. ASSUME NEW r, mem' = mem,
             Stealing!OwnerGoes(r, [pc |-> "return", top |-> mem.top, end |-> mem.bottom + 1,
                                    value |-> Stealing!Get(mem.buffer, mem.bottom)])
      PROVE  StealingOK'
  <2> DEFINE frame == [pc |-> "return", top |-> mem.top, end |-> mem.bottom + 1,
                       value |-> Stealing!Get(mem.buffer, mem.bottom)]
  <2>1. "pc" \in DOMAIN frame /\ frame["pc"] = "return" /\ "after" \notin DOMAIN frame
    OBVIOUS
  <2> HIDE DEF frame
  <2>2. Stealing!OwnerGoes(r, frame)
    BY <1>5 DEF frame
  <2> QED  BY <1>5, <2>1, <2>2, OwnerGoesOn, OwnerStaysAway
<1> DEFINE size == mem.bottom + 1 - mem.top
           shrink == size <= Stealing!Size(mem.buffer) \div 3 /\ size > 2 ^ LogInitial
           frame == [pc |-> "return", top |-> mem.top, end |-> mem.bottom + 1,
                     value |-> Stealing!Get(mem.buffer, mem.bottom)]
<1>6. \/ mem' = [mem EXCEPT !.bottom = @ - 1] /\ Stealing!Go(Owner, [pc |-> "pop_top"])
      \/ /\ mem' = mem
         /\ CASE size <= 0 -> Stealing!Go(Owner, [pc |-> "restore", value |-> Empty])
              [] size = 1 -> Stealing!Go(Owner, [pc |-> "race", top |-> mem.top])
              [] OTHER -> Stealing!OwnerGoes(IF shrink THEN Stealing!Size(mem.buffer) \div 2 ELSE 0, frame)
  BY DEF Stealing!PopBottom
<1>7. \/ mem' = [mem EXCEPT !.bottom = @ - 1] /\ Stealing!Go(Owner, [pc |-> "pop_top"])
      \/ mem' = mem /\ Stealing!Go(Owner, [pc |-> "restore", value |-> Empty])
      \/ mem' = mem /\ Stealing!Go(Owner, [pc |-> "race", top |-> mem.top])
      \/ mem' = mem /\ Stealing!OwnerGoes(IF shrink THEN Stealing!Size(mem.buffer) \div 2 ELSE 0, frame)
  <2> HIDE DEF size, shrink, frame
  <2> QED  BY <1>6
<1>8. ASSUME mem' = mem, Stealing!OwnerGoes(IF shrink THEN Stealing!Size(mem.buffer) \div 2 ELSE 0, frame)
      PROVE  StealingOK'
  BY <1>5, <1>8
<1> HIDE DEF size, shrink, frame
<1> QED  BY <1>2, <1>3, <1>4, <1>7, <1>8, StealingFrames

LEMMA StealingPopLast ==
  ASSUME StealingOK, Stealing!PopLast
  PROVE  StealingOK'
<1>1. {"tls", "buffer", "unlinked", "undefined"} \subseteq DOMAIN mem
  BY DEF StealingOK
<1>2. /\ {"tls", "buffer", "unlinked", "undefined"} \subseteq DOMAIN mem'
      /\ mem'.tls = mem.tls /\ mem'.buffer = mem.buffer /\ mem'.unlinked = mem.unlinked /\ mem'.undefined = mem.undefined
  BY <1>1 DEF Stealing!PopLast
<1>3. \/ Go(Owner, [pc |-> "restore", value |-> Stealing!Get(mem.buffer, loc[Owner].top)])
      \/ Go(Owner, [pc |-> "restore", value |-> Empty])
      \/ Go(Owner, [pc |-> "return", value |-> loc[Owner].value])
  BY StealingFrames DEF Stealing!PopLast
<1> QED  BY <1>2, <1>3, OwnerHasValue

\* The new buffer has the next id; the old one is unlinked, if none is.
LEMMA StealingStoreBuffer ==
  ASSUME StealingOK, Stealing!StoreBuffer
  PROVE  StealingOK'
<1>1. /\ loc[Owner].pc = "resize" /\ Go(Owner, [pc |-> "reclaim"])
      /\ mem'.tls = mem.tls /\ mem'.undefined = mem.undefined /\ mem'.buffer = mem.buffer + 1
      /\ mem'.unlinked = (IF mem.unlinked = -1 THEN mem.buffer ELSE mem.unlinked)
      /\ {"tls", "buffer", "unlinked", "undefined"} \subseteq DOMAIN mem'
  BY StealingFrames DEF Stealing!StoreBuffer, Stealing!None, StealingOK, At
<1>2. /\ mem.buffer \in Nat /\ mem.unlinked \in -1 .. mem.buffer /\ (mem.unlinked = -1 => mem.buffer = 0)
      /\ \A t \in Stealer : Holds(t) => loc[t].buffer \in Nat /\ mem.unlinked <= loc[t].buffer
      /\ "slot" \notin mem.undefined
  BY DEF StealingOK, BuffersOK
<1>3. /\ DOMAIN loc' = Thread /\ \A u \in Stealer : loc'[u] = loc[u]
      /\ loc'[Owner].pc = "reclaim"
      /\ \A x \in DOMAIN loc[Owner] : x # "pc" => x \in DOMAIN loc'[Owner] /\ loc'[Owner][x] = loc[Owner][x]
  BY <1>1, OwnerGoFacts
<1>4. "after" \in DOMAIN loc[Owner] /\ loc[Owner].after \in {"put", "return"}
  BY <1>1 DEF StealingOK, ScanOK
<1>5. "after" \in DOMAIN loc'[Owner] /\ loc'[Owner].after = loc[Owner].after
  BY <1>3, <1>4
<1>6. ScanOK'
  BY <1>3, <1>4, <1>5 DEF ScanOK, Scanning, At
<1>7. /\ mem'.buffer \in Nat /\ mem'.unlinked \in -1 .. mem'.buffer /\ mem'.unlinked # -1
      /\ \A t \in Stealer : Holds(t) => mem'.unlinked <= loc[t].buffer
  BY <1>1, <1>2
<1> QED  BY <1>1, <1>2, <1>3, <1>6, <1>7, OwnerMoves

\* The owner at the records: every stealer that holds a buffer is below it in
\* the list, or its buffer is not below the least id so far.
LEMMA OwnerScans ==
  ASSUME StealingOK, mem' = mem, DOMAIN loc' = Thread, \A u \in Stealer : loc'[u] = loc[u],
         loc'[Owner].pc \in {"scan", "scan_id", "delete"},
         "after" \in DOMAIN loc'[Owner], loc'[Owner].after \in {"put", "return"},
         "tls" \in DOMAIN loc'[Owner], loc'[Owner].pc = "delete" \/ loc'[Owner].tls \in 1 .. Len(mem.tls),
         "min" \in DOMAIN loc'[Owner], loc'[Owner].min \in 0 .. mem.buffer,
         \A t \in Stealer : Holds(t) => \/ loc'[Owner].min <= loc[t].buffer
                                        \/ loc'[Owner].pc # "delete" /\ loc[t].tls <= loc'[Owner].tls
  PROVE  StealingOK'
<1>1. \A t \in Stealer : Holds(t)' <=> Holds(t)
  BY DEF Holds
<1>2. ScanOK'
  BY <1>1 DEF ScanOK, Scanning, At
<1>3. /\ mem.buffer \in Nat /\ mem.unlinked \in -1 .. mem.buffer /\ (mem.unlinked = -1 => mem.buffer = 0)
      /\ \A t \in Stealer : Holds(t) => mem.unlinked <= loc[t].buffer
      /\ "slot" \notin mem.undefined /\ {"tls", "buffer", "unlinked", "undefined"} \subseteq DOMAIN mem
  BY DEF StealingOK, BuffersOK
<1> QED  BY <1>2, <1>3, OwnerMoves

\* A record has been passed: its stealer holds no buffer, or none below the least id.
LEMMA OwnerScanned ==
  ASSUME StealingOK, mem' = mem, Scanning, NEW min \in 0 .. loc[Owner].min,
         Stealing!Scanned(loc[Owner].tls, min),
         \A t \in Stealer : Holds(t) /\ loc[t].tls = loc[Owner].tls => min <= loc[t].buffer
  PROVE  StealingOK'
<1>1. /\ "tls" \in DOMAIN loc[Owner] /\ loc[Owner].tls \in 1 .. Len(mem.tls)
      /\ "after" \in DOMAIN loc[Owner] /\ loc[Owner].after \in {"put", "return"}
      /\ loc[Owner].min \in 0 .. mem.buffer
      /\ \A t \in Stealer : Holds(t) => loc[Owner].min <= loc[t].buffer \/ loc[t].tls <= loc[Owner].tls
  BY DEF StealingOK, ScanOK, Scanning
<1>2. Len(mem.tls) \in Nat /\ mem.buffer \in Nat
  BY LenProperties DEF StealingOK, RecordsOK, BuffersOK
<1>3. \A t \in Stealer : Holds(t) => loc[t].tls \in 1 .. Len(mem.tls) /\ loc[t].buffer \in Nat
  BY DEF StealingOK, RecordsOK, BuffersOK, Holds, Enlisted
<1> DEFINE x == IF loc[Owner].tls = 1 THEN "delete" ELSE "scan"
           frame == [pc |-> x, tls |-> loc[Owner].tls - 1, min |-> min]
<1>4. Go(Owner, frame)
  BY StealingFrames DEF Stealing!Scanned
<1>5. DOMAIN frame = {"pc", "tls", "min"} /\ frame["pc"] = x /\ frame["tls"] = loc[Owner].tls - 1 /\ frame["min"] = min
  OBVIOUS
<1>6. x \in {"delete", "scan"} /\ (x = "delete" <=> loc[Owner].tls = 1)
  OBVIOUS
<1> HIDE DEF frame, x
<1>7. /\ DOMAIN loc' = Thread /\ \A u \in Stealer : loc'[u] = loc[u]
      /\ DOMAIN loc'[Owner] = DOMAIN frame \union DOMAIN loc[Owner]
      /\ \A y \in DOMAIN frame : loc'[Owner][y] = frame[y]
      /\ \A y \in DOMAIN loc[Owner] \ DOMAIN frame : loc'[Owner][y] = loc[Owner][y]
  BY <1>4, OwnerGoFacts
<1>8. /\ loc'[Owner].pc = x /\ loc'[Owner].tls = loc[Owner].tls - 1 /\ loc'[Owner].min = min
      /\ loc'[Owner].after = loc[Owner].after /\ {"tls", "min", "after"} \subseteq DOMAIN loc'[Owner]
  BY <1>1, <1>5, <1>7
<1>9. x = "delete" \/ loc[Owner].tls - 1 \in 1 .. Len(mem.tls)
  BY <1>1, <1>2, <1>6
<1>10. min \in 0 .. mem.buffer /\ min <= loc[Owner].min
  BY <1>1, <1>2
<1>11. ASSUME NEW t \in Stealer, Holds(t)
       PROVE  min <= loc[t].buffer \/ (x # "delete" /\ loc[t].tls <= loc[Owner].tls - 1)
  <2>1. CASE loc[t].tls = loc[Owner].tls
    BY <1>11, <2>1
  <2>2. CASE loc[Owner].min <= loc[t].buffer
    BY <1>1, <1>2, <1>3, <1>10, <1>11, <2>2
  <2>3. CASE loc[t].tls <= loc[Owner].tls /\ loc[t].tls # loc[Owner].tls
    BY <1>1, <1>2, <1>3, <1>6, <1>11, <2>3
  <2> QED  BY <1>1, <1>11, <2>1, <2>2, <2>3
<1> QED  BY <1>1, <1>6, <1>7, <1>8, <1>9, <1>10, <1>11, OwnerScans

LEMMA LeastOfTwo ==
  ASSUME NEW a \in Int, NEW b \in Int
  PROVE  /\ Stealing!Min({a, b}) = IF a <= b THEN a ELSE b
         /\ Stealing!Max({a, b}) = IF a <= b THEN b ELSE a
BY DEF Stealing!Min, Stealing!Max

LEMMA StealingReclaim ==
  ASSUME StealingOK, Stealing!Reclaim
  PROVE  StealingOK'
<1>1. /\ {"tls", "buffer", "unlinked", "undefined"} \subseteq DOMAIN mem
      /\ mem.buffer \in Nat /\ mem.unlinked \in -1 .. mem.buffer /\ (mem.unlinked = -1 => mem.buffer = 0)
      /\ "slot" \notin mem.undefined
      /\ Len(mem.tls) \in 1 .. Len(mem.tls)
  BY LenProperties DEF StealingOK, BuffersOK, RecordsOK
<1>2. /\ loc[Owner].pc \in {"reclaim", "scan", "scan_id", "delete"} =>
           "after" \in DOMAIN loc[Owner] /\ loc[Owner].after \in {"put", "return"}
      /\ Scanning => "tls" \in DOMAIN loc[Owner] /\ loc[Owner].tls \in 1 .. Len(mem.tls)
      /\ Scanning \/ At(Owner, "delete") =>
           /\ "min" \in DOMAIN loc[Owner] /\ loc[Owner].min \in 0 .. mem.buffer
           /\ \A t \in Stealer : Holds(t) => \/ loc[Owner].min <= loc[t].buffer
                                             \/ Scanning /\ loc[t].tls <= loc[Owner].tls
  BY DEF StealingOK, ScanOK
<1>3. \A t \in Stealer : Holds(t) =>
        /\ loc[t].buffer \in Nat /\ mem.unlinked <= loc[t].buffer /\ loc[t].tls \in 1 .. Len(mem.tls)
        /\ ~mem.tls[loc[t].tls].idle /\ mem.tls[loc[t].tls].id = 0
  BY DEF StealingOK, BuffersOK, RecordsOK, Holds, Enlisted, Busy
<1>4. \/ /\ At(Owner, "reclaim") /\ mem' = mem
         /\ Go(Owner, [pc |-> "scan", tls |-> Len(mem.tls), min |-> mem.buffer])
      \/ /\ At(Owner, "scan") /\ mem' = mem
         /\ IF mem.tls[loc[Owner].tls].idle THEN Stealing!Scanned(loc[Owner].tls, loc[Owner].min)
                                            ELSE Go(Owner, [pc |-> "scan_id"])
      \/ /\ At(Owner, "scan_id") /\ mem' = mem
         /\ Stealing!Scanned(loc[Owner].tls, Stealing!Min({loc[Owner].min, mem.tls[loc[Owner].tls].id}))
      \/ /\ At(Owner, "delete")
         /\ mem' = [mem EXCEPT !.unlinked = Stealing!Max({@, loc[Owner].min})]
         /\ Go(Owner, [pc |-> loc[Owner].after])
  BY StealingFrames DEF Stealing!Reclaim
<1>5. CASE /\ At(Owner, "reclaim") /\ mem' = mem
           /\ Go(Owner, [pc |-> "scan", tls |-> Len(mem.tls), min |-> mem.buffer])
  <2> DEFINE frame == [pc |-> "scan", tls |-> Len(mem.tls), min |-> mem.buffer]
  <2>1. DOMAIN frame = {"pc", "tls", "min"} /\ frame["pc"] = "scan" /\ frame["tls"] = Len(mem.tls) /\ frame["min"] = mem.buffer
    OBVIOUS
  <2>2. Go(Owner, frame)
    BY <1>5
  <2> HIDE DEF frame
  <2>3. /\ DOMAIN loc' = Thread /\ \A u \in Stealer : loc'[u] = loc[u]
        /\ DOMAIN loc'[Owner] = DOMAIN frame \union DOMAIN loc[Owner]
        /\ \A y \in DOMAIN frame : loc'[Owner][y] = frame[y]
        /\ \A y \in DOMAIN loc[Owner] \ DOMAIN frame : loc'[Owner][y] = loc[Owner][y]
    BY <2>2, OwnerGoFacts
  <2>4. "after" \in DOMAIN loc[Owner] /\ loc[Owner].after \in {"put", "return"}
    BY <1>2, <1>5 DEF At
  <2>5. /\ loc'[Owner].pc = "scan" /\ loc'[Owner].tls = Len(mem.tls) /\ loc'[Owner].min = mem.buffer
        /\ loc'[Owner].after = loc[Owner].after /\ {"tls", "min", "after"} \subseteq DOMAIN loc'[Owner]
    BY <2>1, <2>3, <2>4
  <2>6. \A t \in Stealer : Holds(t) => loc[t].tls <= Len(mem.tls)
    BY <1>1, <1>3
  <2>7. mem.buffer \in 0 .. mem.buffer
    BY <1>1
  <2> QED  BY <1>1, <1>5, <2>3, <2>4, <2>5, <2>6, <2>7, OwnerScans
<1>6. CASE At(Owner, "scan") /\ mem' = mem /\ mem.tls[loc[Owner].tls].idle /\ Stealing!Scanned(loc[Owner].tls, loc[Owner].min)
  <2>1. Scanning /\ loc[Owner].min \in 0 .. loc[Owner].min
    BY <1>1, <1>2, <1>6 DEF Scanning, At
  <2>2. \A t \in Stealer : Holds(t) => loc[t].tls # loc[Owner].tls
    BY <1>3, <1>6
  <2> QED  BY <1>6, <2>1, <2>2, OwnerScanned
<1>7. CASE At(Owner, "scan") /\ mem' = mem /\ Go(Owner, [pc |-> "scan_id"])
  <2>1. Scanning /\ ~At(Owner, "delete")
    BY <1>7 DEF Scanning, At
  <2>2. /\ DOMAIN loc' = Thread /\ \A u \in Stealer : loc'[u] = loc[u]
        /\ loc'[Owner].pc = "scan_id"
        /\ \A y \in DOMAIN loc[Owner] : y # "pc" => y \in DOMAIN loc'[Owner] /\ loc'[Owner][y] = loc[Owner][y]
    BY <1>7, OwnerGoFacts
  <2>3. /\ "after" \in DOMAIN loc[Owner] /\ loc[Owner].after \in {"put", "return"}
        /\ "tls" \in DOMAIN loc[Owner] /\ "min" \in DOMAIN loc[Owner]
    BY <1>2, <1>7, <2>1 DEF At
  <2>4. /\ loc'[Owner].tls = loc[Owner].tls /\ loc'[Owner].min = loc[Owner].min
        /\ loc'[Owner].after = loc[Owner].after /\ {"tls", "min", "after"} \subseteq DOMAIN loc'[Owner]
    BY <2>2, <2>3
  <2> QED  BY <1>2, <1>7, <2>1, <2>2, <2>3, <2>4, OwnerScans
<1>8. CASE /\ At(Owner, "scan_id") /\ mem' = mem
           /\ Stealing!Scanned(loc[Owner].tls, Stealing!Min({loc[Owner].min, mem.tls[loc[Owner].tls].id}))
  <2> DEFINE id == mem.tls[loc[Owner].tls].id
  <2>1. Scanning /\ loc[Owner].min \in Nat /\ loc[Owner].tls \in 1 .. Len(mem.tls)
    BY <1>1, <1>2, <1>8 DEF Scanning, At
  <2>2. id \in Nat
    <3>1. mem.tls \in Seq([idle : BOOLEAN, id : Nat])
      BY DEF StealingOK, RecordsOK
    <3>2. mem.tls[loc[Owner].tls] \in [idle : BOOLEAN, id : Nat]
      BY <2>1, <3>1, ElementOfSeq
    <3> QED  BY <3>2
  <2>3. \A t \in Stealer : Holds(t) /\ loc[t].tls = loc[Owner].tls => id = 0
    BY <1>3
  <2> HIDE DEF id
  <2> DEFINE min == IF loc[Owner].min <= id THEN loc[Owner].min ELSE id
  <2>4. Stealing!Min({loc[Owner].min, id}) = min
    BY <2>1, <2>2, LeastOfTwo
  <2>5. min \in 0 .. loc[Owner].min /\ (id = 0 => min = 0)
    BY <2>1, <2>2
  <2> HIDE DEF min
  <2>6. Stealing!Scanned(loc[Owner].tls, min)
    BY <1>8, <2>4 DEF id
  <2>7. \A t \in Stealer : Holds(t) /\ loc[t].tls = loc[Owner].tls => min <= loc[t].buffer
    BY <1>3, <2>3, <2>5
  <2> QED  BY <1>8, <2>1, <2>5, <2>6, <2>7, OwnerScanned
<1>9. CASE /\ At(Owner, "delete")
           /\ mem' = [mem EXCEPT !.unlinked = Stealing!Max({@, loc[Owner].min})]
           /\ Go(Owner, [pc |-> loc[Owner].after])
  <2>1. /\ loc[Owner].min \in 0 .. mem.buffer /\ ~Scanning /\ loc[Owner].after \in {"put", "return"}
        /\ \A t \in Stealer : Holds(t) => loc[Owner].min <= loc[t].buffer
    BY <1>2, <1>9 DEF Scanning, At
  <2> DEFINE least == IF mem.unlinked <= loc[Owner].min THEN loc[Owner].min ELSE mem.unlinked
  <2>2. Stealing!Max({mem.unlinked, loc[Owner].min}) = least
    <3>1. mem.unlinked \in Int /\ loc[Owner].min \in Int
      BY <1>1, <2>1
    <3> QED  BY <3>1, LeastOfTwo
  <2>3. least \in 0 .. mem.buffer /\ least \in {loc[Owner].min, mem.unlinked}
    BY <1>1, <2>1
  <2> HIDE DEF least
  <2>4. /\ mem'.tls = mem.tls /\ mem'.undefined = mem.undefined /\ mem'.buffer = mem.buffer /\ mem'.unlinked = least
        /\ {"tls", "buffer", "unlinked", "undefined"} \subseteq DOMAIN mem'
    BY <1>1, <1>9, <2>2
  <2>5. DOMAIN loc' = Thread /\ (\A u \in Stealer : loc'[u] = loc[u]) /\ loc'[Owner].pc = loc[Owner].after
    BY <1>9, OwnerGoFacts
  <2>6. ScanOK'
    BY <2>1, <2>5 DEF ScanOK, Scanning, At
  <2>7. /\ mem'.unlinked \in -1 .. mem'.buffer /\ mem'.unlinked # -1
        /\ \A t \in Stealer : Holds(t) => mem'.unlinked <= loc[t].buffer
    BY <1>1, <1>3, <2>1, <2>3, <2>4
  <2> QED  BY <1>1, <2>4, <2>5, <2>6, <2>7, OwnerMoves
<1> QED  BY <1>4, <1>5, <1>6, <1>7, <1>8, <1>9

LEMMA StealingOwnerStep ==
  ASSUME StealingOK, Stealing!OwnerStep
  PROVE  StealingOK'
BY StealingPushTop, StealingPushStores, StealingPopBottom, StealingPopLast, StealingStoreBuffer, StealingReclaim
   DEF Stealing!OwnerStep

LEMMA StealerGoFacts ==
  ASSUME StealingOK, NEW t \in Stealer, NEW frame, Go(t, frame)
  PROVE  /\ DOMAIN loc' = Thread /\ \A u \in Thread : u # t => loc'[u] = loc[u]
         /\ DOMAIN loc'[t] = DOMAIN frame \union DOMAIN loc[t]
         /\ \A x \in DOMAIN frame : loc'[t][x] = frame[x]
         /\ \A x \in DOMAIN loc[t] \ DOMAIN frame : loc'[t][x] = loc[t][x]
<1>1. DOMAIN loc = Thread /\ t \in Thread
  BY DEF StealingOK, Stealer
<1> QED  BY <1>1, GoFacts

\* What the stealer knows of its record.
LEMMA StealerRecord ==
  ASSUME StealingOK, NEW t \in Stealer
  PROVE  /\ {"tls", "buffer", "unlinked", "undefined"} \subseteq DOMAIN mem /\ "slot" \notin mem.undefined
         /\ mem.tls \in Seq([idle : BOOLEAN, id : Nat]) /\ Len(mem.tls) \in Nat /\ mem.buffer \in Nat
         /\ Enlisted(t) \/ At(t, "enlist") => "tls" \in DOMAIN loc[t]
         /\ Enlisted(t) => /\ loc[t].tls \in 1 .. Len(mem.tls)
                           /\ \A u \in Stealer : u # t /\ Enlisted(u) => loc[u].tls # loc[t].tls
         /\ Enlisted(t) /\ loc[t].pc \notin {"last", "last_id"} => mem.tls[loc[t].tls].id = 0
         /\ Busy(t) => ~mem.tls[loc[t].tls].idle
         /\ At(t, "last_id") => "buffer" \in DOMAIN loc[t] /\ loc[t].buffer \in Nat
         /\ Holds(t) => "buffer" \in DOMAIN loc[t] /\ loc[t].buffer \in Nat /\ mem.unlinked <= loc[t].buffer
BY LenProperties DEF StealingOK, RecordsOK, BuffersOK

\* A stealer that is in no list.
LEMMA StealerOutside ==
  ASSUME StealingOK, NEW t \in Stealer, mem' = mem, DOMAIN loc' = Thread, \A u \in Thread : u # t => loc'[u] = loc[u],
         loc'[t].pc \in {"idle", "register", "enlist", "return"}, At(t, "enlist")' => "tls" \in DOMAIN loc'[t]
  PROVE  StealingOK'
<1>1. ~Enlisted(t)' /\ ~Busy(t)' /\ ~Holds(t)' /\ ~At(t, "last_id")'
  BY DEF Enlisted, Busy, Holds, At
<1>2. /\ {"tls", "buffer", "unlinked", "undefined"} \subseteq DOMAIN mem' /\ "slot" \notin mem'.undefined
      /\ mem'.tls \in Seq([idle : BOOLEAN, id : Nat]) /\ Len(mem.tls) <= Len(mem'.tls)
  BY StealerRecord
<1>3. \A u \in Stealer : u # t /\ Enlisted(u) => mem'.tls[loc[u].tls] = mem.tls[loc[u].tls]
  OBVIOUS
<1> QED  BY <1>1, <1>2, <1>3, StealerMoves

LEMMA StealingCallSteal ==
  ASSUME StealingOK, NEW t \in Stealer, Stealing!CallSteal(t)
  PROVE  StealingOK'
<1>1. mem' = mem /\ loc' = [loc EXCEPT ![t] = [pc |-> "register"]]
  BY StealingFrames DEF Stealing!CallSteal, Enter
<1>2. DOMAIN loc = Thread /\ t \in Thread
  BY DEF StealingOK, Stealer
<1>3. DOMAIN loc' = Thread /\ (\A u \in Thread : u # t => loc'[u] = loc[u]) /\ loc'[t] = [pc |-> "register"]
  BY <1>1, <1>2
<1>4. loc'[t].pc = "register"
  BY <1>3
<1> QED  BY <1>1, <1>3, <1>4, StealerOutside DEF At

\* The record of a new stealer is the last in the list.
LEMMA StealingRegister ==
  ASSUME StealingOK, NEW t \in Stealer, Stealing!Register(t)
  PROVE  StealingOK'
<1>1. \/ /\ Go(t, [pc |-> "enlist", tls |-> Len(mem.tls) + 1]) /\ mem' = mem
      \/ /\ At(t, "enlist") /\ Len(mem.tls) + 1 = loc[t].tls
         /\ mem' = [mem EXCEPT !.tls = Append(@, [idle |-> TRUE, id |-> 0])] /\ Go(t, [pc |-> "busy"])
      \/ Go(t, [pc |-> "register"]) /\ mem' = mem
  BY StealingFrames DEF Stealing!Register
<1>2. CASE Go(t, [pc |-> "enlist", tls |-> Len(mem.tls) + 1]) /\ mem' = mem
  <2> DEFINE frame == [pc |-> "enlist", tls |-> Len(mem.tls) + 1]
  <2>1. Go(t, frame) /\ "pc" \in DOMAIN frame /\ frame["pc"] = "enlist" /\ "tls" \in DOMAIN frame
    BY <1>2
  <2> HIDE DEF frame
  <2>2. /\ DOMAIN loc' = Thread /\ \A u \in Thread : u # t => loc'[u] = loc[u]
        /\ loc'[t].pc = "enlist" /\ "tls" \in DOMAIN loc'[t]
    BY <2>1, StealerGoFacts
  <2> QED  BY <1>2, <2>2, StealerOutside
<1>3. CASE Go(t, [pc |-> "register"]) /\ mem' = mem
  <2>1. DOMAIN loc' = Thread /\ (\A u \in Thread : u # t => loc'[u] = loc[u]) /\ loc'[t].pc = "register"
    BY <1>3, StealerGoFacts
  <2> QED  BY <1>3, <2>1, StealerOutside DEF At
<1>4. CASE /\ At(t, "enlist") /\ Len(mem.tls) + 1 = loc[t].tls
           /\ mem' = [mem EXCEPT !.tls = Append(@, [idle |-> TRUE, id |-> 0])] /\ Go(t, [pc |-> "busy"])
  <2> DEFINE new == [idle |-> TRUE, id |-> 0]
  <2>1. new \in [idle : BOOLEAN, id : Nat] /\ new.id = 0
    OBVIOUS
  <2>2. /\ {"tls", "buffer", "unlinked", "undefined"} \subseteq DOMAIN mem /\ "slot" \notin mem.undefined
        /\ mem.tls \in Seq([idle : BOOLEAN, id : Nat]) /\ Len(mem.tls) \in Nat /\ mem.buffer \in Nat
        /\ "tls" \in DOMAIN loc[t]
    BY <1>4, StealerRecord
  <2>3. /\ mem'.tls = Append(mem.tls, new)
        /\ mem'.buffer = mem.buffer /\ mem'.unlinked = mem.unlinked /\ mem'.undefined = mem.undefined
        /\ {"tls", "buffer", "unlinked", "undefined"} \subseteq DOMAIN mem'
    BY <1>4, <2>2
  <2> HIDE DEF new
  <2>4. /\ mem'.tls \in Seq([idle : BOOLEAN, id : Nat]) /\ Len(mem'.tls) = Len(mem.tls) + 1
        /\ mem'.tls[Len(mem.tls) + 1] = new
        /\ \A i \in 1 .. Len(mem.tls) : mem'.tls[i] = mem.tls[i]
    BY <2>1, <2>2, <2>3, AppendProperties
  <2>5. /\ DOMAIN loc' = Thread /\ \A u \in Thread : u # t => loc'[u] = loc[u]
        /\ loc'[t].pc = "busy" /\ "tls" \in DOMAIN loc'[t] /\ loc'[t].tls = Len(mem.tls) + 1
    BY <1>4, <2>2, StealerGoFacts
  <2>6. Enlisted(t)' /\ ~Busy(t)' /\ ~Holds(t)' /\ ~At(t, "last_id")'
    BY <2>5 DEF Enlisted, Busy, Holds, At
  <2>7. \A u \in Stealer : Enlisted(u) => loc[u].tls \in 1 .. Len(mem.tls)
    BY DEF StealingOK, RecordsOK
  <2>8. \A u \in Stealer : u # t /\ Enlisted(u) =>
          mem'.tls[loc[u].tls] = mem.tls[loc[u].tls] /\ loc[u].tls # loc'[t].tls
    <3>1. Len(mem.tls) + 1 \notin 1 .. Len(mem.tls)
      BY <2>2
    <3>2. ASSUME NEW u \in Stealer, Enlisted(u)
          PROVE  mem'.tls[loc[u].tls] = mem.tls[loc[u].tls] /\ loc[u].tls # Len(mem.tls) + 1
      BY <2>4, <2>7, <3>1, <3>2
    <3> QED  BY <2>5, <3>2
  <2>9. loc'[t].tls \in 1 .. Len(mem'.tls) /\ Len(mem.tls) <= Len(mem'.tls) /\ mem'.tls[loc'[t].tls].id = 0
    BY <2>1, <2>2, <2>4, <2>5
  <2> QED  BY <2>2, <2>3, <2>4, <2>5, <2>6, <2>8, <2>9, StealerMoves
<1> QED  BY <1>1, <1>2, <1>3, <1>4

\* A step of a busy stealer that leaves its record as it is.
LEMMA StealerIsBusy ==
  ASSUME StealingOK, NEW t \in Stealer, Busy(t), NEW frame, Go(t, frame), "pc" \in DOMAIN frame, "tls" \notin DOMAIN frame,
         frame.pc \in {"steal_bottom", "steal_buffer", "claim", "get", "rest"},
         {"tls", "buffer", "unlinked", "undefined"} \subseteq DOMAIN mem', "slot" \notin mem'.undefined,
         mem'.tls = mem.tls, mem'.buffer = mem.buffer, mem'.unlinked = mem.unlinked,
         frame.pc \in {"claim", "get"} => \/ "buffer" \in DOMAIN frame /\ frame.buffer = mem.buffer
                                          \/ Holds(t) /\ "buffer" \notin DOMAIN frame
  PROVE  StealingOK'
<1>1. Enlisted(t) /\ loc[t].pc \notin {"last", "last_id"}
  BY DEF Busy, Enlisted
<1>2. /\ mem.tls \in Seq([idle : BOOLEAN, id : Nat]) /\ Len(mem.tls) \in Nat /\ mem.buffer \in Nat
      /\ "tls" \in DOMAIN loc[t] /\ loc[t].tls \in 1 .. Len(mem.tls)
      /\ \A u \in Stealer : u # t /\ Enlisted(u) => loc[u].tls # loc[t].tls
      /\ mem.tls[loc[t].tls].id = 0 /\ ~mem.tls[loc[t].tls].idle
      /\ Holds(t) => "buffer" \in DOMAIN loc[t] /\ loc[t].buffer \in Nat
  BY <1>1, StealerRecord
<1>3. /\ DOMAIN loc' = Thread /\ \A u \in Thread : u # t => loc'[u] = loc[u]
      /\ DOMAIN loc'[t] = DOMAIN frame \union DOMAIN loc[t]
      /\ \A x \in DOMAIN frame : loc'[t][x] = frame[x]
      /\ \A x \in DOMAIN loc[t] \ DOMAIN frame : loc'[t][x] = loc[t][x]
  BY StealerGoFacts
<1>4. loc'[t].pc = frame.pc /\ "tls" \in DOMAIN loc'[t] /\ loc'[t].tls = loc[t].tls
  BY <1>2, <1>3
<1>5. ~At(t, "last_id")'
  BY <1>4 DEF At
<1>6. Holds(t)' => /\ "buffer" \in DOMAIN loc'[t] /\ loc'[t].buffer \in Nat
                   /\ \/ loc'[t].buffer = mem.buffer
                      \/ Holds(t) /\ loc'[t].buffer = loc[t].buffer /\ loc'[t].tls = loc[t].tls
  <2>1. Holds(t)' => frame.pc \in {"claim", "get"}
    BY <1>4 DEF Holds
  <2>2. CASE "buffer" \in DOMAIN frame /\ frame.buffer = mem.buffer
    BY <1>2, <1>3, <2>2
  <2>3. CASE Holds(t) /\ "buffer" \notin DOMAIN frame
    BY <1>2, <1>3, <1>4, <2>3
  <2> QED  BY <2>1, <2>2, <2>3
<1>7. Len(mem.tls) <= Len(mem'.tls)
  BY <1>2
<1> QED  BY <1>2, <1>3, <1>4, <1>5, <1>6, <1>7, StealerMoves

LEMMA StealingLook ==
  ASSUME StealingOK, NEW t \in Stealer, Stealing!Look(t)
  PROVE  StealingOK'
<1>1. /\ {"tls", "buffer", "unlinked", "undefined"} \subseteq DOMAIN mem /\ "slot" \notin mem.undefined /\ mem' = mem
  BY StealerRecord DEF Stealing!Look
<1>2. Busy(t)
  BY StealingFrames DEF Stealing!Look, Busy, At
<1>3. \/ Go(t, [pc |-> "steal_bottom", top |-> mem.top])
      \/ Go(t, [pc |-> "steal_buffer"])
      \/ Go(t, [pc |-> "rest", value |-> Empty])
      \/ Go(t, [pc |-> "claim", buffer |-> mem.buffer])
  <2>1. \/ Go(t, [pc |-> "steal_bottom", top |-> mem.top])
        \/ Go(t, IF mem.bottom - loc[t].top > 0 THEN [pc |-> "steal_buffer"] ELSE [pc |-> "rest", value |-> Empty])
        \/ Go(t, [pc |-> "claim", buffer |-> mem.buffer])
    BY StealingFrames DEF Stealing!Look
  <2> QED  BY <2>1
<1>4. ASSUME NEW frame, Go(t, frame), "pc" \in DOMAIN frame, "tls" \notin DOMAIN frame,
             \/ frame.pc \in {"steal_bottom", "steal_buffer", "rest"}
             \/ frame.pc = "claim" /\ "buffer" \in DOMAIN frame /\ frame.buffer = mem.buffer
      PROVE  StealingOK'
  BY <1>1, <1>2, <1>4, StealerIsBusy
<1>5. CASE Go(t, [pc |-> "steal_bottom", top |-> mem.top])
  <2> DEFINE frame == [pc |-> "steal_bottom", top |-> mem.top]
  <2>1. Go(t, frame) /\ DOMAIN frame = {"pc", "top"} /\ frame["pc"] = "steal_bottom"
    BY <1>5
  <2> HIDE DEF frame
  <2> QED  BY <1>4, <2>1
<1>6. CASE Go(t, [pc |-> "steal_buffer"])
  <2> DEFINE frame == [pc |-> "steal_buffer"]
  <2>1. Go(t, frame) /\ DOMAIN frame = {"pc"} /\ frame["pc"] = "steal_buffer"
    BY <1>6
  <2> HIDE DEF frame
  <2> QED  BY <1>4, <2>1
<1>7. CASE Go(t, [pc |-> "rest", value |-> Empty])
  <2> DEFINE frame == [pc |-> "rest", value |-> Empty]
  <2>1. Go(t, frame) /\ DOMAIN frame = {"pc", "value"} /\ frame["pc"] = "rest"
    BY <1>7
  <2> HIDE DEF frame
  <2> QED  BY <1>4, <2>1
<1>8. CASE Go(t, [pc |-> "claim", buffer |-> mem.buffer])
  <2> DEFINE frame == [pc |-> "claim", buffer |-> mem.buffer]
  <2>1. Go(t, frame) /\ DOMAIN frame = {"pc", "buffer"} /\ frame["pc"] = "claim" /\ frame["buffer"] = mem.buffer
    BY <1>8
  <2> HIDE DEF frame
  <2> QED  BY <1>4, <2>1
<1> QED  BY <1>3, <1>5, <1>6, <1>7, <1>8

\* The slot that the stealer reads is in a buffer it holds.
LEMMA StealingClaim ==
  ASSUME StealingOK, NEW t \in Stealer, Stealing!Claim(t)
  PROVE  StealingOK'
<1>1. /\ {"tls", "buffer", "unlinked", "undefined"} \subseteq DOMAIN mem /\ "slot" \notin mem.undefined
      /\ Holds(t) => loc[t].buffer \in Nat /\ mem.unlinked <= loc[t].buffer
      /\ mem.unlinked \in Int
  BY StealerRecord DEF StealingOK, BuffersOK
<1>2. Busy(t) /\ Holds(t)
  BY StealingFrames DEF Stealing!Claim, Busy, Holds, At
<1>3. ~Stealing!Deleted(loc[t].buffer)
  BY <1>1, <1>2 DEF Stealing!Deleted
<1>4. /\ {"tls", "buffer", "unlinked", "undefined"} \subseteq DOMAIN mem'
      /\ mem'.tls = mem.tls /\ mem'.buffer = mem.buffer /\ mem'.unlinked = mem.unlinked
      /\ "slot" \notin mem'.undefined
  BY <1>1, <1>3 DEF Stealing!Claim
<1>5. PICK x \in {"get", "rest"} : \E v : Go(t, [pc |-> x, value |-> v])
  BY StealingFrames DEF Stealing!Claim
<1>6. PICK v : Go(t, [pc |-> x, value |-> v])
  BY <1>5
<1> DEFINE frame == [pc |-> x, value |-> v]
<1>7. Go(t, frame) /\ DOMAIN frame = {"pc", "value"} /\ frame["pc"] = x
  BY <1>6
<1> HIDE DEF frame
<1> QED  BY <1>2, <1>4, <1>5, <1>7, StealerIsBusy

\* A stealer writes its own record, and holds no buffer after the step.
LEMMA StealerWrites ==
  ASSUME StealingOK, NEW t \in Stealer, Enlisted(t), ~Holds(t)',
         DOMAIN loc' = Thread, \A u \in Thread : u # t => loc'[u] = loc[u],
         {"tls", "buffer", "unlinked", "undefined"} \subseteq DOMAIN mem', "slot" \notin mem'.undefined,
         mem'.buffer = mem.buffer, mem'.unlinked = mem.unlinked,
         NEW record \in [idle : BOOLEAN, id : Nat], mem'.tls = [mem.tls EXCEPT ![loc[t].tls] = record],
         Enlisted(t)' => "tls" \in DOMAIN loc'[t] /\ loc'[t].tls = loc[t].tls,
         ~At(t, "enlist")',
         Enlisted(t)' /\ loc'[t].pc \notin {"last", "last_id"} => record.id = 0,
         Busy(t)' => ~record.idle,
         At(t, "last_id")' => "buffer" \in DOMAIN loc'[t] /\ loc'[t].buffer \in Nat
  PROVE  StealingOK'
<1>1. /\ mem.tls \in Seq([idle : BOOLEAN, id : Nat]) /\ Len(mem.tls) \in Nat /\ loc[t].tls \in 1 .. Len(mem.tls)
      /\ \A u \in Stealer : u # t /\ Enlisted(u) => loc[u].tls # loc[t].tls
  BY StealerRecord
<1>2. /\ mem'.tls \in Seq([idle : BOOLEAN, id : Nat]) /\ Len(mem'.tls) = Len(mem.tls)
      /\ mem'.tls[loc[t].tls] = record
      /\ \A i \in 1 .. Len(mem.tls) : i # loc[t].tls => mem'.tls[i] = mem.tls[i]
  BY <1>1, ExceptSeq, LenProperties
<1>3. \A u \in Stealer : Enlisted(u) => loc[u].tls \in 1 .. Len(mem.tls)
  BY DEF StealingOK, RecordsOK
<1>4. \A u \in Stealer : u # t /\ Enlisted(u) => mem'.tls[loc[u].tls] = mem.tls[loc[u].tls]
  BY <1>1, <1>2, <1>3
<1>5. Busy(t)' => Enlisted(t)'
  BY DEF Busy, Enlisted
<1>6. Len(mem.tls) <= Len(mem'.tls)
  BY <1>1, <1>2
<1>7. Enlisted(t)' => /\ loc'[t].tls \in 1 .. Len(mem'.tls)
                      /\ \A u \in Stealer : u # t /\ Enlisted(u) => loc[u].tls # loc'[t].tls
  BY <1>1, <1>2
<1>8. /\ Enlisted(t)' /\ loc'[t].pc \notin {"last", "last_id"} => mem'.tls[loc'[t].tls].id = 0
      /\ Busy(t)' => ~mem'.tls[loc'[t].tls].idle
  BY <1>2, <1>5
<1> QED  BY <1>2, <1>4, <1>6, <1>7, <1>8, StealerMoves

LEMMA StealingRecord ==
  ASSUME StealingOK, NEW t \in Stealer, Stealing!Record(t)
  PROVE  StealingOK'
<1> DEFINE i == loc[t].tls
           old == mem.tls[i]
<1>1. Enlisted(t)
  BY StealingFrames DEF Stealing!Record, Enlisted, At
<1>2. /\ {"tls", "buffer", "unlinked", "undefined"} \subseteq DOMAIN mem /\ "slot" \notin mem.undefined
      /\ mem.tls \in Seq([idle : BOOLEAN, id : Nat]) /\ mem.buffer \in Nat
      /\ "tls" \in DOMAIN loc[t] /\ i \in 1 .. Len(mem.tls)
      /\ At(t, "busy") => old.id = 0
      /\ At(t, "last_id") => loc[t].buffer \in Nat
  BY <1>1, StealerRecord DEF At
<1>3. old \in [idle : BOOLEAN, id : Nat]
  BY <1>2, ElementOfSeq
<1>4. mem'.buffer = mem.buffer /\ mem'.unlinked = mem.unlinked
      /\ {"tls", "buffer", "unlinked", "undefined"} \subseteq DOMAIN mem'
  BY <1>2 DEF Stealing!Record
<1>5. \/ At(t, "busy") /\ mem' = [mem EXCEPT !.tls[i].idle = FALSE] /\ Go(t, [pc |-> "steal"])
      \/ At(t, "rest") /\ mem' = [mem EXCEPT !.tls[i].idle = TRUE] /\ Go(t, [pc |-> "last"])
      \/ At(t, "last") /\ mem' = mem /\ Go(t, [pc |-> "last_id", buffer |-> mem.buffer])
      \/ /\ At(t, "last_id") /\ Go(t, [pc |-> "return", value |-> loc[t].value])
         /\ mem' = [mem EXCEPT !.tls[i].id = loc[t].buffer,
                               !.undefined = IF Stealing!Deleted(loc[t].buffer) THEN {"id"} ELSE {}]
  BY StealingFrames DEF Stealing!Record
<1>6. CASE At(t, "busy") /\ mem' = [mem EXCEPT !.tls[i].idle = FALSE] /\ Go(t, [pc |-> "steal"])
  <2> DEFINE record == [old EXCEPT !.idle = FALSE]
  <2>1. record \in [idle : BOOLEAN, id : Nat] /\ record.id = 0 /\ ~record.idle
    BY <1>2, <1>3, <1>6
  <2>2. mem'.tls = [mem.tls EXCEPT ![i] = record] /\ mem'.undefined = mem.undefined
    BY <1>2, <1>6
  <2>3. /\ DOMAIN loc' = Thread /\ \A u \in Thread : u # t => loc'[u] = loc[u]
        /\ loc'[t].pc = "steal" /\ "tls" \in DOMAIN loc'[t] /\ loc'[t].tls = i
    BY <1>2, <1>6, StealerGoFacts
  <2>4. ~Holds(t)' /\ ~At(t, "enlist")' /\ ~At(t, "last_id")'
    BY <2>3 DEF Holds, At
  <2> HIDE DEF record
  <2> QED  BY <1>1, <1>2, <1>4, <2>1, <2>2, <2>3, <2>4, StealerWrites
<1>7. CASE At(t, "rest") /\ mem' = [mem EXCEPT !.tls[i].idle = TRUE] /\ Go(t, [pc |-> "last"])
  <2> DEFINE record == [old EXCEPT !.idle = TRUE]
  <2>1. record \in [idle : BOOLEAN, id : Nat]
    BY <1>3
  <2>2. mem'.tls = [mem.tls EXCEPT ![i] = record] /\ mem'.undefined = mem.undefined
    BY <1>2, <1>7
  <2>3. /\ DOMAIN loc' = Thread /\ \A u \in Thread : u # t => loc'[u] = loc[u]
        /\ loc'[t].pc = "last" /\ "tls" \in DOMAIN loc'[t] /\ loc'[t].tls = i
    BY <1>2, <1>7, StealerGoFacts
  <2>4. ~Holds(t)' /\ ~Busy(t)' /\ ~At(t, "enlist")' /\ ~At(t, "last_id")'
    BY <2>3 DEF Holds, Busy, At
  <2> HIDE DEF record
  <2> QED  BY <1>1, <1>2, <1>4, <2>1, <2>2, <2>3, <2>4, StealerWrites
<1>8. CASE At(t, "last") /\ mem' = mem /\ Go(t, [pc |-> "last_id", buffer |-> mem.buffer])
  <2> DEFINE frame == [pc |-> "last_id", buffer |-> mem.buffer]
  <2>1. Go(t, frame) /\ DOMAIN frame = {"pc", "buffer"} /\ frame["pc"] = "last_id" /\ frame["buffer"] = mem.buffer
    BY <1>8
  <2> HIDE DEF frame
  <2>2. mem'.tls = [mem.tls EXCEPT ![i] = old] /\ mem'.undefined = mem.undefined
    BY <1>2, <1>8
  <2>3. /\ DOMAIN loc' = Thread /\ \A u \in Thread : u # t => loc'[u] = loc[u]
        /\ loc'[t].pc = "last_id" /\ "tls" \in DOMAIN loc'[t] /\ loc'[t].tls = i
        /\ "buffer" \in DOMAIN loc'[t] /\ loc'[t].buffer \in Nat
    BY <1>2, <2>1, StealerGoFacts
  <2>4. ~Holds(t)' /\ ~Busy(t)' /\ ~At(t, "enlist")'
    BY <2>3 DEF Holds, Busy, At
  <2> QED  BY <1>1, <1>2, <1>3, <1>4, <2>2, <2>3, <2>4, StealerWrites
<1>9. CASE /\ At(t, "last_id") /\ Go(t, [pc |-> "return", value |-> loc[t].value])
           /\ mem' = [mem EXCEPT !.tls[i].id = loc[t].buffer,
                                 !.undefined = IF Stealing!Deleted(loc[t].buffer) THEN {"id"} ELSE {}]
  <2> DEFINE record == [old EXCEPT !.id = loc[t].buffer]
             frame == [pc |-> "return", value |-> loc[t].value]
  <2>1. record \in [idle : BOOLEAN, id : Nat]
    BY <1>2, <1>3, <1>9
  <2>2. mem'.tls = [mem.tls EXCEPT ![i] = record] /\ "slot" \notin mem'.undefined
    BY <1>2, <1>9
  <2>3. Go(t, frame) /\ "pc" \in DOMAIN frame /\ frame["pc"] = "return"
    BY <1>9
  <2> HIDE DEF frame, record
  <2>4. DOMAIN loc' = Thread /\ (\A u \in Thread : u # t => loc'[u] = loc[u]) /\ loc'[t].pc = "return"
    BY <2>3, StealerGoFacts
  <2>5. ~Enlisted(t)' /\ ~Holds(t)' /\ ~Busy(t)' /\ ~At(t, "enlist")' /\ ~At(t, "last_id")'
    BY <2>4 DEF Holds, Busy, Enlisted, At
  <2> QED  BY <1>1, <1>2, <1>4, <2>1, <2>2, <2>4, <2>5, StealerWrites
<1> QED  BY <1>5, <1>6, <1>7, <1>8, <1>9

LEMMA StealingWork ==
  ASSUME StealingOK, NEW t \in Thread, Stealing!Step(t)
  PROVE  StealingOK'
<1>1. CASE t = Owner
  BY <1>1, StealingOwnerStep DEF Stealing!Step
<1>2. CASE t # Owner
  <2>1. t \in Stealer /\ Stealing!StealerStep(t)
    BY <1>2 DEF Stealing!Step, Stealer
  <2> QED  BY <2>1, StealingRegister, StealingLook, StealingClaim, StealingRecord DEF Stealing!StealerStep
<1> QED  BY <1>1, <1>2

LEMMA StealingReturn ==
  ASSUME StealingOK, NEW t \in Thread, Return(t)
  PROVE  StealingOK'
<1>1. mem' = mem /\ loc' = [loc EXCEPT ![t] = [pc |-> "idle"]]
  BY DEF Return, Leave, Idle
<1>2. DOMAIN loc = Thread /\ Owner \in Thread
  BY DEF StealingOK
<1>3. DOMAIN loc' = Thread /\ (\A u \in Thread : u # t => loc'[u] = loc[u]) /\ loc'[t] = [pc |-> "idle"]
  BY <1>1, <1>2
<1>4. loc'[t].pc = "idle"
  BY <1>3
<1>5. CASE t = Owner
  <2>1. \A u \in Stealer : loc'[u] = loc[u]
    BY <1>3, <1>5 DEF Stealer
  <2>2. {"tls", "buffer", "unlinked", "undefined"} \subseteq DOMAIN mem
    BY DEF StealingOK
  <2> QED  BY <1>1, <1>3, <1>4, <1>5, <2>1, <2>2, OwnerStaysAway DEF OwnerAway
<1>6. CASE t # Owner
  <2>1. t \in Stealer
    BY <1>6 DEF Stealer
  <2> QED  BY <1>1, <1>3, <1>4, <2>1, StealerOutside DEF At
<1> QED  BY <1>5, <1>6

LEMMA StealingStarts ==
  ASSUME chosen = "deque", Init
  PROVE  StealingOK
<1>1. loc = [t \in Thread |-> Idle] /\ Stealing!Init /\ Owner \in Thread
  BY LockFreeAssumption DEF Init
<1>2. \A t \in Thread : loc[t].pc = "idle"
  BY <1>1 DEF Idle
<1>3. /\ {"tls", "buffer", "unlinked", "undefined"} \subseteq DOMAIN mem
      /\ mem.tls = <<[idle |-> TRUE, id |-> 0]>> /\ mem.buffer = 0 /\ mem.unlinked = -1 /\ mem.undefined = {}
  BY <1>1 DEF Stealing!Init, Stealing!None
<1>4. mem.tls \in Seq([idle : BOOLEAN, id : Nat]) /\ Len(mem.tls) = 1
  <2> DEFINE new == [idle |-> TRUE, id |-> 0]
  <2>1. new \in [idle : BOOLEAN, id : Nat]
    OBVIOUS
  <2>2. mem.tls = <<new>>
    BY <1>3
  <2> HIDE DEF new
  <2> QED  BY <2>1, <2>2
<1>5. RecordsOK
  BY <1>2, <1>4 DEF RecordsOK, Enlisted, Busy, At, Stealer
<1>6. BuffersOK
  BY <1>2, <1>3 DEF BuffersOK, Holds, Stealer
<1>7. ScanOK
  BY <1>1, <1>2 DEF ScanOK, Scanning, At
<1> QED  BY <1>1, <1>3, <1>5, <1>6, <1>7 DEF StealingOK

-----------------------------------------------------------------------------
(***************************************************************************)
(* The work-stealing deque: its elements.  The element of index i is in    *)
(* the slot i modulo the size of the buffer c.                             *)
(***************************************************************************)
Element(c, i) == c[i % Cardinality(DOMAIN c)]
Elements(c, i, j) == [n \in 1 .. j - i |-> Element(c, i + n - 1)]

LEMMA CellsAreResults == \A e \in Cell : e # Pending
<1>1. {Void, Empty, Pending} \cap (0 .. MaxNodes + 1) = {}
  BY LockFreeAssumption
<1>2. MaxNodes \in Nat
  BY LockFreeAssumption
<1> QED  BY <1>1, <1>2 DEF Cell

LEMMA Multiples ==
  ASSUME NEW n \in Nat, NEW k \in Int, k >= 1
  PROVE  n * k >= n
OBVIOUS

LEMMA Division ==
  ASSUME NEW n \in Nat \ {0}, NEW a \in Nat
  PROVE  /\ a % n \in 0 .. n - 1 /\ a \div n \in Int
         /\ a = n * (a \div n) + (a % n)
OBVIOUS

\* Indices that differ by less than the size have slots of their own.
LEMMA SlotsDiffer ==
  ASSUME NEW n \in Nat \ {0}, NEW a \in Nat, NEW b \in Nat, a < b, b - a < n
  PROVE  a % n # b % n
<1>1. a % n \in 0 .. n - 1 /\ a \div n \in Int /\ a = n * (a \div n) + (a % n)
  BY Division
<1>2. b % n \in 0 .. n - 1 /\ b \div n \in Int /\ b = n * (b \div n) + (b % n)
  BY Division
<1> SUFFICES ASSUME a % n = b % n PROVE FALSE
  OBVIOUS
<1>3. PICK p \in Int : p = a \div n
  BY <1>1
<1>4. PICK q \in Int : q = b \div n
  BY <1>2
<1>5. PICK r \in Int : r = a % n
  BY <1>1
<1>6. a = n * p + r /\ b = n * q + r
  BY <1>1, <1>2, <1>3, <1>4, <1>5
<1>7. b - a = n * (q - p)
  BY <1>6
<1>8. CASE q - p >= 1
  BY <1>7, <1>8, Multiples
<1>9. CASE q - p <= 0
  BY <1>7, <1>9
<1> QED  BY <1>3, <1>4, <1>8, <1>9

IsBuffer(c, n) == n \in Nat \ {0} /\ c \in [0 .. n - 1 -> Cell]

LEMMA BufferSize ==
  ASSUME NEW c, NEW n, IsBuffer(c, n)
  PROVE  Cardinality(DOMAIN c) = n
<1>1. DOMAIN c = 0 .. n - 1 /\ n \in Nat /\ n # 0
  BY DEF IsBuffer
<1>2. Cardinality(0 .. n - 1) = n
  BY <1>1, FS_Interval
<1> QED  BY <1>1, <1>2

LEMMA ElementFacts ==
  ASSUME NEW c, NEW n, IsBuffer(c, n), NEW i \in Nat
  PROVE  Element(c, i) = c[i % n] /\ Element(c, i) \in Cell /\ i % n \in 0 .. n - 1
<1>1. i % n \in 0 .. n - 1 /\ c \in [0 .. n - 1 -> Cell]
  BY Division DEF IsBuffer
<1> QED  BY <1>1, BufferSize DEF Element

\* What a step does at the ends.
LEMMA ElementsFacts ==
  ASSUME NEW c, NEW n, IsBuffer(c, n), NEW i \in Nat, NEW j \in Nat, i <= j
  PROVE  /\ Elements(c, i, j) \in Seq(Cell) /\ Len(Elements(c, i, j)) = j - i
         /\ i = j <=> Elements(c, i, j) = <<>>
         /\ Elements(c, i, j + 1) = Append(Elements(c, i, j), Element(c, j))
         /\ i < j => /\ Elements(c, i, j)[1] = Element(c, i)
                     /\ Elements(c, i, j)[Len(Elements(c, i, j))] = Element(c, j - 1)
                     /\ SubSeq(Elements(c, i, j), 2, Len(Elements(c, i, j))) = Elements(c, i + 1, j)
                     /\ SubSeq(Elements(c, i, j), 1, Len(Elements(c, i, j)) - 1) = Elements(c, i, j - 1)
<1>1. Elements(c, i, j) \in Seq(Cell) /\ Len(Elements(c, i, j)) = j - i
  <2>1. \A m \in 1 .. j - i : Element(c, i + m - 1) \in Cell
    <3> TAKE m \in 1 .. j - i
    <3>1. i + m - 1 \in Nat
      OBVIOUS
    <3> QED  BY <3>1, ElementFacts
  <2>2. j - i \in Nat
    OBVIOUS
  <2> QED  BY <2>1, <2>2 DEF Elements
<1>2. i = j <=> Elements(c, i, j) = <<>>
  <2>1. i = j => Elements(c, i, j) = <<>>
    BY DEF Elements
  <2>2. Elements(c, i, j) = <<>> => Len(Elements(c, i, j)) = 0
    OBVIOUS
  <2> QED  BY <1>1, <2>1, <2>2
<1>3. Elements(c, i, j + 1) = Append(Elements(c, i, j), Element(c, j))
  BY DEF Elements
<1>4. ASSUME i < j
      PROVE  /\ Elements(c, i, j)[1] = Element(c, i)
             /\ Elements(c, i, j)[Len(Elements(c, i, j))] = Element(c, j - 1)
  <2>1. 1 \in 1 .. j - i /\ j - i \in 1 .. j - i /\ i + 1 - 1 = i /\ i + (j - i) - 1 = j - 1
    BY <1>4
  <2> QED  BY <1>1, <2>1 DEF Elements
<1>5. ASSUME i < j PROVE SubSeq(Elements(c, i, j), 2, Len(Elements(c, i, j))) = Elements(c, i + 1, j)
  BY <1>1, <1>5 DEF Elements
<1>6. ASSUME i < j PROVE SubSeq(Elements(c, i, j), 1, Len(Elements(c, i, j)) - 1) = Elements(c, i, j - 1)
  BY <1>1, <1>6 DEF Elements
<1> QED  BY <1>1, <1>2, <1>3, <1>4, <1>5, <1>6

LEMMA ElementsFirst ==
  ASSUME NEW c, NEW n, IsBuffer(c, n), NEW i \in Nat, NEW j \in Nat, i < j, NEW s, s = Elements(c, i, j)
  PROVE  s # <<>> /\ s[1] = Element(c, i) /\ SubSeq(s, 2, Len(s)) = Elements(c, i + 1, j)
<1>1. i <= j /\ i # j
  OBVIOUS
<1>2. Elements(c, i, j) # <<>>
  BY <1>1, ElementsFacts
<1>3. Elements(c, i, j)[1] = Element(c, i)
  BY <1>1, ElementsFacts, ZenonT(60)
<1>4. SubSeq(Elements(c, i, j), 2, Len(Elements(c, i, j))) = Elements(c, i + 1, j)
  BY <1>1, ElementsFacts, ZenonT(60)
<1> QED  BY <1>2, <1>3, <1>4

LEMMA ElementsLast ==
  ASSUME NEW c, NEW n, IsBuffer(c, n), NEW i \in Nat, NEW j \in Nat, i < j, NEW s, s = Elements(c, i, j)
  PROVE  s # <<>> /\ s[Len(s)] = Element(c, j - 1) /\ SubSeq(s, 1, Len(s) - 1) = Elements(c, i, j - 1)
<1>1. i <= j /\ i # j
  OBVIOUS
<1> QED  BY <1>1, ElementsFacts

LEMMA ElementsAgree ==
  ASSUME NEW c, NEW d, NEW i \in Nat, NEW j \in Int, \A m \in Nat : i <= m /\ m < j => Element(c, m) = Element(d, m)
  PROVE  Elements(c, i, j) = Elements(d, i, j)
<1>1. \A m \in 1 .. j - i : Element(c, i + m - 1) = Element(d, i + m - 1)
  <2> TAKE m \in 1 .. j - i
  <2>1. i + m - 1 \in Nat /\ i <= i + m - 1 /\ i + m - 1 < j
    OBVIOUS
  <2> QED  BY <2>1
<1> QED  BY <1>1 DEF Elements

\* The buffer c with e in slot i.
Filled(c, i, e) == [c EXCEPT ![i] = e]

LEMMA BufferPut ==
  ASSUME NEW c, NEW n, IsBuffer(c, n), NEW b \in Nat, NEW e \in Cell, NEW d, d = Filled(c, b % n, e)
  PROVE  /\ IsBuffer(d, n) /\ Element(d, b) = e
         /\ \A m \in Nat : m < b /\ b - m < n => Element(d, m) = Element(c, m)
<1>1. n \in Nat \ {0} /\ b % n \in 0 .. n - 1 /\ c \in [0 .. n - 1 -> Cell]
  BY Division DEF IsBuffer
<1>2. IsBuffer(d, n) /\ d[b % n] = e
  BY <1>1 DEF IsBuffer, Filled
<1>3. Element(d, b) = e
  BY <1>2, ElementFacts
<1>4. ASSUME NEW m \in Nat, m < b, b - m < n PROVE Element(d, m) = Element(c, m)
  <2>1. m % n # b % n
    BY <1>1, <1>4, SlotsDiffer
  <2>2. m % n \in 0 .. n - 1 /\ Element(c, m) = c[m % n] /\ Element(d, m) = d[m % n]
    BY <1>2, ElementFacts
  <2> QED  BY <1>1, <2>1, <2>2 DEF Filled
<1> QED  BY <1>2, <1>3, <1>4

LEMMA StealingSize ==
  \A S : Stealing!Cardinality(S) = Cardinality(S)
BY DEF Stealing!Cardinality, Cardinality

\* resize keeps the elements, if there are slots for them.
LEMMA BufferResized ==
  ASSUME StealingOK, NEW n, IsBuffer(mem.seg[mem.buffer + 1], n),
         NEW s \in Nat \ {0}, NEW t \in Nat, NEW b \in Nat, b - t <= s
  PROVE  /\ IsBuffer(Stealing!Resize(s, t, b), s)
         /\ \A m \in Nat : t <= m /\ m < b => Element(Stealing!Resize(s, t, b), m) = Element(mem.seg[mem.buffer + 1], m)
<1> DEFINE c == mem.seg[mem.buffer + 1]
           holds(i) == {j \in t .. b - 1 : j % s = i}
           d == Stealing!Resize(s, t, b)
<1>1. d = [i \in 0 .. s - 1 |-> IF holds(i) = {} THEN 0 ELSE Element(c, Stealing!Max(holds(i)))]
  <2>1. \A i : Stealing!Get(mem.buffer, i) = Element(c, i)
    BY StealingSize DEF Stealing!Get, Stealing!Size, Element
  <2> HIDE DEF c
  <2> QED  BY <2>1 DEF Stealing!Resize
<1>2. ASSUME NEW m \in Nat, t <= m, m < b PROVE holds(m % s) = {m}
  <2>1. ASSUME NEW j \in t .. b - 1, j # m PROVE j % s # m % s
    <3>1. j \in Nat
      OBVIOUS
    <3>2. CASE j < m
      <4>1. m - j < s
        BY <1>2, <3>1, <3>2
      <4> QED  BY <1>2, <3>1, <3>2, <4>1, SlotsDiffer
    <3>3. CASE j > m
      <4>1. j - m < s
        BY <1>2, <3>1, <3>3
      <4> QED  BY <1>2, <3>1, <3>3, <4>1, SlotsDiffer
    <3> QED  BY <1>2, <2>1, <3>1, <3>2, <3>3
  <2>2. m \in t .. b - 1
    BY <1>2
  <2> QED  BY <2>1, <2>2
<1>3. \A m \in Nat : Stealing!Max({m}) = m
  BY DEF Stealing!Max
<1>4. ASSUME NEW m \in Nat, t <= m, m < b PROVE d[m % s] = Element(c, m)
  <2>1. m % s \in 0 .. s - 1
    BY Division
  <2>2. holds(m % s) = {m} /\ Stealing!Max({m}) = m
    BY <1>2, <1>3, <1>4
  <2> HIDE DEF holds, d, c
  <2> QED  BY <1>1, <2>1, <2>2
<1>5. ASSUME NEW i \in 0 .. s - 1 PROVE d[i] \in Cell
  <2>1. CASE holds(i) = {}
    <3>1. d[i] = 0
      BY <1>1, <2>1
    <3> QED  BY <3>1, LockFreeAssumption DEF Cell
  <2>2. CASE holds(i) # {}
    <3>1. PICK m \in t .. b - 1 : m % s = i
      BY <2>2
    <3>2. m \in Nat /\ t <= m /\ m < b
      BY <3>1
    <3>3. d[i] = Element(c, m)
      BY <1>4, <3>1, <3>2
    <3> QED  BY <3>2, <3>3, ElementFacts
  <2> QED  BY <2>1, <2>2
<1>6. IsBuffer(d, s)
  <2>1. d \in [0 .. s - 1 -> Cell]
    <3> HIDE DEF holds
    <3>1. DOMAIN d = 0 .. s - 1 /\ d = [i \in DOMAIN d |-> d[i]]
      BY <1>1
    <3> HIDE DEF d
    <3> QED  BY <1>5, <3>1
  <2> QED  BY <2>1 DEF IsBuffer
<1>7. ASSUME NEW m \in Nat, t <= m, m < b PROVE Element(d, m) = Element(c, m)
  <2>1. Element(d, m) = d[m % s]
    BY <1>6, ElementFacts
  <2> QED  BY <1>4, <1>7, <2>1
<1> QED  BY <1>6, <1>7

Segments == UNION {[0 .. n - 1 -> Cell] : n \in Nat \ {0}}
Current == mem.seg[mem.buffer + 1]
Capacity == Stealing!Size(mem.buffer)

\* The elements from the top to the bottom are in slots of their own.
DequeShape ==
  /\ {"top", "bottom", "made", "seg"} \subseteq DOMAIN mem
  /\ mem.top \in Nat /\ mem.bottom \in Int
  /\ mem.seg \in Seq(Segments) /\ Len(mem.seg) = mem.buffer + 1
  /\ mem.top <= Stealing!Bottom /\ Stealing!Bottom - mem.top <= Capacity

\* Where the owner goes on, after reclaim_buffers.
Reclaiming == loc[Owner].pc \in {"resize", "reclaim", "scan", "scan_id", "delete"}
OwnerAt == IF Reclaiming THEN loc[Owner].after ELSE loc[Owner].pc

\* There is a slot for the element that the owner pushes.
HasRoom == mem.bottom - mem.top < Capacity

OwnerCall ==
  \/ OwnerAt = "idle" /\ call[Owner] = <<>> /\ "value" \notin DOMAIN loc[Owner]
  \/ /\ OwnerAt \in {"push", "put", "publish"} /\ "value" \notin DOMAIN loc[Owner]
     /\ \E e \in 1 .. MaxNodes : call[Owner] = <<"push", "R", e>>
  \/ OwnerAt \in {"pop", "pop_top", "race"} /\ call[Owner] = <<"pop", "R", 1>> /\ "value" \notin DOMAIN loc[Owner]
  \/ OwnerAt \in {"restore", "return"} /\ "value" \in DOMAIN loc[Owner] /\ loc[Owner].value # Pending

OwnerFrame ==
  /\ At(Owner, "resize") =>
       /\ {"size", "top", "end"} \subseteq DOMAIN loc[Owner]
       /\ loc[Owner].size \in Nat \ {0} /\ loc[Owner].top \in Nat /\ loc[Owner].end \in Nat
       /\ loc[Owner].top <= mem.top /\ mem.bottom <= loc[Owner].end
       /\ loc[Owner].end - loc[Owner].top <= loc[Owner].size
       /\ loc[Owner].after = "put" => mem.bottom - mem.top < loc[Owner].size
  /\ OwnerAt = "put" /\ ~At(Owner, "resize") => HasRoom
  /\ At(Owner, "publish") => HasRoom /\ Stealing!Get(mem.buffer, mem.bottom) = call[Owner][3]
  /\ At(Owner, "race") => "top" \in DOMAIN loc[Owner] /\ loc[Owner].top = mem.bottom /\ mem.bottom <= mem.top

\* A steal that may advance the top has seen an element there.
StealerFrame(t) ==
  \/ At(t, "idle") /\ call[t] = <<>> /\ "value" \notin DOMAIN loc[t]
  \/ /\ loc[t].pc \in {"register", "enlist", "busy", "steal", "steal_bottom", "steal_buffer", "claim"}
     /\ call[t] = <<"pop", "L", 1>> /\ "value" \notin DOMAIN loc[t]
     /\ loc[t].pc \in {"steal_bottom", "steal_buffer", "claim"} =>
          "top" \in DOMAIN loc[t] /\ loc[t].top \in Nat /\ loc[t].top <= mem.top
     /\ loc[t].pc \in {"steal_buffer", "claim"} /\ loc[t].top = mem.top => mem.top < Stealing!Bottom
  \/ loc[t].pc \in {"get", "rest", "last", "last_id", "return"} /\ "value" \in DOMAIN loc[t] /\ loc[t].value # Pending

\* None of this is said any more once a stealer has read too late.
DequeOK ==
  mem.undefined = {} => DequeShape /\ OwnerCall /\ OwnerFrame /\ \A t \in Stealer : StealerFrame(t)

LEMMA DequeView ==
  /\ Stealing!Bottom = IF loc[Owner].pc \in {"pop_top", "race", "restore"} THEN mem.bottom + 1 ELSE mem.bottom
  /\ Stealing!Bottom' = IF loc'[Owner].pc \in {"pop_top", "race", "restore"} THEN mem'.bottom + 1 ELSE mem'.bottom
  /\ Capacity = Cardinality(DOMAIN Current) /\ Capacity' = Cardinality(DOMAIN Current')
  /\ \A i : Stealing!Get(mem.buffer, i) = Element(Current, i)
  /\ \A i : Stealing!Get(mem.buffer, i)' = Element(Current', i)
<1>1. /\ Stealing!Bottom = IF loc[Owner].pc \in {"pop_top", "race", "restore"} THEN mem.bottom + 1 ELSE mem.bottom
      /\ Stealing!Bottom' = IF loc'[Owner].pc \in {"pop_top", "race", "restore"} THEN mem'.bottom + 1 ELSE mem'.bottom
  BY StealingFrames DEF Stealing!Bottom, Stealing!At
<1>2. Capacity = Cardinality(DOMAIN Current) /\ Capacity' = Cardinality(DOMAIN Current')
  BY StealingSize DEF Capacity, Current, Stealing!Size
<1>3. /\ \A i : Stealing!Get(mem.buffer, i) = Element(Current, i)
      /\ \A i : Stealing!Get(mem.buffer, i)' = Element(Current', i)
  BY StealingSize DEF Current, Stealing!Get, Stealing!Size, Element
<1> QED  BY <1>1, <1>2, <1>3

LEMMA DequeItems ==
  ASSUME chosen = "deque", chosen' = chosen
  PROVE  /\ Items = Elements(Current, mem.top, Stealing!Bottom)
         /\ Items' = Elements(Current', mem'.top, Stealing!Bottom')
<1>1. Items = Stealing!Items /\ Items' = Stealing!Items'
  BY DEF Items
<1>2. Stealing!Items = Elements(Current, mem.top, Stealing!Bottom)
  BY DequeView DEF Stealing!Items, Elements
<1>3. Stealing!Items' = Elements(Current', mem'.top, Stealing!Bottom')
  <2>1. Stealing!Items' = [i \in 1 .. Stealing!Bottom' - mem'.top |-> Stealing!Get(mem.buffer, mem.top + i - 1)']
    BY DEF Stealing!Items
  <2>2. Stealing!Items' = [i \in 1 .. Stealing!Bottom' - mem'.top |-> Element(Current', mem'.top + i - 1)]
    BY <2>1, StealingSize DEF Current, Stealing!Get, Stealing!Size, Element
  <2> QED  BY <2>2 DEF Elements
<1> QED  BY <1>1, <1>2, <1>3

\* The numbers of the deque.
LEMMA DequeTypes ==
  ASSUME StealingOK, DequeShape
  PROVE  /\ IsBuffer(Current, Capacity) /\ Capacity \in Nat \ {0}
         /\ mem.top \in Nat /\ mem.bottom \in Int /\ mem.buffer \in Nat /\ Stealing!Bottom \in Nat
<1>1. mem.seg \in Seq(Segments) /\ Len(mem.seg) = mem.buffer + 1 /\ mem.buffer \in Nat
  BY DEF StealingOK, BuffersOK, DequeShape
<1>2. Current \in Segments
  <2>1. mem.buffer + 1 \in 1 .. Len(mem.seg)
    BY <1>1
  <2> QED  BY <1>1, <2>1, ElementOfSeq DEF Current
<1>3. PICK n \in Nat \ {0} : Current \in [0 .. n - 1 -> Cell]
  BY <1>2 DEF Segments
<1>4. IsBuffer(Current, n)
  BY <1>3 DEF IsBuffer
<1>5. Capacity = n
  BY <1>4, BufferSize, DequeView
<1>6. mem.top \in Nat /\ mem.bottom \in Int /\ mem.top <= Stealing!Bottom
  BY DEF DequeShape
<1>7. Stealing!Bottom \in Nat
  BY <1>6, DequeView
<1> QED  BY <1>1, <1>3, <1>4, <1>5, <1>6, <1>7

\* The calls of the stealers go on as they were when the owner moves, unless it
\* takes the last element and leaves the top.
LEMMA StealersWait ==
  ASSUME \A t \in Stealer : StealerFrame(t), NEW top \in Nat, mem.top = top, NEW top2 \in Nat, mem'.top = top2, top <= top2,
         \A u \in Stealer : loc'[u] = loc[u] /\ call'[u] = call[u],
         top2 = top => Stealing!Bottom' = Stealing!Bottom \/ top < Stealing!Bottom'
  PROVE  \A t \in Stealer : StealerFrame(t)'
<1> SUFFICES ASSUME NEW t \in Stealer PROVE StealerFrame(t)'
  OBVIOUS
<1>1. StealerFrame(t) /\ loc'[t] = loc[t] /\ call'[t] = call[t]
  OBVIOUS
<1>2. \/ At(t, "idle") /\ call[t] = <<>> /\ "value" \notin DOMAIN loc[t]
      \/ /\ loc[t].pc \in {"register", "enlist", "busy", "steal", "steal_bottom", "steal_buffer", "claim"}
         /\ call[t] = <<"pop", "L", 1>> /\ "value" \notin DOMAIN loc[t]
         /\ loc[t].pc \in {"steal_bottom", "steal_buffer", "claim"} =>
              "top" \in DOMAIN loc[t] /\ loc[t].top \in Nat /\ loc[t].top <= mem'.top
         /\ loc[t].pc \in {"steal_buffer", "claim"} /\ loc[t].top = mem'.top => mem'.top < Stealing!Bottom'
      \/ loc[t].pc \in {"get", "rest", "last", "last_id", "return"} /\ "value" \in DOMAIN loc[t] /\ loc[t].value # Pending
  BY <1>1 DEF StealerFrame
<1> QED  BY <1>1, <1>2 DEF StealerFrame, At

\* A step of a stealer takes the first element at most.
StealerTook ==
  /\ {"top", "bottom", "made", "seg"} \subseteq DOMAIN mem'
  /\ mem'.seg = mem.seg /\ mem'.buffer = mem.buffer /\ mem'.bottom = mem.bottom
  /\ mem'.top = mem.top \/ (mem'.top = mem.top + 1 /\ mem.top < Stealing!Bottom)

LEMMA StealerTurn ==
  ASSUME StealingOK, DequeOK, mem.undefined = {}, NEW t \in Stealer,
         \A u \in Thread : u # t => loc'[u] = loc[u] /\ call'[u] = call[u],
         StealerTook, StealerFrame(t)'
  PROVE  DequeOK' /\ Stealing!Bottom' = Stealing!Bottom /\ Current' = Current
<1>1. Owner \in Thread /\ Owner # t /\ loc'[Owner] = loc[Owner] /\ call'[Owner] = call[Owner]
  BY DEF StealingOK, Stealer
<1>2. Stealing!Bottom' = Stealing!Bottom
  BY <1>1, DequeView DEF StealerTook
<1>3. Current' = Current /\ Capacity' = Capacity
  BY DequeView DEF StealerTook, Current
<1>4. DequeShape /\ OwnerCall /\ OwnerFrame /\ \A u \in Stealer : StealerFrame(u)
  BY DEF DequeOK
<1>5. /\ IsBuffer(Current, Capacity) /\ Capacity \in Nat \ {0}
      /\ mem.top \in Nat /\ mem.bottom \in Int /\ Stealing!Bottom \in Nat
      /\ mem.top <= Stealing!Bottom /\ Stealing!Bottom - mem.top <= Capacity
  BY <1>4, DequeTypes DEF DequeShape
<1>6. mem'.top \in Nat /\ mem.top <= mem'.top /\ mem'.top <= Stealing!Bottom
  BY <1>5 DEF StealerTook
<1>7. DequeShape'
  <2>1. Stealing!Bottom - mem'.top <= Capacity
    BY <1>5, <1>6
  <2> QED  BY <1>2, <1>3, <1>4, <1>6, <2>1 DEF DequeShape, StealerTook
<1>8. OwnerCall' /\ OwnerAt' = OwnerAt
  BY <1>1, <1>4 DEF OwnerCall, OwnerAt, Reclaiming
<1>9. OwnerFrame'
  <2>1. HasRoom => HasRoom'
    BY <1>3, <1>5, <1>6 DEF HasRoom, StealerTook
  <2>2. Stealing!Get(mem.buffer, mem.bottom)' = Stealing!Get(mem.buffer, mem.bottom)
    BY <1>3, DequeView DEF StealerTook
  <2>3. At(Owner, "resize") =>
           /\ {"size", "top", "end"} \subseteq DOMAIN loc[Owner]
           /\ loc[Owner].size \in Nat \ {0} /\ loc[Owner].top \in Nat /\ loc[Owner].end \in Nat
           /\ loc[Owner].top <= mem'.top /\ mem'.bottom <= loc[Owner].end
           /\ loc[Owner].end - loc[Owner].top <= loc[Owner].size
           /\ loc[Owner].after = "put" => mem'.bottom - mem'.top < loc[Owner].size
    BY <1>4, <1>5, <1>6 DEF OwnerFrame, StealerTook
  <2>4. At(Owner, "race") => "top" \in DOMAIN loc[Owner] /\ loc[Owner].top = mem'.bottom /\ mem'.bottom <= mem'.top
    BY <1>4, <1>5, <1>6 DEF OwnerFrame, StealerTook
  <2>5. \A x : At(Owner, x)' <=> At(Owner, x)
    BY <1>1 DEF At
  <2>6. OwnerAt = "put" /\ ~At(Owner, "resize") => HasRoom'
    BY <1>4, <2>1 DEF OwnerFrame
  <2>7. At(Owner, "publish") => HasRoom' /\ Stealing!Get(mem.buffer, mem.bottom)' = call[Owner][3]
    BY <1>4, <2>1, <2>2 DEF OwnerFrame
  <2> QED  BY <1>1, <1>8, <2>3, <2>4, <2>5, <2>6, <2>7 DEF OwnerFrame
<1>10. \A u \in Stealer : StealerFrame(u)'
  <2> SUFFICES ASSUME NEW u \in Stealer, u # t PROVE StealerFrame(u)'
    OBVIOUS
  <2>1. StealerFrame(u) /\ loc'[u] = loc[u] /\ call'[u] = call[u]
    BY <1>4 DEF Stealer
  <2>2. \/ At(u, "idle") /\ call[u] = <<>> /\ "value" \notin DOMAIN loc[u]
        \/ /\ loc[u].pc \in {"register", "enlist", "busy", "steal", "steal_bottom", "steal_buffer", "claim"}
           /\ call[u] = <<"pop", "L", 1>> /\ "value" \notin DOMAIN loc[u]
           /\ loc[u].pc \in {"steal_bottom", "steal_buffer", "claim"} =>
                "top" \in DOMAIN loc[u] /\ loc[u].top \in Nat /\ loc[u].top <= mem'.top
           /\ loc[u].pc \in {"steal_buffer", "claim"} /\ loc[u].top = mem'.top => mem'.top < Stealing!Bottom
        \/ loc[u].pc \in {"get", "rest", "last", "last_id", "return"} /\ "value" \in DOMAIN loc[u] /\ loc[u].value # Pending
    BY <1>5, <2>1 DEF StealerFrame, StealerTook
  <2> QED  BY <1>2, <2>1, <2>2 DEF StealerFrame, At
<1> QED  BY <1>2, <1>3, <1>7, <1>8, <1>9, <1>10 DEF DequeOK

\* A step of a stealer that takes nothing and changes no result.
LEMMA StealerSilent ==
  ASSUME chosen = "deque", chosen' = chosen, StealingOK, DequeOK, mem.undefined = {}, NEW t \in Stealer,
         \A u \in Thread : u # t => loc'[u] = loc[u], call' = call, left' = left,
         StealerTook, mem'.top = mem.top, StealerFrame(t)', Value(t)' = Value(t)
  PROVE  DequeOK' /\ Promised
<1>1. DequeOK' /\ Stealing!Bottom' = Stealing!Bottom /\ Current' = Current
  BY StealerTurn
<1>2. Items' = Items
  BY <1>1, DequeItems
<1>3. t \in Thread
  BY DEF Stealer
<1> QED  BY <1>1, <1>2, <1>3, Silent

Early == {"register", "enlist", "busy", "steal", "steal_bottom", "steal_buffer", "claim"}
Late == {"get", "rest", "last", "last_id", "return"}

\* Before the call has its result.
LEMMA StealerEarly ==
  ASSUME chosen = "deque", chosen' = chosen, StealingOK, DequeOK, mem.undefined = {}, NEW t \in Stealer,
         call' = call, left' = left, StealerTook, mem'.top = mem.top,
         loc[t].pc \in Early, NEW frame, Go(t, frame), "pc" \in DOMAIN frame, frame.pc \in Early, "value" \notin DOMAIN frame,
         \/ frame.pc \notin {"steal_bottom", "steal_buffer", "claim"}
         \/ frame.pc = "steal_bottom" /\ "top" \in DOMAIN frame /\ frame.top = mem.top
         \/ /\ loc[t].pc \in {"steal_bottom", "steal_buffer"} /\ "top" \notin DOMAIN frame
            /\ loc[t].top = mem.top => mem.top < Stealing!Bottom
  PROVE  DequeOK' /\ Promised
<1>1. /\ DOMAIN loc' = Thread /\ \A u \in Thread : u # t => loc'[u] = loc[u]
      /\ DOMAIN loc'[t] = DOMAIN frame \union DOMAIN loc[t]
      /\ \A x \in DOMAIN frame : loc'[t][x] = frame[x]
      /\ \A x \in DOMAIN loc[t] \ DOMAIN frame : loc'[t][x] = loc[t][x]
  BY StealerGoFacts
<1>2. mem.top \in Nat /\ StealerFrame(t)
  BY DEF DequeOK, DequeShape
<1>3. /\ call[t] = <<"pop", "L", 1>> /\ "value" \notin DOMAIN loc[t]
      /\ loc[t].pc \in {"steal_bottom", "steal_buffer", "claim"} =>
           "top" \in DOMAIN loc[t] /\ loc[t].top \in Nat /\ loc[t].top <= mem.top
  BY <1>2 DEF StealerFrame, Early, At
<1>4. loc'[t].pc = frame.pc /\ "value" \notin DOMAIN loc'[t]
  BY <1>1, <1>3
<1>5. Stealing!Bottom' = Stealing!Bottom
  <2>1. loc'[Owner] = loc[Owner]
    BY <1>1 DEF StealingOK, Stealer
  <2> QED  BY <2>1, DequeView DEF StealerTook
<1>6. /\ loc'[t].pc \in {"steal_bottom", "steal_buffer", "claim"} =>
           "top" \in DOMAIN loc'[t] /\ loc'[t].top \in Nat /\ loc'[t].top <= mem'.top
      /\ loc'[t].pc \in {"steal_buffer", "claim"} /\ loc'[t].top = mem'.top => mem'.top < Stealing!Bottom'
  <2>1. CASE frame.pc \notin {"steal_bottom", "steal_buffer", "claim"}
    BY <1>4, <2>1
  <2>2. CASE frame.pc = "steal_bottom" /\ "top" \in DOMAIN frame /\ frame.top = mem.top
    BY <1>1, <1>2, <1>4, <2>2
  <2>3. CASE /\ loc[t].pc \in {"steal_bottom", "steal_buffer"} /\ "top" \notin DOMAIN frame
             /\ loc[t].top = mem.top => mem.top < Stealing!Bottom
    BY <1>1, <1>3, <1>4, <1>5, <2>3
  <2> QED  BY <2>1, <2>2, <2>3
<1>7. StealerFrame(t)' /\ Value(t)' = Value(t)
  BY <1>3, <1>4, <1>6 DEF StealerFrame, Early, Value
<1> QED  BY <1>1, <1>7, StealerSilent

\* After that.
LEMMA StealerLate ==
  ASSUME chosen = "deque", chosen' = chosen, StealingOK, DequeOK, mem.undefined = {}, NEW t \in Stealer,
         call' = call, left' = left, StealerTook, mem'.top = mem.top,
         loc[t].pc \in Late, NEW frame, Go(t, frame), "pc" \in DOMAIN frame, frame.pc \in Late,
         "value" \in DOMAIN frame => frame.value = loc[t].value
  PROVE  DequeOK' /\ Promised
<1>1. /\ DOMAIN loc' = Thread /\ \A u \in Thread : u # t => loc'[u] = loc[u]
      /\ DOMAIN loc'[t] = DOMAIN frame \union DOMAIN loc[t]
      /\ \A x \in DOMAIN frame : loc'[t][x] = frame[x]
      /\ \A x \in DOMAIN loc[t] \ DOMAIN frame : loc'[t][x] = loc[t][x]
  BY StealerGoFacts
<1>2. StealerFrame(t)
  BY DEF DequeOK
<1>3. "value" \in DOMAIN loc[t] /\ loc[t].value # Pending
  BY <1>2 DEF StealerFrame, Late, At
<1>4. loc'[t].pc = frame.pc /\ "value" \in DOMAIN loc'[t] /\ loc'[t].value = loc[t].value
  BY <1>1, <1>3
<1>5. StealerFrame(t)' /\ Value(t)' = Value(t)
  BY <1>3, <1>4 DEF StealerFrame, Late, Value
<1> QED  BY <1>1, <1>5, StealerSilent

\* A steal that gives up.
LEMMA StealerGivesUp ==
  ASSUME chosen = "deque", chosen' = chosen, StealingOK, DequeOK, mem.undefined = {}, NEW t \in Stealer,
         call' = call, left' = left, mem' = mem, loc[t].pc \in Early, Go(t, [pc |-> "rest", value |-> Empty])
  PROVE  DequeOK' /\ GivesUp(t)
<1> DEFINE frame == [pc |-> "rest", value |-> Empty]
<1>1. Go(t, frame) /\ DOMAIN frame = {"pc", "value"} /\ frame["pc"] = "rest" /\ frame["value"] = Empty
  OBVIOUS
<1> HIDE DEF frame
<1>2. /\ DOMAIN loc' = Thread /\ \A u \in Thread : u # t => loc'[u] = loc[u]
      /\ DOMAIN loc'[t] = DOMAIN frame \union DOMAIN loc[t]
      /\ \A x \in DOMAIN frame : loc'[t][x] = frame[x]
  BY <1>1, StealerGoFacts
<1>3. loc'[t].pc = "rest" /\ "value" \in DOMAIN loc'[t] /\ loc'[t].value = Empty
  BY <1>1, <1>2
<1>4. StealerFrame(t)
  BY DEF DequeOK
<1>5. call[t] = <<"pop", "L", 1>> /\ "value" \notin DOMAIN loc[t]
  BY <1>4 DEF StealerFrame, Early, At
<1>6. StealerFrame(t)'
  BY <1>3, LockFreeAssumption DEF StealerFrame
<1>7. StealerTook
  BY DEF StealerTook, DequeOK, DequeShape
<1>8. DequeOK' /\ Items' = Items
  <2>1. DequeOK' /\ Stealing!Bottom' = Stealing!Bottom /\ Current' = Current
    BY <1>2, <1>6, <1>7, StealerTurn
  <2> QED  BY <2>1, DequeItems
<1>9. Results[t] = Pending /\ Results' = [Results EXCEPT ![t] = Empty]
  <2>1. /\ Results = [u \in Thread |-> Value(u)]
        /\ Results' = [Results EXCEPT ![t] = Value(t)']
    BY <1>2, ResultsAre DEF Stealer
  <2>2. Value(t) = Pending /\ Value(t)' = Empty
    BY <1>3, <1>5 DEF Value
  <2> QED  BY <2>1, <2>2 DEF Stealer
<1>10. Promise!Begun(t, "pop")
  BY <1>5, <1>9 DEF Promise!Begun
<1> QED  BY <1>8, <1>9, <1>10 DEF GivesUp, Stealer

\* A steal takes the first element when it advances the top.
LEMMA StealerTakes ==
  ASSUME chosen = "deque", chosen' = chosen, StealingOK, DequeOK, mem.undefined = {}, NEW t \in Stealer,
         call' = call, left' = left, At(t, "claim"), mem.top = loc[t].top, mem' = [mem EXCEPT !.top = @ + 1],
         Go(t, [pc |-> "get", value |-> Stealing!Get(mem.buffer, loc[t].top)])
  PROVE  DequeOK' /\ Promised
<1>1. DequeShape /\ StealerFrame(t) /\ {"top", "bottom", "made", "seg", "buffer"} \subseteq DOMAIN mem
  BY DEF DequeOK, DequeShape, StealingOK
<1>2. /\ IsBuffer(Current, Capacity) /\ mem.top \in Nat /\ Stealing!Bottom \in Nat
  BY <1>1, DequeTypes
<1>3. call[t] = <<"pop", "L", 1>> /\ "value" \notin DOMAIN loc[t] /\ mem.top < Stealing!Bottom
  BY <1>1 DEF StealerFrame, At
<1> DEFINE e == Element(Current, mem.top)
           frame == [pc |-> "get", value |-> Stealing!Get(mem.buffer, loc[t].top)]
<1>4. e \in Cell /\ e # Pending
  <2>1. e \in Cell
    BY <1>2, ElementFacts
  <2> QED  BY <2>1, CellsAreResults
<1>5. Go(t, frame) /\ DOMAIN frame = {"pc", "value"} /\ frame["pc"] = "get" /\ frame["value"] = e
  BY DequeView
<1> HIDE DEF frame, e
<1>6. /\ DOMAIN loc' = Thread /\ \A u \in Thread : u # t => loc'[u] = loc[u]
      /\ DOMAIN loc'[t] = DOMAIN frame \union DOMAIN loc[t]
      /\ \A x \in DOMAIN frame : loc'[t][x] = frame[x]
  BY <1>5, StealerGoFacts
<1>7. loc'[t].pc = "get" /\ "value" \in DOMAIN loc'[t] /\ loc'[t].value = e
  BY <1>5, <1>6
<1>8. StealerFrame(t)'
  BY <1>4, <1>7 DEF StealerFrame
<1>9. StealerTook /\ mem'.top = mem.top + 1
  BY <1>1, <1>3 DEF StealerTook
<1>10. DequeOK' /\ Stealing!Bottom' = Stealing!Bottom /\ Current' = Current
  BY <1>6, <1>8, <1>9, StealerTurn
<1>11. Items = Elements(Current, mem.top, Stealing!Bottom) /\ Items' = Elements(Current, mem.top + 1, Stealing!Bottom)
  BY <1>9, <1>10, DequeItems
<1>12. /\ Items # <<>> /\ Items[1] = e /\ SubSeq(Items, 2, Len(Items)) = Items'
  BY <1>2, <1>3, <1>11, ElementsFirst DEF e
<1>13. /\ call[t][1] = "pop" /\ call[t] # <<>> /\ Value(t) = Pending /\ Value(t)' = Promise!End(Items, call[t][2])
       /\ Items' = Promise!Popped(Items, call[t][2])
  BY <1>3, <1>7, <1>12 DEF Value, Promise!End, Promise!Popped
<1>14. t \in Thread
  BY DEF Stealer
<1> QED  BY <1>6, <1>10, <1>12, <1>13, <1>14, Effect1

LEMMA DequeRegister ==
  ASSUME chosen = "deque", chosen' = chosen, StealingOK, DequeOK, mem.undefined = {}, NEW t \in Stealer,
         call' = call, left' = left, Stealing!Register(t)
  PROVE  DequeOK' /\ Promised
<1>1. {"top", "bottom", "made", "seg", "buffer", "tls"} \subseteq DOMAIN mem
  BY DEF DequeOK, DequeShape, StealingOK
<1>2. StealerTook /\ mem'.top = mem.top
  BY <1>1 DEF Stealing!Register, StealerTook
<1>3. loc[t].pc \in Early
  BY StealingFrames DEF Stealing!Register, Early, At
<1>4. ASSUME NEW frame, Go(t, frame), "pc" \in DOMAIN frame, "value" \notin DOMAIN frame,
             frame.pc \in {"register", "enlist", "busy"}
      PROVE  DequeOK' /\ Promised
  <2>1. frame.pc \in Early /\ frame.pc \notin {"steal_bottom", "steal_buffer", "claim"}
    BY <1>4 DEF Early
  <2> QED  BY <1>2, <1>3, <1>4, <2>1, StealerEarly
<1>5. \/ Go(t, [pc |-> "enlist", tls |-> Len(mem.tls) + 1])
      \/ Go(t, [pc |-> "busy"]) \/ Go(t, [pc |-> "register"])
  BY StealingFrames DEF Stealing!Register
<1>6. CASE Go(t, [pc |-> "enlist", tls |-> Len(mem.tls) + 1])
  <2> DEFINE frame == [pc |-> "enlist", tls |-> Len(mem.tls) + 1]
  <2>1. Go(t, frame) /\ DOMAIN frame = {"pc", "tls"} /\ frame["pc"] = "enlist"
    BY <1>6
  <2> HIDE DEF frame
  <2> QED  BY <1>4, <2>1
<1>7. ASSUME NEW x \in {"busy", "register"}, Go(t, [pc |-> x]) PROVE DequeOK' /\ Promised
  <2> DEFINE frame == [pc |-> x]
  <2>1. Go(t, frame) /\ DOMAIN frame = {"pc"} /\ frame["pc"] = x
    BY <1>7
  <2> HIDE DEF frame
  <2> QED  BY <1>4, <2>1
<1> QED  BY <1>5, <1>6, <1>7

LEMMA DequeLook ==
  ASSUME chosen = "deque", chosen' = chosen, StealingOK, DequeOK, mem.undefined = {}, NEW t \in Stealer,
         call' = call, left' = left, Stealing!Look(t)
  PROVE  DequeOK' /\ (Promised \/ GivesUp(t))
<1>1. mem' = mem /\ DequeShape /\ StealerFrame(t)
  BY DEF Stealing!Look, DequeOK
<1>2. StealerTook
  BY <1>1 DEF DequeShape, StealerTook
<1>3. mem.top \in Nat /\ mem.bottom \in Int /\ mem.bottom <= Stealing!Bottom
  BY <1>1, DequeView DEF DequeShape
<1>4. \/ At(t, "steal") /\ Go(t, [pc |-> "steal_bottom", top |-> mem.top])
      \/ At(t, "steal_bottom") /\ mem.bottom - loc[t].top > 0 /\ Go(t, [pc |-> "steal_buffer"])
      \/ At(t, "steal_bottom") /\ Go(t, [pc |-> "rest", value |-> Empty])
      \/ At(t, "steal_buffer") /\ Go(t, [pc |-> "claim", buffer |-> mem.buffer])
  BY StealingFrames DEF Stealing!Look
<1>5. CASE At(t, "steal") /\ Go(t, [pc |-> "steal_bottom", top |-> mem.top])
  <2> DEFINE frame == [pc |-> "steal_bottom", top |-> mem.top]
  <2>1. Go(t, frame) /\ DOMAIN frame = {"pc", "top"} /\ frame["pc"] = "steal_bottom" /\ frame["top"] = mem.top
    BY <1>5
  <2> HIDE DEF frame
  <2>2. loc[t].pc \in Early /\ frame.pc \in Early
    BY <1>5, <2>1 DEF At, Early
  <2> QED  BY <1>1, <1>2, <2>1, <2>2, StealerEarly
<1>6. CASE At(t, "steal_bottom") /\ mem.bottom - loc[t].top > 0 /\ Go(t, [pc |-> "steal_buffer"])
  <2> DEFINE frame == [pc |-> "steal_buffer"]
  <2>1. Go(t, frame) /\ DOMAIN frame = {"pc"} /\ frame["pc"] = "steal_buffer"
    BY <1>6
  <2> HIDE DEF frame
  <2>2. loc[t].pc \in Early /\ frame.pc \in Early /\ loc[t].pc = "steal_bottom"
    BY <1>6, <2>1 DEF At, Early
  <2>3. loc[t].top = mem.top => mem.top < Stealing!Bottom
    BY <1>3, <1>6, DequeView
  <2> QED  BY <1>1, <1>2, <2>1, <2>2, <2>3, StealerEarly
<1>7. CASE At(t, "steal_bottom") /\ Go(t, [pc |-> "rest", value |-> Empty])
  <2>1. loc[t].pc \in Early
    BY <1>7 DEF At, Early
  <2> QED  BY <1>1, <1>7, <2>1, StealerGivesUp
<1>8. CASE At(t, "steal_buffer") /\ Go(t, [pc |-> "claim", buffer |-> mem.buffer])
  <2> DEFINE frame == [pc |-> "claim", buffer |-> mem.buffer]
  <2>1. Go(t, frame) /\ DOMAIN frame = {"pc", "buffer"} /\ frame["pc"] = "claim"
    BY <1>8
  <2> HIDE DEF frame
  <2>2. loc[t].pc \in Early /\ frame.pc \in Early /\ loc[t].pc = "steal_buffer"
    BY <1>8, <2>1 DEF At, Early
  <2>3. loc[t].top = mem.top => mem.top < Stealing!Bottom
    BY <1>1, <2>2 DEF StealerFrame, At
  <2> QED  BY <1>1, <1>2, <2>1, <2>2, <2>3, StealerEarly
<1> QED  BY <1>4, <1>5, <1>6, <1>7, <1>8

LEMMA DequeClaim ==
  ASSUME chosen = "deque", chosen' = chosen, StealingOK, DequeOK, mem.undefined = {}, NEW t \in Stealer,
         call' = call, left' = left, Stealing!Claim(t), mem'.undefined = {}
  PROVE  DequeOK' /\ (Promised \/ GivesUp(t))
<1> DEFINE v == Stealing!Get(loc[t].buffer, loc[t].top)
<1>1. DequeShape /\ StealerFrame(t) /\ {"top", "bottom", "made", "seg", "buffer", "undefined"} \subseteq DOMAIN mem
  BY DEF DequeOK, DequeShape, StealingOK
<1>2. \/ /\ At(t, "claim") /\ mem.top = loc[t].top /\ mem' = [mem EXCEPT !.top = @ + 1]
         /\ Go(t, [pc |-> "get", value |-> Stealing!Get(mem.buffer, loc[t].top)])
      \/ At(t, "claim") /\ Go(t, [pc |-> "rest", value |-> Empty]) /\ mem' = mem
      \/ /\ At(t, "get") /\ Go(t, [pc |-> "rest", value |-> v])
         /\ mem' = [mem EXCEPT !.undefined = IF Stealing!Deleted(loc[t].buffer) THEN {"slot"}
                                               ELSE IF v # loc[t].value THEN {"element"} ELSE {}]
  BY StealingFrames DEF Stealing!Claim
<1>3. CASE /\ At(t, "claim") /\ mem.top = loc[t].top /\ mem' = [mem EXCEPT !.top = @ + 1]
           /\ Go(t, [pc |-> "get", value |-> Stealing!Get(mem.buffer, loc[t].top)])
  BY <1>3, StealerTakes
<1>4. CASE At(t, "claim") /\ Go(t, [pc |-> "rest", value |-> Empty]) /\ mem' = mem
  <2>1. loc[t].pc \in Early
    BY <1>4 DEF At, Early
  <2> QED  BY <1>4, <2>1, StealerGivesUp
<1>5. CASE /\ At(t, "get") /\ Go(t, [pc |-> "rest", value |-> v])
           /\ mem' = [mem EXCEPT !.undefined = IF Stealing!Deleted(loc[t].buffer) THEN {"slot"}
                                                 ELSE IF v # loc[t].value THEN {"element"} ELSE {}]
  <2> HIDE DEF v
  <2>1. v = loc[t].value
    <3>1. mem'.undefined = IF Stealing!Deleted(loc[t].buffer) THEN {"slot"} ELSE IF v # loc[t].value THEN {"element"} ELSE {}
      BY <1>1, <1>5
    <3> QED  BY <3>1
  <2>2. StealerTook /\ mem'.top = mem.top
    BY <1>1, <1>5 DEF StealerTook
  <2> DEFINE frame == [pc |-> "rest", value |-> v]
  <2>3. Go(t, frame) /\ DOMAIN frame = {"pc", "value"} /\ frame["pc"] = "rest" /\ frame["value"] = v
    BY <1>5
  <2> HIDE DEF frame
  <2>4. loc[t].pc \in Late /\ frame.pc \in Late
    BY <1>5, <2>3 DEF At, Late
  <2> QED  BY <2>1, <2>2, <2>3, <2>4, StealerLate
<1> QED  BY <1>2, <1>3, <1>4, <1>5

LEMMA DequeRecord ==
  ASSUME chosen = "deque", chosen' = chosen, StealingOK, DequeOK, mem.undefined = {}, NEW t \in Stealer,
         call' = call, left' = left, Stealing!Record(t)
  PROVE  DequeOK' /\ Promised
<1>1. {"top", "bottom", "made", "seg", "buffer", "tls", "undefined"} \subseteq DOMAIN mem
  BY DEF DequeOK, DequeShape, StealingOK
<1>2. StealerTook /\ mem'.top = mem.top
  BY <1>1 DEF Stealing!Record, StealerTook
<1>3. \/ At(t, "busy") /\ Go(t, [pc |-> "steal"])
      \/ At(t, "rest") /\ Go(t, [pc |-> "last"])
      \/ At(t, "last") /\ Go(t, [pc |-> "last_id", buffer |-> mem.buffer])
      \/ At(t, "last_id") /\ Go(t, [pc |-> "return", value |-> loc[t].value])
  BY StealingFrames DEF Stealing!Record
<1>4. CASE At(t, "busy") /\ Go(t, [pc |-> "steal"])
  <2> DEFINE frame == [pc |-> "steal"]
  <2>1. Go(t, frame) /\ DOMAIN frame = {"pc"} /\ frame["pc"] = "steal"
    BY <1>4
  <2> HIDE DEF frame
  <2>2. loc[t].pc \in Early /\ frame.pc \in Early
    BY <1>4, <2>1 DEF At, Early
  <2> QED  BY <1>2, <2>1, <2>2, StealerEarly
<1>5. ASSUME NEW frame, Go(t, frame), "pc" \in DOMAIN frame, loc[t].pc \in Late, frame.pc \in Late,
             "value" \in DOMAIN frame => frame.value = loc[t].value
      PROVE  DequeOK' /\ Promised
  BY <1>2, <1>5, StealerLate
<1>6. CASE At(t, "rest") /\ Go(t, [pc |-> "last"])
  <2> DEFINE frame == [pc |-> "last"]
  <2>1. Go(t, frame) /\ DOMAIN frame = {"pc"} /\ frame["pc"] = "last"
    BY <1>6
  <2> HIDE DEF frame
  <2> QED  BY <1>5, <1>6, <2>1 DEF At, Late
<1>7. CASE At(t, "last") /\ Go(t, [pc |-> "last_id", buffer |-> mem.buffer])
  <2> DEFINE frame == [pc |-> "last_id", buffer |-> mem.buffer]
  <2>1. Go(t, frame) /\ DOMAIN frame = {"pc", "buffer"} /\ frame["pc"] = "last_id"
    BY <1>7
  <2> HIDE DEF frame
  <2> QED  BY <1>5, <1>7, <2>1 DEF At, Late
<1>8. CASE At(t, "last_id") /\ Go(t, [pc |-> "return", value |-> loc[t].value])
  <2> DEFINE frame == [pc |-> "return", value |-> loc[t].value]
  <2>1. Go(t, frame) /\ DOMAIN frame = {"pc", "value"} /\ frame["pc"] = "return" /\ frame["value"] = loc[t].value
    BY <1>8
  <2> HIDE DEF frame
  <2> QED  BY <1>5, <1>8, <2>1 DEF At, Late
<1> QED  BY <1>3, <1>4, <1>6, <1>7, <1>8

LEMMA DequeSteals ==
  ASSUME chosen = "deque", chosen' = chosen, StealingOK, DequeOK, mem.undefined = {}, NEW t \in Stealer,
         call' = call, left' = left, Stealing!StealerStep(t), mem'.undefined = {}
  PROVE  DequeOK' /\ (Promised \/ GivesUp(t))
BY DequeRegister, DequeLook, DequeClaim, DequeRecord DEF Stealing!StealerStep

\* The owner leaves the elements and where they are as they were.
OwnerKept ==
  /\ {"top", "bottom", "made", "seg"} \subseteq DOMAIN mem'
  /\ mem'.seg = mem.seg /\ mem'.buffer = mem.buffer /\ mem'.bottom = mem.bottom /\ mem'.top = mem.top
  /\ Stealing!Bottom' = Stealing!Bottom

LEMMA OwnerTurn ==
  ASSUME StealingOK, DequeOK, mem.undefined = {}, \A u \in Stealer : loc'[u] = loc[u] /\ call'[u] = call[u],
         DequeShape', OwnerCall', OwnerFrame', mem.top <= mem'.top,
         mem'.top = mem.top => Stealing!Bottom' = Stealing!Bottom \/ mem.top < Stealing!Bottom'
  PROVE  DequeOK'
<1>1. \A t \in Stealer : StealerFrame(t)
  BY DEF DequeOK
<1>2. mem.top \in Nat /\ mem'.top \in Nat
  BY DEF DequeOK, DequeShape
<1>3. \A t \in Stealer : StealerFrame(t)'
  BY <1>1, <1>2, StealersWait
<1> QED  BY <1>3 DEF DequeOK

LEMMA OwnerSame ==
  ASSUME chosen = "deque", chosen' = chosen, StealingOK, DequeOK, mem.undefined = {}, OwnerKept,
         \A u \in Stealer : loc'[u] = loc[u] /\ call'[u] = call[u], OwnerCall', OwnerFrame'
  PROVE  DequeOK' /\ Items' = Items
<1>1. Current' = Current /\ Capacity' = Capacity
  BY DequeView DEF OwnerKept, Current
<1>2. DequeShape
  BY DEF DequeOK
<1>3. DequeShape'
  BY <1>1, <1>2 DEF DequeShape, OwnerKept
<1>4. mem.top \in Nat /\ mem'.top = mem.top /\ Stealing!Bottom' = Stealing!Bottom
  BY <1>2 DEF DequeShape, OwnerKept
<1>5. DequeOK'
  BY <1>3, <1>4, OwnerTurn
<1>6. Items' = Items
  BY <1>1, <1>4, DequeItems
<1> QED  BY <1>5, <1>6

\* The owner has its result, or not, before and after.
LEMMA OwnerSilent ==
  ASSUME chosen = "deque", chosen' = chosen, StealingOK, DequeOK, mem.undefined = {}, OwnerKept,
         call' = call, left' = left,
         \A u \in Stealer : loc'[u] = loc[u], OwnerCall', OwnerFrame', Value(Owner)' = Value(Owner)
  PROVE  DequeOK' /\ Promised
<1>1. Owner \in Thread /\ \A u \in Thread : u # Owner => loc'[u] = loc[u]
  BY DEF StealingOK, Stealer
<1>2. DequeOK' /\ Items' = Items
  BY OwnerSame
<1> QED  BY <1>1, <1>2, Silent

\* The owner at reclaim_buffers.
LEMMA OwnerReclaims ==
  ASSUME chosen = "deque", chosen' = chosen, StealingOK, DequeOK, mem.undefined = {},
         call' = call, left' = left, {"top", "bottom", "made", "seg"} \subseteq DOMAIN mem',
         mem'.seg = mem.seg, mem'.buffer = mem.buffer, mem'.bottom = mem.bottom, mem'.top = mem.top,
         loc[Owner].pc \in {"reclaim", "scan", "scan_id", "delete"},
         NEW frame, Go(Owner, frame), "pc" \in DOMAIN frame, "value" \notin DOMAIN frame, "after" \notin DOMAIN frame,
         frame.pc \in {"scan", "scan_id", "delete"} \/ frame.pc = loc[Owner].after
  PROVE  DequeOK' /\ Promised
<1>1. /\ DOMAIN loc' = Thread /\ \A u \in Stealer : loc'[u] = loc[u]
      /\ DOMAIN loc'[Owner] = DOMAIN frame \union DOMAIN loc[Owner]
      /\ \A x \in DOMAIN frame : loc'[Owner][x] = frame[x]
      /\ \A x \in DOMAIN loc[Owner] \ DOMAIN frame : loc'[Owner][x] = loc[Owner][x]
  BY OwnerGoFacts
<1>2. "after" \in DOMAIN loc[Owner] /\ loc[Owner].after \in {"put", "return"}
  BY DEF StealingOK, ScanOK
<1>3. /\ loc'[Owner].pc = frame.pc /\ loc'[Owner].after = loc[Owner].after
      /\ "value" \in DOMAIN loc'[Owner] <=> "value" \in DOMAIN loc[Owner]
      /\ "value" \in DOMAIN loc[Owner] => loc'[Owner].value = loc[Owner].value
  BY <1>1, <1>2
<1>4. OwnerAt = loc[Owner].after /\ OwnerAt' = loc[Owner].after
  BY <1>2, <1>3 DEF OwnerAt, Reclaiming
<1>5. DequeShape /\ OwnerCall /\ OwnerFrame
  BY DEF DequeOK
<1>6. OwnerKept
  BY <1>2, <1>3, DequeView DEF OwnerKept
<1>7. OwnerCall'
  BY <1>2, <1>3, <1>4, <1>5 DEF OwnerCall
<1>8. OwnerFrame'
  <2>1. Capacity' = Capacity
    BY <1>6, DequeView DEF OwnerKept, Current
  <2>2. OwnerAt = "put" => HasRoom
    BY <1>5 DEF OwnerFrame, At
  <2>3. HasRoom => HasRoom'
    BY <2>1 DEF HasRoom
  <2>4. loc'[Owner].pc \notin {"resize", "publish", "race"}
    BY <1>2, <1>3
  <2> QED  BY <1>4, <2>2, <2>3, <2>4 DEF OwnerFrame, At
<1>9. Value(Owner)' = Value(Owner)
  BY <1>3 DEF Value
<1> QED  BY <1>1, <1>6, <1>7, <1>8, <1>9, OwnerSilent

LEMMA DequeReclaim ==
  ASSUME chosen = "deque", chosen' = chosen, StealingOK, DequeOK, mem.undefined = {},
         call' = call, left' = left, Stealing!Reclaim
  PROVE  DequeOK' /\ Promised
<1>1. {"top", "bottom", "made", "seg", "buffer", "tls", "unlinked", "undefined"} \subseteq DOMAIN mem
  BY DEF DequeOK, DequeShape, StealingOK
<1>2. /\ {"top", "bottom", "made", "seg"} \subseteq DOMAIN mem'
      /\ mem'.seg = mem.seg /\ mem'.buffer = mem.buffer /\ mem'.bottom = mem.bottom /\ mem'.top = mem.top
  BY <1>1 DEF Stealing!Reclaim
<1>3. loc[Owner].pc \in {"reclaim", "scan", "scan_id", "delete"}
  BY StealingFrames DEF Stealing!Reclaim, At
<1>4. ASSUME NEW frame, Go(Owner, frame), "pc" \in DOMAIN frame, "value" \notin DOMAIN frame, "after" \notin DOMAIN frame,
             frame.pc \in {"scan", "scan_id", "delete"} \/ frame.pc = loc[Owner].after
      PROVE  DequeOK' /\ Promised
  BY <1>2, <1>3, <1>4, OwnerReclaims
<1>5. \/ \E x \in {"scan", "delete"} : \E i, min : Go(Owner, [pc |-> x, tls |-> i, min |-> min])
      \/ Go(Owner, [pc |-> "scan_id"])
      \/ Go(Owner, [pc |-> loc[Owner].after])
  BY StealingFrames DEF Stealing!Reclaim, Stealing!Scanned
<1>6. ASSUME NEW x \in {"scan", "delete"}, NEW i, NEW min, Go(Owner, [pc |-> x, tls |-> i, min |-> min])
      PROVE  DequeOK' /\ Promised
  <2> DEFINE frame == [pc |-> x, tls |-> i, min |-> min]
  <2>1. Go(Owner, frame) /\ DOMAIN frame = {"pc", "tls", "min"} /\ frame["pc"] = x
    BY <1>6
  <2> HIDE DEF frame
  <2> QED  BY <1>4, <2>1
<1>7. ASSUME NEW x, x = "scan_id" \/ x = loc[Owner].after, Go(Owner, [pc |-> x]) PROVE DequeOK' /\ Promised
  <2> DEFINE frame == [pc |-> x]
  <2>1. Go(Owner, frame) /\ DOMAIN frame = {"pc"} /\ frame["pc"] = x
    BY <1>7
  <2> HIDE DEF frame
  <2> QED  BY <1>4, <1>7, <2>1
<1> QED  BY <1>5, <1>6, <1>7

LEMMA DequeStoreBuffer ==
  ASSUME chosen = "deque", chosen' = chosen, StealingOK, DequeOK, mem.undefined = {},
         call' = call, left' = left, Stealing!StoreBuffer
  PROVE  DequeOK' /\ Promised
<1> DEFINE R == Stealing!Resize(loc[Owner].size, loc[Owner].top, loc[Owner].end)
<1>1. {"top", "bottom", "made", "seg", "buffer", "tls", "unlinked", "undefined"} \subseteq DOMAIN mem
  BY DEF DequeOK, DequeShape, StealingOK
<1>2. /\ {"top", "bottom", "made", "seg"} \subseteq DOMAIN mem'
      /\ mem'.seg = Append(mem.seg, R) /\ mem'.buffer = mem.buffer + 1
      /\ mem'.bottom = mem.bottom /\ mem'.top = mem.top
      /\ loc[Owner].pc = "resize" /\ Go(Owner, [pc |-> "reclaim"])
  BY <1>1, StealingFrames DEF Stealing!StoreBuffer, At
<1> HIDE DEF R
<1>3. /\ DOMAIN loc' = Thread /\ \A u \in Stealer : loc'[u] = loc[u]
      /\ loc'[Owner].pc = "reclaim"
      /\ DOMAIN loc'[Owner] = {"pc"} \union DOMAIN loc[Owner]
      /\ \A x \in DOMAIN loc[Owner] : x # "pc" => loc'[Owner][x] = loc[Owner][x]
  BY <1>2, OwnerGoFacts
<1>4. /\ DequeShape /\ OwnerCall /\ {"size", "top", "end"} \subseteq DOMAIN loc[Owner]
      /\ loc[Owner].size \in Nat \ {0} /\ loc[Owner].top \in Nat /\ loc[Owner].end \in Nat
      /\ loc[Owner].top <= mem.top /\ mem.bottom <= loc[Owner].end
      /\ loc[Owner].end - loc[Owner].top <= loc[Owner].size
      /\ loc[Owner].after = "put" => mem.bottom - mem.top < loc[Owner].size
  BY <1>2 DEF DequeOK, OwnerFrame, At
<1>5. "after" \in DOMAIN loc[Owner] /\ loc[Owner].after \in {"put", "return"}
  BY <1>2 DEF StealingOK, ScanOK
<1>6. /\ IsBuffer(Current, Capacity) /\ mem.top \in Nat /\ mem.bottom \in Int /\ mem.buffer \in Nat
      /\ Stealing!Bottom \in Nat
  BY <1>4, DequeTypes
<1>7. /\ IsBuffer(R, loc[Owner].size)
      /\ \A m \in Nat : loc[Owner].top <= m /\ m < loc[Owner].end => Element(R, m) = Element(Current, m)
  BY <1>4, <1>6, BufferResized DEF Current, R
<1>8. R \in Segments
  BY <1>7 DEF IsBuffer, Segments
<1>9. mem.seg \in Seq(Segments) /\ Len(mem.seg) = mem.buffer + 1
  BY <1>4 DEF DequeShape
<1>10. mem'.seg \in Seq(Segments) /\ Len(mem'.seg) = mem'.buffer + 1 /\ Current' = R
  <2>1. /\ Append(mem.seg, R) \in Seq(Segments) /\ Len(Append(mem.seg, R)) = Len(mem.seg) + 1
        /\ Append(mem.seg, R)[Len(mem.seg) + 1] = R
    BY <1>8, <1>9, AppendProperties
  <2> QED  BY <1>2, <1>6, <1>9, <2>1 DEF Current
<1>11. Capacity' = loc[Owner].size
  BY <1>7, <1>10, BufferSize, DequeView
<1>12. Stealing!Bottom = mem.bottom /\ Stealing!Bottom' = mem.bottom
  BY <1>2, <1>3, DequeView
<1>13. Items' = Items
  <2>1. \A m \in Nat : mem.top <= m /\ m < mem.bottom => Element(Current', m) = Element(Current, m)
    BY <1>4, <1>6, <1>7, <1>10
  <2>2. Elements(Current', mem.top, mem.bottom) = Elements(Current, mem.top, mem.bottom)
    BY <1>6, <2>1, ElementsAgree
  <2> QED  BY <1>2, <1>12, <2>2, DequeItems
<1>14. DequeShape'
  <2>1. mem.top <= mem.bottom /\ mem.bottom - mem.top <= loc[Owner].size
    BY <1>4, <1>6, <1>12 DEF DequeShape
  <2> QED  BY <1>2, <1>6, <1>10, <1>11, <1>12, <2>1 DEF DequeShape
<1>15. OwnerAt = loc[Owner].after /\ OwnerAt' = loc[Owner].after
  BY <1>2, <1>3, <1>5 DEF OwnerAt, Reclaiming
<1>16. /\ "value" \in DOMAIN loc'[Owner] <=> "value" \in DOMAIN loc[Owner]
       /\ "value" \in DOMAIN loc[Owner] => loc'[Owner].value = loc[Owner].value
  BY <1>3
<1>17. OwnerCall'
  BY <1>4, <1>5, <1>15, <1>16 DEF OwnerCall
<1>18. OwnerFrame'
  BY <1>2, <1>3, <1>4, <1>11, <1>15 DEF OwnerFrame, HasRoom, At
<1>19. DequeOK'
  BY <1>2, <1>3, <1>6, <1>12, <1>14, <1>17, <1>18, OwnerTurn
<1>20. Value(Owner)' = Value(Owner) /\ Owner \in Thread /\ \A u \in Thread : u # Owner => loc'[u] = loc[u]
  BY <1>3, <1>16 DEF Value, StealingOK, Stealer
<1> QED  BY <1>13, <1>19, <1>20, Silent

\* What the owner knows when it goes on by way of resize or reclaim_buffers.
LEMMA OwnerGoesTo ==
  ASSUME StealingOK, NEW resize, NEW frame, "pc" \in DOMAIN frame, {"after", "size"} \cap DOMAIN frame = {},
         frame.pc \in {"put", "return"}, Stealing!OwnerGoes(resize, frame)
  PROVE  /\ DOMAIN loc' = Thread /\ \A u \in Stealer : loc'[u] = loc[u]
         /\ OwnerAt' = frame.pc /\ loc'[Owner].pc \in {"resize", "reclaim", frame.pc}
         /\ loc'[Owner].pc = "resize" => /\ resize # 0 /\ "size" \in DOMAIN loc'[Owner] /\ loc'[Owner].size = resize
                                         /\ loc'[Owner].after = frame.pc
         /\ loc'[Owner].pc # "resize" => resize = 0
         /\ \A x \in DOMAIN frame : x # "pc" => x \in DOMAIN loc'[Owner] /\ loc'[Owner][x] = frame[x]
         /\ "value" \in DOMAIN loc'[Owner] <=> "value" \in DOMAIN loc[Owner] \union DOMAIN frame
<1> DEFINE then == Updated(frame, [after |-> frame.pc])
           grow == Updated(then, [pc |-> "resize", size |-> resize])
           reclaim == Updated(then, [pc |-> "reclaim"])
<1>1. Go(Owner, CASE resize # 0 -> grow [] resize = 0 /\ mem.unlinked # -1 -> reclaim [] OTHER -> frame)
  BY StealingFrames DEF Stealing!OwnerGoes, Stealing!Updated, Updated, Stealing!None
<1>2. /\ DOMAIN then = {"after"} \union DOMAIN frame /\ then["after"] = frame.pc
      /\ \A x \in DOMAIN frame : then[x] = frame[x]
  BY DEF Updated
<1> HIDE DEF then
<1>3. /\ DOMAIN grow = {"pc", "size", "after"} \union DOMAIN frame
      /\ grow["pc"] = "resize" /\ grow["size"] = resize /\ grow["after"] = frame.pc
      /\ \A x \in DOMAIN frame : x # "pc" => grow[x] = frame[x]
  BY <1>2 DEF Updated
<1>4. /\ DOMAIN reclaim = {"pc", "after"} \union DOMAIN frame
      /\ reclaim["pc"] = "reclaim" /\ reclaim["after"] = frame.pc
      /\ \A x \in DOMAIN frame : x # "pc" => reclaim[x] = frame[x]
  BY <1>2 DEF Updated
<1> HIDE DEF grow, reclaim
<1>5. \/ resize # 0 /\ Go(Owner, grow)
      \/ resize = 0 /\ Go(Owner, reclaim)
      \/ resize = 0 /\ Go(Owner, frame)
  BY <1>1
<1>6. CASE resize # 0 /\ Go(Owner, grow)
  <2>1. /\ DOMAIN loc' = Thread /\ \A u \in Stealer : loc'[u] = loc[u]
        /\ DOMAIN loc'[Owner] = DOMAIN grow \union DOMAIN loc[Owner]
        /\ \A x \in DOMAIN grow : loc'[Owner][x] = grow[x]
    BY <1>6, OwnerGoFacts
  <2>2. loc'[Owner].pc = "resize" /\ loc'[Owner].size = resize /\ loc'[Owner].after = frame.pc
    BY <1>3, <2>1
  <2>3. OwnerAt' = frame.pc
    BY <2>2 DEF OwnerAt, Reclaiming
  <2> QED  BY <1>3, <1>6, <2>1, <2>2, <2>3
<1>7. CASE resize = 0 /\ Go(Owner, reclaim)
  <2>1. /\ DOMAIN loc' = Thread /\ \A u \in Stealer : loc'[u] = loc[u]
        /\ DOMAIN loc'[Owner] = DOMAIN reclaim \union DOMAIN loc[Owner]
        /\ \A x \in DOMAIN reclaim : loc'[Owner][x] = reclaim[x]
    BY <1>7, OwnerGoFacts
  <2>2. loc'[Owner].pc = "reclaim" /\ loc'[Owner].after = frame.pc
    BY <1>4, <2>1
  <2>3. OwnerAt' = frame.pc
    BY <2>2 DEF OwnerAt, Reclaiming
  <2> QED  BY <1>4, <1>7, <2>1, <2>2, <2>3
<1>8. CASE resize = 0 /\ Go(Owner, frame)
  <2>1. /\ DOMAIN loc' = Thread /\ \A u \in Stealer : loc'[u] = loc[u]
        /\ DOMAIN loc'[Owner] = DOMAIN frame \union DOMAIN loc[Owner]
        /\ \A x \in DOMAIN frame : loc'[Owner][x] = frame[x]
    BY <1>8, OwnerGoFacts
  <2>2. loc'[Owner].pc = frame.pc
    BY <2>1
  <2>3. OwnerAt' = frame.pc
    BY <2>2 DEF OwnerAt, Reclaiming
  <2> QED  BY <1>8, <2>1, <2>2, <2>3
<1> QED  BY <1>5, <1>6, <1>7, <1>8

LEMMA DequePushTop ==
  ASSUME chosen = "deque", chosen' = chosen, StealingOK, DequeOK, mem.undefined = {},
         call' = call, left' = left, Stealing!PushTop
  PROVE  DequeOK' /\ Promised
<1> DEFINE frame == [pc |-> "put", top |-> mem.top, end |-> mem.bottom]
<1>1. /\ mem' = mem /\ loc[Owner].pc = "push"
      /\ Stealing!OwnerGoes(IF mem.bottom - mem.top >= Capacity - 1 THEN 2 * Capacity ELSE 0, frame)
  BY StealingFrames DEF Stealing!PushTop, At, Capacity
<1>2. DOMAIN frame = {"pc", "top", "end"} /\ frame["pc"] = "put" /\ frame["top"] = mem.top /\ frame["end"] = mem.bottom
  OBVIOUS
<1> HIDE DEF frame
<1>3. DequeShape /\ OwnerCall
  BY DEF DequeOK
<1>4. /\ IsBuffer(Current, Capacity) /\ Capacity \in Nat \ {0} /\ mem.top \in Nat /\ mem.bottom \in Int
      /\ mem.top <= Stealing!Bottom /\ Stealing!Bottom - mem.top <= Capacity /\ Stealing!Bottom \in Nat
  BY <1>3, DequeTypes DEF DequeShape
<1>5. PICK r : r = IF mem.bottom - mem.top >= Capacity - 1 THEN 2 * Capacity ELSE 0
  OBVIOUS
<1>6. Stealing!OwnerGoes(r, frame)
  BY <1>1, <1>5
<1>7. /\ DOMAIN loc' = Thread /\ \A u \in Stealer : loc'[u] = loc[u]
      /\ OwnerAt' = "put" /\ loc'[Owner].pc \in {"resize", "reclaim", "put"}
      /\ loc'[Owner].pc = "resize" => "size" \in DOMAIN loc'[Owner] /\ loc'[Owner].size = r /\ r # 0
      /\ loc'[Owner].pc # "resize" => r = 0
      /\ {"top", "end"} \subseteq DOMAIN loc'[Owner] /\ loc'[Owner].top = mem.top /\ loc'[Owner].end = mem.bottom
      /\ "value" \in DOMAIN loc'[Owner] <=> "value" \in DOMAIN loc[Owner]
  BY <1>2, <1>6, OwnerGoesTo
<1>8. OwnerAt = "push"
  BY <1>1 DEF OwnerAt, Reclaiming
<1>9. "value" \notin DOMAIN loc[Owner] /\ \E e \in 1 .. MaxNodes : call[Owner] = <<"push", "R", e>>
  BY <1>3, <1>8 DEF OwnerCall
<1>10. OwnerCall'
  BY <1>7, <1>9 DEF OwnerCall
<1>11. Stealing!Bottom = mem.bottom /\ Stealing!Bottom' = mem.bottom
  BY <1>1, <1>7, DequeView
<1>12. OwnerKept
  BY <1>1, <1>3, <1>11 DEF OwnerKept, DequeShape
<1>13. Capacity' = Capacity
  BY <1>1, DequeView DEF Current
<1>14. OwnerFrame'
  <2>1. CASE loc'[Owner].pc = "resize"
    <3>1. r = 2 * Capacity
      BY <1>5, <1>7, <2>1
    <3>2. r \in Nat \ {0} /\ mem.bottom - mem.top < r /\ mem.bottom \in Nat /\ mem.bottom - mem.top <= r
      BY <1>4, <1>11, <3>1
    <3> QED  BY <1>1, <1>4, <1>7, <2>1, <3>2 DEF OwnerFrame, At
  <2>2. CASE loc'[Owner].pc # "resize"
    <3>1. mem.bottom - mem.top < Capacity
      BY <1>4, <1>5, <1>7, <2>2
    <3> QED  BY <1>1, <1>7, <1>13, <2>2, <3>1 DEF OwnerFrame, HasRoom, At
  <2> QED  BY <2>1, <2>2
<1>15. Value(Owner)' = Value(Owner)
  BY <1>7, <1>9 DEF Value
<1> QED  BY <1>7, <1>10, <1>12, <1>14, <1>15, OwnerSilent

\* The owner stores its element beyond the others.
LEMMA DequePut ==
  ASSUME chosen = "deque", chosen' = chosen, StealingOK, DequeOK, mem.undefined = {},
         call' = call, left' = left, At(Owner, "put"), Go(Owner, [pc |-> "publish"]),
         mem' = [mem EXCEPT !.seg[mem.buffer + 1][mem.bottom % Stealing!Size(mem.buffer)] = call[Owner][3]]
  PROVE  DequeOK' /\ Promised
<1>1. {"top", "bottom", "made", "seg", "buffer"} \subseteq DOMAIN mem
  BY DEF DequeOK, DequeShape, StealingOK
<1> DEFINE d == Filled(Current, mem.bottom % Capacity, call[Owner][3])
<1>2. /\ {"top", "bottom", "made", "seg"} \subseteq DOMAIN mem'
      /\ mem'.buffer = mem.buffer /\ mem'.bottom = mem.bottom /\ mem'.top = mem.top
      /\ mem'.seg = [mem.seg EXCEPT ![mem.buffer + 1] = d]
  BY <1>1 DEF Capacity, Current, Filled
<1>3. /\ DOMAIN loc' = Thread /\ \A u \in Stealer : loc'[u] = loc[u]
      /\ loc'[Owner].pc = "publish" /\ loc[Owner].pc = "put"
      /\ DOMAIN loc'[Owner] = {"pc"} \union DOMAIN loc[Owner]
      /\ \A x \in DOMAIN loc[Owner] : x # "pc" => loc'[Owner][x] = loc[Owner][x]
  BY OwnerGoFacts DEF At
<1>4. OwnerAt = "put" /\ OwnerAt' = "publish"
  BY <1>3 DEF OwnerAt, Reclaiming
<1>5. DequeShape /\ OwnerCall /\ OwnerFrame
  BY DEF DequeOK
<1>6. PICK e \in 1 .. MaxNodes : call[Owner] = <<"push", "R", e>> /\ "value" \notin DOMAIN loc[Owner]
  BY <1>4, <1>5 DEF OwnerCall
<1>7. call[Owner][3] = e /\ e \in Cell
  BY <1>6, LockFreeAssumption DEF Cell
<1>8. HasRoom
  BY <1>3, <1>4, <1>5 DEF OwnerFrame, At
<1>9. Stealing!Bottom = mem.bottom /\ Stealing!Bottom' = mem.bottom
  BY <1>2, <1>3, DequeView
<1>10. /\ IsBuffer(Current, Capacity) /\ Capacity \in Nat \ {0} /\ mem.top \in Nat /\ mem.bottom \in Nat
       /\ mem.buffer \in Nat /\ mem.top <= mem.bottom /\ mem.bottom - mem.top < Capacity
  BY <1>5, <1>8, <1>9, DequeTypes DEF DequeShape, HasRoom
<1>11. d = Filled(Current, mem.bottom % Capacity, e)
  BY <1>7
<1> HIDE DEF d
<1>12. /\ IsBuffer(d, Capacity) /\ Element(d, mem.bottom) = e
       /\ \A m \in Nat : m < mem.bottom /\ mem.bottom - m < Capacity => Element(d, m) = Element(Current, m)
  BY <1>7, <1>10, <1>11, BufferPut
<1>13. mem'.seg \in Seq(Segments) /\ Len(mem'.seg) = mem.buffer + 1 /\ Current' = d
  <2>1. mem.seg \in Seq(Segments) /\ Len(mem.seg) = mem.buffer + 1 /\ mem.buffer + 1 \in 1 .. Len(mem.seg)
    BY <1>5, <1>10 DEF DequeShape
  <2>2. d \in Segments
    BY <1>12 DEF IsBuffer, Segments
  <2>3. /\ [mem.seg EXCEPT ![mem.buffer + 1] = d] \in Seq(Segments)
        /\ Len([mem.seg EXCEPT ![mem.buffer + 1] = d]) = Len(mem.seg)
        /\ [mem.seg EXCEPT ![mem.buffer + 1] = d][mem.buffer + 1] = d
    BY <2>1, <2>2, ExceptSeq
  <2> QED  BY <1>2, <2>1, <2>3 DEF Current
<1>14. Capacity' = Capacity
  BY <1>12, <1>13, BufferSize, DequeView
<1>15. DequeShape'
  BY <1>2, <1>5, <1>9, <1>10, <1>13, <1>14 DEF DequeShape
<1>16. OwnerCall'
  BY <1>3, <1>4, <1>6 DEF OwnerCall
<1>17. OwnerFrame'
  <2>1. HasRoom'
    BY <1>2, <1>8, <1>14 DEF HasRoom
  <2>2. Stealing!Get(mem.buffer, mem.bottom)' = call'[Owner][3]
    BY <1>2, <1>7, <1>12, <1>13, DequeView
  <2> QED  BY <1>3, <1>4, <2>1, <2>2 DEF OwnerFrame, At
<1>18. Items' = Items
  <2>1. \A m \in Nat : mem.top <= m /\ m < mem.bottom => Element(Current', m) = Element(Current, m)
    BY <1>10, <1>12, <1>13
  <2>2. Elements(Current', mem.top, mem.bottom) = Elements(Current, mem.top, mem.bottom)
    BY <1>10, <2>1, ElementsAgree
  <2> QED  BY <1>2, <1>9, <2>2, DequeItems
<1>19. DequeOK'
  BY <1>2, <1>3, <1>9, <1>10, <1>15, <1>16, <1>17, OwnerTurn
<1>20. Value(Owner)' = Value(Owner) /\ Owner \in Thread /\ \A u \in Thread : u # Owner => loc'[u] = loc[u]
  BY <1>3, <1>6 DEF Value, StealingOK, Stealer
<1> QED  BY <1>18, <1>19, <1>20, Silent

\* The call takes effect when the bottom passes it.
LEMMA DequePublish ==
  ASSUME chosen = "deque", chosen' = chosen, StealingOK, DequeOK, mem.undefined = {},
         call' = call, left' = left, At(Owner, "publish"), Go(Owner, [pc |-> "return", value |-> Void]),
         mem' = [mem EXCEPT !.bottom = @ + 1]
  PROVE  DequeOK' /\ Promised
<1>1. {"top", "bottom", "made", "seg", "buffer"} \subseteq DOMAIN mem
  BY DEF DequeOK, DequeShape, StealingOK
<1>2. /\ {"top", "bottom", "made", "seg"} \subseteq DOMAIN mem' /\ mem'.seg = mem.seg
      /\ mem'.buffer = mem.buffer /\ mem'.bottom = mem.bottom + 1 /\ mem'.top = mem.top
  BY <1>1
<1> DEFINE frame == [pc |-> "return", value |-> Void]
<1>3. Go(Owner, frame) /\ DOMAIN frame = {"pc", "value"} /\ frame["pc"] = "return" /\ frame["value"] = Void
  OBVIOUS
<1> HIDE DEF frame
<1>4. /\ DOMAIN loc' = Thread /\ \A u \in Stealer : loc'[u] = loc[u]
      /\ loc'[Owner].pc = "return" /\ loc[Owner].pc = "publish"
      /\ "value" \in DOMAIN loc'[Owner] /\ loc'[Owner].value = Void
  BY <1>3, OwnerGoFacts DEF At
<1>5. OwnerAt = "publish" /\ OwnerAt' = "return"
  BY <1>4 DEF OwnerAt, Reclaiming
<1>6. DequeShape /\ OwnerCall /\ OwnerFrame
  BY DEF DequeOK
<1>7. PICK e \in 1 .. MaxNodes : call[Owner] = <<"push", "R", e>> /\ "value" \notin DOMAIN loc[Owner]
  BY <1>5, <1>6 DEF OwnerCall
<1>8. HasRoom /\ Element(Current, mem.bottom) = e
  BY <1>4, <1>6, <1>7, DequeView DEF OwnerFrame, At
<1>9. Stealing!Bottom = mem.bottom /\ Stealing!Bottom' = mem.bottom + 1
  BY <1>2, <1>4, DequeView
<1>10. /\ IsBuffer(Current, Capacity) /\ Capacity \in Nat \ {0} /\ mem.top \in Nat /\ mem.bottom \in Nat
       /\ mem.buffer \in Nat /\ mem.top <= mem.bottom /\ mem.bottom - mem.top < Capacity
  BY <1>6, <1>8, <1>9, DequeTypes DEF DequeShape, HasRoom
<1>11. Current' = Current /\ Capacity' = Capacity
  BY <1>2, DequeView DEF Current
<1>12. DequeShape'
  BY <1>2, <1>6, <1>9, <1>10, <1>11 DEF DequeShape
<1>13. OwnerCall'
  BY <1>4, <1>5, LockFreeAssumption DEF OwnerCall
<1>14. OwnerFrame'
  BY <1>4, <1>5 DEF OwnerFrame, At
<1>15. DequeOK'
  <2>1. mem.top <= mem'.top /\ mem.top < Stealing!Bottom'
    BY <1>2, <1>9, <1>10
  <2> QED  BY <1>4, <1>12, <1>13, <1>14, <2>1, OwnerTurn
<1>16. Items' = Append(Items, e)
  BY <1>2, <1>8, <1>9, <1>10, <1>11, ElementsFacts, DequeItems
<1>17. /\ call[Owner][1] = "push" /\ call[Owner] # <<>> /\ Value(Owner) = Pending /\ Value(Owner)' = Void
       /\ Items' = Promise!Pushed(Items, call[Owner][2], call[Owner][3])
  BY <1>4, <1>7, <1>16 DEF Value, Promise!Pushed
<1>18. Owner \in Thread /\ \A u \in Thread : u # Owner => loc'[u] = loc[u]
  BY <1>4 DEF StealingOK, Stealer
<1> QED  BY <1>15, <1>17, <1>18, Effect1

LEMMA DequePushStores ==
  ASSUME chosen = "deque", chosen' = chosen, StealingOK, DequeOK, mem.undefined = {},
         call' = call, left' = left, Stealing!PushStores
  PROVE  DequeOK' /\ Promised
BY DequePut, DequePublish, StealingFrames DEF Stealing!PushStores

\* The bottom is lowered; the elements are as before until the top is loaded.
LEMMA DequeLowers ==
  ASSUME chosen = "deque", chosen' = chosen, StealingOK, DequeOK, mem.undefined = {},
         call' = call, left' = left, At(Owner, "pop"), Go(Owner, [pc |-> "pop_top"]),
         mem' = [mem EXCEPT !.bottom = @ - 1]
  PROVE  DequeOK' /\ Promised
<1>1. {"top", "bottom", "made", "seg", "buffer"} \subseteq DOMAIN mem
  BY DEF DequeOK, DequeShape, StealingOK
<1>2. /\ {"top", "bottom", "made", "seg"} \subseteq DOMAIN mem' /\ mem'.seg = mem.seg
      /\ mem'.buffer = mem.buffer /\ mem'.bottom = mem.bottom - 1 /\ mem'.top = mem.top
  BY <1>1
<1>3. /\ DOMAIN loc' = Thread /\ \A u \in Stealer : loc'[u] = loc[u]
      /\ loc'[Owner].pc = "pop_top" /\ loc[Owner].pc = "pop"
      /\ DOMAIN loc'[Owner] = {"pc"} \union DOMAIN loc[Owner]
  BY OwnerGoFacts DEF At
<1>4. OwnerAt = "pop" /\ OwnerAt' = "pop_top"
  BY <1>3 DEF OwnerAt, Reclaiming
<1>5. DequeShape /\ OwnerCall
  BY DEF DequeOK
<1>6. mem.bottom \in Int /\ mem.top \in Nat
  BY <1>5 DEF DequeShape
<1>7. Stealing!Bottom' = Stealing!Bottom
  BY <1>2, <1>3, <1>6, DequeView
<1>8. Current' = Current /\ Capacity' = Capacity
  BY <1>2, DequeView DEF Current
<1>9. DequeShape'
  BY <1>2, <1>5, <1>6, <1>7, <1>8 DEF DequeShape
<1>10. call[Owner] = <<"pop", "R", 1>> /\ "value" \notin DOMAIN loc[Owner]
  BY <1>4, <1>5 DEF OwnerCall
<1>11. OwnerCall'
  BY <1>3, <1>4, <1>10 DEF OwnerCall
<1>12. OwnerFrame'
  BY <1>3, <1>4 DEF OwnerFrame, At
<1>13. DequeOK'
  BY <1>2, <1>3, <1>6, <1>7, <1>9, <1>11, <1>12, OwnerTurn
<1>14. Items' = Items
  BY <1>2, <1>7, <1>8, DequeItems
<1>15. Value(Owner)' = Value(Owner) /\ Owner \in Thread /\ \A u \in Thread : u # Owner => loc'[u] = loc[u]
  BY <1>3, <1>10 DEF Value, StealingOK, Stealer
<1> QED  BY <1>13, <1>14, <1>15, Silent

\* There is no element.
LEMMA DequeFindsNothing ==
  ASSUME chosen = "deque", chosen' = chosen, StealingOK, DequeOK, mem.undefined = {},
         call' = call, left' = left, mem' = mem, loc[Owner].pc \in {"pop_top", "race"},
         mem.bottom + 1 <= mem.top, Go(Owner, [pc |-> "restore", value |-> Empty])
  PROVE  DequeOK' /\ Promised
<1> DEFINE frame == [pc |-> "restore", value |-> Empty]
<1>1. Go(Owner, frame) /\ DOMAIN frame = {"pc", "value"} /\ frame["pc"] = "restore" /\ frame["value"] = Empty
  OBVIOUS
<1> HIDE DEF frame
<1>2. /\ DOMAIN loc' = Thread /\ \A u \in Stealer : loc'[u] = loc[u]
      /\ loc'[Owner].pc = "restore" /\ "value" \in DOMAIN loc'[Owner] /\ loc'[Owner].value = Empty
  BY <1>1, OwnerGoFacts
<1>3. OwnerAt \in {"pop_top", "race"} /\ OwnerAt' = "restore"
  BY <1>2 DEF OwnerAt, Reclaiming
<1>4. DequeShape /\ OwnerCall
  BY DEF DequeOK
<1>5. Stealing!Bottom = mem.bottom + 1 /\ Stealing!Bottom' = mem.bottom + 1
  BY <1>2, DequeView
<1>6. OwnerKept
  BY <1>4, <1>5 DEF OwnerKept, DequeShape
<1>7. OwnerCall'
  BY <1>2, <1>3, LockFreeAssumption DEF OwnerCall
<1>8. OwnerFrame'
  BY <1>2, <1>3 DEF OwnerFrame, At
<1>9. DequeOK' /\ Items' = Items
  BY <1>2, <1>6, <1>7, <1>8, OwnerSame
<1>10. Items = <<>>
  <2>1. mem.top = Stealing!Bottom /\ mem.top \in Nat /\ IsBuffer(Current, Capacity)
    BY <1>4, <1>5, DequeTypes DEF DequeShape
  <2> QED  BY <2>1, ElementsFacts, DequeItems
<1>11. call[Owner][1] = "pop" /\ call[Owner] # <<>> /\ Value(Owner) = Pending /\ Value(Owner)' = Empty
  BY <1>2, <1>3, <1>4 DEF OwnerCall, Value
<1>12. Owner \in Thread /\ \A u \in Thread : u # Owner => loc'[u] = loc[u]
  BY <1>2 DEF StealingOK, Stealer
<1> QED  BY <1>9, <1>10, <1>11, <1>12, Effect1

\* There is one element: the owner races for it.
LEMMA DequeRaces ==
  ASSUME chosen = "deque", chosen' = chosen, StealingOK, DequeOK, mem.undefined = {},
         call' = call, left' = left, mem' = mem, loc[Owner].pc = "pop_top",
         mem.bottom + 1 - mem.top = 1, Go(Owner, [pc |-> "race", top |-> mem.top])
  PROVE  DequeOK' /\ Promised
<1> DEFINE frame == [pc |-> "race", top |-> mem.top]
<1>1. Go(Owner, frame) /\ DOMAIN frame = {"pc", "top"} /\ frame["pc"] = "race" /\ frame["top"] = mem.top
  OBVIOUS
<1> HIDE DEF frame
<1>2. /\ DOMAIN loc' = Thread /\ \A u \in Stealer : loc'[u] = loc[u]
      /\ loc'[Owner].pc = "race" /\ "top" \in DOMAIN loc'[Owner] /\ loc'[Owner].top = mem.top
      /\ "value" \in DOMAIN loc'[Owner] <=> "value" \in DOMAIN loc[Owner]
  BY <1>1, OwnerGoFacts
<1>3. OwnerAt = "pop_top" /\ OwnerAt' = "race"
  BY <1>2 DEF OwnerAt, Reclaiming
<1>4. DequeShape /\ OwnerCall
  BY DEF DequeOK
<1>5. Stealing!Bottom = mem.bottom + 1 /\ Stealing!Bottom' = mem.bottom + 1
  BY <1>2, DequeView
<1>6. OwnerKept
  BY <1>4, <1>5 DEF OwnerKept, DequeShape
<1>7. call[Owner] = <<"pop", "R", 1>> /\ "value" \notin DOMAIN loc[Owner]
  BY <1>3, <1>4 DEF OwnerCall
<1>8. OwnerCall'
  BY <1>2, <1>3, <1>7 DEF OwnerCall
<1>9. OwnerFrame'
  <2>1. mem.top = mem.bottom /\ mem.top \in Nat
    BY <1>4 DEF DequeShape
  <2> QED  BY <1>2, <1>3, <2>1 DEF OwnerFrame, At
<1>10. Value(Owner)' = Value(Owner)
  BY <1>2, <1>7 DEF Value
<1> QED  BY <1>2, <1>6, <1>8, <1>9, <1>10, OwnerSilent

LEMMA DequeLast ==
  ASSUME IsBuffer(Current, Capacity), mem.top \in Nat, mem.top <= mem.bottom, mem.bottom \in Nat,
         Items = Elements(Current, mem.top, mem.bottom + 1)
  PROVE  /\ Items # <<>> /\ Items[Len(Items)] = Element(Current, mem.bottom)
         /\ SubSeq(Items, 1, Len(Items) - 1) = Elements(Current, mem.top, mem.bottom)
<1>1. PICK b \in Nat : b = mem.bottom + 1
  OBVIOUS
<1>2. b - 1 = mem.bottom /\ mem.top < b /\ Items = Elements(Current, mem.top, b)
  BY <1>1
<1>3. /\ Items # <<>> /\ Items[Len(Items)] = Element(Current, b - 1)
      /\ SubSeq(Items, 1, Len(Items) - 1) = Elements(Current, mem.top, b - 1)
  BY <1>2, ElementsLast
<1> QED  BY <1>2, <1>3

\* There are more: the owner takes the last, and may shrink the buffer.
LEMMA DequePops ==
  ASSUME chosen = "deque", chosen' = chosen, StealingOK, DequeOK, mem.undefined = {},
         call' = call, left' = left, mem' = mem, loc[Owner].pc = "pop_top",
         mem.bottom + 1 - mem.top > 1, NEW resize,
         resize = 0 \/ (resize = Capacity \div 2 /\ mem.bottom + 1 - mem.top <= Capacity \div 3),
         Stealing!OwnerGoes(resize, [pc |-> "return", top |-> mem.top, end |-> mem.bottom + 1,
                                     value |-> Stealing!Get(mem.buffer, mem.bottom)])
  PROVE  DequeOK' /\ Promised
<1> DEFINE frame == [pc |-> "return", top |-> mem.top, end |-> mem.bottom + 1,
                     value |-> Stealing!Get(mem.buffer, mem.bottom)]
           e == Element(Current, mem.bottom)
<1>1. /\ Stealing!OwnerGoes(resize, frame) /\ DOMAIN frame = {"pc", "top", "end", "value"}
      /\ frame["pc"] = "return" /\ frame["top"] = mem.top /\ frame["end"] = mem.bottom + 1
      /\ frame["value"] = e
  BY DequeView
<1> HIDE DEF frame, e
<1>2. DequeShape /\ OwnerCall
  BY DEF DequeOK
<1>3. /\ DOMAIN loc' = Thread /\ \A u \in Stealer : loc'[u] = loc[u]
      /\ OwnerAt' = "return" /\ loc'[Owner].pc \in {"resize", "reclaim", "return"}
      /\ loc'[Owner].pc = "resize" => /\ "size" \in DOMAIN loc'[Owner] /\ loc'[Owner].size = resize /\ resize # 0
                                      /\ loc'[Owner].after = "return"
      /\ {"top", "end", "value"} \subseteq DOMAIN loc'[Owner]
      /\ loc'[Owner].top = mem.top /\ loc'[Owner].end = mem.bottom + 1 /\ loc'[Owner].value = e
  BY <1>1, OwnerGoesTo
<1>4. OwnerAt = "pop_top"
  BY DEF OwnerAt, Reclaiming
<1>5. Stealing!Bottom = mem.bottom + 1 /\ Stealing!Bottom' = mem.bottom
  BY <1>3, DequeView
<1>6. /\ IsBuffer(Current, Capacity) /\ Capacity \in Nat \ {0} /\ mem.top \in Nat /\ mem.bottom \in Int
      /\ mem.bottom + 1 - mem.top <= Capacity
  BY <1>2, <1>5, DequeTypes DEF DequeShape
<1>7. mem.bottom \in Nat /\ mem.top < mem.bottom
  BY <1>6
<1>8. e \in Cell /\ e # Pending
  <2>1. e \in Cell
    BY <1>6, <1>7, ElementFacts DEF e
  <2> QED  BY <2>1, CellsAreResults
<1>9. Current' = Current /\ Capacity' = Capacity
  BY DequeView DEF Current
<1>10. DequeShape'
  BY <1>2, <1>5, <1>6, <1>7, <1>9 DEF DequeShape
<1>11. call[Owner] = <<"pop", "R", 1>> /\ "value" \notin DOMAIN loc[Owner]
  BY <1>2, <1>4 DEF OwnerCall
<1>12. OwnerCall'
  BY <1>3, <1>8 DEF OwnerCall
<1>13. OwnerFrame'
  <2>1. CASE loc'[Owner].pc = "resize"
    <3>1. resize = Capacity \div 2 /\ mem.bottom + 1 - mem.top <= Capacity \div 3 /\ resize # 0
      BY <1>3, <2>1
    <3>2. resize \in Nat \ {0} /\ mem.bottom + 1 - mem.top <= resize
      BY <1>6, <1>7, <3>1
    <3>3. mem.bottom + 1 \in Nat /\ mem.bottom <= mem.bottom + 1
      BY <1>7
    <3> QED  BY <1>3, <1>6, <2>1, <3>2, <3>3 DEF OwnerFrame, At
  <2>2. CASE loc'[Owner].pc # "resize"
    BY <1>3, <2>2 DEF OwnerFrame, At
  <2> QED  BY <2>1, <2>2
<1>14. DequeOK'
  BY <1>3, <1>5, <1>6, <1>7, <1>10, <1>12, <1>13, OwnerTurn
<1>15. Items = Elements(Current, mem.top, mem.bottom + 1) /\ Items' = Elements(Current, mem.top, mem.bottom)
  BY <1>5, <1>9, DequeItems
<1>16. Items # <<>> /\ Items[Len(Items)] = e /\ SubSeq(Items, 1, Len(Items) - 1) = Items'
  <2>1. mem.top <= mem.bottom
    BY <1>6, <1>7
  <2> QED  BY <1>6, <1>7, <1>15, <2>1, DequeLast DEF e
<1>17. /\ call[Owner][1] = "pop" /\ call[Owner] # <<>> /\ Value(Owner) = Pending
       /\ Value(Owner)' = Promise!End(Items, call[Owner][2]) /\ Items' = Promise!Popped(Items, call[Owner][2])
  BY <1>3, <1>11, <1>16 DEF Value, Promise!End, Promise!Popped
<1>18. Owner \in Thread /\ \A u \in Thread : u # Owner => loc'[u] = loc[u]
  BY <1>3 DEF StealingOK, Stealer
<1> QED  BY <1>14, <1>16, <1>17, <1>18, Effect1

LEMMA DequePopBottom ==
  ASSUME chosen = "deque", chosen' = chosen, StealingOK, DequeOK, mem.undefined = {},
         call' = call, left' = left, Stealing!PopBottom
  PROVE  DequeOK' /\ Promised
<1> DEFINE size == mem.bottom + 1 - mem.top
           shrink == size <= Stealing!Size(mem.buffer) \div 3 /\ size > 2 ^ LogInitial
           r == IF shrink THEN Stealing!Size(mem.buffer) \div 2 ELSE 0
           frame == [pc |-> "return", top |-> mem.top, end |-> mem.bottom + 1,
                     value |-> Stealing!Get(mem.buffer, mem.bottom)]
<1>1. \/ At(Owner, "pop") /\ mem' = [mem EXCEPT !.bottom = @ - 1] /\ Go(Owner, [pc |-> "pop_top"])
      \/ /\ At(Owner, "pop_top") /\ mem' = mem
         /\ CASE size <= 0 -> Go(Owner, [pc |-> "restore", value |-> Empty])
              [] size = 1 -> Go(Owner, [pc |-> "race", top |-> mem.top])
              [] OTHER -> Stealing!OwnerGoes(r, frame)
  BY StealingFrames DEF Stealing!PopBottom
<1>2. mem.bottom \in Int /\ mem.top \in Nat /\ size \in Int
  BY DEF DequeOK, DequeShape
<1>3. r = 0 \/ (r = Capacity \div 2 /\ size <= Capacity \div 3)
  BY DEF Capacity
<1>4. size <= 0 => mem.bottom + 1 <= mem.top
  BY <1>2
<1> HIDE DEF r, frame
<1>5. \/ At(Owner, "pop") /\ mem' = [mem EXCEPT !.bottom = @ - 1] /\ Go(Owner, [pc |-> "pop_top"])
      \/ At(Owner, "pop_top") /\ mem' = mem /\ size <= 0 /\ Go(Owner, [pc |-> "restore", value |-> Empty])
      \/ At(Owner, "pop_top") /\ mem' = mem /\ size = 1 /\ Go(Owner, [pc |-> "race", top |-> mem.top])
      \/ At(Owner, "pop_top") /\ mem' = mem /\ size > 1 /\ Stealing!OwnerGoes(r, frame)
  <2> HIDE DEF size
  <2> QED  BY <1>1, <1>2
<1>6. CASE At(Owner, "pop_top") /\ mem' = mem /\ size > 1 /\ Stealing!OwnerGoes(r, frame)
  BY <1>3, <1>6, DequePops DEF At, frame
<1>7. CASE At(Owner, "pop_top") /\ mem' = mem /\ size <= 0 /\ Go(Owner, [pc |-> "restore", value |-> Empty])
  BY <1>4, <1>7, DequeFindsNothing DEF At
<1>8. CASE At(Owner, "pop_top") /\ mem' = mem /\ size = 1 /\ Go(Owner, [pc |-> "race", top |-> mem.top])
  BY <1>8, DequeRaces DEF At
<1> QED  BY <1>5, <1>6, <1>7, <1>8, DequeLowers

\* The owner wins the race: there is nothing left.
LEMMA DequeWins ==
  ASSUME chosen = "deque", chosen' = chosen, StealingOK, DequeOK, mem.undefined = {},
         call' = call, left' = left, At(Owner, "race"), mem.top = loc[Owner].top, mem' = [mem EXCEPT !.top = @ + 1],
         Go(Owner, [pc |-> "restore", value |-> Stealing!Get(mem.buffer, loc[Owner].top)])
  PROVE  DequeOK' /\ Promised
<1> DEFINE frame == [pc |-> "restore", value |-> Stealing!Get(mem.buffer, loc[Owner].top)]
           e == Element(Current, mem.bottom)
<1>1. DequeShape /\ OwnerCall /\ OwnerFrame /\ {"top", "bottom", "made", "seg", "buffer"} \subseteq DOMAIN mem
  BY DEF DequeOK, DequeShape, StealingOK
<1>2. /\ {"top", "bottom", "made", "seg"} \subseteq DOMAIN mem' /\ mem'.seg = mem.seg
      /\ mem'.buffer = mem.buffer /\ mem'.bottom = mem.bottom /\ mem'.top = mem.top + 1
  BY <1>1
<1>3. loc[Owner].top = mem.bottom /\ mem.top = mem.bottom
  BY <1>1 DEF OwnerFrame
<1>4. Go(Owner, frame) /\ DOMAIN frame = {"pc", "value"} /\ frame["pc"] = "restore" /\ frame["value"] = e
  BY <1>3, DequeView
<1> HIDE DEF frame, e
<1>5. /\ DOMAIN loc' = Thread /\ \A u \in Stealer : loc'[u] = loc[u]
      /\ loc'[Owner].pc = "restore" /\ loc[Owner].pc = "race"
      /\ "value" \in DOMAIN loc'[Owner] /\ loc'[Owner].value = e
  BY <1>4, OwnerGoFacts DEF At
<1>6. OwnerAt = "race" /\ OwnerAt' = "restore"
  BY <1>5 DEF OwnerAt, Reclaiming
<1>7. Stealing!Bottom = mem.bottom + 1 /\ Stealing!Bottom' = mem.bottom + 1
  BY <1>2, <1>5, DequeView
<1>8. /\ IsBuffer(Current, Capacity) /\ Capacity \in Nat \ {0} /\ mem.top \in Nat /\ mem.bottom \in Nat
      /\ mem.top <= mem.bottom
  BY <1>1, <1>3, DequeTypes DEF DequeShape
<1>9. e \in Cell /\ e # Pending
  <2>1. e \in Cell
    BY <1>8, ElementFacts DEF e
  <2> QED  BY <2>1, CellsAreResults
<1>10. Current' = Current /\ Capacity' = Capacity
  BY <1>2, DequeView DEF Current
<1>11. DequeShape'
  BY <1>1, <1>2, <1>3, <1>7, <1>8, <1>10 DEF DequeShape
<1>12. OwnerCall'
  BY <1>5, <1>6, <1>9 DEF OwnerCall
<1>13. OwnerFrame'
  BY <1>5, <1>6 DEF OwnerFrame, At
<1>14. DequeOK'
  <2>1. mem.top <= mem'.top /\ Stealing!Bottom' = Stealing!Bottom
    BY <1>2, <1>7, <1>8
  <2> QED  BY <1>5, <1>11, <1>12, <1>13, <2>1, OwnerTurn
<1>15. Items = Elements(Current, mem.top, mem.bottom + 1) /\ Items' = Elements(Current, mem.top + 1, mem.bottom + 1)
  BY <1>2, <1>7, <1>10, DequeItems
<1>16. Items # <<>> /\ Items[Len(Items)] = e /\ SubSeq(Items, 1, Len(Items) - 1) = Items'
  <2>1. /\ Items # <<>> /\ Items[Len(Items)] = e
        /\ SubSeq(Items, 1, Len(Items) - 1) = Elements(Current, mem.top, mem.bottom)
    BY <1>8, <1>15, DequeLast DEF e
  <2>2. Elements(Current, mem.top, mem.bottom) = <<>> /\ Elements(Current, mem.top + 1, mem.bottom + 1) = <<>>
    BY <1>3, <1>8 DEF Elements
  <2> QED  BY <1>15, <2>1, <2>2
<1>17. call[Owner] = <<"pop", "R", 1>> /\ "value" \notin DOMAIN loc[Owner]
  BY <1>1, <1>6 DEF OwnerCall
<1>18. /\ call[Owner][1] = "pop" /\ call[Owner] # <<>> /\ Value(Owner) = Pending
       /\ Value(Owner)' = Promise!End(Items, call[Owner][2]) /\ Items' = Promise!Popped(Items, call[Owner][2])
  BY <1>5, <1>16, <1>17 DEF Value, Promise!End, Promise!Popped
<1>19. Owner \in Thread /\ \A u \in Thread : u # Owner => loc'[u] = loc[u]
  BY <1>5 DEF StealingOK, Stealer
<1> QED  BY <1>14, <1>16, <1>18, <1>19, Effect1

\* The bottom is restored.
LEMMA DequeRestores ==
  ASSUME chosen = "deque", chosen' = chosen, StealingOK, DequeOK, mem.undefined = {},
         call' = call, left' = left, At(Owner, "restore"), mem' = [mem EXCEPT !.bottom = @ + 1],
         Go(Owner, [pc |-> "return", value |-> loc[Owner].value])
  PROVE  DequeOK' /\ Promised
<1> DEFINE frame == [pc |-> "return", value |-> loc[Owner].value]
<1>1. DequeShape /\ OwnerCall /\ {"top", "bottom", "made", "seg", "buffer"} \subseteq DOMAIN mem
  BY DEF DequeOK, DequeShape, StealingOK
<1>2. /\ {"top", "bottom", "made", "seg"} \subseteq DOMAIN mem' /\ mem'.seg = mem.seg
      /\ mem'.buffer = mem.buffer /\ mem'.bottom = mem.bottom + 1 /\ mem'.top = mem.top
  BY <1>1
<1>3. Go(Owner, frame) /\ DOMAIN frame = {"pc", "value"} /\ frame["pc"] = "return" /\ frame["value"] = loc[Owner].value
  OBVIOUS
<1> HIDE DEF frame
<1>4. /\ DOMAIN loc' = Thread /\ \A u \in Stealer : loc'[u] = loc[u]
      /\ loc'[Owner].pc = "return" /\ loc[Owner].pc = "restore"
      /\ "value" \in DOMAIN loc'[Owner] /\ loc'[Owner].value = loc[Owner].value
  BY <1>3, OwnerGoFacts DEF At
<1>5. OwnerAt = "restore" /\ OwnerAt' = "return"
  BY <1>4 DEF OwnerAt, Reclaiming
<1>6. Stealing!Bottom = mem.bottom + 1 /\ Stealing!Bottom' = mem.bottom + 1
  BY <1>2, <1>4, DequeView
<1>7. mem.top \in Nat /\ mem.bottom \in Int
  BY <1>1 DEF DequeShape
<1>8. Current' = Current /\ Capacity' = Capacity
  BY <1>2, DequeView DEF Current
<1>9. DequeShape'
  BY <1>1, <1>2, <1>6, <1>7, <1>8 DEF DequeShape
<1>10. "value" \in DOMAIN loc[Owner] /\ loc[Owner].value # Pending
  BY <1>1, <1>5 DEF OwnerCall
<1>11. OwnerCall'
  BY <1>4, <1>5, <1>10 DEF OwnerCall
<1>12. OwnerFrame'
  BY <1>4, <1>5 DEF OwnerFrame, At
<1>13. DequeOK'
  <2>1. mem.top <= mem'.top /\ Stealing!Bottom' = Stealing!Bottom
    BY <1>2, <1>6, <1>7
  <2> QED  BY <1>4, <1>9, <1>11, <1>12, <2>1, OwnerTurn
<1>14. Items' = Items
  BY <1>2, <1>6, <1>8, DequeItems
<1>15. Value(Owner)' = Value(Owner) /\ Owner \in Thread /\ \A u \in Thread : u # Owner => loc'[u] = loc[u]
  BY <1>4, <1>10 DEF Value, StealingOK, Stealer
<1> QED  BY <1>13, <1>14, <1>15, Silent

LEMMA DequePopLast ==
  ASSUME chosen = "deque", chosen' = chosen, StealingOK, DequeOK, mem.undefined = {},
         call' = call, left' = left, Stealing!PopLast
  PROVE  DequeOK' /\ Promised
<1>1. \/ /\ At(Owner, "race") /\ mem.top = loc[Owner].top /\ mem' = [mem EXCEPT !.top = @ + 1]
         /\ Go(Owner, [pc |-> "restore", value |-> Stealing!Get(mem.buffer, loc[Owner].top)])
      \/ At(Owner, "race") /\ mem.top # loc[Owner].top /\ Go(Owner, [pc |-> "restore", value |-> Empty]) /\ mem' = mem
      \/ /\ At(Owner, "restore") /\ mem' = [mem EXCEPT !.bottom = @ + 1]
         /\ Go(Owner, [pc |-> "return", value |-> loc[Owner].value])
  BY StealingFrames DEF Stealing!PopLast
<1>2. CASE At(Owner, "race") /\ mem.top # loc[Owner].top /\ Go(Owner, [pc |-> "restore", value |-> Empty]) /\ mem' = mem
  <2>1. loc[Owner].top = mem.bottom /\ mem.bottom <= mem.top /\ mem.top \in Nat /\ mem.bottom \in Int
    BY <1>2 DEF DequeOK, DequeShape, OwnerFrame
  <2>2. mem.bottom + 1 <= mem.top
    BY <1>2, <2>1
  <2> QED  BY <1>2, <2>2, DequeFindsNothing DEF At
<1> QED  BY <1>1, <1>2, DequeWins, DequeRestores

LEMMA DequeOwns ==
  ASSUME chosen = "deque", chosen' = chosen, StealingOK, DequeOK, mem.undefined = {},
         call' = call, left' = left, Stealing!OwnerStep
  PROVE  DequeOK' /\ Promised
BY DequePushTop, DequePushStores, DequePopBottom, DequePopLast, DequeStoreBuffer, DequeReclaim
   DEF Stealing!OwnerStep

\* A step of the deque; with a stealer that reads too late nothing more is
\* promised.
DequePromised == Promised \/ \E t \in Thread : GivesUp(t)

LEMMA DequeWork ==
  ASSUME chosen = "deque", chosen' = chosen, StealingOK, DequeOK, NEW t \in Thread,
         call' = call, left' = left, Stealing!Step(t)
  PROVE  DequeOK' /\ (mem'.undefined = {} => DequePromised)
<1>1. mem.undefined = {}
  BY DEF Stealing!Step
<1>2. CASE mem'.undefined # {}
  BY <1>2 DEF DequeOK
<1>3. CASE mem'.undefined = {} /\ t = Owner
  BY <1>1, <1>3, DequeOwns DEF Stealing!Step, DequePromised
<1>4. CASE mem'.undefined = {} /\ t # Owner
  <2>1. t \in Stealer /\ Stealing!StealerStep(t)
    BY <1>4 DEF Stealing!Step, Stealer
  <2> QED  BY <1>1, <1>4, <2>1, DequeSteals DEF DequePromised
<1> QED  BY <1>2, <1>3, <1>4

\* Such a step goes on with a call, and allocates nothing.
LEMMA DequeMoves ==
  ASSUME StealingOK, DequeOK, NEW t \in Thread, Stealing!Step(t)
  PROVE  ~At(t, "idle") /\ mem'.made = mem.made /\ mem.undefined = {} /\ \E frame : Go(t, frame)
<1>1. mem.undefined = {} /\ {"top", "bottom", "made", "seg", "buffer", "tls", "unlinked", "undefined"} \subseteq DOMAIN mem
  BY DEF Stealing!Step, DequeOK, DequeShape, StealingOK
<1>2. CASE t = Owner
  <2>1. Stealing!OwnerStep
    BY <1>2 DEF Stealing!Step
  <2>2. ~At(Owner, "idle")
    BY <2>1, StealingFrames DEF At, Stealing!OwnerStep, Stealing!PushTop, Stealing!PushStores, Stealing!PopBottom,
       Stealing!PopLast, Stealing!StoreBuffer, Stealing!Reclaim
  <2>3. mem'.made = mem.made
    BY <1>1, <2>1 DEF Stealing!OwnerStep, Stealing!PushTop, Stealing!PushStores, Stealing!PopBottom,
       Stealing!PopLast, Stealing!StoreBuffer, Stealing!Reclaim
  <2>4. \E frame : Stealing!Go(Owner, frame)
    <3>1. Stealing!PushTop \/ Stealing!PopBottom => \E frame : Stealing!Go(Owner, frame)
      BY DEF Stealing!PushTop, Stealing!PopBottom, Stealing!OwnerGoes
    <3>2. Stealing!PushStores \/ Stealing!PopLast \/ Stealing!StoreBuffer => \E frame : Stealing!Go(Owner, frame)
      BY DEF Stealing!PushStores, Stealing!PopLast, Stealing!StoreBuffer, Stealing!Returns
    <3>3. Stealing!Reclaim => \E frame : Stealing!Go(Owner, frame)
      BY DEF Stealing!Reclaim, Stealing!Scanned
    <3> QED  BY <2>1, <3>1, <3>2, <3>3 DEF Stealing!OwnerStep
  <2> QED  BY <1>1, <1>2, <2>2, <2>3, <2>4, StealingFrames
<1>3. CASE t # Owner
  <2>1. Stealing!StealerStep(t)
    BY <1>3 DEF Stealing!Step
  <2>2. ~At(t, "idle")
    BY <2>1, StealingFrames DEF At, Stealing!StealerStep, Stealing!Register, Stealing!Look, Stealing!Claim, Stealing!Record
  <2>3. mem'.made = mem.made
    BY <1>1, <2>1 DEF Stealing!StealerStep, Stealing!Register, Stealing!Look, Stealing!Claim, Stealing!Record
  <2>4. \E frame : Stealing!Go(t, frame)
    BY <2>1 DEF Stealing!StealerStep, Stealing!Register, Stealing!Look, Stealing!Claim, Stealing!Record, Stealing!Returns
  <2> QED  BY <1>1, <2>2, <2>3, <2>4, StealingFrames
<1> QED  BY <1>2, <1>3

LEMMA DequeRoom ==
  ASSUME StealingOK, DequeOK, DequeOK', mem'.undefined = {}, NEW t \in Thread, Stealing!Step(t),
         call' = call, left' = left, Room(MaxNodes)
  PROVE  Room(MaxNodes)'
<1>1. PICK frame : Go(t, frame)
  BY DequeMoves
<1>2. ~At(t, "idle") /\ mem'.made = mem.made /\ mem.undefined = {} /\ DOMAIN loc = Thread /\ DOMAIN call = Thread
  BY DequeMoves DEF Room
<1>3. /\ DOMAIN loc' = Thread /\ \A u \in Thread : u # t => loc'[u] = loc[u]
      /\ DOMAIN loc'[t] = DOMAIN frame \union DOMAIN loc[t]
  BY <1>1, <1>2, GoFacts
<1>4. loc'[t].pc # "idle"
  <2> SUFFICES ASSUME loc'[t].pc = "idle" PROVE FALSE
    OBVIOUS
  <2>1. call[t] # <<>> \/ "value" \in DOMAIN loc[t]
    <3>1. CASE t = Owner
      <4>1. OwnerCall
        BY <1>2 DEF DequeOK
      <4>2. OwnerAt # "idle"
        BY <1>2, <3>1 DEF OwnerAt, Reclaiming, StealingOK, ScanOK, At
      <4> QED  BY <3>1, <4>1, <4>2 DEF OwnerCall
    <3>2. CASE t # Owner
      <4>1. StealerFrame(t)
        BY <1>2, <3>2 DEF DequeOK, Stealer
      <4> QED  BY <1>2, <4>1 DEF StealerFrame
    <3> QED  BY <3>1, <3>2
  <2>2. call'[t] = <<>> /\ "value" \notin DOMAIN loc'[t]
    <3>1. CASE t = Owner
      <4>1. OwnerCall' /\ OwnerAt' = "idle"
        BY <3>1 DEF DequeOK, OwnerAt, Reclaiming
      <4> QED  BY <3>1, <4>1 DEF OwnerCall
    <3>2. CASE t # Owner
      <4>1. StealerFrame(t)'
        BY <3>2 DEF DequeOK, Stealer
      <4> QED  BY <4>1 DEF StealerFrame
    <3> QED  BY <3>1, <3>2
  <2> QED  BY <1>3, <2>1, <2>2
<1> QED  BY <1>2, <1>3, <1>4, RoomStays, LockFreeAssumption

\* A call begins.
LEMMA DequeEnters ==
  ASSUME chosen = "deque", chosen' = chosen, StealingOK, DequeOK, mem.undefined = {}, Room(MaxNodes),
         NEW t \in Thread, left[t] > 0, At(t, "idle"), left' = left,
         NEW x, NEW name, NEW s, NEW e, Enter(t, <<name, s, e>>, x),
         \/ t = Owner /\ x = "push" /\ name = "push" /\ s = "R" /\ e = mem.made + 1
         \/ t = Owner /\ x = "pop" /\ name = "pop" /\ s = "R" /\ e = 1
         \/ t # Owner /\ x = "register" /\ name = "pop" /\ s = "L" /\ e = 1,
         {"top", "bottom", "made", "seg"} \subseteq DOMAIN mem', mem'.seg = mem.seg, mem'.buffer = mem.buffer,
         mem'.bottom = mem.bottom, mem'.top = mem.top, mem'.made \in {mem.made, mem.made + 1}
  PROVE  DequeOK' /\ Promised /\ Room(MaxNodes)'
<1>1. DOMAIN loc = Thread /\ DOMAIN call = Thread /\ mem.made \in Nat /\ MaxNodes \in Nat \ {0}
  BY LockFreeAssumption DEF Room
<1>2. call' = [call EXCEPT ![t] = <<name, s, e>>]
  BY DEF Enter
<1>3. /\ DOMAIN loc' = Thread /\ DOMAIN call' = Thread
      /\ loc'[t] = [pc |-> x] /\ call'[t] = <<name, s, e>>
      /\ \A u \in Thread : u # t => loc'[u] = loc[u] /\ call'[u] = call[u]
  BY <1>1 DEF Enter
<1>4. loc'[t].pc = x /\ "value" \notin DOMAIN loc'[t]
  BY <1>3
<1>5. Room(MaxNodes)' /\ mem.made < MaxNodes
  BY <1>1, <1>3, <1>4, RoomForCall
<1>6. e \in 1 .. MaxNodes
  BY <1>1, <1>5
<1>7. /\ DequeShape /\ OwnerCall /\ OwnerFrame /\ \A u \in Stealer : StealerFrame(u)
      /\ Owner \in Thread
  BY DEF DequeOK, StealingOK
<1>8. CASE t = Owner
  <2>1. OwnerAt = "idle" /\ OwnerAt' = x
    BY <1>4, <1>8 DEF OwnerAt, Reclaiming, At
  <2>2. call[t] = <<>> /\ "value" \notin DOMAIN loc[t]
    BY <1>7, <1>8, <2>1 DEF OwnerCall
  <2>3. OwnerCall'
    BY <1>3, <1>4, <1>6, <1>8, <2>1 DEF OwnerCall
  <2>4. OwnerFrame'
    BY <1>4, <1>8, <2>1 DEF OwnerFrame, At
  <2>5. Stealing!Bottom' = Stealing!Bottom
    BY <1>4, <1>8, DequeView DEF At
  <2>6. DequeOK' /\ Items' = Items
    BY <1>3, <1>8, <2>3, <2>4, <2>5, OwnerSame DEF OwnerKept, Stealer
  <2>7. Value(t) = Pending /\ Value(t)' = Pending
    BY <1>4, <2>2 DEF Value
  <2>8. Promised
    BY <1>2, <1>3, <1>6, <1>8, <2>2, <2>6, <2>7, Begins
  <2> QED  BY <1>5, <2>6, <2>8
<1>9. CASE t # Owner
  <2>1. t \in Stealer
    BY <1>9 DEF Stealer
  <2>2. call[t] = <<>> /\ "value" \notin DOMAIN loc[t]
    BY <1>7, <2>1 DEF StealerFrame, At
  <2>3. StealerFrame(t)'
    BY <1>3, <1>4, <1>9 DEF StealerFrame
  <2>4. StealerTook
    BY DEF StealerTook
  <2>5. DequeOK' /\ Stealing!Bottom' = Stealing!Bottom /\ Current' = Current
    BY <1>3, <2>1, <2>3, <2>4, StealerTurn
  <2>6. Items' = Items
    BY <2>5, DequeItems
  <2>7. Value(t) = Pending /\ Value(t)' = Pending
    BY <1>4, <2>2 DEF Value
  <2>8. Promised
    BY <1>2, <1>3, <1>6, <1>9, <2>2, <2>6, <2>7, Begins
  <2> QED  BY <1>5, <2>5, <2>8
<1> QED  BY <1>8, <1>9

LEMMA DequeCall ==
  ASSUME chosen = "deque", chosen' = chosen, StealingOK, DequeOK, mem.undefined = {}, Room(MaxNodes),
         NEW t \in Thread, left[t] > 0, At(t, "idle"), left' = left,
         IF t = Owner THEN Stealing!CallPush \/ Stealing!CallPop ELSE Stealing!CallSteal(t)
  PROVE  DequeOK' /\ Promised /\ Room(MaxNodes)'
<1>1. {"top", "bottom", "made", "seg", "buffer"} \subseteq DOMAIN mem
  BY DEF DequeOK, DequeShape, StealingOK
<1>2. /\ {"top", "bottom", "made", "seg"} \subseteq DOMAIN mem' /\ mem'.seg = mem.seg /\ mem'.buffer = mem.buffer
      /\ mem'.bottom = mem.bottom /\ mem'.top = mem.top /\ mem'.made \in {mem.made, mem.made + 1}
  BY <1>1 DEF Stealing!CallPush, Stealing!CallPop, Stealing!CallSteal
<1>3. CASE t = Owner /\ Enter(Owner, <<"push", "R", mem.made + 1>>, "push")
  BY <1>2, <1>3, DequeEnters
<1>4. CASE t = Owner /\ Enter(Owner, <<"pop", "R", 1>>, "pop")
  BY <1>2, <1>4, DequeEnters
<1>5. CASE t # Owner /\ Enter(t, <<"pop", "L", 1>>, "register")
  BY <1>2, <1>5, DequeEnters
<1> QED  BY <1>3, <1>4, <1>5, StealingFrames DEF Stealing!CallPush, Stealing!CallPop, Stealing!CallSteal

LEMMA DequeReturn ==
  ASSUME chosen = "deque", chosen' = chosen, StealingOK, DequeOK, mem.undefined = {}, Room(MaxNodes),
         NEW t \in Thread, Return(t)
  PROVE  DequeOK' /\ Promised /\ Room(MaxNodes)'
<1>1. /\ At(t, "return") /\ mem' = mem /\ left' = [left EXCEPT ![t] = @ - 1]
      /\ call' = [call EXCEPT ![t] = <<>>] /\ loc' = [loc EXCEPT ![t] = [pc |-> "idle"]]
  BY DEF Return, Leave, Idle
<1>2. DOMAIN loc = Thread /\ DOMAIN call = Thread
  BY DEF Room
<1>3. /\ DOMAIN loc' = Thread /\ DOMAIN call' = Thread
      /\ loc'[t] = [pc |-> "idle"] /\ call'[t] = <<>>
      /\ \A u \in Thread : u # t => loc'[u] = loc[u] /\ call'[u] = call[u]
  BY <1>1, <1>2
<1>4. loc'[t].pc = "idle" /\ "value" \notin DOMAIN loc'[t]
  BY <1>3
<1>5. Room(MaxNodes)'
  BY <1>1, <1>3, <1>4, RoomStays, LockFreeAssumption DEF At
<1>6. /\ DequeShape /\ OwnerCall /\ OwnerFrame /\ \A u \in Stealer : StealerFrame(u)
      /\ Owner \in Thread
  BY DEF DequeOK, StealingOK
<1>7. CASE t = Owner
  <2>1. OwnerAt = "return" /\ OwnerAt' = "idle"
    BY <1>1, <1>4, <1>7 DEF OwnerAt, Reclaiming, At
  <2>2. "value" \in DOMAIN loc[t] /\ loc[t].value # Pending
    BY <1>6, <1>7, <2>1 DEF OwnerCall
  <2>3. OwnerCall'
    BY <1>3, <1>4, <1>7, <2>1 DEF OwnerCall, At
  <2>4. OwnerFrame'
    BY <1>4, <1>7, <2>1 DEF OwnerFrame, At
  <2>5. Stealing!Bottom' = Stealing!Bottom
    BY <1>1, <1>4, <1>7, DequeView DEF At
  <2>6. DequeOK' /\ Items' = Items
    BY <1>1, <1>3, <1>6, <1>7, <2>3, <2>4, <2>5, OwnerSame DEF OwnerKept, DequeShape, Stealer
  <2>7. Value(t) # Pending /\ Value(t)' = Pending
    BY <1>4, <2>2 DEF Value
  <2>8. Promised
    BY <1>1, <1>3, <2>6, <2>7, Ends
  <2> QED  BY <1>5, <2>6, <2>8
<1>8. CASE t # Owner
  <2>1. t \in Stealer
    BY <1>8 DEF Stealer
  <2>2. "value" \in DOMAIN loc[t] /\ loc[t].value # Pending
    BY <1>1, <1>6, <2>1 DEF StealerFrame, At
  <2>3. StealerFrame(t)'
    BY <1>3, <1>4 DEF StealerFrame, At
  <2>4. StealerTook
    BY <1>1, <1>6 DEF StealerTook, DequeShape
  <2>5. DequeOK' /\ Stealing!Bottom' = Stealing!Bottom /\ Current' = Current
    BY <1>3, <2>1, <2>3, <2>4, StealerTurn
  <2>6. Items' = Items
    BY <1>1, <2>5, DequeItems
  <2>7. Value(t) # Pending /\ Value(t)' = Pending
    BY <1>4, <2>2 DEF Value
  <2>8. Promised
    BY <1>1, <1>3, <2>6, <2>7, Ends
  <2> QED  BY <1>5, <2>5, <2>8
<1> QED  BY <1>7, <1>8

\* The deque at the start: it is empty.
LEMMA DequeStarts ==
  ASSUME chosen = "deque", Init
  PROVE  DequeOK /\ Room(MaxNodes)
<1>1. /\ loc = [t \in Thread |-> Idle] /\ call = [t \in Thread |-> <<>>] /\ Stealing!Init /\ Owner \in Thread
      /\ MaxNodes \in Nat \ {0} /\ 2 ^ LogInitial \in Nat \ {0}
  BY LockFreeAssumption DEF Init
<1>2. \A t \in Thread : loc[t].pc = "idle" /\ "value" \notin DOMAIN loc[t] /\ call[t] = <<>>
  BY <1>1 DEF Idle
<1> DEFINE empty == [i \in 0 .. 2 ^ LogInitial - 1 |-> 0]
<1>3. /\ {"top", "bottom", "made", "seg", "buffer"} \subseteq DOMAIN mem
      /\ mem.top = 0 /\ mem.bottom = 0 /\ mem.buffer = 0 /\ mem.made = 0 /\ mem.seg = <<empty>>
  BY <1>1 DEF Stealing!Init
<1>4. IsBuffer(empty, 2 ^ LogInitial)
  <2>1. PICK n \in Nat \ {0} : n = 2 ^ LogInitial
    BY <1>1
  <2>2. [i \in 0 .. n - 1 |-> 0] \in [0 .. n - 1 -> Cell]
    BY <1>1 DEF Cell
  <2> QED  BY <2>1, <2>2 DEF IsBuffer
<1>5. empty \in Segments
  BY <1>4 DEF IsBuffer, Segments
<1> HIDE DEF empty
<1>6. mem.seg \in Seq(Segments) /\ Len(mem.seg) = mem.buffer + 1 /\ Current = empty
  BY <1>3, <1>5 DEF Current
<1>7. Stealing!Bottom = 0 /\ Capacity = 2 ^ LogInitial
  BY <1>1, <1>2, <1>3, <1>4, <1>6, BufferSize, DequeView
<1>8. DequeShape
  <2>1. PICK n \in Nat \ {0} : n = 2 ^ LogInitial
    BY <1>1
  <2>2. Stealing!Bottom - mem.top <= Capacity /\ mem.top <= Stealing!Bottom
    BY <1>3, <1>7, <2>1
  <2> QED  BY <1>3, <1>6, <2>2 DEF DequeShape
<1>9. OwnerAt = "idle"
  BY <1>1, <1>2 DEF OwnerAt, Reclaiming
<1>10. OwnerCall /\ OwnerFrame
  BY <1>1, <1>2, <1>9 DEF OwnerCall, OwnerFrame, At
<1>11. \A t \in Stealer : StealerFrame(t)
  BY <1>2 DEF StealerFrame, Stealer, At
<1>12. Room(MaxNodes)
  <2>1. 0 \in Prefill \union {0} /\ mem.made \in Nat /\ mem.made - 0 <= MaxNodes - MaxNodes
    BY <1>1, <1>3
  <2> QED  BY <1>1, <2>1, RoomStarts
<1> QED  BY <1>8, <1>10, <1>11, <1>12 DEF DequeOK

\* A step that changes nothing.
LEMMA DequeStays ==
  ASSUME chosen = "deque", chosen' = chosen, DequeOK, mem' = mem, call' = call, loc' = loc, left' = left
  PROVE  DequeOK' /\ UNCHANGED promised
<1>1. DequeOK'
  <2>1. Capacity' = Capacity /\ Stealing!Bottom' = Stealing!Bottom
    BY DequeView DEF Current
  <2>2. Stealing!Get(mem.buffer, mem.bottom)' = Stealing!Get(mem.buffer, mem.bottom)
    BY DequeView DEF Current
  <2>3. OwnerAt' = OwnerAt
    BY DEF OwnerAt, Reclaiming
  <2>4. DequeShape => DequeShape'
    BY <2>1 DEF DequeShape
  <2>5. OwnerCall => OwnerCall'
    BY <2>3 DEF OwnerCall
  <2>6. OwnerFrame => OwnerFrame'
    BY <2>1, <2>2, <2>3 DEF OwnerFrame, HasRoom, At
  <2>7. \A t : StealerFrame(t) => StealerFrame(t)'
    BY <2>1 DEF StealerFrame, At
  <2> QED  BY <2>4, <2>5, <2>6, <2>7 DEF DequeOK
<1>2. Items' = Items
  <2>1. Stealing!Bottom' = Stealing!Bottom /\ Current' = Current
    BY DequeView DEF Current
  <2> QED  BY <2>1, DequeItems
<1>3. Results' = Results
  BY DEF Results, Result
<1> QED  BY <1>1, <1>2, <1>3 DEF promised

-----------------------------------------------------------------------------
(***************************************************************************)
(* The program.                                                            *)
(***************************************************************************)
IInv ==
  /\ chosen = "stack" => StackOK /\ Room(MaxNodes)
  /\ chosen = "spsc" => SPSCOK /\ Room(MaxNodes + 1)
  /\ chosen = "queue" => QueueOK /\ Room(MaxNodes)
  /\ chosen = "deque" => StealingOK /\ DequeOK /\ (mem.undefined = {} => Room(MaxNodes))

LEMMA Starts == Init => IInv
BY StackStarts, SPSCStarts, QueueStarts, StealingStarts, DequeStarts DEF IInv

\* A step that changes nothing.
LEMMA Stutters ==
  ASSUME IInv, UNCHANGED vars
  PROVE  IInv' /\ (chosen \in {"stack", "spsc", "queue", "deque"} => UNCHANGED promised)
<1>1. chosen' = chosen /\ left' = left /\ mem' = mem /\ call' = call /\ loc' = loc
  BY DEF vars
<1>2. IInv'
  <2>1. StackOK => StackOK'
    BY <1>1 DEF StackOK, StackFrame, StackLocals, Private, Found, Pushing, Popping, At
  <2>2. SPSCOK => SPSCOK'
    BY <1>1 DEF SPSCOK, ProducerOK, ConsumerOK, OneConsumer, Resting, At
  <2>5. chosen = "queue" /\ QueueOK => QueueOK'
    BY <1>1, QueueStays
  <2>3. Open' = Open
    BY <1>1 DEF Open, At
  <2>4. \A n : Room(n) => Room(n)'
    BY <1>1, <2>3 DEF Room, At
  <2>6. StealingOK => StealingOK'
    BY <1>1 DEF StealingOK, RecordsOK, BuffersOK, ScanOK, Scanning, Enlisted, Busy, Holds, At
  <2>7. chosen = "deque" /\ DequeOK => DequeOK'
    BY <1>1, DequeStays
  <2> QED  BY <1>1, <2>1, <2>2, <2>4, <2>5, <2>6, <2>7 DEF IInv
<1>3. ASSUME chosen \in {"stack", "spsc", "queue", "deque"} PROVE UNCHANGED promised
  <2>1. CASE chosen = "queue"
    BY <1>1, <2>1, QueueStays DEF IInv
  <2>3. CASE chosen = "deque"
    BY <1>1, <2>3, DequeStays DEF IInv
  <2>2. CASE chosen \in {"stack", "spsc"}
    <3>1. Items' = Items
      <4>1. CASE chosen = "stack"
        BY <1>1, <4>1, StackItems DEF Items
      <4>2. CASE chosen = "spsc"
        BY <1>1, <4>2, SPSCContents DEF IInv, SPSCOK
      <4> QED  BY <2>2, <4>1, <4>2
    <3>2. Results' = Results
      BY <1>1, <2>2 DEF Results, Result
    <3> QED  BY <1>1, <3>1, <3>2 DEF promised
  <2> QED  BY <1>3, <2>1, <2>2, <2>3
<1> QED  BY <1>2, <1>3

LEMMA Steps ==
  ASSUME IInv, Next
  PROVE  /\ IInv' /\ (chosen \in {"stack", "spsc"} => Promised) /\ (chosen = "queue" => QueuePromised)
         /\ chosen = "deque" /\ mem'.undefined = {} => DequePromised
<1>1. CASE Terminated
  <2>1. UNCHANGED vars
    BY <1>1 DEF Terminated
  <2> QED  BY <2>1, Stutters DEF Promised, QueuePromised, DequePromised
<1>2. ASSUME NEW t \in Thread, Step(t)
      PROVE  /\ IInv' /\ (chosen \in {"stack", "spsc"} => Promised) /\ (chosen = "queue" => QueuePromised)
             /\ chosen = "deque" /\ mem'.undefined = {} => DequePromised
  <2>1. chosen' = chosen
    BY <1>2 DEF Step, Call, Work, Return
  <2>2. CASE chosen = "stack"
    <3>1. StackOK /\ Room(MaxNodes)
      BY <2>2 DEF IInv
    <3>2. StackOK' /\ Promised /\ Room(MaxNodes)'
      <4>1. CASE Call(t)
        <5>1. left[t] > 0 /\ At(t, "idle") /\ left' = left /\ (Stack!CallPush(t) \/ Stack!CallPop(t))
          BY <2>2, <4>1 DEF Call, UseQueue, UseStack, UseSPSC, UseDeque, UseList, UseMap, UseTree
        <5> QED  BY <2>1, <2>2, <3>1, <5>1, StackCallPush, StackCallPop
      <4>2. CASE Work(t)
        <5>1. Stack!Step(t) /\ UNCHANGED <<call, left>>
          BY <2>2, <4>2 DEF Work
        <5> QED  BY <2>1, <2>2, <3>1, <5>1, StackWork
      <4>3. CASE Return(t)
        BY <2>1, <2>2, <3>1, <4>3, StackReturn
      <4> QED  BY <1>2, <4>1, <4>2, <4>3 DEF Step
    <3> QED  BY <2>1, <2>2, <3>2 DEF IInv
  <2>3. CASE chosen = "spsc"
    <3>1. SPSCOK /\ Room(MaxNodes + 1)
      BY <2>3 DEF IInv
    <3>2. SPSCOK' /\ Promised /\ Room(MaxNodes + 1)'
      <4>1. CASE Call(t)
        <5>1. /\ left[t] > 0 /\ At(t, "idle") /\ left' = left
              /\ IF t = Owner THEN SPSC!CallPush(t) ELSE SPSC!CallPop(t)
          BY <2>3, <4>1 DEF Call, UseQueue, UseStack, UseSPSC, UseDeque, UseList, UseMap, UseTree
        <5>2. CASE t = Owner
          BY <2>1, <2>3, <3>1, <5>1, <5>2, SPSCCallPush
        <5>3. CASE t # Owner
          BY <2>1, <2>3, <3>1, <5>1, <5>3, SPSCCallPop
        <5> QED  BY <5>2, <5>3
      <4>2. CASE Work(t)
        <5>1. SPSC!Step(t) /\ UNCHANGED <<call, left>>
          BY <2>3, <4>2 DEF Work
        <5> QED  BY <2>1, <2>3, <3>1, <5>1, SPSCWork
      <4>3. CASE Return(t)
        BY <2>1, <2>3, <3>1, <4>3, SPSCReturn
      <4> QED  BY <1>2, <4>1, <4>2, <4>3 DEF Step
    <3> QED  BY <2>1, <2>3, <3>2 DEF IInv
  <2>5. CASE chosen = "queue"
    <3>1. QueueOK /\ Room(MaxNodes)
      BY <2>5 DEF IInv
    <3>2. QueueOK' /\ Room(MaxNodes)' /\ QueuePromised
      <4>1. CASE Call(t)
        <5>1. left[t] > 0 /\ At(t, "idle") /\ left' = left /\ (Queue!CallPush(t) \/ Queue!CallPop(t))
          BY <2>5, <4>1 DEF Call, UseQueue, UseStack, UseSPSC, UseDeque, UseList, UseMap, UseTree
        <5> QED  BY <2>1, <2>5, <3>1, <5>1, QueueCallPush, QueueCallPop
      <4>2. CASE Work(t)
        <5>1. Queue!Step(t) /\ UNCHANGED <<call, left>>
          BY <2>5, <4>2 DEF Work
        <5> QED  BY <2>1, <2>5, <3>1, <5>1, QueueWork
      <4>3. CASE Return(t)
        BY <2>1, <2>5, <3>1, <4>3, QueueReturn
      <4> QED  BY <1>2, <4>1, <4>2, <4>3 DEF Step
    <3> QED  BY <2>1, <2>5, <3>2 DEF IInv
  <2>6. CASE chosen = "deque"
    <3>1. StealingOK /\ DequeOK /\ (mem.undefined = {} => Room(MaxNodes))
      BY <2>6 DEF IInv
    <3>2. StealingOK' /\ DequeOK' /\ (mem'.undefined = {} => Room(MaxNodes)' /\ DequePromised)
      <4>1. CASE Call(t)
        <5>1. /\ left[t] > 0 /\ At(t, "idle") /\ left' = left
              /\ IF t = Owner THEN Stealing!CallPush \/ Stealing!CallPop ELSE Stealing!CallSteal(t)
          BY <2>6, <4>1 DEF Call, UseQueue, UseStack, UseSPSC, UseDeque, UseList, UseMap, UseTree
        <5>2. t # Owner => t \in Stealer
          BY DEF Stealer
        <5>3. StealingOK'
          BY <3>1, <5>1, <5>2, StealingOwnerCalls, StealingCallSteal
        <5>4. mem'.undefined = mem.undefined
          BY <3>1, <5>1 DEF Stealing!CallPush, Stealing!CallPop, Stealing!CallSteal, StealingOK
        <5>5. CASE mem.undefined = {}
          BY <2>1, <2>6, <3>1, <5>1, <5>3, <5>5, DequeCall DEF DequePromised
        <5>6. CASE mem.undefined # {}
          BY <5>3, <5>4, <5>6 DEF DequeOK
        <5> QED  BY <5>5, <5>6
      <4>2. CASE Work(t)
        <5>1. Stealing!Step(t) /\ call' = call /\ left' = left
          BY <2>6, <4>2 DEF Work
        <5>2. StealingOK' /\ DequeOK' /\ (mem'.undefined = {} => DequePromised)
          BY <2>1, <2>6, <3>1, <5>1, StealingWork, DequeWork
        <5>3. mem'.undefined = {} => Room(MaxNodes)'
          <6>1. mem.undefined = {}
            BY <3>1, <5>1, DequeMoves
          <6> QED  BY <3>1, <5>1, <5>2, <6>1, DequeRoom
        <5> QED  BY <5>2, <5>3
      <4>3. CASE Return(t)
        <5>1. StealingOK' /\ mem' = mem
          BY <3>1, <4>3, StealingReturn DEF Return
        <5>2. CASE mem.undefined = {}
          BY <2>1, <2>6, <3>1, <4>3, <5>1, <5>2, DequeReturn DEF DequePromised
        <5>3. CASE mem.undefined # {}
          BY <5>1, <5>3 DEF DequeOK
        <5> QED  BY <5>2, <5>3
      <4> QED  BY <1>2, <4>1, <4>2, <4>3 DEF Step
    <3> QED  BY <2>1, <2>6, <3>2 DEF IInv
  <2>4. CASE chosen \notin {"stack", "spsc", "queue", "deque"}
    BY <2>1, <2>4 DEF IInv
  <2> QED  BY <2>2, <2>3, <2>4, <2>5, <2>6
<1> QED  BY <1>1, <1>2 DEF Next

\* The stack, the two queues and the work-stealing deque keep their shapes, and
\* the deque's Reclaimer spares the buffers that its stealers hold.
THEOREM Invariant == Spec => []IInv
<1>1. IInv /\ [Next]_vars => IInv'
  BY Steps, Stutters
<1> QED  BY Starts, <1>1, PTL DEF Spec

\* StackIsLinearizable: each push and pop of the lock-free stack and of the
\* queue of one producer and one consumer takes effect at one instant, as in
\* the deque of DequeSpec.
THEOREM StackLinearizes == Spec => StackIsLinearizable
<1>1. IInv /\ [Next]_vars => [(chosen \in {"stack", "spsc"}) => Promise!Next]_promised
  <2>1. ASSUME IInv, Next PROVE ((chosen \in {"stack", "spsc"}) => Promise!Next) \/ UNCHANGED promised
    BY <2>1, Steps DEF Promised
  <2>2. ASSUME IInv, UNCHANGED vars
        PROVE  ((chosen \in {"stack", "spsc"}) => Promise!Next) \/ UNCHANGED promised
    BY <2>2, Stutters
  <2> QED  BY <2>1, <2>2
<1> QED  BY Invariant, <1>1, PTL DEF Spec, StackIsLinearizable

\* QueueIsLinearizable: each call of the queue of Michael and Scott takes
\* effect at one instant, a push when the tail is swung to its node by
\* whichever worker, except that a pop that returns -1 has seen the queue empty
\* at some moment since it loaded the tail.
THEOREM QueueLinearizes == Spec => QueueIsLinearizable
<1>1. IInv /\ [Next]_vars => [chosen = "queue" => Promise!Next \/ \E t \in Thread : PopsNothing(t)]_promised
  <2>1. ASSUME IInv, Next
        PROVE  (chosen = "queue" => Promise!Next \/ \E t \in Thread : PopsNothing(t)) \/ UNCHANGED promised
    BY <2>1, Steps DEF QueuePromised
  <2>2. ASSUME IInv, UNCHANGED vars
        PROVE  (chosen = "queue" => Promise!Next \/ \E t \in Thread : PopsNothing(t)) \/ UNCHANGED promised
    BY <2>2, Stutters
  <2> QED  BY <2>1, <2>2
<1> QED  BY Invariant, <1>1, PTL DEF Spec, QueueIsLinearizable

\* BuffersOutliveSteals: no stealer of the work-stealing deque reads a slot of
\* a buffer that the Reclaimer has deleted, though it deletes them while
\* stealers come and go, without a lock.
THEOREM BuffersAreSafe == Spec => []BuffersOutliveSteals
<1>1. IInv => BuffersOutliveSteals
  BY DEF IInv, StealingOK, BuffersOutliveSteals
<1> QED  BY Invariant, <1>1, PTL

\* DequeIsLinearizable: each call of the work-stealing deque takes effect at one
\* instant, though the owner pops at the bottom without a lock while others
\* steal at the top, and moves the elements to a larger or a smaller buffer; a
\* steal may give up.  Until a stealer reads a slot that holds another element
\* by then, or the id of a deleted buffer.
THEOREM DequeLinearizes == Spec => DequeIsLinearizable
<1>1. IInv /\ [Next]_vars
        => [chosen = "deque" /\ ~Undefined' => Promise!Next \/ \E t \in Thread : GivesUp(t)]_promised
  <2>1. chosen' = chosen /\ chosen = "deque" /\ ~Undefined' => mem'.undefined = {}
    BY DEF Undefined
  <2>2. ASSUME IInv, Next
        PROVE  (chosen = "deque" /\ ~Undefined' => Promise!Next \/ \E t \in Thread : GivesUp(t)) \/ UNCHANGED promised
    <3>1. chosen' = chosen
      BY <2>2 DEF Next, Step, Call, Work, Return, Terminated, vars
    <3> QED  BY <2>1, <2>2, <3>1, Steps DEF DequePromised, Promised
  <2>3. ASSUME IInv, UNCHANGED vars
        PROVE  (chosen = "deque" /\ ~Undefined' => Promise!Next \/ \E t \in Thread : GivesUp(t)) \/ UNCHANGED promised
    BY <2>3, Stutters
  <2> QED  BY <2>2, <2>3
<1> QED  BY Invariant, <1>1, PTL DEF Spec, DequeIsLinearizable
=============================================================================
