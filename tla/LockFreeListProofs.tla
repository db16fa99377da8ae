------------------------- MODULE LockFreeListProofs -------------------------
(***************************************************************************)
(* Proofs about LockFree, for any workers, calls, keys and number of       *)
(* nodes: the doubly linked list loses no node before it is marked, and    *)
(* the links of the hash map keep their order.                             *)
(***************************************************************************)
EXTENDS LockFreeProofs

-----------------------------------------------------------------------------
(***************************************************************************)
(* The lock-free list: an inserted node stays in it until it is marked.    *)
(***************************************************************************)
Reach(f, i, p) == f[i - 1] \cup ({p[n] : n \in f[i - 1]} \ {List!Null})
IsReaching(f, p, k) == f = [i \in 0 .. k |-> IF i = 0 THEN {List!Head} ELSE Reach(f, i, p)]
Reaching(p) == CHOOSE f : IsReaching(f, p, MaxNodes + 2)

LEMMA ListReached ==
  /\ List!Reached = Reaching(mem.ptr)[MaxNodes + 2]
  /\ List!Reached' = Reaching(mem'.ptr)[MaxNodes + 2]
BY DEF List!Reached, Reaching, IsReaching, Reach

LEMMA ReachingIs ==
  ASSUME NEW p
  PROVE  IsReaching(Reaching(p), p, MaxNodes + 2)
<1> DEFINE P(k) == \E f : IsReaching(f, p, k)
           S == {k \in Nat : ~P(k)}
<1>1. S = {}
  <2> SUFFICES ASSUME S # {} PROVE FALSE
    OBVIOUS
  <2>1. PICK k \in S : \A j \in S : k <= j
    BY Least
  <2>2. k \in Nat /\ ~P(k)
    BY <2>1
  <2>3. CASE k = 0
    <3> DEFINE g == [i \in 0 .. 0 |-> {List!Head}]
    <3>1. g = [i \in 0 .. 0 |-> IF i = 0 THEN {List!Head} ELSE Reach(g, i, p)]
      OBVIOUS
    <3>2. IsReaching(g, p, 0)
      BY <3>1 DEF IsReaching
    <3> QED  BY <2>2, <2>3, <3>2
  <2>4. CASE k # 0
    <3>1. k - 1 \in Nat /\ k - 1 \notin S
      BY <2>1, <2>2, <2>4
    <3>2. PICK f : IsReaching(f, p, k - 1)
      BY <3>1
    <3> DEFINE g == [i \in 0 .. k |-> IF i = 0 THEN {List!Head} ELSE Reach(f, i, p)]
    <3>3. ASSUME NEW i \in 0 .. k - 1 PROVE g[i] = f[i]
      BY <2>2, <3>2 DEF IsReaching
    <3>4. ASSUME NEW i \in 0 .. k, i # 0 PROVE Reach(g, i, p) = Reach(f, i, p)
      <4>1. i - 1 \in 0 .. k - 1
        BY <2>2, <3>4
      <4>2. g[i - 1] = f[i - 1]
        BY <3>3, <4>1
      <4> QED  BY <4>2 DEF Reach
    <3>5. g = [i \in 0 .. k |-> IF i = 0 THEN {List!Head} ELSE Reach(g, i, p)]
      <4> DEFINE h == [i \in 0 .. k |-> IF i = 0 THEN {List!Head} ELSE Reach(g, i, p)]
      <4>1. ASSUME NEW i \in 0 .. k PROVE g[i] = h[i]
        BY <3>4
      <4> QED  BY <4>1
    <3> HIDE DEF g
    <3>6. IsReaching(g, p, k)
      BY <3>5 DEF IsReaching
    <3> QED  BY <2>2, <3>6
  <2> QED  BY <2>3, <2>4
<1>2. MaxNodes + 2 \in Nat
  BY LockFreeAssumption
<1>3. \E f : IsReaching(f, p, MaxNodes + 2)
  BY <1>1, <1>2
<1> QED  BY <1>3 DEF Reaching

\* What the links of p reach is the least set of nodes that holds the head and
\* that no link leaves.
Closed(S, p) == List!Head \in S /\ \A n \in S : p[n] \in S \union {List!Null}

LEMMA ReachedIsLeast ==
  ASSUME NEW p \in [List!Node -> List!Node \union {List!Null}]
  PROVE  /\ Reaching(p)[MaxNodes + 2] \subseteq List!Node
         /\ Closed(Reaching(p)[MaxNodes + 2], p)
         /\ \A S : Closed(S, p) => Reaching(p)[MaxNodes + 2] \subseteq S
<1> DEFINE f == Reaching(p)  N == MaxNodes + 2
<1>1. N \in Nat /\ N > 0 /\ MaxNodes \in Nat
  BY LockFreeAssumption
<1>2. f[0] = {List!Head} /\ \A i \in 1 .. N : f[i] = Reach(f, i, p)
  <2>1. IsReaching(f, p, N)
    BY ReachingIs
  <2> HIDE DEF f, N
  <2>2. \A i \in 0 .. N : f[i] = IF i = 0 THEN {List!Head} ELSE Reach(f, i, p)
    BY <2>1 DEF IsReaching
  <2> QED  BY <1>1, <2>2
<1> HIDE DEF f
<1>3. \A i \in 1 .. N : f[i - 1] \subseteq f[i] /\ \A n \in f[i - 1] : p[n] \in f[i] \union {List!Null}
  BY <1>2 DEF Reach
<1>4. ASSUME NEW S, Closed(S, p) PROVE \A i \in 0 .. N : f[i] \subseteq S
  <2> DEFINE B == {i \in 0 .. N : ~(f[i] \subseteq S)}
  <2> SUFFICES ASSUME B # {} PROVE FALSE
    OBVIOUS
  <2>1. PICK i \in B : \A j \in B : i <= j
    <3>1. B \in SUBSET Nat
      BY <1>1
    <3> QED  BY <3>1, Least
  <2>2. i \in 0 .. N /\ ~(f[i] \subseteq S)
    BY <2>1
  <2>3. i # 0
    BY <1>2, <1>4, <2>2 DEF Closed
  <2>4. i \in 1 .. N /\ i - 1 \in 0 .. N /\ i - 1 \notin B
    BY <1>1, <2>1, <2>2, <2>3
  <2>5. f[i - 1] \subseteq S
    BY <2>4
  <2>6. f[i] \subseteq S
    BY <1>2, <1>4, <2>4, <2>5 DEF Reach, Closed
  <2> QED  BY <2>2, <2>6
<1>5. \A i \in 0 .. N : f[i] \subseteq List!Node
  <2>1. Closed(List!Node, p)
    BY <1>1 DEF Closed, List!Node, List!Head
  <2> QED  BY <1>4, <2>1
<1>6. \A i \in 0 .. N : List!Head \in f[i]
  <2> DEFINE B == {i \in 0 .. N : List!Head \notin f[i]}
  <2> SUFFICES ASSUME B # {} PROVE FALSE
    OBVIOUS
  <2>1. PICK i \in B : \A j \in B : i <= j
    <3>1. B \in SUBSET Nat
      BY <1>1
    <3> QED  BY <3>1, Least
  <2>2. i \in 0 .. N /\ i # 0 /\ List!Head \notin f[i]
    BY <1>2, <2>1
  <2>3. i \in 1 .. N /\ i - 1 \in 0 .. N /\ i - 1 \notin B
    BY <1>1, <2>1, <2>2
  <2> QED  BY <1>3, <2>2, <2>3
<1>7. \A i \in 0 .. N : IsFiniteSet(f[i]) /\ Cardinality(f[i]) \in Nat /\ Cardinality(f[i]) <= N
  <2>1. IsFiniteSet(List!Node) /\ Cardinality(List!Node) = N
    <3>1. 0 \in Int /\ MaxNodes + 1 \in Int /\ 0 <= MaxNodes + 1 /\ MaxNodes + 1 - 0 + 1 = N
      BY <1>1
    <3>2. IsFiniteSet(0 .. MaxNodes + 1) /\ Cardinality(0 .. MaxNodes + 1) = MaxNodes + 1 - 0 + 1
      BY <3>1, FS_Interval
    <3> QED  BY <3>1, <3>2 DEF List!Node, List!Head
  <2> TAKE i \in 0 .. N
  <2>2. IsFiniteSet(f[i]) /\ Cardinality(f[i]) <= N
    BY <1>5, <2>1, FS_Subset
  <2> QED  BY <2>2, FS_CardinalityType
\* It stops growing before the last step, since there are no more nodes.
<1>8. PICK j \in 1 .. N : f[j] = f[j - 1]
  <2> SUFFICES ASSUME \A j \in 1 .. N : f[j] # f[j - 1] PROVE FALSE
    OBVIOUS
  <2> DEFINE B == {i \in 0 .. N : Cardinality(f[i]) <= i}
  <2>1. B # {}
    BY <1>1, <1>7
  <2>2. PICK i \in B : \A k \in B : i <= k
    <3>1. B \in SUBSET Nat
      BY <1>1
    <3> QED  BY <2>1, <3>1, Least
  <2>3. i \in 0 .. N /\ Cardinality(f[i]) <= i
    BY <2>2
  <2>4. i # 0
    <3>1. Cardinality(f[0]) = 1
      BY <1>2, FS_Singleton
    <3> QED  BY <2>3, <3>1
  <2>5. i \in 1 .. N /\ i - 1 \in 0 .. N /\ i - 1 \notin B
    BY <1>1, <2>2, <2>3, <2>4
  <2>6. Cardinality(f[i - 1]) > i - 1 /\ Cardinality(f[i - 1]) \in Nat
    BY <1>7, <2>5
  <2>7. f[i - 1] \subseteq f[i] /\ f[i - 1] # f[i]
    BY <1>3, <2>5
  <2>8. Cardinality(f[i - 1]) < Cardinality(f[i])
    <3>1. IsFiniteSet(f[i])
      BY <1>7, <2>3
    <3>2. Cardinality(f[i - 1]) <= Cardinality(f[i]) /\ (Cardinality(f[i - 1]) = Cardinality(f[i]) => f[i - 1] = f[i])
      BY <2>7, <3>1, FS_Subset
    <3> QED  BY <1>7, <2>3, <2>5, <2>7, <3>2
  <2> QED  BY <1>1, <1>7, <2>3, <2>5, <2>6, <2>8
<1>9. \A i \in j .. N : f[i] = f[j - 1]
  <2> DEFINE B == {i \in j .. N : f[i] # f[j - 1]}
  <2> SUFFICES ASSUME B # {} PROVE FALSE
    OBVIOUS
  <2>1. PICK i \in B : \A k \in B : i <= k
    <3>1. B \in SUBSET Nat
      BY <1>1
    <3> QED  BY <3>1, Least
  <2>2. i \in j .. N /\ f[i] # f[j - 1] /\ i # j
    BY <1>8, <2>1
  <2>3. i \in 1 .. N /\ i - 1 \in j .. N /\ i - 1 \notin B
    BY <1>1, <2>1, <2>2
  <2>4. f[i - 1] = f[j - 1]
    BY <2>3
  <2>5. f[i] = Reach(f, i, p) /\ f[j] = Reach(f, j, p)
    BY <1>2, <2>3
  <2> QED  BY <1>8, <2>2, <2>4, <2>5 DEF Reach
<1>10. f[N] = f[j - 1] /\ f[N] = f[j]
  BY <1>1, <1>8, <1>9
<1>11. Closed(f[N], p)
  BY <1>1, <1>3, <1>6, <1>8, <1>10 DEF Closed
<1> QED  BY <1>1, <1>4, <1>5, <1>11 DEF f

LEMMA ListNodes ==
  /\ List!Head = 0 /\ List!Tail = 1 /\ List!Null = -1
  /\ List!Node = 0 .. MaxNodes + 1 /\ MaxNodes \in Nat
BY LockFreeAssumption DEF List!Head, List!Tail, List!Null, List!Node

\* The link of a is led past l.
LEMMA ReachedWithout ==
  ASSUME NEW p \in [List!Node -> List!Node \union {List!Null}], NEW q \in [List!Node -> List!Node \union {List!Null}],
         NEW a, NEW l, a \in List!Node => p[a] = l /\ q[a] = p[l], \A n \in List!Node : n # a => q[n] = p[n]
  PROVE  Reaching(p)[MaxNodes + 2] \subseteq Reaching(q)[MaxNodes + 2] \union {l}
<1> DEFINE R == Reaching(q)[MaxNodes + 2]
           S == R \union (IF a \in R THEN {l} ELSE {})
<1>1. R \subseteq List!Node /\ Closed(R, q)
  BY ReachedIsLeast
<1> HIDE DEF R
<1>2. ASSUME NEW n \in S PROVE p[n] \in S \union {List!Null}
  <2>1. CASE n \in R /\ n # a
    BY <1>1, <2>1 DEF Closed
  <2>2. CASE n \in R /\ n = a
    BY <1>1, <2>2
  <2>3. CASE a \in R /\ n = l
    <3>1. p[l] = q[a] /\ q[a] \in R \union {List!Null}
      BY <1>1, <2>3 DEF Closed
    <3> QED  BY <2>3, <3>1
  <2> QED  BY <1>2, <2>1, <2>2, <2>3
<1>3. Closed(S, p)
  BY <1>1, <1>2 DEF Closed
<1> HIDE DEF S
<1>4. Reaching(p)[MaxNodes + 2] \subseteq S
  BY <1>3, ReachedIsLeast
<1> QED  BY <1>4 DEF S, R

\* The node n is linked in after a.
LEMMA ReachedWith ==
  ASSUME NEW p \in [List!Node -> List!Node \union {List!Null}], NEW q \in [List!Node -> List!Node \union {List!Null}],
         NEW a \in Reaching(p)[MaxNodes + 2], NEW n \in List!Node, n # a, n # List!Head,
         \A m \in List!Node : p[m] # n, q[a] = n, q[n] = p[a], \A m \in List!Node : m \notin {a, n} => q[m] = p[m]
  PROVE  Reaching(p)[MaxNodes + 2] \union {n} \subseteq Reaching(q)[MaxNodes + 2]
<1> DEFINE R == Reaching(q)[MaxNodes + 2]
           S == R \ {n}
<1>1. R \subseteq List!Node /\ Closed(R, q)
  BY ReachedIsLeast
<1>2. n # List!Null
  BY ListNodes
<1> HIDE DEF R
<1>3. ASSUME NEW m \in S PROVE p[m] \in S \union {List!Null}
  <2>1. CASE m # a
    BY <1>1, <1>3, <2>1 DEF Closed
  <2>2. CASE m = a
    <3>1. n \in R
      BY <1>1, <1>2, <1>3, <2>2 DEF Closed
    <3>2. p[a] \in R \union {List!Null} /\ p[a] # n
      BY <1>1, <1>3, <2>2, <3>1 DEF Closed
    <3> QED  BY <2>2, <3>2
  <2> QED  BY <2>1, <2>2
<1>4. Closed(S, p)
  BY <1>1, <1>3 DEF Closed
<1> HIDE DEF S
<1>5. Reaching(p)[MaxNodes + 2] \subseteq S
  BY <1>4, ReachedIsLeast
<1>6. a \in R
  BY <1>5 DEF S
<1>7. n \in R
  BY <1>1, <1>2, <1>6 DEF Closed
<1> QED  BY <1>5, <1>7 DEF S, R

\* What a link can lead to.
Linkable == mem.linked \union {List!Tail, List!Null}

ListShape ==
  /\ {"ptr", "mark", "before", "value", "made", "linked", "torn", "crashed"} \subseteq DOMAIN mem
  /\ mem.ptr \in [List!Node -> Linkable] /\ mem.mark \in [List!Node -> BOOLEAN]
  /\ mem.before \in [List!Node -> List!Node \union {List!Null}]
  /\ List!Tail \in DOMAIN mem.value /\ mem.value[List!Tail] = SentinelMax
  /\ mem.made \in Nat /\ mem.linked \subseteq 2 .. mem.made + 1

Inserter(t) == ~At(t, "idle") /\ call[t][1] = "insert"
Linking == {"reflect", "reflect_before", "reflect_after", "reflect_store", "between"}
Fixing == {"fix", "fix_ptr", "fix_mark", "fix_cas"}
Backing == {"until", "until_ref", "until_ptr", "until_mark", "until_reload", "until_next", "again"}
Removing == {"delete", "mark", "back", "back_after"} \union Backing

\* Where the calls of fixforward and reflectforward go on.
Continues(t) ==
  /\ "then" \in DOMAIN loc[t] => loc[t].then \in IF Inserter(t) THEN {"between", "inserted"} ELSE {"until_reload"}
  /\ loc[t].pc \in {"after", "between", "inserted"} => Inserter(t)
  /\ loc[t].pc \in Removing => ~Inserter(t)
  /\ loc[t].pc \in Fixing \union Linking => "then" \in DOMAIN loc[t]
  /\ Inserter(t) /\ loc[t].pc \in Fixing \union {"between"} => loc[t].then = "between"
  /\ loc[t].pc \in {"walk", "after"} /\ "then" \in DOMAIN loc[t] => loc[t].then = "between"

\* Its node is linked in by the insert itself; what comes after it in the list
\* is no null pointer.
Links(t) ==
  Inserter(t) =>
    /\ loc[t].node \in 2 .. mem.made + 1
    /\ ("then" \in DOMAIN loc[t] => loc[t].then = "between") => loc[t].node \notin mem.linked
    /\ loc[t].pc \in Linking /\ loc[t].then = "between" =>
         "later" \in DOMAIN loc[t] /\ loc[t].later \in Linkable \ {List!Null}

\* fixforward passes marked nodes only.
Passes(t) ==
  /\ loc[t].pc \in {"fix_ptr", "fix_mark", "fix_cas"} => "later" \in DOMAIN loc[t] /\ loc[t].later \in Linkable
  /\ loc[t].pc \in {"fix_mark", "fix_cas"} =>
       loc[t].later # List!Null /\ "next" \in DOMAIN loc[t] /\ loc[t].next \in Linkable
  /\ loc[t].pc = "fix_cas" => mem.mark[loc[t].later]

\* The other nodes that it uses.
Uses(t) ==
  /\ loc[t].pc \in Fixing \union Linking \union {"back"} => "this" \in DOMAIN loc[t] /\ loc[t].this \in List!Node
  /\ loc[t].pc \in {"delete", "mark"} => "ref" \in DOMAIN loc[t] /\ loc[t].ref \in List!Node
  /\ loc[t].pc = "back_after" => "back" \in DOMAIN loc[t] /\ loc[t].back \in List!Node \union {List!Null}
  /\ loc[t].pc \in Backing \/ (loc[t].pc \in Fixing \union Linking /\ loc[t].then = "until_reload") =>
       /\ {"back", "work"} \subseteq DOMAIN loc[t]
       /\ loc[t].back \in List!Node /\ loc[t].work \in List!Node
  /\ loc[t].pc \in {"until_mark", "until_next"} =>
       "next" \in DOMAIN loc[t] /\ loc[t].next \in List!Node \union {List!Null}

ListFrame(t) ==
  \/ At(t, "idle")
  \/ /\ {"pc", "at", "node"} \subseteq DOMAIN loc[t]
     /\ call[t] \in {"insert", "remove", "count"} \X {""} \X ListKey
     /\ loc[t].at \in mem.linked \union {List!Head}
     /\ Continues(t) /\ Links(t) /\ Passes(t) /\ Uses(t)

OwnNodes == \A t, u \in Thread : t # u /\ Inserter(t) /\ Inserter(u) => loc[t].node # loc[u].node

ListOK ==
  /\ ListShape /\ OwnNodes /\ \A t \in Thread : ListFrame(t)
  /\ List!ListStaysWhole

\* The operators of Frames are those of the list.
LEMMA ListFrames ==
  /\ \A t, l : List!At(t, l) <=> At(t, l)
  /\ \A t, f : List!Go(t, f) <=> Go(t, f)
  /\ \A t, v : List!Returns(t, v) <=> Go(t, [pc |-> "return", value |-> v])
  /\ \A t : List!Name(t) = call[t][1] /\ List!KeyOf(t) = call[t][3]
BY DEF List!At, At, List!Go, Go, List!Updated, Updated, List!Returns, List!Name, List!KeyOf

\* How a step of t changes the nodes.
ListEvolves(t) ==
  /\ mem'.made = mem.made /\ mem.linked \subseteq mem'.linked
  /\ mem'.linked \subseteq mem.linked \union (IF At(t, "between") THEN {loc[t].node} ELSE {})
  /\ \A n \in List!Node : mem.mark[n] => mem'.mark[n]

ListFields ==
  /\ mem'.value = mem.value /\ mem'.made = mem.made /\ DOMAIN mem' = DOMAIN mem
  /\ mem'.before \in [List!Node -> List!Node \union {List!Null}]

ListAfter(t) == ListShape' /\ ListEvolves(t) /\ List!ListStaysWhole'

LEMMA LinkableNodes ==
  ASSUME ListShape, Room(MaxNodes)
  PROVE  /\ mem.ptr \in [List!Node -> List!Node \union {List!Null}]
         /\ mem.linked \subseteq List!Node /\ Linkable \subseteq List!Node \union {List!Null}
         /\ mem.made \in Nat /\ mem.made <= MaxNodes
<1>1. mem.made \in Nat /\ mem.made <= MaxNodes
  <2>1. Cardinality(Open) \in Nat
    BY OpenIsFinite
  <2> QED  BY <2>1, ListNodes DEF Room
<1>2. mem.linked \subseteq List!Node /\ Linkable \subseteq List!Node \union {List!Null}
  BY <1>1, ListNodes DEF ListShape, Linkable
<1> QED  BY <1>1, <1>2 DEF ListShape

LEMMA ListTypes ==
  ASSUME ListShape, Room(MaxNodes)
  PROVE  /\ mem.ptr \in [List!Node -> List!Node \union {List!Null}] /\ Linkable \subseteq List!Node \union {List!Null}
         /\ mem.ptr \in [List!Node -> Linkable] /\ mem.before \in [List!Node -> List!Node \union {List!Null}]
         /\ List!Head \in List!Node /\ mem.linked \subseteq List!Node
<1>1. List!Head \in List!Node
  BY ListNodes
<1> QED  BY <1>1, LinkableNodes DEF ListShape

\* Only the hints, or a crash.
LEMMA ListHints ==
  ASSUME ListShape, List!ListStaysWhole, NEW t, ListFields, mem'.ptr = mem.ptr, mem'.mark = mem.mark, mem'.linked = mem.linked,
         mem'.torn = mem.torn
  PROVE  ListAfter(t)
<1>1. mem'.value = mem.value /\ mem'.made = mem.made /\ DOMAIN mem' = DOMAIN mem
  BY DEF ListFields
<1>2. ListShape'
  BY <1>1 DEF ListShape, Linkable, ListFields
<1>3. List!ListStaysWhole'
  BY <1>1, ListReached DEF List!ListStaysWhole
<1> QED  BY <1>1, <1>2, <1>3 DEF ListAfter, ListEvolves

\* deleteNode: a node is marked.
LEMMA ListMarks ==
  ASSUME ListShape, List!ListStaysWhole, Room(MaxNodes), NEW t, NEW r, ListFields, mem'.ptr = mem.ptr, mem'.linked = mem.linked,
         mem'.torn = mem.torn, mem'.mark = [mem.mark EXCEPT ![r] = TRUE]
  PROVE  ListAfter(t)
<1>1. /\ mem'.ptr = mem.ptr /\ mem'.value = mem.value /\ mem'.made = mem.made
      /\ mem'.linked = mem.linked /\ mem'.torn = mem.torn /\ DOMAIN mem' = DOMAIN mem
      /\ mem'.mark = [mem.mark EXCEPT ![r] = TRUE]
  BY DEF ListFields
<1>2. mem'.mark \in [List!Node -> BOOLEAN] /\ \A n \in List!Node : mem.mark[n] => mem'.mark[n]
  BY <1>1 DEF ListShape
<1>3. ListShape'
  BY <1>1, <1>2 DEF ListShape, Linkable, ListFields
<1>4. ASSUME ~mem.torn, NEW n \in mem.linked PROVE mem'.mark[n] \/ n \in List!Reached'
  <2>1. mem.mark[n] \/ n \in List!Reached'
    BY <1>1, <1>4, ListReached DEF List!ListStaysWhole
  <2> QED  BY <1>2, <2>1, LinkableNodes
<1>5. List!ListStaysWhole'
  BY <1>1, <1>4 DEF List!ListStaysWhole
<1> QED  BY <1>1, <1>2, <1>3, <1>5 DEF ListAfter, ListEvolves

\* fixforward: the link of a is led past the marked node l.
LEMMA ListBypasses ==
  ASSUME ListShape, List!ListStaysWhole, Room(MaxNodes), NEW t, NEW a, NEW l \in Linkable \ {List!Null}, NEW n \in Linkable,
         mem.ptr[a] = l, mem.mark[l], ListFields, mem'.mark = mem.mark,
         mem'.linked = mem.linked, mem'.torn <=> mem.torn \/ n # mem.ptr[l], mem'.ptr = [mem.ptr EXCEPT ![a] = n]
  PROVE  ListAfter(t)
<1>1. /\ mem'.mark = mem.mark /\ mem'.value = mem.value /\ mem'.made = mem.made
      /\ mem'.linked = mem.linked /\ (mem'.torn <=> mem.torn \/ n # mem.ptr[l]) /\ DOMAIN mem' = DOMAIN mem
      /\ mem'.ptr = [mem.ptr EXCEPT ![a] = n]
  BY DEF ListFields
<1>2. Linkable' = Linkable
  BY <1>1 DEF Linkable
<1>3. mem'.ptr \in [List!Node -> Linkable]
  BY <1>1 DEF ListShape
<1>4. ListShape'
  BY <1>1, <1>2, <1>3 DEF ListShape, ListFields
<1>5. ASSUME ~mem'.torn PROVE \A k \in mem.linked : mem.mark[k] \/ k \in List!Reached'
  <2>1. ~mem.torn /\ n = mem.ptr[l]
    BY <1>1, <1>5
  <2> DEFINE p == mem.ptr  q == mem'.ptr
  <2>2. p \in [List!Node -> List!Node \union {List!Null}] /\ q \in [List!Node -> List!Node \union {List!Null}]
    BY <1>3, LinkableNodes
  <2>3. (a \in List!Node => p[a] = l /\ q[a] = p[l]) /\ \A k \in List!Node : k # a => q[k] = p[k]
    BY <1>1, <2>1, <2>2
  <2> HIDE DEF p, q
  <2>4. Reaching(p)[MaxNodes + 2] \subseteq Reaching(q)[MaxNodes + 2] \union {l}
    BY <2>2, <2>3, ReachedWithout
  <2>5. List!Reached \subseteq List!Reached' \union {l}
    BY <2>4, ListReached DEF p, q
  <2>6. \A k \in mem.linked : mem.mark[k] \/ k \in List!Reached
    BY <2>1 DEF List!ListStaysWhole
  <2> QED  BY <2>5, <2>6
<1>6. List!ListStaysWhole'
  BY <1>1, <1>5 DEF List!ListStaysWhole
<1> QED  BY <1>1, <1>4, <1>6 DEF ListAfter, ListEvolves

\* insertBetween: the node n of t is linked in after a.
LEMMA ListInserts ==
  ASSUME ListShape, List!ListStaysWhole, Room(MaxNodes), NEW t, At(t, "between"), NEW a \in mem.linked \union {List!Head},
         NEW n, n = loc[t].node, n \in 2 .. mem.made + 1, n \notin mem.linked, NEW l \in Linkable \ {List!Null},
         mem.ptr[a] = l, ~mem.mark[a], ListFields, mem'.mark = mem.mark, mem'.torn = mem.torn,
         mem'.linked = mem.linked \union {n}, mem'.ptr = [[mem.ptr EXCEPT ![a] = n] EXCEPT ![n] = l]
  PROVE  ListAfter(t)
<1>1. /\ mem'.mark = mem.mark /\ mem'.value = mem.value /\ mem'.made = mem.made
      /\ mem'.linked = mem.linked \union {n} /\ mem'.torn = mem.torn /\ DOMAIN mem' = DOMAIN mem
      /\ mem'.ptr = [[mem.ptr EXCEPT ![a] = n] EXCEPT ![n] = l]
  BY DEF ListFields
<1>2. Linkable' = Linkable \union {n}
  BY <1>1 DEF Linkable
<1>3. mem.made <= MaxNodes /\ n \in List!Node /\ n # List!Head /\ n # a /\ n \notin Linkable /\ a \in List!Node
  BY LinkableNodes, ListNodes DEF ListShape, Linkable
<1>4. mem'.ptr \in [List!Node -> Linkable']
  BY <1>1, <1>2 DEF ListShape
<1>5. ListShape'
  BY <1>1, <1>4 DEF ListShape, ListFields
<1>6. ASSUME ~mem.torn PROVE \A k \in mem'.linked : mem.mark[k] \/ k \in List!Reached'
  <2> DEFINE p == mem.ptr  q == mem'.ptr
  <2>1. Linkable' \subseteq List!Node \union {List!Null}
    BY <1>2, <1>3, LinkableNodes
  <2>2. p \in [List!Node -> List!Node \union {List!Null}] /\ q \in [List!Node -> List!Node \union {List!Null}]
    BY <1>4, <2>1, LinkableNodes
  <2>3. q[a] = n /\ q[n] = p[a] /\ \A k \in List!Node : k \notin {a, n} => q[k] = p[k]
    BY <1>1, <1>3, <2>2
  <2>4. \A k \in List!Node : p[k] # n
    BY <1>3 DEF ListShape
  <2>5. a \in Reaching(p)[MaxNodes + 2]
    <3>1. List!Head \in Reaching(p)[MaxNodes + 2]
      BY <2>2, ReachedIsLeast DEF Closed
    <3>2. a \in mem.linked => a \in List!Reached
      BY <1>6 DEF List!ListStaysWhole
    <3> QED  BY <3>1, <3>2, ListReached
  <2> HIDE DEF p, q
  <2>6. Reaching(p)[MaxNodes + 2] \union {n} \subseteq Reaching(q)[MaxNodes + 2]
    BY <1>3, <2>2, <2>3, <2>4, <2>5, ReachedWith
  <2>7. List!Reached \union {n} \subseteq List!Reached'
    BY <2>6, ListReached DEF p, q
  <2>8. \A k \in mem.linked : mem.mark[k] \/ k \in List!Reached
    BY <1>6 DEF List!ListStaysWhole
  <2> QED  BY <1>1, <2>7, <2>8
<1>7. List!ListStaysWhole'
  BY <1>1, <1>6 DEF List!ListStaysWhole
<1> QED  BY <1>1, <1>5, <1>7 DEF ListAfter, ListEvolves

\* The frame of t at its next statement.
ListBegun(t) == ListOK /\ Room(MaxNodes) /\ ~At(t, "idle") /\ call' = call

ListMoves(t) ==
  /\ ListAfter(t) /\ ListFrame(t)' /\ ~At(t, "idle")'
  /\ loc'[t].node = loc[t].node /\ DOMAIN loc' = Thread /\ \A u \in Thread : u # t => loc'[u] = loc[u]

Goes(t, X) ==
  /\ DOMAIN loc' = Thread /\ \A u \in Thread : u # t => loc'[u] = loc[u]
  /\ DOMAIN loc'[t] = X \union DOMAIN loc[t]
  /\ \A x \in DOMAIN loc[t] \ X : loc'[t][x] = loc[t][x]

\* A step that keeps the memory, but for a hint or a crash.
ListSame ==
  /\ ListFields /\ mem'.ptr = mem.ptr /\ mem'.mark = mem.mark /\ mem'.linked = mem.linked /\ mem'.torn = mem.torn

LEMMA ListQuiet ==
  ASSUME NEW t \in Thread, ListBegun(t), ListSame
  PROVE  ListAfter(t)
BY ListHints DEF ListBegun, ListOK, ListSame

LEMMA ListCrashes ==
  ASSUME NEW t \in Thread, ListBegun(t), List!Crash
  PROVE  ListMoves(t)
<1>1. ListSame
  BY DEF List!Crash, ListBegun, ListOK, ListShape, ListSame, ListFields
<1>2. ListAfter(t)
  BY <1>1, ListQuiet
<1>3. loc' = loc /\ DOMAIN loc = Thread
  BY DEF List!Crash, ListBegun, Room
<1>4. ListFrame(t)'
  BY <1>1, <1>3 DEF ListBegun, ListOK, ListFrame, Continues, Links, Passes, Uses, Removing, Inserter, At, Linkable, ListSame, ListFields
<1> QED  BY <1>2, <1>3, <1>4 DEF ListMoves, ListBegun, At

\* What t has besides its next statement.
LEMMA ListFacts ==
  ASSUME NEW t \in Thread, ListBegun(t)
  PROVE  /\ {"pc", "at", "node"} \subseteq DOMAIN loc[t]
         /\ call[t] \in {"insert", "remove", "count"} \X {""} \X ListKey
         /\ loc[t].at \in mem.linked \union {List!Head}
         /\ Continues(t) /\ Links(t) /\ Passes(t) /\ Uses(t) /\ DOMAIN loc = Thread
         /\ ListShape /\ List!ListStaysWhole /\ Room(MaxNodes)
BY DEF ListBegun, ListOK, ListFrame, Room

LEMMA GoGoes ==
  ASSUME NEW t \in Thread, ListBegun(t), NEW frame, Go(t, frame)
  PROVE  Goes(t, DOMAIN frame) /\ \A x \in DOMAIN frame : loc'[t][x] = frame[x]
<1>1. DOMAIN loc = Thread
  BY ListFacts
<1> QED  BY <1>1, GoFacts DEF Goes

\* t goes on at its next statement.
LEMMA ListGoes ==
  ASSUME NEW t \in Thread, ListBegun(t), ListAfter(t), NEW X, Goes(t, X \union {"pc"}), {"at", "node"} \cap X = {},
         ~At(t, "idle")', Continues(t)', Links(t)', Passes(t)', Uses(t)'
  PROVE  ListMoves(t)
<1>1. loc'[t].at = loc[t].at /\ loc'[t].node = loc[t].node /\ {"pc", "at", "node"} \subseteq DOMAIN loc'[t]
  BY ListFacts DEF Goes
<1>2. call' = call
  BY DEF ListBegun
<1>3. ListFrame(t)'
  BY <1>1, <1>2, ListFacts DEF ListFrame, ListAfter, ListEvolves
<1> QED  BY <1>1, <1>3 DEF ListMoves, Goes

Elsewhere(t, l) ==
  \/ l = "return"
  \/ l \in Removing /\ ~Inserter(t)
  \/ l = "after" /\ Inserter(t) /\ loc[t].pc \in {"walk", "between"}

\* Most steps of an operation: nothing changes but where t is.
LEMMA ListPasses ==
  ASSUME NEW t \in Thread, ListBegun(t), ListAfter(t), mem'.linked = mem.linked, NEW X, Goes(t, X \union {"pc"}),
         X \subseteq {"ref", "this", "back", "work", "value", "next"}, Elsewhere(t, loc'[t].pc), Uses(t)'
  PROVE  ListMoves(t)
<1>7. "node" \in DOMAIN loc[t] \ (X \union {"pc"})
  BY ListFacts
<1>1. loc'[t].node = loc[t].node
  BY <1>7 DEF Goes
<1>2. ("then" \in DOMAIN loc'[t] <=> "then" \in DOMAIN loc[t]) /\ ("then" \in DOMAIN loc[t] => loc'[t].then = loc[t].then)
  BY DEF Goes
<1>3. call' = call /\ ~At(t, "idle") /\ ~At(t, "idle")' /\ (Inserter(t)' <=> Inserter(t))
  BY DEF ListBegun, Inserter, At, Elsewhere, Removing, Backing
<1>4. Continues(t)' /\ Passes(t)'
  BY <1>2, <1>3, ListFacts DEF Continues, Passes, Fixing, Linking, Elsewhere, Removing, Backing
<1>5. Links(t)'
  BY <1>1, <1>2, <1>3, ListFacts DEF Links, Linking, ListAfter, ListEvolves, Elsewhere, Removing, Backing
<1>6. {"at", "node"} \cap X = {}
  OBVIOUS
<1> QED  BY <1>3, <1>4, <1>5, <1>6, ListGoes

\* What a worker still uses after a step.
LEMMA UsesOfBacking ==
  ASSUME NEW t \in Thread, ListBegun(t), NEW X, Goes(t, X \union {"pc"}), X \cap {"back", "work"} = {},
         loc[t].pc \in Backing, loc'[t].pc \in Backing \ {"until_mark", "until_next"}
  PROVE  Uses(t)'
<1>1. {"back", "work"} \subseteq DOMAIN loc[t] /\ loc[t].back \in List!Node /\ loc[t].work \in List!Node
  BY ListFacts DEF Uses
<1>2. {"back", "work"} \subseteq DOMAIN loc'[t] /\ loc'[t].back = loc[t].back /\ loc'[t].work = loc[t].work
  BY <1>1 DEF Goes
<1> QED  BY <1>1, <1>2 DEF Uses, Backing, Fixing, Linking

LEMMA UsesOfLinking ==
  ASSUME NEW t \in Thread, ListBegun(t), NEW X, Goes(t, X \union {"pc"}), X \cap {"this", "then", "back", "work"} = {},
         loc[t].pc \in Fixing \union Linking, loc'[t].pc \in Fixing \union Linking \union {loc[t].then}
  PROVE  Uses(t)' /\ ~At(t, "idle")'
<1>1. /\ {"this", "then"} \subseteq DOMAIN loc[t] /\ loc[t].this \in List!Node
      /\ loc[t].then \in {"between", "inserted", "until_reload"}
      /\ loc[t].then = "until_reload" =>
           {"back", "work"} \subseteq DOMAIN loc[t] /\ loc[t].back \in List!Node /\ loc[t].work \in List!Node
  BY ListFacts DEF Uses, Continues
<1>2. {"this", "then"} \subseteq DOMAIN loc'[t] /\ loc'[t].this = loc[t].this /\ loc'[t].then = loc[t].then
  BY <1>1 DEF Goes
<1>3. loc[t].then = "until_reload" =>
        {"back", "work"} \subseteq DOMAIN loc'[t] /\ loc'[t].back = loc[t].back /\ loc'[t].work = loc[t].work
  BY <1>1 DEF Goes
<1>4. loc'[t].pc \notin {"idle", "back", "delete", "mark", "back_after", "until_mark", "until_next"}
  BY <1>1 DEF Fixing, Linking
<1>5. loc'[t].pc \in Backing => loc[t].then = "until_reload"
  BY <1>1 DEF Fixing, Linking, Backing
<1> QED  BY <1>1, <1>2, <1>3, <1>4, <1>5 DEF Uses, At

\* A call returns.
LEMMA ListReturns ==
  ASSUME NEW t \in Thread, ListBegun(t), ListAfter(t), mem'.linked = mem.linked, NEW v, Go(t, [pc |-> "return", value |-> v])
  PROVE  ListMoves(t)
<1> DEFINE f == [pc |-> "return", value |-> v]
<1>1. DOMAIN f = {"value"} \union {"pc"} /\ f.pc = "return"
  OBVIOUS
<1> HIDE DEF f
<1>2. Go(t, f)
  BY DEF f
<1>3. Goes(t, {"value"} \union {"pc"}) /\ loc'[t].pc = "return"
  BY <1>1, <1>2, GoGoes
<1>4. Uses(t)' /\ Elsewhere(t, loc'[t].pc)
  BY <1>3 DEF Uses, Elsewhere, Fixing, Linking, Backing
<1>5. {"value"} \subseteq {"ref", "this", "back", "work", "value", "next"}
  OBVIOUS
<1> QED  BY <1>3, <1>4, <1>5, ListPasses

\* getBack.
LEMMA ListGetBack ==
  ASSUME NEW t \in Thread, ListBegun(t), List!GetBack(t)
  PROVE  ListMoves(t)
<1> DEFINE b == loc[t].back
<1>1. mem.ptr \in [List!Node -> List!Node \union {List!Null}] /\ Linkable \subseteq List!Node \union {List!Null}
      /\ mem.ptr \in [List!Node -> Linkable] /\ mem.before \in [List!Node -> List!Node \union {List!Null}]
      /\ List!Head \in List!Node /\ mem.linked \subseteq List!Node
  BY ListFacts, ListTypes
<1>2. call' = call /\ ~At(t, "idle")
  BY DEF ListBegun
<1>3. UNCHANGED mem => ListAfter(t) /\ mem'.linked = mem.linked
  BY ListFacts, ListQuiet DEF ListSame, ListFields, ListShape
<1>4. CASE At(t, "back") /\ Go(t, [pc |-> "back_after", back |-> mem.before[loc[t].this]]) /\ UNCHANGED mem
  <2> DEFINE f == [pc |-> "back_after", back |-> mem.before[loc[t].this]]
  <2>1. DOMAIN f = {"back"} \union {"pc"} /\ f.pc = "back_after" /\ f.back = mem.before[loc[t].this]
    OBVIOUS
  <2> HIDE DEF f
  <2>2. Go(t, f)
    BY <1>4 DEF f
  <2>3. Goes(t, {"back"} \union {"pc"}) /\ loc'[t].pc = "back_after" /\ loc'[t].back = mem.before[loc[t].this]
    BY <2>1, <2>2, GoGoes
  <2>4. ListAfter(t) /\ mem'.linked = mem.linked
    BY <1>3, <1>4
  <2>5. Uses(t)' /\ Elsewhere(t, loc'[t].pc)
    BY <1>4, <2>3, <1>1, ListFacts DEF Uses, Goes, Fixing, Linking, Backing, At, Continues, Removing, Elsewhere
  <2>6. {"back"} \subseteq {"ref", "this", "back", "work", "value", "next"}
    OBVIOUS
  <2> QED  BY <2>3, <2>4, <2>5, <2>6, ListPasses
<1>5. CASE List!Crash
  BY <1>5, ListCrashes
<1>6. CASE At(t, "back_after") /\ b # List!Null /\ UNCHANGED mem /\ Go(t, [pc |-> "back", this |-> b])
  <2> DEFINE f == [pc |-> "back", this |-> b]
  <2>1. DOMAIN f = {"this"} \union {"pc"} /\ f.pc = "back" /\ f.this = b
    OBVIOUS
  <2> HIDE DEF f
  <2>2. Go(t, f)
    BY <1>6 DEF f
  <2>3. Goes(t, {"this"} \union {"pc"}) /\ loc'[t].pc = "back" /\ loc'[t].this = b
    BY <2>1, <2>2, GoGoes
  <2>4. ListAfter(t) /\ mem'.linked = mem.linked
    BY <1>3, <1>6
  <2>5. Uses(t)' /\ Elsewhere(t, loc'[t].pc)
    BY <1>6, <2>3, <1>1, ListFacts DEF Uses, Goes, Fixing, Linking, Backing, At, Continues, Removing, Elsewhere
  <2>6. {"this"} \subseteq {"ref", "this", "back", "work", "value", "next"}
    OBVIOUS
  <2> QED  BY <2>3, <2>4, <2>5, <2>6, ListPasses
<1>7. CASE UNCHANGED mem /\ Go(t, [pc |-> "return", value |-> TRUE])
  BY <1>3, <1>7, ListReturns
<1>8. CASE At(t, "back_after") /\ b # List!Null /\ UNCHANGED mem /\ Go(t, [pc |-> "until", work |-> b])
  <2> DEFINE f == [pc |-> "until", work |-> b]
  <2>1. DOMAIN f = {"work"} \union {"pc"} /\ f.pc = "until" /\ f.work = b
    OBVIOUS
  <2> HIDE DEF f
  <2>2. Go(t, f)
    BY <1>8 DEF f
  <2>3. Goes(t, {"work"} \union {"pc"}) /\ loc'[t].pc = "until" /\ loc'[t].work = b
    BY <2>1, <2>2, GoGoes
  <2>4. ListAfter(t) /\ mem'.linked = mem.linked
    BY <1>3, <1>8
  <2>5. Uses(t)' /\ Elsewhere(t, loc'[t].pc)
    BY <1>8, <2>3, <1>1, ListFacts DEF Uses, Goes, Fixing, Linking, Backing, At, Continues, Removing, Elsewhere
  <2>6. {"work"} \subseteq {"ref", "this", "back", "work", "value", "next"}
    OBVIOUS
  <2> QED  BY <2>3, <2>4, <2>5, <2>6, ListPasses
<1>9. CASE At(t, "again") /\ UNCHANGED mem /\ Go(t, [pc |-> "back", this |-> b])
  <2> DEFINE f == [pc |-> "back", this |-> b]
  <2>1. DOMAIN f = {"this"} \union {"pc"} /\ f.pc = "back" /\ f.this = b
    OBVIOUS
  <2> HIDE DEF f
  <2>2. Go(t, f)
    BY <1>9 DEF f
  <2>3. Goes(t, {"this"} \union {"pc"}) /\ loc'[t].pc = "back" /\ loc'[t].this = b
    BY <2>1, <2>2, GoGoes
  <2>4. ListAfter(t) /\ mem'.linked = mem.linked
    BY <1>3, <1>9
  <2>5. Uses(t)' /\ Elsewhere(t, loc'[t].pc)
    BY <1>9, <2>3, <1>1, ListFacts DEF Uses, Goes, Fixing, Linking, Backing, At, Continues, Removing, Elsewhere
  <2>6. {"this"} \subseteq {"ref", "this", "back", "work", "value", "next"}
    OBVIOUS
  <2> QED  BY <2>3, <2>4, <2>5, <2>6, ListPasses
<1> HIDE DEF b
<1> QED  BY <1>4, <1>5, <1>6, <1>7, <1>8, <1>9, ListFrames DEF List!GetBack, b

\* fixforwarduntil.
LEMMA ListUntil ==
  ASSUME NEW t \in Thread, ListBegun(t), List!FixForwardUntil(t)
  PROVE  ListMoves(t)
<1>1. mem.ptr \in [List!Node -> List!Node \union {List!Null}] /\ Linkable \subseteq List!Node \union {List!Null}
      /\ mem.ptr \in [List!Node -> Linkable] /\ mem.before \in [List!Node -> List!Node \union {List!Null}]
      /\ List!Head \in List!Node /\ mem.linked \subseteq List!Node
  BY ListFacts, ListTypes
<1>2. call' = call /\ ~At(t, "idle")
  BY DEF ListBegun
<1>3. UNCHANGED mem => ListAfter(t) /\ mem'.linked = mem.linked
  BY ListFacts, ListQuiet DEF ListSame, ListFields, ListShape
<1>20. At(t, "until_mark") => ~Inserter(t)
  BY ListFacts DEF At, Continues, Removing, Backing
<1>4. CASE At(t, "until") /\ UNCHANGED mem /\ Go(t, [pc |-> IF mem.mark[loc[t].back] THEN "again" ELSE "until_ref"])
  <2> DEFINE f == [pc |-> IF mem.mark[loc[t].back] THEN "again" ELSE "until_ref"]
  <2>1. DOMAIN f = {} \union {"pc"} /\ f.pc = (IF mem.mark[loc[t].back] THEN "again" ELSE "until_ref")
    OBVIOUS
  <2> HIDE DEF f
  <2>2. Go(t, f)
    BY <1>4 DEF f
  <2>3. Goes(t, {} \union {"pc"}) /\ loc'[t].pc = (IF mem.mark[loc[t].back] THEN "again" ELSE "until_ref")
    BY <2>1, <2>2, GoGoes
  <2>4. ListAfter(t) /\ mem'.linked = mem.linked
    BY <1>3, <1>4
  <2>7. loc[t].pc \in Backing /\ loc'[t].pc \in Backing \ {"until_mark", "until_next"}
    BY <1>4, <2>3 DEF Backing, At
  <2>8. {} \cap {"back", "work"} = {}
    OBVIOUS
  <2>9. Uses(t)'
    BY <2>3, <2>7, <2>8, UsesOfBacking
  <2>5. Uses(t)' /\ Elsewhere(t, loc'[t].pc)
    BY <2>7, <2>9, ListFacts DEF Continues, Removing, Elsewhere
  <2>6. {} \subseteq {"ref", "this", "back", "work", "value", "next"}
    OBVIOUS
  <2> QED  BY <2>3, <2>4, <2>5, <2>6, ListPasses
<1>5. CASE At(t, "until_ref") /\ UNCHANGED mem /\ Go(t, [pc |-> IF mem.ptr[loc[t].ref] # List!Null /\ mem.mark[loc[t].ref] THEN "again" ELSE "until_ptr"])
  <2> DEFINE f == [pc |-> IF mem.ptr[loc[t].ref] # List!Null /\ mem.mark[loc[t].ref] THEN "again" ELSE "until_ptr"]
  <2>1. DOMAIN f = {} \union {"pc"} /\ f.pc = (IF mem.ptr[loc[t].ref] # List!Null /\ mem.mark[loc[t].ref] THEN "again" ELSE "until_ptr")
    OBVIOUS
  <2> HIDE DEF f
  <2>2. Go(t, f)
    BY <1>5 DEF f
  <2>3. Goes(t, {} \union {"pc"}) /\ loc'[t].pc = (IF mem.ptr[loc[t].ref] # List!Null /\ mem.mark[loc[t].ref] THEN "again" ELSE "until_ptr")
    BY <2>1, <2>2, GoGoes
  <2>4. ListAfter(t) /\ mem'.linked = mem.linked
    BY <1>3, <1>5
  <2>7. loc[t].pc \in Backing /\ loc'[t].pc \in Backing \ {"until_mark", "until_next"}
    BY <1>5, <2>3 DEF Backing, At
  <2>8. {} \cap {"back", "work"} = {}
    OBVIOUS
  <2>9. Uses(t)'
    BY <2>3, <2>7, <2>8, UsesOfBacking
  <2>5. Uses(t)' /\ Elsewhere(t, loc'[t].pc)
    BY <2>7, <2>9, ListFacts DEF Continues, Removing, Elsewhere
  <2>6. {} \subseteq {"ref", "this", "back", "work", "value", "next"}
    OBVIOUS
  <2> QED  BY <2>3, <2>4, <2>5, <2>6, ListPasses
<1>6. CASE At(t, "until_ptr") /\ UNCHANGED mem /\ Go(t, [pc |-> IF mem.ptr[loc[t].work] = List!Null THEN "again" ELSE "until_mark", next |-> mem.ptr[loc[t].work]])
  <2> DEFINE f == [pc |-> IF mem.ptr[loc[t].work] = List!Null THEN "again" ELSE "until_mark", next |-> mem.ptr[loc[t].work]]
  <2>1. DOMAIN f = {"next"} \union {"pc"} /\ f.pc = (IF mem.ptr[loc[t].work] = List!Null THEN "again" ELSE "until_mark") /\ f.next = mem.ptr[loc[t].work]
    OBVIOUS
  <2> HIDE DEF f
  <2>2. Go(t, f)
    BY <1>6 DEF f
  <2>3. Goes(t, {"next"} \union {"pc"}) /\ loc'[t].pc = (IF mem.ptr[loc[t].work] = List!Null THEN "again" ELSE "until_mark") /\ loc'[t].next = mem.ptr[loc[t].work]
    BY <2>1, <2>2, GoGoes
  <2>4. ListAfter(t) /\ mem'.linked = mem.linked
    BY <1>3, <1>6
  <2>5. Uses(t)' /\ Elsewhere(t, loc'[t].pc)
    BY <1>6, <2>3, <1>1, ListFacts DEF Uses, Goes, Fixing, Linking, Backing, At, Continues, Removing, Elsewhere
  <2>6. {"next"} \subseteq {"ref", "this", "back", "work", "value", "next"}
    OBVIOUS
  <2> QED  BY <2>3, <2>4, <2>5, <2>6, ListPasses
<1>7. CASE At(t, "until_mark") /\ UNCHANGED mem /\ Go(t, [pc |-> "until_next"])
  <2> DEFINE f == [pc |-> "until_next"]
  <2>1. DOMAIN f = {} \union {"pc"} /\ f.pc = "until_next"
    OBVIOUS
  <2> HIDE DEF f
  <2>2. Go(t, f)
    BY <1>7 DEF f
  <2>3. Goes(t, {} \union {"pc"}) /\ loc'[t].pc = "until_next"
    BY <2>1, <2>2, GoGoes
  <2>4. ListAfter(t) /\ mem'.linked = mem.linked
    BY <1>3, <1>7
  <2>5. Uses(t)' /\ Elsewhere(t, loc'[t].pc)
    BY <1>7, <2>3, <1>1, ListFacts DEF Uses, Goes, Fixing, Linking, Backing, At, Continues, Removing, Elsewhere
  <2>6. {} \subseteq {"ref", "this", "back", "work", "value", "next"}
    OBVIOUS
  <2> QED  BY <2>3, <2>4, <2>5, <2>6, ListPasses
<1>8. CASE At(t, "until_mark") /\ UNCHANGED mem /\ Go(t, [pc |-> "fix", this |-> loc[t].work, then |-> "until_reload"])
  <2> DEFINE f == [pc |-> "fix", this |-> loc[t].work, then |-> "until_reload"]
  <2>1. DOMAIN f = {"this", "then"} \union {"pc"} /\ f.pc = "fix" /\ f.this = loc[t].work /\ f.then = "until_reload"
    OBVIOUS
  <2> HIDE DEF f
  <2>2. Go(t, f)
    BY <1>8 DEF f
  <2>3. Goes(t, {"this", "then"} \union {"pc"}) /\ loc'[t].pc = "fix" /\ loc'[t].this = loc[t].work /\ loc'[t].then = "until_reload"
    BY <2>1, <2>2, GoGoes
  <2>4. ListAfter(t) /\ mem'.linked = mem.linked
    BY <1>3, <1>8
  <2>5. Uses(t)' /\ ~At(t, "idle")'
    BY <1>8, <2>3, <1>1, <1>20, ListFacts DEF Uses, Goes, Fixing, Linking, Backing, At, Continues, Removing, Inserter
  <2>6. Continues(t)'
    BY <1>8, <2>3, <1>1, <1>2, <1>20, ListFacts DEF Continues, Goes, Fixing, Linking, Removing, Backing, At, Inserter
  <2>9. Linkable' = Linkable /\ mem'.made = mem.made /\ \A n \in Linkable \ {List!Null} : mem.mark[n] => mem'.mark[n]
    BY <2>4, <1>1 DEF Linkable, ListAfter, ListEvolves
  <2>7. Links(t)'
    BY <1>8, <2>3, <2>4, <2>9, <1>1, <1>2, <1>20, ListFacts DEF Links, Continues, Goes, Fixing, Linking, At, Inserter, Passes
  <2>8. Passes(t)'
    BY <1>8, <2>3, <2>9, <1>1, <1>2, <1>20, ListFacts DEF Passes, Continues, Fixing, Linking, Goes, At
  <2> QED  BY <2>3, <2>4, <2>5, <2>6, <2>7, <2>8, ListGoes
<1>9. CASE At(t, "until_reload") /\ UNCHANGED mem /\ Go(t, [pc |-> "until_next", next |-> mem.ptr[loc[t].work]])
  <2> DEFINE f == [pc |-> "until_next", next |-> mem.ptr[loc[t].work]]
  <2>1. DOMAIN f = {"next"} \union {"pc"} /\ f.pc = "until_next" /\ f.next = mem.ptr[loc[t].work]
    OBVIOUS
  <2> HIDE DEF f
  <2>2. Go(t, f)
    BY <1>9 DEF f
  <2>3. Goes(t, {"next"} \union {"pc"}) /\ loc'[t].pc = "until_next" /\ loc'[t].next = mem.ptr[loc[t].work]
    BY <2>1, <2>2, GoGoes
  <2>4. ListAfter(t) /\ mem'.linked = mem.linked
    BY <1>3, <1>9
  <2>5. Uses(t)' /\ Elsewhere(t, loc'[t].pc)
    BY <1>9, <2>3, <1>1, ListFacts DEF Uses, Goes, Fixing, Linking, Backing, At, Continues, Removing, Elsewhere
  <2>6. {"next"} \subseteq {"ref", "this", "back", "work", "value", "next"}
    OBVIOUS
  <2> QED  BY <2>3, <2>4, <2>5, <2>6, ListPasses
<1>10. CASE UNCHANGED mem /\ Go(t, [pc |-> "return", value |-> TRUE])
  BY <1>3, <1>10, ListReturns
<1>11. CASE At(t, "until_next") /\ UNCHANGED mem /\ Go(t, [pc |-> "again"])
  <2> DEFINE f == [pc |-> "again"]
  <2>1. DOMAIN f = {} \union {"pc"} /\ f.pc = "again"
    OBVIOUS
  <2> HIDE DEF f
  <2>2. Go(t, f)
    BY <1>11 DEF f
  <2>3. Goes(t, {} \union {"pc"}) /\ loc'[t].pc = "again"
    BY <2>1, <2>2, GoGoes
  <2>4. ListAfter(t) /\ mem'.linked = mem.linked
    BY <1>3, <1>11
  <2>5. Uses(t)' /\ Elsewhere(t, loc'[t].pc)
    BY <1>11, <2>3, <1>1, ListFacts DEF Uses, Goes, Fixing, Linking, Backing, At, Continues, Removing, Elsewhere
  <2>6. {} \subseteq {"ref", "this", "back", "work", "value", "next"}
    OBVIOUS
  <2> QED  BY <2>3, <2>4, <2>5, <2>6, ListPasses
<1>12. CASE At(t, "until_next") /\ loc[t].next # List!Null /\ UNCHANGED mem /\ Go(t, [pc |-> "until", work |-> loc[t].next])
  <2> DEFINE f == [pc |-> "until", work |-> loc[t].next]
  <2>1. DOMAIN f = {"work"} \union {"pc"} /\ f.pc = "until" /\ f.work = loc[t].next
    OBVIOUS
  <2> HIDE DEF f
  <2>2. Go(t, f)
    BY <1>12 DEF f
  <2>3. Goes(t, {"work"} \union {"pc"}) /\ loc'[t].pc = "until" /\ loc'[t].work = loc[t].next
    BY <2>1, <2>2, GoGoes
  <2>4. ListAfter(t) /\ mem'.linked = mem.linked
    BY <1>3, <1>12
  <2>5. Uses(t)' /\ Elsewhere(t, loc'[t].pc)
    BY <1>12, <2>3, <1>1, ListFacts DEF Uses, Goes, Fixing, Linking, Backing, At, Continues, Removing, Elsewhere
  <2>6. {"work"} \subseteq {"ref", "this", "back", "work", "value", "next"}
    OBVIOUS
  <2> QED  BY <2>3, <2>4, <2>5, <2>6, ListPasses
<1>13. CASE List!Crash
  BY <1>13, ListCrashes
<1> DEFINE w == loc[t].work  r == loc[t].ref  n == loc[t].next
<1> HIDE DEF w, r, n
<1>14. \/ List!Crash
       \/ /\ UNCHANGED mem
          /\ \/ At(t, "until") /\ Go(t, [pc |-> IF mem.mark[loc[t].back] THEN "again" ELSE "until_ref"])
             \/ At(t, "until_ref") /\ Go(t, [pc |-> IF mem.ptr[r] # List!Null /\ mem.mark[r] THEN "again" ELSE "until_ptr"])
             \/ At(t, "until_ptr") /\ Go(t, [pc |-> IF mem.ptr[w] = List!Null THEN "again" ELSE "until_mark", next |-> mem.ptr[w]])
             \/ At(t, "until_mark") /\ Go(t, IF mem.mark[w] THEN [pc |-> "until_next"] ELSE [pc |-> "fix", this |-> w, then |-> "until_reload"])
             \/ At(t, "until_reload") /\ Go(t, [pc |-> "until_next", next |-> mem.ptr[w]])
             \/ Go(t, [pc |-> "return", value |-> TRUE])
             \/ /\ At(t, "until_next") /\ n # List!Null
                /\ Go(t, IF mem.ptr[n] = List!Null /\ ~mem.mark[n] THEN [pc |-> "again"] ELSE [pc |-> "until", work |-> n])
  BY ListFrames, Zenon DEF List!FixForwardUntil, w, r, n
<1>15. CASE UNCHANGED mem /\ At(t, "until_mark") /\ Go(t, IF mem.mark[w] THEN [pc |-> "until_next"] ELSE [pc |-> "fix", this |-> w, then |-> "until_reload"])
  BY <1>15, <1>7, <1>8 DEF w
<1>16. CASE /\ UNCHANGED mem /\ At(t, "until_next") /\ n # List!Null
            /\ Go(t, IF mem.ptr[n] = List!Null /\ ~mem.mark[n] THEN [pc |-> "again"] ELSE [pc |-> "until", work |-> n])
  BY <1>16, <1>11, <1>12 DEF n
<1> QED  BY <1>4, <1>5, <1>6, <1>9, <1>10, <1>13, <1>14, <1>15, <1>16, Zenon DEF w, r, n

\* deleteNode.
LEMMA ListDeletes ==
  ASSUME NEW t \in Thread, ListBegun(t), List!Delete(t)
  PROVE  ListMoves(t)
<1> DEFINE r == loc[t].ref
<1>1. mem.ptr \in [List!Node -> List!Node \union {List!Null}] /\ Linkable \subseteq List!Node \union {List!Null}
      /\ mem.ptr \in [List!Node -> Linkable] /\ mem.before \in [List!Node -> List!Node \union {List!Null}]
      /\ List!Head \in List!Node /\ mem.linked \subseteq List!Node
  BY ListFacts, ListTypes
<1>2. call' = call /\ ~At(t, "idle")
  BY DEF ListBegun
<1>3. UNCHANGED mem => ListAfter(t) /\ mem'.linked = mem.linked
  BY ListFacts, ListQuiet DEF ListSame, ListFields, ListShape
<1>4. CASE UNCHANGED mem /\ Go(t, [pc |-> "return", value |-> FALSE])
  BY <1>3, <1>4, ListReturns
<1>5. CASE At(t, "delete") /\ UNCHANGED mem /\ Go(t, [pc |-> "mark", next |-> mem.ptr[r]])
  <2> DEFINE f == [pc |-> "mark", next |-> mem.ptr[r]]
  <2>1. DOMAIN f = {"next"} \union {"pc"} /\ f.pc = "mark" /\ f.next = mem.ptr[r]
    OBVIOUS
  <2> HIDE DEF f
  <2>2. Go(t, f)
    BY <1>5 DEF f
  <2>3. Goes(t, {"next"} \union {"pc"}) /\ loc'[t].pc = "mark" /\ loc'[t].next = mem.ptr[r]
    BY <2>1, <2>2, GoGoes
  <2>4. ListAfter(t) /\ mem'.linked = mem.linked
    BY <1>3, <1>5
  <2>5. Uses(t)' /\ Elsewhere(t, loc'[t].pc)
    BY <1>5, <2>3, <1>1, ListFacts DEF Uses, Goes, Fixing, Linking, Backing, At, Continues, Removing, Elsewhere
  <2>6. {"next"} \subseteq {"ref", "this", "back", "work", "value", "next"}
    OBVIOUS
  <2> QED  BY <2>3, <2>4, <2>5, <2>6, ListPasses
<1>6. mem' = [mem EXCEPT !.mark[r] = TRUE] => ListAfter(t) /\ mem'.linked = mem.linked
  <2>1. SUFFICES ASSUME mem' = [mem EXCEPT !.mark[r] = TRUE] PROVE ListAfter(t) /\ mem'.linked = mem.linked
    OBVIOUS
  <2>2. /\ ListFields /\ mem'.ptr = mem.ptr /\ mem'.linked = mem.linked /\ mem'.torn = mem.torn
        /\ mem'.mark = [mem.mark EXCEPT ![r] = TRUE]
    BY <2>1, ListFacts DEF ListFields, ListShape
  <2> QED  BY <2>2, ListFacts, ListMarks
<1>7. (IF mem.ptr[r] = loc[t].next THEN mem' = [mem EXCEPT !.mark[r] = TRUE] ELSE UNCHANGED mem)
        => ListAfter(t) /\ mem'.linked = mem.linked
  BY <1>3, <1>6
<1> DEFINE changes == IF mem.ptr[r] = loc[t].next THEN mem' = [mem EXCEPT !.mark[r] = TRUE] ELSE UNCHANGED mem
<1> HIDE DEF changes
<1>8. CASE At(t, "mark") /\ changes /\ Go(t, [pc |-> "back", this |-> r])
  <2> DEFINE f == [pc |-> "back", this |-> r]
  <2>1. DOMAIN f = {"this"} \union {"pc"} /\ f.pc = "back" /\ f.this = r
    OBVIOUS
  <2> HIDE DEF f
  <2>2. Go(t, f)
    BY <1>8 DEF f
  <2>3. Goes(t, {"this"} \union {"pc"}) /\ loc'[t].pc = "back" /\ loc'[t].this = r
    BY <2>1, <2>2, GoGoes
  <2>4. ListAfter(t) /\ mem'.linked = mem.linked
    BY <1>7, <1>8 DEF changes
  <2>5. Uses(t)' /\ Elsewhere(t, loc'[t].pc)
    BY <1>8, <2>3, <1>1, ListFacts DEF Uses, Goes, Fixing, Linking, Backing, At, Continues, Removing, Elsewhere
  <2>6. {"this"} \subseteq {"ref", "this", "back", "work", "value", "next"}
    OBVIOUS
  <2> QED  BY <2>3, <2>4, <2>5, <2>6, ListPasses
<1>9. \/ UNCHANGED mem /\ Go(t, [pc |-> "return", value |-> FALSE])
      \/ At(t, "delete") /\ UNCHANGED mem /\ Go(t, [pc |-> "mark", next |-> mem.ptr[r]])
      \/ At(t, "mark") /\ changes /\ Go(t, [pc |-> "back", this |-> r])
  BY ListFrames DEF List!Delete, changes
<1> QED  BY <1>4, <1>5, <1>8, <1>9

\* reflectforward.
LEMMA ListReflects ==
  ASSUME NEW t \in Thread, ListBegun(t), List!ReflectForward(t)
  PROVE  ListMoves(t)
<1> DEFINE a == loc[t].next  this == loc[t].this
<1>1. mem.ptr \in [List!Node -> List!Node \union {List!Null}] /\ Linkable \subseteq List!Node \union {List!Null}
      /\ mem.ptr \in [List!Node -> Linkable] /\ mem.before \in [List!Node -> List!Node \union {List!Null}]
      /\ List!Head \in List!Node /\ mem.linked \subseteq List!Node
  BY ListFacts, ListTypes
<1>2. call' = call /\ ~At(t, "idle")
  BY DEF ListBegun
<1>3. UNCHANGED mem => ListAfter(t) /\ mem'.linked = mem.linked
  BY ListFacts, ListQuiet DEF ListSame, ListFields, ListShape
<1>4. CASE At(t, "reflect") /\ UNCHANGED mem /\ Go(t, [pc |-> IF mem.mark[this] THEN loc[t].then ELSE "reflect_before", next |-> mem.ptr[this]])
  <2> DEFINE f == [pc |-> IF mem.mark[this] THEN loc[t].then ELSE "reflect_before", next |-> mem.ptr[this]]
  <2>1. DOMAIN f = {"next"} \union {"pc"} /\ f.pc = (IF mem.mark[this] THEN loc[t].then ELSE "reflect_before") /\ f.next = mem.ptr[this]
    OBVIOUS
  <2> HIDE DEF f
  <2>2. Go(t, f)
    BY <1>4 DEF f
  <2>3. Goes(t, {"next"} \union {"pc"}) /\ loc'[t].pc = (IF mem.mark[this] THEN loc[t].then ELSE "reflect_before") /\ loc'[t].next = mem.ptr[this]
    BY <2>1, <2>2, GoGoes
  <2>4. ListAfter(t) /\ mem'.linked = mem.linked
    BY <1>3, <1>4
  <2>12. loc[t].pc \in Fixing \union Linking /\ loc'[t].pc \in Fixing \union Linking \union {loc[t].then}
    BY <1>4, <2>3 DEF Fixing, Linking, At
  <2>13. {"next"} \cap {"this", "then", "back", "work"} = {}
    OBVIOUS
  <2>5. Uses(t)' /\ ~At(t, "idle")'
    BY <2>3, <2>12, <2>13, UsesOfLinking
  <2>6. Continues(t)'
    BY <1>4, <2>3, <1>1, <1>2, ListFacts DEF Continues, Goes, Fixing, Linking, Removing, Backing, At, Inserter
  <2>9. Linkable' = Linkable /\ mem'.made = mem.made /\ \A n \in Linkable \ {List!Null} : mem.mark[n] => mem'.mark[n]
    BY <2>4, <1>1 DEF Linkable, ListAfter, ListEvolves
  <2>10. (Inserter(t)' <=> Inserter(t)) /\ loc'[t].node = loc[t].node
    BY <2>3, <2>5, <1>2, ListFacts DEF Goes, Inserter
  <2>11. /\ ("then" \in DOMAIN loc'[t] <=> "then" \in DOMAIN loc[t]) /\ ("then" \in DOMAIN loc[t] => loc'[t].then = loc[t].then)
       /\ ("later" \in DOMAIN loc[t] => "later" \in DOMAIN loc'[t] /\ loc'[t].later = loc[t].later)
    BY <2>3 DEF Goes
  <2>7. Links(t)'
    BY <1>4, <2>3, <2>4, <2>9, <2>10, <2>11, ListFacts DEF Links, Continues, Fixing, Linking, At, Passes
  <2>8. Passes(t)'
    BY <1>4, <2>3, <2>9, <1>1, <1>2, ListFacts DEF Passes, Continues, Fixing, Linking, Goes, At
  <2> QED  BY <2>3, <2>4, <2>5, <2>6, <2>7, <2>8, ListGoes
<1>5. CASE List!Crash
  BY <1>5, ListCrashes
<1>6. CASE At(t, "reflect_before") /\ UNCHANGED mem /\ Go(t, [pc |-> IF mem.before[a] = this THEN loc[t].then ELSE "reflect_after"])
  <2> DEFINE f == [pc |-> IF mem.before[a] = this THEN loc[t].then ELSE "reflect_after"]
  <2>1. DOMAIN f = {} \union {"pc"} /\ f.pc = (IF mem.before[a] = this THEN loc[t].then ELSE "reflect_after")
    OBVIOUS
  <2> HIDE DEF f
  <2>2. Go(t, f)
    BY <1>6 DEF f
  <2>3. Goes(t, {} \union {"pc"}) /\ loc'[t].pc = (IF mem.before[a] = this THEN loc[t].then ELSE "reflect_after")
    BY <2>1, <2>2, GoGoes
  <2>4. ListAfter(t) /\ mem'.linked = mem.linked
    BY <1>3, <1>6
  <2>12. loc[t].pc \in Fixing \union Linking /\ loc'[t].pc \in Fixing \union Linking \union {loc[t].then}
    BY <1>6, <2>3 DEF Fixing, Linking, At
  <2>13. {} \cap {"this", "then", "back", "work"} = {}
    OBVIOUS
  <2>5. Uses(t)' /\ ~At(t, "idle")'
    BY <2>3, <2>12, <2>13, UsesOfLinking
  <2>6. Continues(t)'
    BY <1>6, <2>3, <1>1, <1>2, ListFacts DEF Continues, Goes, Fixing, Linking, Removing, Backing, At, Inserter
  <2>9. Linkable' = Linkable /\ mem'.made = mem.made /\ \A n \in Linkable \ {List!Null} : mem.mark[n] => mem'.mark[n]
    BY <2>4, <1>1 DEF Linkable, ListAfter, ListEvolves
  <2>10. (Inserter(t)' <=> Inserter(t)) /\ loc'[t].node = loc[t].node
    BY <2>3, <2>5, <1>2, ListFacts DEF Goes, Inserter
  <2>11. /\ ("then" \in DOMAIN loc'[t] <=> "then" \in DOMAIN loc[t]) /\ ("then" \in DOMAIN loc[t] => loc'[t].then = loc[t].then)
       /\ ("later" \in DOMAIN loc[t] => "later" \in DOMAIN loc'[t] /\ loc'[t].later = loc[t].later)
    BY <2>3 DEF Goes
  <2>7. Links(t)'
    BY <1>6, <2>3, <2>4, <2>9, <2>10, <2>11, ListFacts DEF Links, Continues, Fixing, Linking, At, Passes
  <2>8. Passes(t)'
    BY <1>6, <2>3, <2>9, <1>1, <1>2, ListFacts DEF Passes, Continues, Fixing, Linking, Goes, At
  <2> QED  BY <2>3, <2>4, <2>5, <2>6, <2>7, <2>8, ListGoes
<1>7. CASE At(t, "reflect_after") /\ UNCHANGED mem /\ Go(t, [pc |-> IF mem.ptr[a] = List!Null /\ ~mem.mark[a] THEN "reflect_store" ELSE loc[t].then])
  <2> DEFINE f == [pc |-> IF mem.ptr[a] = List!Null /\ ~mem.mark[a] THEN "reflect_store" ELSE loc[t].then]
  <2>1. DOMAIN f = {} \union {"pc"} /\ f.pc = (IF mem.ptr[a] = List!Null /\ ~mem.mark[a] THEN "reflect_store" ELSE loc[t].then)
    OBVIOUS
  <2> HIDE DEF f
  <2>2. Go(t, f)
    BY <1>7 DEF f
  <2>3. Goes(t, {} \union {"pc"}) /\ loc'[t].pc = (IF mem.ptr[a] = List!Null /\ ~mem.mark[a] THEN "reflect_store" ELSE loc[t].then)
    BY <2>1, <2>2, GoGoes
  <2>4. ListAfter(t) /\ mem'.linked = mem.linked
    BY <1>3, <1>7
  <2>12. loc[t].pc \in Fixing \union Linking /\ loc'[t].pc \in Fixing \union Linking \union {loc[t].then}
    BY <1>7, <2>3 DEF Fixing, Linking, At
  <2>13. {} \cap {"this", "then", "back", "work"} = {}
    OBVIOUS
  <2>5. Uses(t)' /\ ~At(t, "idle")'
    BY <2>3, <2>12, <2>13, UsesOfLinking
  <2>6. Continues(t)'
    BY <1>7, <2>3, <1>1, <1>2, ListFacts DEF Continues, Goes, Fixing, Linking, Removing, Backing, At, Inserter
  <2>9. Linkable' = Linkable /\ mem'.made = mem.made /\ \A n \in Linkable \ {List!Null} : mem.mark[n] => mem'.mark[n]
    BY <2>4, <1>1 DEF Linkable, ListAfter, ListEvolves
  <2>10. (Inserter(t)' <=> Inserter(t)) /\ loc'[t].node = loc[t].node
    BY <2>3, <2>5, <1>2, ListFacts DEF Goes, Inserter
  <2>11. /\ ("then" \in DOMAIN loc'[t] <=> "then" \in DOMAIN loc[t]) /\ ("then" \in DOMAIN loc[t] => loc'[t].then = loc[t].then)
       /\ ("later" \in DOMAIN loc[t] => "later" \in DOMAIN loc'[t] /\ loc'[t].later = loc[t].later)
    BY <2>3 DEF Goes
  <2>7. Links(t)'
    BY <1>7, <2>3, <2>4, <2>9, <2>10, <2>11, ListFacts DEF Links, Continues, Fixing, Linking, At, Passes
  <2>8. Passes(t)'
    BY <1>7, <2>3, <2>9, <1>1, <1>2, ListFacts DEF Passes, Continues, Fixing, Linking, Goes, At
  <2> QED  BY <2>3, <2>4, <2>5, <2>6, <2>7, <2>8, ListGoes
<1>8. At(t, "reflect_store") /\ mem' = [mem EXCEPT !.before[a] = this] => ListAfter(t) /\ mem'.linked = mem.linked
  <2>1. SUFFICES ASSUME At(t, "reflect_store"), mem' = [mem EXCEPT !.before[a] = this] PROVE ListAfter(t) /\ mem'.linked = mem.linked
    OBVIOUS
  <2>2. this \in List!Node
    BY <2>1, ListFacts DEF Uses, Linking, At
  <2>3. /\ mem'.ptr = mem.ptr /\ mem'.mark = mem.mark /\ mem'.linked = mem.linked /\ mem'.torn = mem.torn
        /\ mem'.value = mem.value /\ mem'.made = mem.made /\ DOMAIN mem' = DOMAIN mem
        /\ mem'.before = [mem.before EXCEPT ![a] = this]
    BY <2>1, ListFacts DEF ListShape
  <2>4. mem'.before \in [List!Node -> List!Node \union {List!Null}]
    BY <1>1, <2>2, <2>3
  <2> QED  BY <2>3, <2>4, ListQuiet DEF ListSame, ListFields
<1> DEFINE stores == mem' = [mem EXCEPT !.before[a] = this]
<1> HIDE DEF stores
<1>9. CASE At(t, "reflect_store") /\ stores /\ Go(t, [pc |-> loc[t].then])
  <2> DEFINE f == [pc |-> loc[t].then]
  <2>1. DOMAIN f = {} \union {"pc"} /\ f.pc = loc[t].then
    OBVIOUS
  <2> HIDE DEF f
  <2>2. Go(t, f)
    BY <1>9 DEF f
  <2>3. Goes(t, {} \union {"pc"}) /\ loc'[t].pc = loc[t].then
    BY <2>1, <2>2, GoGoes
  <2>4. ListAfter(t) /\ mem'.linked = mem.linked
    BY <1>8, <1>9 DEF stores
  <2>12. loc[t].pc \in Fixing \union Linking /\ loc'[t].pc \in Fixing \union Linking \union {loc[t].then}
    BY <1>9, <2>3 DEF Fixing, Linking, At
  <2>13. {} \cap {"this", "then", "back", "work"} = {}
    OBVIOUS
  <2>5. Uses(t)' /\ ~At(t, "idle")'
    BY <2>3, <2>12, <2>13, UsesOfLinking
  <2>6. Continues(t)'
    BY <1>9, <2>3, <1>1, <1>2, ListFacts DEF Continues, Goes, Fixing, Linking, Removing, Backing, At, Inserter
  <2>9. Linkable' = Linkable /\ mem'.made = mem.made /\ \A n \in Linkable \ {List!Null} : mem.mark[n] => mem'.mark[n]
    BY <2>4, <1>1 DEF Linkable, ListAfter, ListEvolves
  <2>10. (Inserter(t)' <=> Inserter(t)) /\ loc'[t].node = loc[t].node
    BY <2>3, <2>5, <1>2, ListFacts DEF Goes, Inserter
  <2>11. /\ ("then" \in DOMAIN loc'[t] <=> "then" \in DOMAIN loc[t]) /\ ("then" \in DOMAIN loc[t] => loc'[t].then = loc[t].then)
       /\ ("later" \in DOMAIN loc[t] => "later" \in DOMAIN loc'[t] /\ loc'[t].later = loc[t].later)
    BY <2>3 DEF Goes
  <2>7. Links(t)'
    BY <1>9, <2>3, <2>4, <2>9, <2>10, <2>11, ListFacts DEF Links, Continues, Fixing, Linking, At, Passes
  <2>8. Passes(t)'
    BY <1>9, <2>3, <2>9, <1>1, <1>2, ListFacts DEF Passes, Continues, Fixing, Linking, Goes, At
  <2> QED  BY <2>3, <2>4, <2>5, <2>6, <2>7, <2>8, ListGoes
<1>10. \/ At(t, "reflect") /\ UNCHANGED mem /\ Go(t, [pc |-> IF mem.mark[this] THEN loc[t].then ELSE "reflect_before", next |-> mem.ptr[this]])
       \/ List!Crash
       \/ At(t, "reflect_before") /\ UNCHANGED mem /\ Go(t, [pc |-> IF mem.before[a] = this THEN loc[t].then ELSE "reflect_after"])
       \/ At(t, "reflect_after") /\ UNCHANGED mem /\ Go(t, [pc |-> IF mem.ptr[a] = List!Null /\ ~mem.mark[a] THEN "reflect_store" ELSE loc[t].then])
       \/ At(t, "reflect_store") /\ stores /\ Go(t, [pc |-> loc[t].then])
  BY ListFrames, Zenon DEF List!ReflectForward, stores, a, this
<1> QED  BY <1>4, <1>5, <1>6, <1>7, <1>9, <1>10, Zenon

\* fixforward.
LEMMA ListFixes ==
  ASSUME NEW t \in Thread, ListBegun(t), List!FixForward(t)
  PROVE  ListMoves(t)
<1> DEFINE l == loc[t].later
           changes == mem' = IF mem.ptr[loc[t].this] = loc[t].later /\ ~mem.mark[loc[t].this]
                             THEN [mem EXCEPT !.ptr[loc[t].this] = loc[t].next, !.torn = @ \/ loc[t].next # mem.ptr[loc[t].later]]
                             ELSE mem
<1> HIDE DEF changes
<1>1. mem.ptr \in [List!Node -> List!Node \union {List!Null}] /\ Linkable \subseteq List!Node \union {List!Null}
      /\ mem.ptr \in [List!Node -> Linkable] /\ mem.before \in [List!Node -> List!Node \union {List!Null}]
      /\ List!Head \in List!Node /\ mem.linked \subseteq List!Node
  BY ListFacts, ListTypes
<1>2. call' = call /\ ~At(t, "idle")
  BY DEF ListBegun
<1>3. UNCHANGED mem => ListAfter(t) /\ mem'.linked = mem.linked
  BY ListFacts, ListQuiet DEF ListSame, ListFields, ListShape
<1>12. l \in Linkable \ {List!Null} => mem.ptr[l] \in Linkable
  BY <1>1
<1>11. At(t, "fix") => mem.ptr[loc[t].this] \in Linkable
  BY <1>1, ListFacts DEF Uses, Fixing, At
<1>4. CASE At(t, "fix") /\ UNCHANGED mem /\ Go(t, [pc |-> "fix_ptr", later |-> mem.ptr[loc[t].this]])
  <2> DEFINE f == [pc |-> "fix_ptr", later |-> mem.ptr[loc[t].this]]
  <2>1. DOMAIN f = {"later"} \union {"pc"} /\ f.pc = "fix_ptr" /\ f.later = mem.ptr[loc[t].this]
    OBVIOUS
  <2> HIDE DEF f
  <2>2. Go(t, f)
    BY <1>4 DEF f
  <2>3. Goes(t, {"later"} \union {"pc"}) /\ loc'[t].pc = "fix_ptr" /\ loc'[t].later = mem.ptr[loc[t].this]
    BY <2>1, <2>2, GoGoes
  <2>4. ListAfter(t) /\ mem'.linked = mem.linked
    BY <1>3, <1>4
  <2>12. loc[t].pc \in Fixing \union Linking /\ loc'[t].pc \in Fixing \union Linking \union {loc[t].then}
    BY <1>4, <2>3 DEF Fixing, Linking, At
  <2>13. {"later"} \cap {"this", "then", "back", "work"} = {}
    OBVIOUS
  <2>5. Uses(t)' /\ ~At(t, "idle")'
    BY <2>3, <2>12, <2>13, UsesOfLinking
  <2>6. Continues(t)'
    BY <1>4, <2>3, <1>1, <1>2, <1>11, ListFacts DEF Continues, Goes, Fixing, Linking, Removing, Backing, At, Inserter
  <2>9. Linkable' = Linkable /\ mem'.made = mem.made /\ \A n \in Linkable \ {List!Null} : mem.mark[n] => mem'.mark[n]
    BY <2>4, <1>1 DEF Linkable, ListAfter, ListEvolves
  <2>10. (Inserter(t)' <=> Inserter(t)) /\ loc'[t].node = loc[t].node
    BY <2>3, <2>5, <1>2, ListFacts DEF Goes, Inserter
  <2>11. ("then" \in DOMAIN loc'[t] <=> "then" \in DOMAIN loc[t]) /\ ("then" \in DOMAIN loc[t] => loc'[t].then = loc[t].then)
    BY <2>3 DEF Goes
  <2>7. Links(t)'
    BY <1>4, <2>3, <2>4, <2>9, <2>10, <2>11, <1>11, ListFacts DEF Links, Continues, Fixing, Linking, At, Passes
  <2>8. Passes(t)'
    BY <1>4, <2>3, <2>9, <1>1, <1>2, <1>11, ListFacts DEF Passes, Continues, Fixing, Linking, Goes, At
  <2> QED  BY <2>3, <2>4, <2>5, <2>6, <2>7, <2>8, ListGoes
<1>5. CASE List!Crash
  BY <1>5, ListCrashes
<1>6. CASE At(t, "fix_ptr") /\ l # List!Null /\ UNCHANGED mem /\ Go(t, [pc |-> "fix_mark", next |-> mem.ptr[l]])
  <2> DEFINE f == [pc |-> "fix_mark", next |-> mem.ptr[l]]
  <2>1. DOMAIN f = {"next"} \union {"pc"} /\ f.pc = "fix_mark" /\ f.next = mem.ptr[l]
    OBVIOUS
  <2> HIDE DEF f
  <2>2. Go(t, f)
    BY <1>6 DEF f
  <2>3. Goes(t, {"next"} \union {"pc"}) /\ loc'[t].pc = "fix_mark" /\ loc'[t].next = mem.ptr[l]
    BY <2>1, <2>2, GoGoes
  <2>4. ListAfter(t) /\ mem'.linked = mem.linked
    BY <1>3, <1>6
  <2>12. loc[t].pc \in Fixing \union Linking /\ loc'[t].pc \in Fixing \union Linking \union {loc[t].then}
    BY <1>6, <2>3 DEF Fixing, Linking, At
  <2>13. {"next"} \cap {"this", "then", "back", "work"} = {}
    OBVIOUS
  <2>5. Uses(t)' /\ ~At(t, "idle")'
    BY <2>3, <2>12, <2>13, UsesOfLinking
  <2>6. Continues(t)'
    BY <1>6, <2>3, <1>1, <1>2, <1>12, ListFacts DEF Continues, Goes, Fixing, Linking, Removing, Backing, At, Inserter
  <2>9. Linkable' = Linkable /\ mem'.made = mem.made /\ \A n \in Linkable \ {List!Null} : mem.mark[n] => mem'.mark[n]
    BY <2>4, <1>1 DEF Linkable, ListAfter, ListEvolves
  <2>10. (Inserter(t)' <=> Inserter(t)) /\ loc'[t].node = loc[t].node
    BY <2>3, <2>5, <1>2, ListFacts DEF Goes, Inserter
  <2>11. /\ ("then" \in DOMAIN loc'[t] <=> "then" \in DOMAIN loc[t]) /\ ("then" \in DOMAIN loc[t] => loc'[t].then = loc[t].then)
       /\ ("later" \in DOMAIN loc[t] => "later" \in DOMAIN loc'[t] /\ loc'[t].later = loc[t].later)
    BY <2>3 DEF Goes
  <2>7. Links(t)'
    BY <1>6, <2>3, <2>4, <2>9, <2>10, <2>11, <1>12, ListFacts DEF Links, Continues, Fixing, Linking, At, Passes
  <2>8. Passes(t)'
    BY <1>6, <2>3, <2>9, <1>1, <1>2, <1>12, ListFacts DEF Passes, Continues, Fixing, Linking, Goes, At
  <2> QED  BY <2>3, <2>4, <2>5, <2>6, <2>7, <2>8, ListGoes
<1>7. CASE At(t, "fix_mark") /\ UNCHANGED mem /\ Go(t, [pc |-> IF mem.mark[l] THEN "fix_cas" ELSE "reflect"])
  <2> DEFINE f == [pc |-> IF mem.mark[l] THEN "fix_cas" ELSE "reflect"]
  <2>1. DOMAIN f = {} \union {"pc"} /\ f.pc = (IF mem.mark[l] THEN "fix_cas" ELSE "reflect")
    OBVIOUS
  <2> HIDE DEF f
  <2>2. Go(t, f)
    BY <1>7 DEF f
  <2>3. Goes(t, {} \union {"pc"}) /\ loc'[t].pc = (IF mem.mark[l] THEN "fix_cas" ELSE "reflect")
    BY <2>1, <2>2, GoGoes
  <2>4. ListAfter(t) /\ mem'.linked = mem.linked
    BY <1>3, <1>7
  <2>12. loc[t].pc \in Fixing \union Linking /\ loc'[t].pc \in Fixing \union Linking \union {loc[t].then}
    BY <1>7, <2>3 DEF Fixing, Linking, At
  <2>13. {} \cap {"this", "then", "back", "work"} = {}
    OBVIOUS
  <2>5. Uses(t)' /\ ~At(t, "idle")'
    BY <2>3, <2>12, <2>13, UsesOfLinking
  <2>6. Continues(t)'
    BY <1>7, <2>3, <1>1, <1>2, ListFacts DEF Continues, Goes, Fixing, Linking, Removing, Backing, At, Inserter
  <2>9. Linkable' = Linkable /\ mem'.made = mem.made /\ \A n \in Linkable \ {List!Null} : mem.mark[n] => mem'.mark[n]
    BY <2>4, <1>1 DEF Linkable, ListAfter, ListEvolves
  <2>10. (Inserter(t)' <=> Inserter(t)) /\ loc'[t].node = loc[t].node
    BY <2>3, <2>5, <1>2, ListFacts DEF Goes, Inserter
  <2>11. /\ ("then" \in DOMAIN loc'[t] <=> "then" \in DOMAIN loc[t]) /\ ("then" \in DOMAIN loc[t] => loc'[t].then = loc[t].then)
       /\ ("later" \in DOMAIN loc[t] => "later" \in DOMAIN loc'[t] /\ loc'[t].later = loc[t].later)
    BY <2>3 DEF Goes
  <2>7. Links(t)'
    BY <1>7, <2>3, <2>4, <2>9, <2>10, <2>11, ListFacts DEF Links, Continues, Fixing, Linking, At, Passes
  <2>8. Passes(t)'
    BY <1>7, <2>3, <2>9, <1>1, <1>2, ListFacts DEF Passes, Continues, Fixing, Linking, Goes, At
  <2> QED  BY <2>3, <2>4, <2>5, <2>6, <2>7, <2>8, ListGoes
<1>8. At(t, "fix_cas") /\ changes => ListAfter(t) /\ mem'.linked = mem.linked
  <2>1. SUFFICES ASSUME At(t, "fix_cas"), changes PROVE ListAfter(t) /\ mem'.linked = mem.linked
    OBVIOUS
  <2>2. CASE UNCHANGED mem
    BY <1>3, <2>2
  <2>3. CASE ~UNCHANGED mem
    <3>1. mem.ptr[loc[t].this] = l /\ mem' = [mem EXCEPT !.ptr[loc[t].this] = loc[t].next, !.torn = @ \/ loc[t].next # mem.ptr[l]]
      BY <2>1, <2>3 DEF changes
    <3>2. /\ mem'.value = mem.value /\ mem'.made = mem.made /\ DOMAIN mem' = DOMAIN mem /\ mem'.before = mem.before
          /\ mem'.mark = mem.mark /\ mem'.linked = mem.linked
          /\ (mem'.torn <=> mem.torn \/ loc[t].next # mem.ptr[l]) /\ mem'.ptr = [mem.ptr EXCEPT ![loc[t].this] = loc[t].next]
      BY <3>1, ListFacts DEF ListShape
    <3>3. l \in Linkable \ {List!Null} /\ loc[t].next \in Linkable /\ mem.mark[l]
      BY <2>1, ListFacts DEF Passes, At
    <3>4. ListFields
      BY <1>1, <3>2 DEF ListFields
    <3> QED  BY <3>1, <3>2, <3>3, <3>4, ListFacts, ListBypasses
  <2> QED  BY <2>2, <2>3
<1>9. CASE At(t, "fix_cas") /\ changes /\ Go(t, [pc |-> "fix_ptr", later |-> loc[t].next])
  <2> DEFINE f == [pc |-> "fix_ptr", later |-> loc[t].next]
  <2>1. DOMAIN f = {"later"} \union {"pc"} /\ f.pc = "fix_ptr" /\ f.later = loc[t].next
    OBVIOUS
  <2> HIDE DEF f
  <2>2. Go(t, f)
    BY <1>9 DEF f
  <2>3. Goes(t, {"later"} \union {"pc"}) /\ loc'[t].pc = "fix_ptr" /\ loc'[t].later = loc[t].next
    BY <2>1, <2>2, GoGoes
  <2>4. ListAfter(t) /\ mem'.linked = mem.linked
    BY <1>8, <1>9
  <2>12. loc[t].pc \in Fixing \union Linking /\ loc'[t].pc \in Fixing \union Linking \union {loc[t].then}
    BY <1>9, <2>3 DEF Fixing, Linking, At
  <2>13. {"later"} \cap {"this", "then", "back", "work"} = {}
    OBVIOUS
  <2>5. Uses(t)' /\ ~At(t, "idle")'
    BY <2>3, <2>12, <2>13, UsesOfLinking
  <2>6. Continues(t)'
    BY <1>9, <2>3, <1>1, <1>2, ListFacts DEF Continues, Goes, Fixing, Linking, Removing, Backing, At, Inserter
  <2>9. Linkable' = Linkable /\ mem'.made = mem.made /\ \A n \in Linkable \ {List!Null} : mem.mark[n] => mem'.mark[n]
    BY <2>4, <1>1 DEF Linkable, ListAfter, ListEvolves
  <2>10. (Inserter(t)' <=> Inserter(t)) /\ loc'[t].node = loc[t].node
    BY <2>3, <2>5, <1>2, ListFacts DEF Goes, Inserter
  <2>11. ("then" \in DOMAIN loc'[t] <=> "then" \in DOMAIN loc[t]) /\ ("then" \in DOMAIN loc[t] => loc'[t].then = loc[t].then)
    BY <2>3 DEF Goes
  <2>7. Links(t)'
    BY <1>9, <2>3, <2>4, <2>9, <2>10, <2>11, ListFacts DEF Links, Continues, Fixing, Linking, At, Passes
  <2>8. Passes(t)'
    BY <1>9, <2>3, <2>9, <1>1, <1>2, ListFacts DEF Passes, Continues, Fixing, Linking, Goes, At
  <2> QED  BY <2>3, <2>4, <2>5, <2>6, <2>7, <2>8, ListGoes
<1>10. \/ At(t, "fix") /\ UNCHANGED mem /\ Go(t, [pc |-> "fix_ptr", later |-> mem.ptr[loc[t].this]])
       \/ List!Crash
       \/ At(t, "fix_ptr") /\ l # List!Null /\ UNCHANGED mem /\ Go(t, [pc |-> "fix_mark", next |-> mem.ptr[l]])
       \/ At(t, "fix_mark") /\ UNCHANGED mem /\ Go(t, [pc |-> IF mem.mark[l] THEN "fix_cas" ELSE "reflect"])
       \/ At(t, "fix_cas") /\ changes /\ Go(t, [pc |-> "fix_ptr", later |-> loc[t].next])
  BY ListFrames, Zenon DEF List!FixForward, List!Bypass, changes, l
<1> QED  BY <1>4, <1>5, <1>6, <1>7, <1>9, <1>10, Zenon

\* The walk to the place of a key.
LEMMA ListWalks ==
  ASSUME NEW t \in Thread, ListBegun(t), List!Walk(t)
  PROVE  ListMoves(t)
<1> DEFINE c == mem.ptr[loc[t].at]
<1>1. mem.ptr \in [List!Node -> List!Node \union {List!Null}] /\ Linkable \subseteq List!Node \union {List!Null}
      /\ mem.ptr \in [List!Node -> Linkable] /\ mem.before \in [List!Node -> List!Node \union {List!Null}]
      /\ List!Head \in List!Node /\ mem.linked \subseteq List!Node
  BY ListFacts, ListTypes
<1>2. call' = call /\ ~At(t, "idle")
  BY DEF ListBegun
<1>3. UNCHANGED mem => ListAfter(t) /\ mem'.linked = mem.linked
  BY ListFacts, ListQuiet DEF ListSame, ListFields, ListShape
<1>12. List!Name(t) = call[t][1]
  BY ListFrames
<1>4. CASE List!Crash
  BY <1>4, ListCrashes
<1>5. CASE At(t, "walk") /\ c # List!Null /\ UNCHANGED mem /\ Go(t, [at |-> c])
           /\ (mem.value[c] < List!KeyOf(t) \/ mem.value[c] = List!KeyOf(t))
  <2> DEFINE f == [at |-> c]
  <2>1. DOMAIN f = {"at"} /\ f.at = c
    OBVIOUS
  <2> HIDE DEF f
  <2>2. Go(t, f)
    BY <1>5 DEF f
  <2>3. Goes(t, {"at"}) /\ loc'[t].at = c
    BY <2>1, <2>2, GoGoes
  <2>4. ListAfter(t) /\ mem'.linked = mem.linked
    BY <1>3, <1>5
  <2>5. c \in mem.linked
    <3>4. loc[t].at \in List!Node
      BY <1>1, ListFacts
    <3>1. c \in mem.linked \union {List!Tail}
      BY <1>1, <1>5, <3>4 DEF Linkable
    <3>2. List!KeyOf(t) \in Int /\ List!KeyOf(t) < SentinelMax /\ SentinelMax \in Int
      BY ListFacts, LockFreeAssumption DEF List!KeyOf
    <3>3. mem.value[List!Tail] = SentinelMax
      BY ListFacts DEF ListShape
    <3> QED  BY <1>5, <3>1, <3>2, <3>3
  <2>6. loc'[t].pc = loc[t].pc /\ loc'[t].node = loc[t].node /\ {"pc", "at", "node"} \subseteq DOMAIN loc'[t]
    BY <2>3, ListFacts DEF Goes
  <2>9. loc[t].pc = "walk" /\ ~At(t, "idle")' /\ (Inserter(t)' <=> Inserter(t))
    BY <1>2, <1>5, <2>6 DEF At, Inserter
  <2>10. ("then" \in DOMAIN loc'[t] <=> "then" \in DOMAIN loc[t]) /\ ("then" \in DOMAIN loc[t] => loc'[t].then = loc[t].then)
    BY <2>3 DEF Goes
  <2>11. Continues(t)'
    BY <2>6, <2>9, <2>10, ListFacts DEF Continues, Fixing, Linking, Backing, Removing
  <2>12. Passes(t)' /\ Uses(t)'
    BY <2>6, <2>9 DEF Passes, Uses, Fixing, Linking, Backing
  <2>13. mem'.made = mem.made
    BY <2>4 DEF ListAfter, ListEvolves
  <2>14. Links(t)'
    BY <2>4, <2>6, <2>9, <2>10, <2>13, ListFacts DEF Links, Linking
  <2>7. Continues(t)' /\ Links(t)' /\ Passes(t)' /\ Uses(t)' /\ ~At(t, "idle")'
    BY <2>9, <2>11, <2>12, <2>14
  <2>8. ListFrame(t)'
    BY <1>2, <2>3, <2>4, <2>5, <2>6, <2>7, ListFacts DEF ListFrame
  <2> QED  BY <2>3, <2>4, <2>6, <2>7, <2>8 DEF ListMoves, Goes
<1>6. UNCHANGED mem => c \in List!Node \union {List!Null}
  BY <1>1, ListFacts
<1>7. CASE At(t, "walk") /\ List!Name(t) = "insert" /\ UNCHANGED mem /\ Go(t, [pc |-> "after"])
  <2> DEFINE f == [pc |-> "after"]
  <2>1. DOMAIN f = {} \union {"pc"} /\ f.pc = "after"
    OBVIOUS
  <2> HIDE DEF f
  <2>2. Go(t, f)
    BY <1>7 DEF f
  <2>3. Goes(t, {} \union {"pc"}) /\ loc'[t].pc = "after"
    BY <2>1, <2>2, GoGoes
  <2>4. ListAfter(t) /\ mem'.linked = mem.linked
    BY <1>3, <1>7
  <2>5. Uses(t)' /\ Elsewhere(t, loc'[t].pc)
    BY <1>7, <2>3, <1>1, <1>12, ListFacts DEF Uses, Goes, Fixing, Linking, Backing, At, Continues, Removing, Elsewhere, Inserter
  <2>6. {} \subseteq {"ref", "this", "back", "work", "value", "next"}
    OBVIOUS
  <2> QED  BY <2>3, <2>4, <2>5, <2>6, ListPasses
<1>8. CASE At(t, "walk") /\ List!Name(t) = "remove" /\ c # List!Null /\ UNCHANGED mem /\ Go(t, [pc |-> "delete", ref |-> c])
  <2> DEFINE f == [pc |-> "delete", ref |-> c]
  <2>1. DOMAIN f = {"ref"} \union {"pc"} /\ f.pc = "delete" /\ f.ref = c
    OBVIOUS
  <2> HIDE DEF f
  <2>2. Go(t, f)
    BY <1>8 DEF f
  <2>3. Goes(t, {"ref"} \union {"pc"}) /\ loc'[t].pc = "delete" /\ loc'[t].ref = c
    BY <2>1, <2>2, GoGoes
  <2>4. ListAfter(t) /\ mem'.linked = mem.linked
    BY <1>3, <1>8
  <2>5. Uses(t)' /\ Elsewhere(t, loc'[t].pc)
    BY <1>8, <2>3, <1>1, <1>6, <1>12, ListFacts DEF Uses, Goes, Fixing, Linking, Backing, At, Continues, Removing, Elsewhere, Inserter
  <2>6. {"ref"} \subseteq {"ref", "this", "back", "work", "value", "next"}
    OBVIOUS
  <2> QED  BY <2>3, <2>4, <2>5, <2>6, ListPasses
<1>9. CASE UNCHANGED mem /\ Go(t, [pc |-> "return", value |-> TRUE])
  BY <1>3, <1>9, ListReturns
<1>10. \/ List!Crash
       \/ At(t, "walk") /\ c # List!Null /\ UNCHANGED mem /\ Go(t, [at |-> c])
           /\ (mem.value[c] < List!KeyOf(t) \/ mem.value[c] = List!KeyOf(t))
       \/ At(t, "walk") /\ List!Name(t) = "insert" /\ UNCHANGED mem /\ Go(t, [pc |-> "after"])
       \/ At(t, "walk") /\ List!Name(t) = "remove" /\ c # List!Null /\ UNCHANGED mem /\ Go(t, [pc |-> "delete", ref |-> c])
       \/ UNCHANGED mem /\ Go(t, [pc |-> "return", value |-> TRUE])
  <2>1. List!Name(t) \in {"insert", "remove", "count"}
    BY <1>12, ListFacts
  <2> QED  BY <2>1, ListFrames DEF List!Walk
<1> QED  BY <1>4, <1>5, <1>7, <1>8, <1>9, <1>10, Zenon

\* insertafter and insertBetween.
LEMMA ListInserting ==
  ASSUME NEW t \in Thread, ListBegun(t), List!Insert(t)
  PROVE  ListMoves(t)
<1> DEFINE n == loc[t].node  p == loc[t].at
           changes == /\ mem.ptr[p] = loc[t].later /\ ~mem.mark[p]
                      /\ mem' = [mem EXCEPT !.ptr[p] = n, !.ptr[n] = loc[t].later, !.before[n] = p, !.linked = @ \cup {n}]
<1> HIDE DEF changes
<1>1. mem.ptr \in [List!Node -> List!Node \union {List!Null}] /\ Linkable \subseteq List!Node \union {List!Null}
      /\ mem.ptr \in [List!Node -> Linkable] /\ mem.before \in [List!Node -> List!Node \union {List!Null}]
      /\ List!Head \in List!Node /\ mem.linked \subseteq List!Node
  BY ListFacts, ListTypes
<1>2. call' = call /\ ~At(t, "idle")
  BY DEF ListBegun
<1>3. UNCHANGED mem => ListAfter(t) /\ mem'.linked = mem.linked
  BY ListFacts, ListQuiet DEF ListSame, ListFields, ListShape
<1>12. loc[t].pc \in {"after", "between", "inserted"} => Inserter(t)
  BY ListFacts DEF Continues
<1>4. CASE UNCHANGED mem /\ Go(t, [pc |-> "return", value |-> FALSE])
  BY <1>3, <1>4, ListReturns
<1>5. CASE UNCHANGED mem /\ Go(t, [pc |-> "return", value |-> TRUE])
  BY <1>3, <1>5, ListReturns
<1>6. CASE At(t, "between") /\ UNCHANGED mem /\ Go(t, [pc |-> "after"])
  <2> DEFINE f == [pc |-> "after"]
  <2>1. DOMAIN f = {} \union {"pc"} /\ f.pc = "after"
    OBVIOUS
  <2> HIDE DEF f
  <2>2. Go(t, f)
    BY <1>6 DEF f
  <2>3. Goes(t, {} \union {"pc"}) /\ loc'[t].pc = "after"
    BY <2>1, <2>2, GoGoes
  <2>4. ListAfter(t) /\ mem'.linked = mem.linked
    BY <1>3, <1>6
  <2>5. Uses(t)' /\ Elsewhere(t, loc'[t].pc)
    BY <1>6, <2>3, <1>1, <1>12, ListFacts DEF Uses, Goes, Fixing, Linking, Backing, At, Continues, Removing, Elsewhere
  <2>6. {} \subseteq {"ref", "this", "back", "work", "value", "next"}
    OBVIOUS
  <2> QED  BY <2>3, <2>4, <2>5, <2>6, ListPasses
<1>11. p \in List!Node
  BY <1>1, ListFacts
<1>7. CASE At(t, "after") /\ UNCHANGED mem /\ Go(t, [pc |-> "fix", this |-> p, then |-> "between"])
  <2> DEFINE f == [pc |-> "fix", this |-> p, then |-> "between"]
  <2>1. DOMAIN f = {"this", "then"} \union {"pc"} /\ f.pc = "fix" /\ f.this = p /\ f.then = "between"
    OBVIOUS
  <2> HIDE DEF f
  <2>2. Go(t, f)
    BY <1>7 DEF f
  <2>3. Goes(t, {"this", "then"} \union {"pc"}) /\ loc'[t].pc = "fix" /\ loc'[t].this = p /\ loc'[t].then = "between"
    BY <2>1, <2>2, GoGoes
  <2>4. ListAfter(t) /\ mem'.linked = mem.linked
    BY <1>3, <1>7
  <2>5. Uses(t)' /\ ~At(t, "idle")'
    BY <1>7, <2>3, <1>1, <1>11, <1>12, ListFacts DEF Uses, Goes, Fixing, Linking, Backing, At, Continues, Removing, Inserter
  <2>6. Continues(t)'
    BY <1>7, <2>3, <1>1, <1>2, <1>11, <1>12, ListFacts DEF Continues, Goes, Fixing, Linking, Removing, Backing, At, Inserter
  <2>9. Linkable' = Linkable /\ mem'.made = mem.made /\ \A m \in Linkable \ {List!Null} : mem.mark[m] => mem'.mark[m]
    BY <2>4, <1>1 DEF Linkable, ListAfter, ListEvolves
  <2>10. (Inserter(t)' <=> Inserter(t)) /\ loc'[t].node = loc[t].node
    BY <2>3, <2>5, <1>2, ListFacts DEF Goes, Inserter
  <2>11. ("later" \in DOMAIN loc[t] => "later" \in DOMAIN loc'[t] /\ loc'[t].later = loc[t].later)
    BY <2>3 DEF Goes
  <2>7. Links(t)'
    BY <1>7, <2>3, <2>4, <2>9, <2>10, <2>11, <1>11, <1>12, ListFacts DEF Links, Continues, Fixing, Linking, At, Passes
  <2>8. Passes(t)'
    BY <1>7, <2>3, <2>9, <1>1, <1>2, <1>11, <1>12, ListFacts DEF Passes, Continues, Fixing, Linking, Goes, At
  <2> QED  BY <2>3, <2>4, <2>5, <2>6, <2>7, <2>8, ListGoes
<1>8. At(t, "between") /\ changes => ListAfter(t) /\ mem'.linked = mem.linked \union {n}
  <2>1. SUFFICES ASSUME At(t, "between"), changes PROVE ListAfter(t) /\ mem'.linked = mem.linked \union {n}
    OBVIOUS
  <2>2. Inserter(t) /\ loc[t].then = "between" /\ "then" \in DOMAIN loc[t]
    BY <1>12, <2>1, ListFacts DEF Continues, At, Linking
  <2>3. n \in 2 .. mem.made + 1 /\ n \notin mem.linked /\ loc[t].later \in Linkable \ {List!Null}
    BY <2>1, <2>2, ListFacts DEF Links, Linking, At
  <2>10. mem.made \in Nat /\ mem.made <= MaxNodes
    BY ListFacts, LinkableNodes
  <2>4. n \in List!Node
    BY <2>3, <2>10, ListNodes
  <2>5. /\ mem'.value = mem.value /\ mem'.made = mem.made /\ DOMAIN mem' = DOMAIN mem
        /\ mem'.mark = mem.mark /\ mem'.torn = mem.torn /\ mem'.linked = mem.linked \union {n}
        /\ mem'.before = [mem.before EXCEPT ![n] = p]
        /\ mem'.ptr = [[mem.ptr EXCEPT ![p] = n] EXCEPT ![n] = loc[t].later]
    BY <2>1, ListFacts DEF ListShape, changes
  <2>6. mem'.before \in [List!Node -> List!Node \union {List!Null}]
    BY <1>1, <1>11, <2>5
  <2>7. ListFields
    BY <2>5, <2>6 DEF ListFields
  <2>8. mem.ptr[p] = loc[t].later /\ ~mem.mark[p]
    BY <2>1 DEF changes
  <2>9. p \in mem.linked \union {List!Head} /\ ListShape /\ List!ListStaysWhole /\ Room(MaxNodes)
    BY ListFacts
  <2> QED  BY <2>1, <2>3, <2>5, <2>7, <2>8, <2>9, ListInserts
<1>9. CASE At(t, "between") /\ changes /\ Go(t, [pc |-> "reflect", this |-> n, then |-> "inserted"])
  <2> DEFINE f == [pc |-> "reflect", this |-> n, then |-> "inserted"]
  <2>1. DOMAIN f = {"this", "then"} \union {"pc"} /\ f.pc = "reflect" /\ f.this = n /\ f.then = "inserted"
    OBVIOUS
  <2> HIDE DEF f
  <2>2. Go(t, f)
    BY <1>9 DEF f
  <2>3. Goes(t, {"this", "then"} \union {"pc"}) /\ loc'[t].pc = "reflect" /\ loc'[t].this = n /\ loc'[t].then = "inserted"
    BY <2>1, <2>2, GoGoes
  <2>4. ListAfter(t) /\ mem'.linked = mem.linked \union {n} /\ mem'.made = mem.made
    BY <1>8, <1>9 DEF ListAfter, ListEvolves
  <2>10. Inserter(t) /\ Inserter(t)'
    BY <1>2, <1>9, <1>12, <2>3 DEF At, Inserter
  <2>11. n \in 2 .. mem.made + 1
    BY <2>10, ListFacts DEF Links
  <2>15. mem.made \in Nat /\ mem.made <= MaxNodes
    BY ListFacts, LinkableNodes
  <2>12. n \in List!Node
    BY <2>11, <2>15, ListNodes
  <2>5. Uses(t)' /\ ~At(t, "idle")'
    BY <2>3, <2>12 DEF Uses, Goes, Fixing, Linking, Backing, At
  <2>6. Continues(t)'
    BY <2>3, <2>10 DEF Continues, Goes, Fixing, Linking, Removing, Backing
  <2>13. loc'[t].node = n
    BY <2>3, ListFacts DEF Goes
  <2>14. "then" \in DOMAIN loc'[t]
    BY <2>3 DEF Goes
  <2>7. Links(t)'
    BY <2>3, <2>4, <2>11, <2>13, <2>14 DEF Links
  <2>8. Passes(t)'
    BY <2>3 DEF Passes
  <2> QED  BY <2>3, <2>4, <2>5, <2>6, <2>7, <2>8, ListGoes
<1>10. \/ UNCHANGED mem /\ Go(t, [pc |-> "return", value |-> FALSE])
       \/ UNCHANGED mem /\ Go(t, [pc |-> "return", value |-> TRUE])
       \/ At(t, "between") /\ UNCHANGED mem /\ Go(t, [pc |-> "after"])
       \/ At(t, "after") /\ UNCHANGED mem /\ Go(t, [pc |-> "fix", this |-> p, then |-> "between"])
       \/ At(t, "between") /\ changes /\ Go(t, [pc |-> "reflect", this |-> n, then |-> "inserted"])
  BY ListFrames, Zenon DEF List!Insert, changes, n, p
<1> QED  BY <1>4, <1>5, <1>6, <1>7, <1>9, <1>10, Zenon

\* What the other workers have does not depend on t.
LEMMA ListOthers ==
  ASSUME NEW t \in Thread, ListBegun(t), ListAfter(t), NEW u \in Thread, u # t, loc'[u] = loc[u]
  PROVE  ListFrame(u)'
<1>1. call' = call /\ ListFrame(u) /\ mem'.made = mem.made /\ mem.linked \subseteq mem'.linked
  BY DEF ListBegun, ListOK, ListAfter, ListEvolves
<1>2. CASE At(u, "idle")
  BY <1>2 DEF ListFrame, At
<1>3. CASE ~At(u, "idle")
  <2>1. /\ {"pc", "at", "node"} \subseteq DOMAIN loc[u] /\ call[u] \in {"insert", "remove", "count"} \X {""} \X ListKey
        /\ loc[u].at \in mem.linked \union {List!Head} /\ Continues(u) /\ Links(u) /\ Passes(u) /\ Uses(u)
    BY <1>1, <1>3 DEF ListFrame
  <2>2. Inserter(u)' <=> Inserter(u)
    BY <1>1 DEF Inserter, At
  <2>3. Continues(u)'
    BY <2>1, <2>2 DEF Continues
  <2>4. Linkable \subseteq Linkable'
    BY <1>1 DEF Linkable
  <2>5. Inserter(u) /\ loc[u].node \notin mem.linked => loc[u].node \notin mem'.linked
    <3>1. At(t, "between") => Inserter(t)
      BY ListFacts DEF Continues, At
    <3>2. Inserter(u) /\ Inserter(t) => loc[t].node # loc[u].node
      BY DEF ListBegun, ListOK, OwnNodes
    <3> QED  BY <3>1, <3>2 DEF ListAfter, ListEvolves
  <2>6. Links(u)'
    BY <1>1, <2>1, <2>2, <2>4, <2>5 DEF Links
  <2>7. \A n \in Linkable \ {List!Null} : mem.mark[n] => mem'.mark[n]
    <3>1. Linkable \subseteq List!Node \union {List!Null}
      BY ListFacts, ListTypes
    <3> QED  BY <3>1 DEF ListAfter, ListEvolves
  <2>8. Passes(u)'
    BY <2>1, <2>4, <2>7 DEF Passes
  <2>9. Uses(u)'
    BY <2>1 DEF Uses
  <2> QED  BY <1>1, <2>1, <2>3, <2>6, <2>8, <2>9 DEF ListFrame
<1> QED  BY <1>2, <1>3

LEMMA ListWork ==
  ASSUME ListOK, Room(MaxNodes), NEW t \in Thread, List!Step(t), call' = call, left' = left
  PROVE  ListOK' /\ Room(MaxNodes)'
<1>1. ListMoves(t) /\ ListBegun(t)
  <2>1. ~At(t, "idle") => ListBegun(t)
    BY DEF ListBegun
  <2>2. CASE List!Walk(t)
    <3>1. ~At(t, "idle")
      BY <2>2, ListFrames DEF List!Walk, At
    <3> QED  BY <2>1, <2>2, <3>1, ListWalks
  <2>3. CASE List!Insert(t)
    <3>1. At(t, "after") \/ At(t, "between") \/ At(t, "inserted")
      BY <2>3, ListFrames, Zenon DEF List!Insert
    <3>2. ~At(t, "idle")
      BY <3>1 DEF At
    <3> QED  BY <2>1, <2>3, <3>2, ListInserting
  <2>4. CASE List!FixForward(t)
    <3>1. At(t, "fix") \/ At(t, "fix_ptr") \/ At(t, "fix_mark") \/ At(t, "fix_cas")
      BY <2>4, ListFrames, Zenon DEF List!FixForward, List!Bypass
    <3>2. ~At(t, "idle")
      BY <3>1 DEF At
    <3> QED  BY <2>1, <2>4, <3>2, ListFixes
  <2>5. CASE List!ReflectForward(t)
    <3>1. At(t, "reflect") \/ At(t, "reflect_before") \/ At(t, "reflect_after") \/ At(t, "reflect_store")
      BY <2>5, ListFrames, Zenon DEF List!ReflectForward
    <3>2. ~At(t, "idle")
      BY <3>1 DEF At
    <3> QED  BY <2>1, <2>5, <3>2, ListReflects
  <2>6. CASE List!Delete(t)
    <3>1. At(t, "delete") \/ At(t, "mark")
      BY <2>6, ListFrames, Zenon DEF List!Delete
    <3>2. ~At(t, "idle")
      BY <3>1 DEF At
    <3> QED  BY <2>1, <2>6, <3>2, ListDeletes
  <2>7. CASE List!GetBack(t)
    <3>1. At(t, "back") \/ At(t, "back_after") \/ At(t, "again")
      BY <2>7, ListFrames, Zenon DEF List!GetBack
    <3>2. ~At(t, "idle")
      BY <3>1 DEF At
    <3> QED  BY <2>1, <2>7, <3>2, ListGetBack
  <2>8. CASE List!FixForwardUntil(t)
    <3>1. loc[t].pc \in {"until", "until_ref", "until_ptr", "until_mark", "until_reload", "until_next"}
      <4>1. \/ At(t, "until") \/ At(t, "until_ref") \/ At(t, "until_ptr")
            \/ At(t, "until_mark") \/ At(t, "until_reload") \/ At(t, "until_next")
        BY <2>8, ListFrames, Zenon DEF List!FixForwardUntil
      <4> QED  BY <4>1 DEF At
    <3>2. ~At(t, "idle")
      BY <3>1 DEF At
    <3> QED  BY <2>1, <2>8, <3>2, ListUntil
  <2> QED  BY <2>2, <2>3, <2>4, <2>5, <2>6, <2>7, <2>8 DEF List!Step
<1>2. /\ ListAfter(t) /\ ListFrame(t)' /\ ~At(t, "idle")' /\ loc'[t].node = loc[t].node
      /\ DOMAIN loc' = Thread /\ \A u \in Thread : u # t => loc'[u] = loc[u]
  BY <1>1 DEF ListMoves
<1>3. \A u \in Thread : ListFrame(u)'
  BY <1>1, <1>2, ListOthers
<1>4. OwnNodes'
  <2>1. ~At(t, "idle")
    BY <1>1 DEF ListBegun
  <2>2. \A u \in Thread : (Inserter(u)' <=> Inserter(u)) /\ loc'[u].node = loc[u].node
    BY <1>2, <2>1 DEF Inserter, At
  <2> QED  BY <2>2 DEF ListOK, OwnNodes
<1>5. Room(MaxNodes)'
  <2>1. MaxNodes \in Nat /\ ~At(t, "idle") /\ DOMAIN call' = Thread /\ mem'.made = mem.made
    BY <1>1, <1>2, LockFreeAssumption DEF ListBegun, Room, ListAfter, ListEvolves
  <2>2. loc'[t].pc # "idle"
    BY <1>2 DEF At
  <2> QED  BY <1>2, <2>1, <2>2, RoomStays
<1> QED  BY <1>2, <1>3, <1>4, <1>5 DEF ListOK, ListAfter

LEMMA ListCall ==
  ASSUME ListOK, Room(MaxNodes), NEW t \in Thread, left[t] > 0, At(t, "idle"), left' = left,
         NEW name \in {"insert", "remove", "count"}, NEW k \in ListKey, List!Call(t, name, k)
  PROVE  ListOK' /\ Room(MaxNodes)'
<1>1. /\ DOMAIN loc = Thread /\ DOMAIN call = Thread /\ mem.made \in Nat /\ MaxNodes \in Nat
      /\ ListShape /\ List!ListStaysWhole /\ OwnNodes /\ \A u \in Thread : ListFrame(u)
  BY LockFreeAssumption DEF Room, ListOK
<1>2. /\ DOMAIN loc' = Thread /\ DOMAIN call' = Thread
      /\ DOMAIN loc'[t] = {"pc", "at", "node"} /\ loc'[t].pc = "walk" /\ loc'[t].at = List!Head /\ loc'[t].node = mem.made + 2
      /\ call'[t] \in {"insert", "remove", "count"} \X {""} \X ListKey /\ call'[t][1] = name
      /\ \A u \in Thread : u # t => loc'[u] = loc[u] /\ call'[u] = call[u]
  <2> DEFINE f == [pc |-> "walk", at |-> List!Head, node |-> mem.made + 2]  c == <<name, "", k>>
  <2>1. loc' = [loc EXCEPT ![t] = f] /\ call' = [call EXCEPT ![t] = c]
    BY DEF List!Call
  <2>3. DOMAIN f = {"pc", "at", "node"} /\ f.pc = "walk" /\ f.at = List!Head /\ f.node = mem.made + 2
    OBVIOUS
  <2>4. c \in {"insert", "remove", "count"} \X {""} \X ListKey /\ c[1] = name
    OBVIOUS
  <2> HIDE DEF f, c
  <2>2. /\ DOMAIN loc' = Thread /\ DOMAIN call' = Thread /\ loc'[t] = f /\ call'[t] = c
        /\ \A u \in Thread : u # t => loc'[u] = loc[u] /\ call'[u] = call[u]
    BY <1>1, <2>1
  <2> QED  BY <2>2, <2>3, <2>4
<1>3. DOMAIN loc'[t] = {"pc", "at", "node"} /\ loc'[t].pc = "walk" /\ loc'[t].at = List!Head /\ loc'[t].node = mem.made + 2
  BY <1>2
<1>4. /\ mem'.made = mem.made + (IF name = "insert" THEN 1 ELSE 0)
      /\ mem'.ptr = mem.ptr /\ mem'.mark = mem.mark /\ mem'.before = mem.before /\ mem'.linked = mem.linked
      /\ mem'.torn = mem.torn /\ DOMAIN mem' = DOMAIN mem
      /\ List!Tail \in DOMAIN mem'.value /\ mem'.value[List!Tail] = SentinelMax
  <2>1. CASE name = "insert"
    <3>1. mem' = [mem EXCEPT !.made = @ + 1, !.value[mem.made + 2] = k]
      BY <2>1 DEF List!Call
    <3>2. List!Tail # mem.made + 2
      BY <1>1, ListNodes
    <3> QED  BY <1>1, <2>1, <3>1, <3>2 DEF ListShape
  <2>2. CASE name # "insert"
    <3>1. mem' = mem
      BY <2>2 DEF List!Call
    <3> QED  BY <1>1, <2>2, <3>1 DEF ListShape
  <2> QED  BY <2>1, <2>2
<1>5. Room(MaxNodes)'
  <2>1. mem'.made \in {mem.made, mem.made + 1} /\ loc'[t].pc # "idle"
    BY <1>1, <1>3, <1>4
  <2> QED  BY <1>1, <1>2, <2>1, RoomForCall
<1>6. mem'.made \in Nat /\ mem.made <= mem'.made
  BY <1>1, <1>4
<1>7. ListShape' /\ Linkable' = Linkable
  <2>1. mem.linked \subseteq 2 .. mem'.made + 1
    BY <1>1, <1>6 DEF ListShape
  <2>2. Linkable' = Linkable
    BY <1>4 DEF Linkable
  <2> QED  BY <1>1, <1>4, <1>6, <2>1, <2>2 DEF ListShape
<1>8. List!ListStaysWhole'
  BY <1>1, <1>4, ListReached DEF List!ListStaysWhole
<1>9. Inserter(t)' => name = "insert"
  BY <1>2 DEF Inserter
<1>10. ListFrame(t)'
  <2>1. Continues(t)' /\ Passes(t)' /\ Uses(t)'
    BY <1>3 DEF Continues, Passes, Uses, Removing, Fixing, Linking, Backing, Inserter
  <2>2. Links(t)'
    <3>1. name = "insert" => mem.made + 2 \in 2 .. mem'.made + 1
      BY <1>1, <1>4
    <3>2. mem.made + 2 \notin mem.linked
      BY <1>1 DEF ListShape
    <3> QED  BY <1>3, <1>4, <1>9, <3>1, <3>2 DEF Links, Linking
  <2>3. call'[t] \in {"insert", "remove", "count"} \X {""} \X ListKey
    BY <1>2
  <2> QED  BY <1>3, <1>4, <2>1, <2>2, <2>3 DEF ListFrame
<1>11. \A u \in Thread : u # t => (Inserter(u)' <=> Inserter(u))
  BY <1>2 DEF Inserter, At
<1>12. ASSUME NEW u \in Thread, u # t PROVE ListFrame(u)'
  <2>1. CASE At(u, "idle")
    BY <1>2, <1>12, <2>1 DEF ListFrame, At
  <2>2. CASE ~At(u, "idle")
    <3>1. /\ {"pc", "at", "node"} \subseteq DOMAIN loc[u] /\ call[u] \in {"insert", "remove", "count"} \X {""} \X ListKey
          /\ loc[u].at \in mem.linked \union {List!Head} /\ Continues(u) /\ Links(u) /\ Passes(u) /\ Uses(u)
      BY <1>1, <2>2 DEF ListFrame
    <3>2. loc'[u] = loc[u] /\ call'[u] = call[u] /\ (Inserter(u)' <=> Inserter(u))
      BY <1>2, <1>11, <1>12
    <3>3. Continues(u)' /\ Uses(u)'
      BY <3>1, <3>2 DEF Continues, Uses
    <3>4. Links(u)'
      <4>1. loc[u].node \in 2 .. mem.made + 1 => loc[u].node \in 2 .. mem'.made + 1
        BY <1>1, <1>6
      <4> QED  BY <1>4, <1>7, <3>1, <3>2, <4>1 DEF Links
    <3>5. Passes(u)'
      BY <1>4, <1>7, <3>1, <3>2 DEF Passes
    <3> QED  BY <1>4, <3>1, <3>2, <3>3, <3>4, <3>5 DEF ListFrame
  <2> QED  BY <2>1, <2>2
<1>13. OwnNodes'
  <2>1. ASSUME NEW u \in Thread, u # t, Inserter(u) PROVE loc[u].node # mem.made + 2
    <3>1. ~At(u, "idle")
      BY <2>1 DEF Inserter
    <3>2. loc[u].node \in 2 .. mem.made + 1
      BY <1>1, <2>1, <3>1 DEF ListFrame, Links
    <3> QED  BY <1>1, <3>2
  <2>2. ASSUME NEW u \in Thread, NEW v \in Thread, u # v, Inserter(u)', Inserter(v)' PROVE loc'[u].node # loc'[v].node
    <3>1. CASE u = t
      BY <1>2, <1>3, <1>11, <2>1, <2>2, <3>1
    <3>2. CASE v = t
      BY <1>2, <1>3, <1>11, <2>1, <2>2, <3>2
    <3>3. CASE u # t /\ v # t
      <4>1. Inserter(u) /\ Inserter(v) /\ loc'[u] = loc[u] /\ loc'[v] = loc[v]
        BY <1>2, <1>11, <2>2, <3>3
      <4>2. loc[u].node # loc[v].node
        BY <1>1, <2>2, <4>1 DEF OwnNodes
      <4> QED  BY <4>1, <4>2
    <3> QED  BY <3>1, <3>2, <3>3
  <2> QED  BY <2>2 DEF OwnNodes
<1> QED  BY <1>5, <1>7, <1>8, <1>10, <1>12, <1>13 DEF ListOK

LEMMA ListStays ==
  ASSUME ListOK, mem' = mem, DOMAIN loc = Thread,
         \A u \in Thread : (loc'[u] = loc[u] /\ call'[u] = call[u]) \/ loc'[u].pc = "idle"
  PROVE  ListOK'
<1>1. ListShape' /\ List!ListStaysWhole'
  BY ListReached DEF ListOK, ListShape, Linkable, List!ListStaysWhole
<1>2. \A u \in Thread : Inserter(u)' => Inserter(u) /\ loc'[u].node = loc[u].node
  BY DEF Inserter, At
<1>3. OwnNodes'
  BY <1>2 DEF ListOK, OwnNodes
<1>4. ASSUME NEW u \in Thread PROVE ListFrame(u)'
  <2>1. CASE loc'[u].pc = "idle"
    BY <2>1 DEF ListFrame, At
  <2>2. CASE loc'[u] = loc[u] /\ call'[u] = call[u]
    <3>1. ListFrame(u)
      BY DEF ListOK
    <3> QED  BY <2>2, <3>1 DEF ListFrame, Continues, Links, Passes, Uses, Inserter, At, Linkable
  <2> QED  BY <2>1, <2>2
<1> QED  BY <1>1, <1>3, <1>4 DEF ListOK

LEMMA ListReturn ==
  ASSUME ListOK, Room(MaxNodes), NEW t \in Thread, Return(t)
  PROVE  ListOK' /\ Room(MaxNodes)'
<1>1. /\ DOMAIN loc' = Thread /\ DOMAIN call' = Thread /\ loc'[t].pc = "idle" /\ ~At(t, "idle")
      /\ left' = [left EXCEPT ![t] = @ - 1] /\ mem' = mem
      /\ \A u \in Thread : u # t => loc'[u] = loc[u] /\ call'[u] = call[u]
  BY DEF Return, Leave, Idle, At, Room
<1>2. ListOK'
  BY <1>1, ListStays DEF Room
<1>3. MaxNodes \in Nat /\ mem'.made = mem.made
  BY <1>1, LockFreeAssumption
<1> QED  BY <1>1, <1>2, <1>3, RoomStays

\* The nodes of the start are in the list.
LEMMA ListStarts ==
  ASSUME Init, chosen = "sorted-list"
  PROVE  ListOK /\ Room(MaxNodes)
<1>1. PICK k \in Prefill :
        mem = [ptr |-> [n \in List!Node |-> IF n = List!Head THEN (IF k = 0 THEN List!Tail ELSE 2)
                                   ELSE IF n \in 2 .. k THEN n + 1
                                   ELSE IF n = k + 1 /\ k > 0 THEN List!Tail ELSE List!Null],
           before |-> [n \in List!Node |-> IF n = 2 /\ k > 0 THEN List!Head ELSE IF n \in 3 .. k + 1 THEN n - 1
                                      ELSE IF n # List!Tail THEN List!Null ELSE IF k = 0 THEN List!Head ELSE k + 1],
           mark |-> [n \in List!Node |-> FALSE],
           value |-> [n \in List!Node |-> IF n = List!Head THEN SentinelMin ELSE IF n = List!Tail THEN SentinelMax
                                     ELSE IF n \in 2 .. k + 1 THEN 2 * (n - 1) ELSE 0],
           made |-> k, linked |-> 2 .. k + 1, torn |-> FALSE, crashed |-> FALSE]
  BY DEF Init, List!Init
<1>2. k \in 0 .. MaxNodes /\ MaxNodes \in Nat
  BY LockFreeAssumption
<1>3. /\ {"ptr", "mark", "before", "value", "made", "linked", "torn", "crashed"} \subseteq DOMAIN mem
      /\ mem.made = k /\ mem.linked = 2 .. k + 1
      /\ mem.mark = [n \in List!Node |-> FALSE]
      /\ List!Tail \in DOMAIN mem.value /\ mem.value[List!Tail] = SentinelMax
  BY <1>1, <1>2, ListNodes
<1>4. mem.ptr = [n \in List!Node |-> IF n = List!Head THEN (IF k = 0 THEN List!Tail ELSE 2)
                                   ELSE IF n \in 2 .. k THEN n + 1
                                   ELSE IF n = k + 1 /\ k > 0 THEN List!Tail ELSE List!Null]
  BY <1>1
<1>5. mem.before = [n \in List!Node |-> IF n = 2 /\ k > 0 THEN List!Head ELSE IF n \in 3 .. k + 1 THEN n - 1
                                      ELSE IF n # List!Tail THEN List!Null ELSE IF k = 0 THEN List!Head ELSE k + 1]
  BY <1>1
<1>6. mem.ptr \in [List!Node -> Linkable]
  BY <1>2, <1>3, <1>4, ListNodes DEF Linkable
<1>7. mem.before \in [List!Node -> List!Node \union {List!Null}]
  BY <1>2, <1>5, ListNodes
<1>8. ListShape
  BY <1>2, <1>3, <1>6, <1>7 DEF ListShape
<1>9. 2 .. k + 1 \subseteq List!Reached
  <2> DEFINE p == mem.ptr  R == Reaching(p)[MaxNodes + 2]  S == {n \in Nat : n \in 2 .. k + 1 /\ n \notin R}
  <2>1. p \in [List!Node -> List!Node \union {List!Null}]
    BY <1>2, <1>3, <1>6, ListNodes DEF Linkable
  <2>2. Closed(R, p)
    BY <2>1, ReachedIsLeast
  <2>3. S = {}
    <3> SUFFICES ASSUME S # {} PROVE FALSE
      OBVIOUS
    <3> HIDE DEF R
    <3>1. PICK n \in S : \A j \in S : n <= j
      BY Least
    <3>2. n \in 2 .. k + 1 /\ n \notin R
      BY <3>1
    <3>3. CASE n = 2
      <4>1. p[List!Head] = 2 /\ List!Head \in R
        BY <1>2, <1>4, <2>2, <3>2, <3>3, ListNodes DEF Closed
      <4> QED  BY <2>2, <3>2, <3>3, <4>1, ListNodes DEF Closed
    <3>4. CASE n # 2
      <4>1. n - 1 \in 2 .. k /\ n - 1 \in Nat /\ n - 1 \notin S
        BY <1>2, <3>1, <3>2, <3>4
      <4>2. n - 1 \in R /\ p[n - 1] = n
        BY <1>2, <1>4, <4>1, ListNodes
      <4> QED  BY <1>2, <2>2, <3>2, <4>2, ListNodes DEF Closed
    <3> QED  BY <3>3, <3>4
  <2>4. 2 .. k + 1 \subseteq Nat
    BY <1>2
  <2> QED  BY <2>3, <2>4, ListReached
<1>10. List!ListStaysWhole
  BY <1>3, <1>9 DEF List!ListStaysWhole
<1>11. \A t \in Thread : At(t, "idle")
  BY DEF Init, Idle, At
<1>12. OwnNodes /\ \A t \in Thread : ListFrame(t)
  BY <1>11 DEF OwnNodes, ListFrame, Inserter
<1>13. Room(MaxNodes)
  <2>1. mem.made \in Nat /\ mem.made - k <= MaxNodes - MaxNodes /\ k \in Prefill \union {0}
    BY <1>2, <1>3
  <2> QED  BY <1>2, <2>1, RoomStarts
<1> QED  BY <1>8, <1>10, <1>12, <1>13 DEF ListOK

-----------------------------------------------------------------------------
(***************************************************************************)
(* The lock-free hash map.  makeRegularKey gives each key a positive       *)
(* number of its own, and the links lead on from number to number.         *)
(***************************************************************************)
Pow(i) == 2 ^ i
Bit(x, i) == (x \div Pow(i)) % 2

LEMMA Powers ==
  /\ WordSize \in Nat \ {0} /\ Key \subseteq 0 .. Pow(WordSize - 1) - 1
  /\ Pow(0) = 1 /\ \A i \in 0 .. WordSize - 1 : Pow(i) \in Nat \ {0} /\ Pow(i + 1) = 2 * Pow(i)
BY WordAssumption, Zenon DEF Pow

LEMMA PowersAreNat ==
  ASSUME NEW i \in 0 .. WordSize
  PROVE  Pow(i) \in Nat \ {0}
<1>1. WordSize \in Nat \ {0}
  BY Powers
<1>2. CASE i = WordSize
  <2>1. i - 1 \in 0 .. WordSize - 1 /\ (i - 1) + 1 = i
    BY <1>1, <1>2
  <2>2. Pow(i - 1) \in Nat \ {0} /\ Pow((i - 1) + 1) = 2 * Pow(i - 1)
    BY <2>1, Powers
  <2>3. Pow(i) = 2 * Pow(i - 1)
    BY <2>1, <2>2
  <2> QED  BY <2>2, <2>3
<1>3. CASE i # WordSize
  <2>1. i \in 0 .. WordSize - 1
    BY <1>1, <1>3
  <2> QED  BY <2>1, Powers
<1> QED  BY <1>2, <1>3

\* Division with a remainder.
LEMMA Divides ==
  ASSUME NEW x \in Nat, NEW d \in Nat \ {0}
  PROVE  /\ x \div d \in Nat /\ x % d \in 0 .. d - 1 /\ x = d * (x \div d) + (x % d)
OBVIOUS

LEMMA DivisionIs ==
  ASSUME NEW d \in Nat \ {0}, NEW h \in Nat, NEW s \in 0 .. d - 1, NEW k \in Nat, NEW m \in 0 .. d - 1,
         d * h + s = d * k + m
  PROVE  h = k
<1>1. ASSUME NEW a \in Nat, NEW b \in Nat, NEW u \in 0 .. d - 1, NEW v \in 0 .. d - 1, a < b PROVE d * a + u # d * b + v
  <2>1. PICK c \in Nat : b = a + 1 + c
    <3>1. b - a - 1 \in Nat /\ b = a + 1 + (b - a - 1)
      BY <1>1
    <3> QED  BY <3>1
  <2>2. d * c \in Nat /\ d * b = d * a + d + d * c
    BY <2>1
  <2>3. d * a \in Nat
    OBVIOUS
  <2> QED  BY <2>2, <2>3
<1> QED  BY <1>1

LEMMA DividesSmall ==
  ASSUME NEW d \in Nat \ {0}, NEW z \in 0 .. d - 1
  PROVE  z \div d = 0 /\ z % d = z
<1> DEFINE e == z \div d  m == z % d
<1>1. z \in Nat
  OBVIOUS
<1>2. e \in Nat /\ m \in 0 .. d - 1 /\ z = d * e + m
  BY <1>1, Divides
<1> HIDE DEF e, m
<1>3. d * 0 + z = d * e + m
  BY <1>2
<1>4. 0 = e
  BY <1>2, <1>3, DivisionIs
<1>5. z = m
  BY <1>2, <1>4
<1> QED  BY <1>4, <1>5 DEF e, m

LEMMA DivTwice ==
  ASSUME NEW x \in Nat, NEW p \in Nat \ {0}
  PROVE  x \div (2 * p) = (x \div p) \div 2
<1> DEFINE q == x \div p  r == x % p  h == q \div 2  b == q % 2
<1>1. q \in Nat /\ r \in 0 .. p - 1 /\ x = p * q + r
  BY Divides
<1> HIDE DEF q, r
<1>2. h \in Nat /\ b \in {0, 1} /\ q = 2 * h + b
  BY <1>1
<1> HIDE DEF h, b
<1>3. 2 * p \in Nat \ {0}
  OBVIOUS
<1>4. x = (2 * p) * h + (p * b + r) /\ p * b + r \in 0 .. 2 * p - 1
  <2>1. p * b \in {0, p}
    BY <1>2
  <2>2. p * q = (2 * p) * h + p * b
    BY <1>2
  <2> QED  BY <1>1, <1>2, <2>1, <2>2
<1> DEFINE d == 2 * p  s == p * b + r  k == x \div d  m == x % d
<1>5. d \in Nat \ {0} /\ s \in 0 .. d - 1 /\ x = d * h + s
  BY <1>3, <1>4
<1>6. k \in Nat /\ m \in 0 .. d - 1 /\ x = d * k + m
  <2> HIDE DEF d
  <2> QED  BY <1>5, Divides
<1> HIDE DEF d, s, k, m
<1>7. h = k
  BY <1>2, <1>5, <1>6, DivisionIs
<1> QED  BY <1>7 DEF h, q, k, d

\* reverse: what the bits from i on add up to.
IsReversal(f, x, l) ==
  f = [i \in l .. WordSize |-> IF i = WordSize THEN 0 ELSE Bit(x, i) * Pow(WordSize - 1 - i) + f[i + 1]]
Reversal(x) == CHOOSE f : IsReversal(f, x, 0)

LEMMA ReverseIs ==
  ASSUME NEW x
  PROVE  Map!Reverse(x) = Reversal(x)[0]
BY DEF Map!Reverse, Reversal, IsReversal, Bit, Pow

LEMMA ReversalIs ==
  ASSUME NEW x
  PROVE  IsReversal(Reversal(x), x, 0)
<1> DEFINE P(k) == \E f : IsReversal(f, x, WordSize - k)
           S == {k \in Nat : ~P(k)}
<1>1. WordSize \in Nat
  BY Powers
<1>2. S = {}
  <2> SUFFICES ASSUME S # {} PROVE FALSE
    OBVIOUS
  <2>1. PICK k \in S : \A j \in S : k <= j
    BY Least
  <2>2. k \in Nat /\ ~P(k)
    BY <2>1
  <2>3. CASE k = 0
    <3> DEFINE g == [i \in WordSize .. WordSize |-> 0]
    <3>1. g = [i \in WordSize .. WordSize |-> IF i = WordSize THEN 0 ELSE Bit(x, i) * Pow(WordSize - 1 - i) + g[i + 1]]
      BY <1>1
    <3> HIDE DEF g
    <3>2. IsReversal(g, x, WordSize)
      BY <3>1 DEF IsReversal
    <3>3. WordSize - k = WordSize
      BY <1>1, <2>3
    <3> QED  BY <2>2, <3>2, <3>3
  <2>4. CASE k # 0
    <3> DEFINE l == WordSize - k
    <3>1. k - 1 \in Nat /\ k - 1 \notin S
      BY <2>1, <2>2, <2>4
    <3>2. PICK f : IsReversal(f, x, WordSize - (k - 1))
      BY <3>1
    <3>3. l \in Int /\ WordSize - (k - 1) = l + 1 /\ l < WordSize
      BY <1>1, <2>2, <2>4
    <3>4. IsReversal(f, x, l + 1)
      BY <3>2, <3>3
    <3> HIDE DEF l
    <3> DEFINE g == [i \in l .. WordSize |-> IF i = WordSize THEN 0 ELSE Bit(x, i) * Pow(WordSize - 1 - i) + f[i + 1]]
               h == [i \in l .. WordSize |-> IF i = WordSize THEN 0 ELSE Bit(x, i) * Pow(WordSize - 1 - i) + g[i + 1]]
    <3>5. ASSUME NEW i \in l + 1 .. WordSize PROVE g[i] = f[i]
      <4>1. f[i] = IF i = WordSize THEN 0 ELSE Bit(x, i) * Pow(WordSize - 1 - i) + f[i + 1]
        BY <3>4, <3>5, Zenon DEF IsReversal
      <4>2. i \in l .. WordSize
        BY <1>1, <3>3, <3>5
      <4> QED  BY <4>1, <4>2, Zenon
    <3>6. ASSUME NEW i \in l .. WordSize, i # WordSize PROVE g[i + 1] = f[i + 1]
      <4>1. i + 1 \in l + 1 .. WordSize
        BY <1>1, <3>3, <3>6
      <4> HIDE DEF g
      <4> QED  BY <3>5, <4>1
    <3>7. g = h
      <4>1. ASSUME NEW i \in l .. WordSize PROVE g[i] = h[i]
        <5>1. CASE i = WordSize
          BY <5>1, Zenon
        <5>2. CASE i # WordSize
          <6>1. g[i] = Bit(x, i) * Pow(WordSize - 1 - i) + f[i + 1] /\ h[i] = Bit(x, i) * Pow(WordSize - 1 - i) + g[i + 1]
            BY <5>2, Zenon
          <6> QED  BY <3>6, <5>2, <6>1, Zenon
        <5> QED  BY <5>1, <5>2
      <4> DEFINE a(i) == IF i = WordSize THEN 0 ELSE Bit(x, i) * Pow(WordSize - 1 - i) + f[i + 1]
                 b(i) == IF i = WordSize THEN 0 ELSE Bit(x, i) * Pow(WordSize - 1 - i) + g[i + 1]
      <4>2. g = [i \in l .. WordSize |-> a(i)] /\ h = [i \in l .. WordSize |-> b(i)]
        BY Zenon
      <4> HIDE DEF g, h, a, b
      <4>3. \A i \in l .. WordSize : a(i) = b(i)
        BY <4>1, <4>2, Zenon
      <4> QED  BY <4>2, <4>3
    <3>8. IsReversal(g, x, l)
      <4>1. h = [i \in l .. WordSize |-> IF i = WordSize THEN 0 ELSE Bit(x, i) * Pow(WordSize - 1 - i) + g[i + 1]]
        BY Zenon
      <4> HIDE DEF g, h
      <4> QED  BY <3>7, <4>1, Zenon DEF IsReversal
    <3> HIDE DEF g
    <3> QED  BY <2>2, <3>8 DEF l
  <2> QED  BY <2>3, <2>4
<1>3. P(WordSize) /\ WordSize - WordSize = 0
  BY <1>1, <1>2
<1>4. \E f : IsReversal(f, x, 0)
  BY <1>3, Zenon
<1> QED  BY <1>4, Zenon DEF Reversal

LEMMA ReversalAt ==
  ASSUME NEW x
  PROVE  /\ Reversal(x)[WordSize] = 0
         /\ \A i \in 0 .. WordSize - 1 : Reversal(x)[i] = Bit(x, i) * Pow(WordSize - 1 - i) + Reversal(x)[i + 1]
<1> DEFINE f == Reversal(x)
<1>1. WordSize \in Nat \ {0}
  BY Powers
<1>2. f = [i \in 0 .. WordSize |-> IF i = WordSize THEN 0 ELSE Bit(x, i) * Pow(WordSize - 1 - i) + f[i + 1]]
  BY ReversalIs, Zenon DEF IsReversal
<1> HIDE DEF f
<1>3. WordSize \in 0 .. WordSize /\ \A i \in 0 .. WordSize - 1 : i \in 0 .. WordSize /\ i # WordSize
  BY <1>1
<1>4. f[WordSize] = 0 /\ \A i \in 0 .. WordSize - 1 : f[i] = Bit(x, i) * Pow(WordSize - 1 - i) + f[i + 1]
  BY <1>2, <1>3, Zenon
<1> QED  BY <1>4 DEF f

LEMMA BitsAre ==
  ASSUME NEW x \in Nat, NEW i \in 0 .. WordSize - 1
  PROVE  /\ Bit(x, i) \in {0, 1} /\ x \div Pow(i) \in Nat /\ x \div Pow(i + 1) \in Nat
         /\ x \div Pow(i) = 2 * (x \div Pow(i + 1)) + Bit(x, i)
<1>1. Pow(i) \in Nat \ {0} /\ Pow(i + 1) = 2 * Pow(i)
  BY Powers
<1>2. x \div Pow(i) \in Nat /\ x \div Pow(i + 1) = (x \div Pow(i)) \div 2
  BY <1>1, Divides, DivTwice
<1> DEFINE q == x \div Pow(i)
<1> HIDE DEF q
<1>3. q \in Nat => q % 2 \in {0, 1} /\ q \div 2 \in Nat /\ q = 2 * (q \div 2) + (q % 2)
  OBVIOUS
<1> QED  BY <1>2, <1>3 DEF q, Bit

\* The bits of the reversal from i on are those of x, in the other order.
LEMMA ReversalBounds ==
  ASSUME NEW x \in Nat, NEW i \in 0 .. WordSize
  PROVE  Reversal(x)[i] \in 0 .. Pow(WordSize - i) - 1
<1> DEFINE f == Reversal(x)
           S == {k \in Nat : k <= WordSize /\ ~(f[WordSize - k] \in 0 .. Pow(k) - 1)}
<1>1. WordSize \in Nat \ {0}
  BY Powers
<1>2. S = {}
  <2> SUFFICES ASSUME S # {} PROVE FALSE
    OBVIOUS
  <2> HIDE DEF f
  <2>1. PICK k \in S : \A j \in S : k <= j
    BY Least
  <2>2. k \in Nat /\ k <= WordSize /\ ~(f[WordSize - k] \in 0 .. Pow(k) - 1)
    BY <2>1
  <2>3. CASE k = 0
    <3>1. f[WordSize] = 0 /\ Pow(0) = 1 /\ WordSize - 0 = WordSize
      BY <1>1, ReversalAt, Powers DEF f
    <3> QED  BY <2>2, <2>3, <3>1
  <2>4. CASE k # 0
    <3> DEFINE j == k - 1  i1 == WordSize - k
    <3>1. j \in Nat /\ j \notin S /\ j <= WordSize /\ j \in 0 .. WordSize - 1 /\ j + 1 = k
      BY <1>1, <2>1, <2>2, <2>4
    <3>2. f[WordSize - j] \in 0 .. Pow(j) - 1
      BY <3>1
    <3>3. i1 \in 0 .. WordSize - 1 /\ i1 + 1 = WordSize - j /\ WordSize - 1 - i1 = j
      BY <1>1, <2>2, <2>4
    <3>4. f[i1] = Bit(x, i1) * Pow(WordSize - 1 - i1) + f[i1 + 1]
      BY <3>3, ReversalAt DEF f
    <3>5. Bit(x, i1) \in {0, 1}
      BY <3>3, BitsAre
    <3>6. Pow(j) \in Nat \ {0} /\ Pow(j + 1) = 2 * Pow(j)
      BY <3>1, Powers
    <3> HIDE DEF i1, j
    <3>7. f[i1] = Bit(x, i1) * Pow(j) + f[WordSize - j]
      BY <3>3, <3>4
    <3>8. f[i1] \in 0 .. Pow(k) - 1
      BY <3>1, <3>2, <3>5, <3>6, <3>7
    <3> QED  BY <2>2, <3>8 DEF i1
  <2> QED  BY <2>3, <2>4
<1> DEFINE k == WordSize - i
<1>3. k \in Nat /\ k <= WordSize /\ WordSize - k = i
  BY <1>1
<1> HIDE DEF f, k
<1>4. f[WordSize - k] \in 0 .. Pow(k) - 1
  BY <1>2, <1>3
<1> QED  BY <1>3, <1>4 DEF f, k

LEMMA ReversalIsInjective ==
  ASSUME NEW x \in 0 .. Pow(WordSize) - 1, NEW y \in 0 .. Pow(WordSize) - 1, Map!Reverse(x) = Map!Reverse(y)
  PROVE  x = y
<1> DEFINE f == Reversal(x)  g == Reversal(y)
           S == {k \in Nat : k <= WordSize /\ f[WordSize - k] = g[WordSize - k] /\ ~(x \div Pow(WordSize - k) = y \div Pow(WordSize - k))}
<1>1. WordSize \in Nat \ {0} /\ Pow(WordSize) \in Nat \ {0}
  <2>1. WordSize \in Nat \ {0}
    BY Powers
  <2> QED  BY <2>1, PowersAreNat
<1>2. x \in Nat /\ y \in Nat
  BY <1>1
<1>3. S = {}
  <2> SUFFICES ASSUME S # {} PROVE FALSE
    OBVIOUS
  <2> HIDE DEF f, g
  <2>1. PICK k \in S : \A j \in S : k <= j
    BY Least
  <2>2. k \in Nat /\ k <= WordSize /\ f[WordSize - k] = g[WordSize - k] /\ ~(x \div Pow(WordSize - k) = y \div Pow(WordSize - k))
    BY <2>1
  <2>3. CASE k = 0
    <3>1. x \div Pow(WordSize) = 0 /\ y \div Pow(WordSize) = 0
      BY <1>1, DividesSmall
    <3>2. WordSize - k = WordSize
      BY <1>1, <2>3
    <3> QED  BY <2>2, <3>1, <3>2
  <2>4. CASE k # 0
    <3> DEFINE i == WordSize - k  j == k - 1  p == Pow(j)
    <3>1. i \in 0 .. WordSize - 1 /\ i + 1 = WordSize - j /\ WordSize - 1 - i = j /\ j \in Nat /\ j <= WordSize
          /\ j \in 0 .. WordSize - 1 /\ i + 1 \in 0 .. WordSize /\ WordSize - (i + 1) = j
      BY <1>1, <2>2, <2>4
    <3>2. j \notin S
      BY <1>1, <2>1, <2>2, <2>4
    <3>3. p \in Nat \ {0}
      BY <3>1, Powers
    <3> HIDE DEF i, j, p
    <3>4. f[i] = Bit(x, i) * p + f[i + 1] /\ g[i] = Bit(y, i) * p + g[i + 1]
      BY <3>1, ReversalAt DEF f, g, p
    <3>5. f[i + 1] \in 0 .. p - 1 /\ g[i + 1] \in 0 .. p - 1
      <4>1. f[i + 1] \in 0 .. Pow(WordSize - (i + 1)) - 1 /\ g[i + 1] \in 0 .. Pow(WordSize - (i + 1)) - 1
        BY <1>2, <3>1, ReversalBounds DEF f, g
      <4> QED  BY <3>1, <4>1 DEF p
    <3>6. /\ Bit(x, i) \in {0, 1} /\ x \div Pow(i) = 2 * (x \div Pow(i + 1)) + Bit(x, i)
          /\ Bit(y, i) \in {0, 1} /\ y \div Pow(i) = 2 * (y \div Pow(i + 1)) + Bit(y, i)
      BY <1>2, <3>1, BitsAre
    <3>7. f[i] = g[i]
      BY <2>2 DEF i
    <3>8. Bit(x, i) = Bit(y, i) /\ f[i + 1] = g[i + 1]
      BY <3>3, <3>4, <3>5, <3>6, <3>7
    <3>9. x \div Pow(i + 1) = y \div Pow(i + 1)
      BY <3>1, <3>2, <3>8
    <3>10. x \div Pow(i) = y \div Pow(i)
      BY <3>6, <3>8, <3>9
    <3> QED  BY <2>2, <3>10 DEF i
  <2> QED  BY <2>3, <2>4
<1>4. f[0] = g[0]
  BY ReverseIs
<1> HIDE DEF f, g
<1>5. WordSize \notin S /\ WordSize - WordSize = 0
  BY <1>1, <1>3
<1>6. x \div Pow(0) = y \div Pow(0)
  BY <1>1, <1>4, <1>5
<1>7. \A z \in Nat : z \div 1 = z
  OBVIOUS
<1> QED  BY <1>2, <1>6, <1>7, Powers

\* makeRegularKey sets the highest bit of the key, the lowest of its reversal.
LEMMA RegularKeyIs ==
  ASSUME NEW x \in Key
  PROVE  /\ Map!RegularKey(x) = Map!Reverse(x + Pow(WordSize - 1))
         /\ x + Pow(WordSize - 1) \in 0 .. Pow(WordSize) - 1 /\ x \in Nat /\ Map!Hash(x) = x
<1> DEFINE d == Pow(WordSize - 1)  e == Pow(WordSize)
<1>1. WordSize - 1 \in 0 .. WordSize - 1 /\ (WordSize - 1) + 1 = WordSize
  BY Powers
<1>2. d \in Nat \ {0} /\ Pow((WordSize - 1) + 1) = 2 * d /\ x \in 0 .. d - 1
  BY <1>1, Powers
<1>3. e = 2 * d
  BY <1>1, <1>2
<1>4. Map!Hash(x) = x % e /\ Map!RegularKey(x) = Map!Reverse((Map!Hash(x) % d) + d)
  BY DEF Map!Hash, Map!RegularKey, Pow
<1> HIDE DEF d, e
<1>5. x \in 0 .. e - 1 /\ e \in Nat \ {0} /\ x + d \in 0 .. e - 1 /\ x \in Nat
  BY <1>2, <1>3
<1>6. x % e = x
  BY <1>5, DividesSmall
<1>7. x % d = x
  BY <1>2, DividesSmall
<1>8. Map!RegularKey(x) = Map!Reverse(x + d)
  BY <1>4, <1>6, <1>7
<1> QED  BY <1>4, <1>5, <1>6, <1>8 DEF d, e

LEMMA RegularKeysAre ==
  ASSUME NEW x \in Key
  PROVE  Map!RegularKey(x) \in Nat \ {0} /\ Map!HeadOf(Map!Bucket(x)) \in {0, 1}
<1> DEFINE z == x + Pow(WordSize - 1)  f == Reversal(z)
           S == {k \in Nat : k <= WordSize - 1 /\ ~(f[WordSize - 1 - k] >= 1)}
<1>1. WordSize \in Nat \ {0}
  BY Powers
<1>2. z \in Nat /\ Map!RegularKey(x) = f[0] /\ x \in Nat /\ Map!Hash(x) = x
  BY RegularKeyIs, ReverseIs
<1>3. \A i \in 0 .. WordSize : f[i] \in Nat
  <2>1. ASSUME NEW i \in 0 .. WordSize PROVE f[i] \in Nat
    <3>1. WordSize - i \in 0 .. WordSize
      BY <1>1
    <3>2. Pow(WordSize - i) \in Nat \ {0}
      BY <3>1, PowersAreNat
    <3>3. f[i] \in 0 .. Pow(WordSize - i) - 1
      BY <1>2, ReversalBounds
    <3> HIDE DEF f
    <3> QED  BY <3>2, <3>3
  <2> HIDE DEF f
  <2> QED  BY <2>1
<1>4. Bit(z, WordSize - 1) = 1 /\ Pow(0) = 1
  <2> DEFINE d == Pow(WordSize - 1)
  <2>1. WordSize - 1 \in 0 .. WordSize - 1 /\ x \in 0 .. d - 1
    BY <1>1, Powers
  <2>2. d \in Nat \ {0} /\ z = x + d
    BY <2>1, Powers
  <2>3. Bit(z, WordSize - 1) = (z \div d) % 2
    BY DEF Bit
  <2> HIDE DEF d, z
  <2> DEFINE e == z \div d  m == z % d
  <2>4. e \in Nat /\ m \in 0 .. d - 1 /\ z = d * e + m
    BY <1>2, <2>2, Divides
  <2> HIDE DEF e, m
  <2>5. d * 1 + x = d * e + m
    BY <2>1, <2>2, <2>4
  <2>6. 1 = e
    BY <1>2, <2>1, <2>2, <2>4, <2>5, DivisionIs
  <2> QED  BY <2>3, <2>6, Powers DEF e
<1> HIDE DEF z, f
<1>5. S = {}
  <2> SUFFICES ASSUME S # {} PROVE FALSE
    OBVIOUS
  <2>1. PICK k \in S : \A j \in S : k <= j
    BY Least
  <2>2. k \in Nat /\ k <= WordSize - 1 /\ ~(f[WordSize - 1 - k] >= 1)
    BY <2>1
  <2> DEFINE i == WordSize - 1 - k
  <2>3. i \in 0 .. WordSize - 1 /\ i \in 0 .. WordSize /\ i + 1 \in 0 .. WordSize /\ WordSize - 1 - i = k /\ k \in 0 .. WordSize - 1
    BY <1>1, <2>2
  <2>4. f[i] = Bit(z, i) * Pow(WordSize - 1 - i) + f[i + 1]
    BY <2>3, ReversalAt DEF f
  <2>5. Bit(z, i) \in {0, 1}
    BY <1>2, <2>3, BitsAre
  <2>6. Pow(WordSize - 1 - i) \in Nat
    BY <2>3, Powers
  <2>7. f[i] >= f[i + 1]
    <3>1. f[i + 1] \in Nat
      BY <1>3, <2>3
    <3> HIDE DEF i
    <3> QED  BY <2>4, <2>5, <2>6, <3>1
  <2>8. CASE k = 0
    <3>1. i = WordSize - 1 /\ WordSize - 1 - i = 0 /\ i + 1 = WordSize
      BY <1>1, <2>8
    <3>2. f[i] = 1
      BY <1>4, <2>4, <3>1, ReversalAt DEF f
    <3> QED  BY <2>2, <3>2
  <2>9. CASE k # 0
    <3>1. k - 1 \notin S /\ k - 1 \in Nat /\ k - 1 <= WordSize - 1 /\ WordSize - 1 - (k - 1) = i + 1
      BY <1>1, <2>1, <2>2, <2>9
    <3>2. f[i + 1] >= 1 /\ f[i + 1] \in Nat /\ f[i] \in Nat
      BY <1>3, <2>3, <3>1
    <3> QED  BY <2>2, <2>7, <3>2
  <2> QED  BY <2>8, <2>9
<1>6. Map!RegularKey(x) \in Nat \ {0}
  <2>1. WordSize - 1 \in Nat /\ WordSize - 1 - (WordSize - 1) = 0 /\ 0 \in 0 .. WordSize
    BY <1>1
  <2>2. f[0] >= 1
    <3> DEFINE k == WordSize - 1
    <3>1. k \in Nat /\ k <= WordSize - 1 /\ WordSize - 1 - k = 0
      BY <2>1
    <3>2. k \notin S
      BY <1>5
    <3>3. k \in S <=> ~(f[WordSize - 1 - k] >= 1)
      BY <3>1
    <3> HIDE DEF S
    <3> QED  BY <3>1, <3>2, <3>3
  <2> QED  BY <1>2, <1>3, <2>1, <2>2
<1>7. Map!HeadOf(Map!Bucket(x)) \in {0, 1}
  <2>1. Map!HeadOf(Map!Bucket(x)) = x % 2
    BY <1>2 DEF Map!HeadOf, Map!Bucket
  <2> QED  BY <1>2, <2>1
<1> QED  BY <1>6, <1>7

\* No two keys are confused.
LEMMA RegularKeysDiffer ==
  ASSUME NEW x \in Key, NEW y \in Key, Map!RegularKey(x) = Map!RegularKey(y)
  PROVE  x = y
<1> DEFINE d == Pow(WordSize - 1)
<1>1. WordSize - 1 \in 0 .. WordSize - 1
  BY Powers
<1>2. d \in Nat
  BY <1>1, Powers
<1>3. x + d = y + d /\ x \in Nat /\ y \in Nat
  BY RegularKeyIs, ReversalIsInjective
<1> QED  BY <1>2, <1>3

\* The calls whose results are not there yet: a call that adds a node to the
\* map returns next.
MapOpen == {c \in Thread \X (1 .. MaxNodes) : c[2] < left[c[1]] \/ (c[2] = left[c[1]] /\ "value" \notin DOMAIN loc[c[1]])}

MapRoom ==
  /\ DOMAIN loc = Thread /\ DOMAIN call = Thread /\ left \in [Thread -> 0 .. MaxNodes]
  /\ \A t \in Thread : ~At(t, "idle") => left[t] > 0
  /\ mem.made \in Nat /\ mem.made + Cardinality(MapOpen) <= MaxNodes

LEMMA MapOpenIsFinite ==
  IsFiniteSet(MapOpen) /\ Cardinality(MapOpen) \in Nat
<1>1. IsFiniteSet(Thread) /\ MaxNodes \in Nat
  BY LockFreeAssumption
<1>2. IsFiniteSet(1 .. MaxNodes)
  BY <1>1, FS_Interval
<1>3. IsFiniteSet(Thread \X (1 .. MaxNodes))
  BY <1>1, <1>2, FS_Product
<1>4. MapOpen \subseteq Thread \X (1 .. MaxNodes)
  BY DEF MapOpen
<1>5. IsFiniteSet(MapOpen)
  BY <1>3, <1>4, FS_Subset
<1> QED  BY <1>5, FS_CardinalityType

LEMMA MapRoomStarts ==
  ASSUME Init, chosen = "hashmap", mem.made = 0
  PROVE  MapRoom
<1>1. 0 \in Prefill \union {0} /\ MaxNodes \in Nat /\ mem.made \in Nat /\ mem.made - 0 <= MaxNodes - MaxNodes
  BY LockFreeAssumption
<1>2. Room(MaxNodes)
  BY <1>1, RoomStarts
<1>3. \A t \in Thread : At(t, "idle") /\ "value" \notin DOMAIN loc[t]
  BY DEF Init, Idle, At
<1>4. MapOpen = Open
  BY <1>3 DEF MapOpen, Open
<1> QED  BY <1>2, <1>4 DEF Room, MapRoom

\* A step of t that returns nothing, or none.
LEMMA MapRoomStays ==
  ASSUME MapRoom, DOMAIN loc' = Thread, DOMAIN call' = Thread, mem'.made = mem.made, left' = left,
         \A t \in Thread : ("value" \in DOMAIN loc'[t] <=> "value" \in DOMAIN loc[t]) /\ (~At(t, "idle")' => left[t] > 0)
  PROVE  MapRoom'
<1>1. MapOpen' = MapOpen
  BY DEF MapOpen
<1> QED  BY <1>1 DEF MapRoom

\* The call of t takes effect.
LEMMA MapRoomReturns ==
  ASSUME MapRoom, NEW t \in Thread, left[t] > 0, "value" \notin DOMAIN loc[t], "value" \in DOMAIN loc'[t],
         DOMAIN loc' = Thread, DOMAIN call' = Thread, left' = left,
         \A u \in Thread : u # t => loc'[u] = loc[u], mem'.made \in {mem.made, mem.made + 1}
  PROVE  MapRoom'
<1> DEFINE c == <<t, left[t]>>
<1>1. left[t] \in 1 .. MaxNodes
  BY LockFreeAssumption DEF MapRoom
<1>2. c \in MapOpen
  BY <1>1 DEF MapOpen
<1>3. MapOpen' \subseteq MapOpen \ {c}
  <2> SUFFICES ASSUME NEW d \in MapOpen' PROVE d \in MapOpen \ {c}
    OBVIOUS
  <2>1. PICK u \in Thread, i \in 1 .. MaxNodes : d = <<u, i>> /\ (i < left[u] \/ (i = left[u] /\ "value" \notin DOMAIN loc'[u]))
    BY DEF MapOpen
  <2>2. CASE u = t
    BY <1>1, <2>1, <2>2 DEF MapOpen
  <2>3. CASE u # t
    BY <2>1, <2>3 DEF MapOpen
  <2> QED  BY <2>2, <2>3
<1>4. IsFiniteSet(MapOpen) /\ Cardinality(MapOpen) \in Nat
  BY MapOpenIsFinite
<1>5. IsFiniteSet(MapOpen \ {c}) /\ Cardinality(MapOpen \ {c}) = Cardinality(MapOpen) - 1
  BY <1>2, <1>4, FS_RemoveElement
<1>6. Cardinality(MapOpen') <= Cardinality(MapOpen) - 1 /\ Cardinality(MapOpen') \in Nat
  BY <1>3, <1>5, FS_Subset, FS_CardinalityType
<1>7. mem.made \in Nat /\ mem.made + Cardinality(MapOpen) <= MaxNodes /\ MaxNodes \in Nat
  BY LockFreeAssumption DEF MapRoom
<1>8. mem'.made \in Nat /\ mem'.made + Cardinality(MapOpen') <= MaxNodes
  BY <1>4, <1>6, <1>7
<1>9. \A u \in Thread : ~At(u, "idle")' => left'[u] > 0
  BY DEF MapRoom, At
<1> QED  BY <1>8, <1>9 DEF MapRoom

\* There is a node for it.
LEMMA MapRoomFor ==
  ASSUME MapRoom, NEW t \in Thread, left[t] > 0, "value" \notin DOMAIN loc[t]
  PROVE  mem.made \in Nat /\ mem.made < MaxNodes /\ MaxNodes \in Nat
<1>1. left[t] \in 1 .. MaxNodes
  BY LockFreeAssumption DEF MapRoom
<1>2. <<t, left[t]>> \in MapOpen
  BY <1>1 DEF MapOpen
<1>3. Cardinality(MapOpen) # 0 /\ Cardinality(MapOpen) \in Nat
  <2>1. IsFiniteSet(MapOpen) /\ Cardinality(MapOpen) \in Nat
    BY MapOpenIsFinite
  <2> QED  BY <1>2, <2>1, FS_EmptySet
<1> QED  BY <1>3, LockFreeAssumption DEF MapRoom

\* The worker leaves a call that has taken effect.
LEMMA MapRoomLeaves ==
  ASSUME MapRoom, NEW t \in Thread, left[t] > 0, "value" \in DOMAIN loc[t], "value" \notin DOMAIN loc'[t],
         loc'[t].pc = "idle", DOMAIN loc' = Thread, DOMAIN call' = Thread, left' = [left EXCEPT ![t] = @ - 1],
         \A u \in Thread : u # t => loc'[u] = loc[u], mem'.made = mem.made
  PROVE  MapRoom'
<1>1. left \in [Thread -> 0 .. MaxNodes] /\ left[t] \in 1 .. MaxNodes /\ MaxNodes \in Nat
  BY LockFreeAssumption DEF MapRoom
<1>2. left' \in [Thread -> 0 .. MaxNodes] /\ left'[t] = left[t] - 1 /\ \A u \in Thread : u # t => left'[u] = left[u]
  BY <1>1
<1>3. MapOpen' = MapOpen
  <2>1. ASSUME NEW u \in Thread, NEW i \in 1 .. MaxNodes
        PROVE  (i < left'[u] \/ (i = left'[u] /\ "value" \notin DOMAIN loc'[u])) <=> (i < left[u] \/ (i = left[u] /\ "value" \notin DOMAIN loc[u]))
    <3>1. CASE u # t
      BY <1>2, <3>1
    <3>2. CASE u = t
      BY <1>1, <1>2, <3>2
    <3> QED  BY <3>1, <3>2
  <2> QED  BY <2>1 DEF MapOpen
<1>4. \A u \in Thread : ~At(u, "idle")' => left'[u] > 0
  BY <1>2 DEF MapRoom, At
<1> QED  BY <1>2, <1>3, <1>4 DEF MapRoom

\* The nodes of the map, and how a next word may lead.
MapLive == 0 .. mem.made + 3
Leads(m, n) == mem.key[m] < mem.key[n] \/ (mem.key[m] = mem.key[n] /\ m > n)

MapShape ==
  /\ {"ptr", "mark", "key", "made", "crashed"} \subseteq DOMAIN mem /\ mem.made \in Nat
  /\ mem.ptr \in [Map!Node -> MapLive \union {Map!Null}] /\ mem.key \in [Map!Node -> Nat]
  /\ \A n \in Map!Node : mem.ptr[n] # Map!Null => Leads(n, mem.ptr[n])
  /\ mem.key[0] = 0 /\ mem.key[1] = 0

\* The node at which a worker stands has a smaller key than its own, and what
\* it has read there led on when it was read.
Looks(t) ==
  /\ "pred" \in DOMAIN loc[t] /\ loc[t].pred \in MapLive /\ mem.key[loc[t].pred] < Map!KeyOf(t)
  /\ loc[t].pc # "next" =>
       /\ "curr" \in DOMAIN loc[t] /\ loc[t].curr \in MapLive \union {Map!Null}
       /\ loc[t].curr # Map!Null => Leads(loc[t].pred, loc[t].curr)
  /\ loc[t].pc \notin {"next", "next_mark"} => loc[t].curr # Map!Null
  /\ loc[t].pc = "splice" => Map!KeyOf(t) <= mem.key[loc[t].curr]
  /\ loc[t].pc \in {"succ_mark", "skip"} =>
       /\ "succ" \in DOMAIN loc[t] /\ loc[t].succ \in MapLive \union {Map!Null}
       /\ loc[t].succ # Map!Null => Leads(loc[t].curr, loc[t].succ)

MapFrame(t) ==
  /\ "pc" \in DOMAIN loc[t] /\ (loc[t].pc = "return" <=> "value" \in DOMAIN loc[t])
  /\ loc[t].pc # "idle" => call[t] \in {"insert", "remove", "contains"} \X {""} \X Key
  /\ loc[t].pc \notin {"idle", "return"} => Looks(t)

MapOK == MapShape /\ \A t \in Thread : MapFrame(t)

\* The operators of Frames are those of the map.
LEMMA MapFrames ==
  /\ \A t, l : Map!At(t, l) <=> loc[t].pc = l
  /\ \A t, f : Map!Go(t, f) <=> Go(t, f)
  /\ \A t, v : Map!Returns(t, v) <=> Go(t, [pc |-> "return", value |-> v])
BY DEF Map!At, Map!Go, Go, Map!Updated, Updated, Map!Returns

LEMMA MapNodes ==
  ASSUME MapShape, MapRoom
  PROVE  /\ mem.made \in Nat /\ MaxNodes \in Nat /\ mem.made <= MaxNodes
         /\ Map!Node = 0 .. MaxNodes + 3 /\ Map!Null = -1 /\ MapLive \subseteq Map!Node /\ 0 \in MapLive /\ 1 \in MapLive
<1>1. mem.made \in Nat /\ MaxNodes \in Nat /\ mem.made <= MaxNodes
  <2>1. Cardinality(MapOpen) \in Nat /\ mem.made \in Nat /\ mem.made + Cardinality(MapOpen) <= MaxNodes /\ MaxNodes \in Nat
    BY MapOpenIsFinite, LockFreeAssumption DEF MapRoom
  <2> QED  BY <2>1
<1> QED  BY <1>1 DEF Map!Node, Map!Null, MapLive

MapBegun(t) ==
  /\ MapOK /\ MapRoom /\ loc[t].pc \notin {"idle", "return"} /\ call' = call

\* A step that keeps where the next words lead.
MapSame == DOMAIN mem' = DOMAIN mem /\ mem'.ptr = mem.ptr /\ mem'.key = mem.key /\ mem'.made = mem.made

\* How a step of t changes the nodes, and what t does next.
MapEvolves == mem'.made \in {mem.made, mem.made + 1} /\ \A n \in MapLive : mem'.key[n] = mem.key[n]
MapMoves(t) ==
  /\ DOMAIN loc' = Thread /\ \A u \in Thread : u # t => loc'[u] = loc[u]
  /\ MapShape' /\ MapEvolves /\ MapFrame(t)' /\ loc'[t].pc # "idle"
  /\ mem'.made # mem.made => "value" \in DOMAIN loc'[t]

LEMMA MapFacts ==
  ASSUME NEW t \in Thread, MapBegun(t)
  PROVE  /\ MapShape /\ Looks(t) /\ "pc" \in DOMAIN loc[t] /\ "value" \notin DOMAIN loc[t]
         /\ call[t] \in {"insert", "remove", "contains"} \X {""} \X Key /\ call'[t] = call[t]
         /\ DOMAIN loc = Thread /\ DOMAIN call = Thread /\ left[t] > 0 /\ Map!KeyOf(t)' = Map!KeyOf(t)
<1>1. MapShape /\ Looks(t) /\ "pc" \in DOMAIN loc[t] /\ "value" \notin DOMAIN loc[t]
      /\ call[t] \in {"insert", "remove", "contains"} \X {""} \X Key
  BY DEF MapBegun, MapOK, MapFrame
<1>2. DOMAIN loc = Thread /\ DOMAIN call = Thread /\ left[t] > 0 /\ call' = call
  BY DEF MapBegun, MapRoom, At
<1>3. Map!KeyOf(t)' = Map!KeyOf(t)
  BY <1>2 DEF Map!KeyOf
<1> QED  BY <1>1, <1>2, <1>3

LEMMA MapKeys ==
  ASSUME NEW t \in Thread, MapBegun(t)
  PROVE  /\ Map!KeyOf(t) \in Nat \ {0} /\ Map!HeadOf(Map!Bucket(call[t][3])) \in {0, 1}
<1>1. call[t][3] \in Key
  BY MapFacts
<1> QED  BY <1>1, RegularKeysAre DEF Map!KeyOf

LEMMA MapQuiet ==
  ASSUME MapShape, MapSame
  PROVE  /\ MapShape' /\ MapEvolves /\ mem'.made = mem.made /\ MapLive' = MapLive
         /\ \A m, n : Leads(m, n)' <=> Leads(m, n)
<1>1. MapLive' = MapLive /\ \A m, n : Leads(m, n)' <=> Leads(m, n)
  BY DEF MapSame, MapLive, Leads
<1> QED  BY <1>1 DEF MapShape, MapSame, MapEvolves

LEMMA MapSames ==
  ASSUME MapShape, \/ mem' = mem
                   \/ mem' = [mem EXCEPT !.crashed = TRUE]
                   \/ \E p, m : mem' = [mem EXCEPT !.mark[p] = m]
  PROVE  MapSame
BY DEF MapSame, MapShape

\* t goes on in find.
LEMMA MapGoes ==
  ASSUME NEW t \in Thread, MapBegun(t), MapShape', MapEvolves, mem'.made = mem.made, NEW X, Goes(t, X), "pc" \in X, "value" \notin X,
         loc'[t].pc \notin {"idle", "return"}, Looks(t)'
  PROVE  MapMoves(t)
<1>1. "pc" \in DOMAIN loc'[t] /\ "value" \notin DOMAIN loc'[t]
  BY MapFacts DEF Goes
<1>2. MapFrame(t)'
  BY <1>1, MapFacts DEF MapFrame
<1> QED  BY <1>2 DEF MapMoves, Goes

LEMMA MapGoFacts ==
  ASSUME NEW t \in Thread, MapBegun(t), NEW f, Go(t, f)
  PROVE  Goes(t, DOMAIN f) /\ \A x \in DOMAIN f : loc'[t][x] = f[x]
<1>1. DOMAIN loc = Thread
  BY MapFacts
<1> QED  BY <1>1, GoFacts DEF Goes

\* The call of t takes effect.
LEMMA MapGives ==
  ASSUME NEW t \in Thread, MapBegun(t), MapShape', MapEvolves, NEW v, Map!Returns(t, v)
  PROVE  MapMoves(t)
<1> DEFINE f == [pc |-> "return", value |-> v]
<1>1. DOMAIN f = {"pc", "value"} /\ f.pc = "return"
  OBVIOUS
<1>2. Go(t, f)
  BY MapFrames
<1> HIDE DEF f
<1>3. Goes(t, DOMAIN f) /\ \A x \in DOMAIN f : loc'[t][x] = f[x]
  BY <1>2, MapGoFacts
<1>4. /\ DOMAIN loc' = Thread /\ \A u \in Thread : u # t => loc'[u] = loc[u]
      /\ "pc" \in DOMAIN loc'[t] /\ "value" \in DOMAIN loc'[t] /\ loc'[t].pc = "return"
  BY <1>1, <1>3 DEF Goes
<1>5. MapFrame(t)'
  BY <1>4, MapFacts DEF MapFrame
<1> QED  BY <1>4, <1>5 DEF MapMoves

\* find: the loads of getnext, and where it goes from a node.
LEMMA MapFound ==
  ASSUME NEW t \in Thread, MapBegun(t), mem' = mem, loc[t].pc = "next_mark", loc[t].curr # Map!Null, Map!Found(t)
  PROVE  MapMoves(t)
<1> DEFINE c == loc[t].curr
<1>1. /\ MapShape' /\ MapEvolves /\ mem'.made = mem.made /\ MapLive' = MapLive
      /\ \A m, n : Leads(m, n)' <=> Leads(m, n)
  BY MapFacts, MapSames, MapQuiet
<1>2. /\ "pred" \in DOMAIN loc[t] /\ loc[t].pred \in MapLive /\ mem.key[loc[t].pred] < Map!KeyOf(t)
      /\ "curr" \in DOMAIN loc[t] /\ c \in MapLive /\ Leads(loc[t].pred, c) /\ Map!KeyOf(t)' = Map!KeyOf(t)
  BY MapFacts DEF Looks
<1>3. mem.key[c] \in Nat /\ Map!KeyOf(t) \in Nat
  BY <1>2, MapFacts, MapNodes, MapKeys DEF MapShape, MapBegun
<1>4. CASE mem.key[c] < Map!KeyOf(t)
  <2> DEFINE f == [pc |-> "next", pred |-> c]
  <2>1. Go(t, f)
    BY <1>4, MapFrames DEF Map!Found
  <2>2. DOMAIN f = {"pc", "pred"} /\ f.pc = "next" /\ f.pred = c
    OBVIOUS
  <2> HIDE DEF f
  <2>3. Goes(t, {"pc", "pred"}) /\ loc'[t].pc = "next" /\ loc'[t].pred = c
    BY <2>1, <2>2, MapGoFacts
  <2>4. Looks(t)'
    BY <1>1, <1>2, <1>4, <2>3 DEF Looks, Goes
  <2> QED  BY <1>1, <2>3, <2>4, MapGoes
<1>5. CASE ~(mem.key[c] < Map!KeyOf(t))
  <2> DEFINE f == [pc |-> "splice"]  g == [pc |-> "snip"]
  <2>1. Go(t, f) \/ Go(t, g) \/ \E v : Map!Returns(t, v)
    <3>1. call[t][1] \in {"insert", "remove", "contains"}
      BY MapFacts
    <3> QED  BY <1>5, <3>1, MapFrames, Zenon DEF Map!Found
  <2>2. DOMAIN f = {"pc"} /\ f.pc = "splice" /\ DOMAIN g = {"pc"} /\ g.pc = "snip"
    OBVIOUS
  <2> HIDE DEF f, g
  <2>3. CASE \E v : Map!Returns(t, v)
    BY <1>1, <2>3, MapGives
  <2>4. CASE Go(t, f) \/ Go(t, g)
    <3>1. Goes(t, {"pc"}) /\ loc'[t].pc \in {"splice", "snip"}
      BY <2>2, <2>4, MapGoFacts
    <3>2. loc'[t].pred = loc[t].pred /\ loc'[t].curr = c /\ {"pred", "curr"} \subseteq DOMAIN loc'[t]
      BY <1>2, <3>1 DEF Goes
    <3>3. Looks(t)'
      <4>1. Map!KeyOf(t) <= mem.key[c]
        BY <1>3, <1>5
      <4>2. mem.key[loc[t].pred] < Map!KeyOf(t) /\ Leads(loc[t].pred, c)
        BY <1>1, <1>2
      <4> HIDE DEF c
      <4>3. c # Map!Null
        BY DEF c
      <4> QED  BY <1>1, <1>2, <3>1, <3>2, <4>1, <4>2, <4>3 DEF Looks
    <3> QED  BY <1>1, <3>1, <3>3, MapGoes
  <2> QED  BY <2>1, <2>3, <2>4
<1> QED  BY <1>4, <1>5

LEMMA MapLoads ==
  ASSUME NEW t \in Thread, MapBegun(t), mem' = mem,
         NEW f, Go(t, f), "pc" \in DOMAIN f,
         \/ loc[t].pc = "next" /\ DOMAIN f = {"pc", "curr"} /\ f.pc = "next_mark" /\ f.curr = mem.ptr[loc[t].pred]
         \/ loc[t].pc = "next_mark" /\ DOMAIN f = {"pc"} /\ f.pc = "succ" /\ loc[t].curr # Map!Null
         \/ loc[t].pc = "succ" /\ DOMAIN f = {"pc", "succ"} /\ f.pc = "succ_mark" /\ f.succ = mem.ptr[loc[t].curr]
         \/ loc[t].pc = "succ_mark" /\ DOMAIN f = {"pc", "mark"} /\ f.pc = "skip"
  PROVE  MapMoves(t)
<1>1. /\ MapShape' /\ MapEvolves /\ mem'.made = mem.made /\ MapLive' = MapLive
      /\ \A m, n : Leads(m, n)' <=> Leads(m, n)
  BY MapFacts, MapSames, MapQuiet
<1>2. Goes(t, DOMAIN f) /\ \A x \in DOMAIN f : loc'[t][x] = f[x]
  BY MapGoFacts
<1>3. Looks(t) /\ Map!KeyOf(t)' = Map!KeyOf(t) /\ mem'.key = mem.key
  BY MapFacts
<1>4. /\ MapLive \subseteq Map!Node /\ mem.ptr \in [Map!Node -> MapLive \union {Map!Null}]
      /\ \A n \in Map!Node : mem.ptr[n] # Map!Null => Leads(n, mem.ptr[n])
  BY MapFacts, MapNodes DEF MapShape, MapBegun
<1>5. "pred" \in DOMAIN loc'[t] /\ loc'[t].pred = loc[t].pred
  BY <1>2, <1>3 DEF Goes, Looks
<1>6. CASE loc[t].pc = "next" /\ DOMAIN f = {"pc", "curr"} /\ f.pc = "next_mark" /\ f.curr = mem.ptr[loc[t].pred]
  <2>1. loc'[t].pc = "next_mark" /\ "curr" \in DOMAIN loc'[t] /\ loc'[t].curr = mem.ptr[loc[t].pred]
    BY <1>2, <1>6 DEF Goes
  <2>2. Looks(t)'
    BY <1>1, <1>3, <1>4, <1>5, <2>1 DEF Looks
  <2> QED  BY <1>1, <1>2, <1>6, <2>1, <2>2, MapGoes
<1>7. CASE loc[t].pc = "next_mark" /\ DOMAIN f = {"pc"} /\ f.pc = "succ" /\ loc[t].curr # Map!Null
  <2>1. loc'[t].pc = "succ" /\ "curr" \in DOMAIN loc'[t] /\ loc'[t].curr = loc[t].curr
    BY <1>2, <1>3, <1>7 DEF Goes, Looks
  <2>2. Looks(t)'
    BY <1>1, <1>3, <1>5, <1>7, <2>1 DEF Looks
  <2> QED  BY <1>1, <1>2, <1>7, <2>1, <2>2, MapGoes
<1>8. CASE loc[t].pc = "succ" /\ DOMAIN f = {"pc", "succ"} /\ f.pc = "succ_mark" /\ f.succ = mem.ptr[loc[t].curr]
  <2>1. loc'[t].pc = "succ_mark" /\ {"curr", "succ"} \subseteq DOMAIN loc'[t] /\ loc'[t].curr = loc[t].curr /\ loc'[t].succ = mem.ptr[loc[t].curr]
    BY <1>2, <1>3, <1>8 DEF Goes, Looks
  <2>2. Looks(t)'
    BY <1>1, <1>3, <1>4, <1>5, <1>8, <2>1 DEF Looks
  <2> QED  BY <1>1, <1>2, <1>8, <2>1, <2>2, MapGoes
<1>9. CASE loc[t].pc = "succ_mark" /\ DOMAIN f = {"pc", "mark"} /\ f.pc = "skip"
  <2>1. loc'[t].pc = "skip" /\ {"curr", "succ"} \subseteq DOMAIN loc'[t] /\ loc'[t].curr = loc[t].curr /\ loc'[t].succ = loc[t].succ
    BY <1>2, <1>3, <1>9 DEF Goes, Looks
  <2>2. Looks(t)'
    BY <1>1, <1>3, <1>5, <1>9, <2>1 DEF Looks
  <2> QED  BY <1>1, <1>2, <1>9, <2>1, <2>2, MapGoes
<1> QED  BY <1>6, <1>7, <1>8, <1>9

LEMMA MapBase ==
  ASSUME NEW t \in Thread, MapBegun(t)
  PROVE  MapShape /\ MapRoom /\ MapLive \subseteq Map!Node /\ Map!Node \subseteq Int
<1>1. MapShape /\ MapRoom
  BY MapFacts DEF MapBegun
<1> QED  BY <1>1, MapNodes

LEMMA LeadsOn ==
  ASSUME MapShape, NEW m \in Map!Node, NEW n \in Map!Node, NEW k \in Map!Node, Leads(m, n), Leads(n, k), Map!Node \subseteq Int
  PROVE  Leads(m, k)
<1>1. mem.key[m] \in Nat /\ mem.key[n] \in Nat /\ mem.key[k] \in Nat /\ m \in Int /\ n \in Int /\ k \in Int
  BY DEF MapShape
<1> QED  BY <1>1 DEF Leads

\* Skipping a deleted node leads further on, whatever the node leads to by now.
LEMMA MapSkips ==
  ASSUME NEW t \in Thread, MapBegun(t), loc[t].pc = "skip", mem' = [mem EXCEPT !.ptr[loc[t].pred] = loc[t].succ],
         NEW f, Go(t, f), DOMAIN f = {"pc"}, f.pc = "skip_mark"
  PROVE  MapMoves(t)
<1> DEFINE p == loc[t].pred  c == loc[t].curr  s == loc[t].succ
<1>1. /\ "pred" \in DOMAIN loc[t] /\ p \in MapLive /\ mem.key[p] < Map!KeyOf(t)
      /\ "curr" \in DOMAIN loc[t] /\ c \in MapLive \union {Map!Null} /\ c # Map!Null /\ Leads(p, c)
      /\ s \in MapLive \union {Map!Null} /\ (s # Map!Null => Leads(c, s))
  BY MapFacts DEF Looks
<1>2. MapShape /\ MapRoom /\ MapLive \subseteq Map!Node /\ Map!Node \subseteq Int
  BY MapBase, Zenon
<1>3. s # Map!Null => Leads(p, s)
  BY <1>1, <1>2, LeadsOn
<1>4. /\ DOMAIN mem' = DOMAIN mem /\ mem'.ptr = [mem.ptr EXCEPT ![p] = s]
      /\ mem'.key = mem.key /\ mem'.made = mem.made
  BY <1>2 DEF MapShape
<1>5. MapLive' = MapLive /\ \A m, n : Leads(m, n)' <=> Leads(m, n)
  BY <1>4 DEF MapLive, Leads
<1>6. MapShape' /\ MapEvolves
  <2> HIDE DEF p, s
  <2>1. mem'.ptr \in [Map!Node -> MapLive \union {Map!Null}] /\ \A n \in Map!Node : mem'.ptr[n] # Map!Null => Leads(n, mem'.ptr[n])
    BY <1>1, <1>2, <1>3, <1>4 DEF MapShape
  <2> QED  BY <1>2, <1>4, <1>5, <2>1 DEF MapShape, MapEvolves
<1>7. Goes(t, {"pc"}) /\ loc'[t].pc = "skip_mark"
  BY MapGoFacts
<1>8. loc'[t].pred = p /\ loc'[t].curr = c /\ {"pred", "curr"} \subseteq DOMAIN loc'[t]
  BY <1>1, <1>7 DEF Goes
<1>9. Looks(t)'
  BY <1>1, <1>4, <1>5, <1>7, <1>8, MapFacts DEF Looks
<1> QED  BY <1>4, <1>6, <1>7, <1>9, MapGoes

LEMMA MapMarks ==
  ASSUME NEW t \in Thread, MapBegun(t), loc[t].pc = "skip_mark", NEW m, mem' = [mem EXCEPT !.mark[loc[t].pred] = m],
         NEW f, Go(t, f), DOMAIN f = {"pc"}, f.pc = "next"
  PROVE  MapMoves(t)
<1>1. /\ MapShape' /\ MapEvolves /\ mem'.made = mem.made /\ MapLive' = MapLive /\ mem'.key = mem.key
      /\ \A i, j : Leads(i, j)' <=> Leads(i, j)
  <2>1. MapSame
    BY MapFacts, MapSames
  <2> QED  BY <2>1, MapFacts, MapQuiet DEF MapSame
<1>2. Goes(t, {"pc"}) /\ loc'[t].pc = "next"
  BY MapGoFacts
<1>3. loc'[t].pred = loc[t].pred /\ "pred" \in DOMAIN loc'[t]
  BY <1>2, MapFacts DEF Goes, Looks
<1>4. Looks(t)'
  BY <1>1, <1>2, <1>3, MapFacts DEF Looks
<1> QED  BY <1>1, <1>2, <1>4, MapGoes

LEMMA MapCrashes ==
  ASSUME NEW t \in Thread, MapBegun(t), Map!Crash
  PROVE  MapMoves(t)
<1>1. mem' = [mem EXCEPT !.crashed = TRUE] /\ loc' = loc
  BY DEF Map!Crash
<1>2. MapSame
  BY <1>1, MapFacts, MapSames
<1>3. /\ MapShape' /\ MapEvolves /\ mem'.made = mem.made /\ MapLive' = MapLive /\ mem'.key = mem.key
      /\ \A i, j : Leads(i, j)' <=> Leads(i, j)
  BY <1>2, MapFacts, MapQuiet DEF MapSame
<1>4. loc[t].pc \notin {"idle", "return"}
  BY DEF MapBegun
<1>5. Goes(t, {"pc"}) /\ loc'[t].pc \notin {"idle", "return"}
  BY <1>1, <1>4, MapFacts DEF Goes
<1>6. Looks(t)'
  BY <1>1, <1>3, MapFacts DEF Looks
<1> QED  BY <1>3, <1>5, <1>6, MapGoes

LEMMA MapFinds ==
  ASSUME NEW t \in Thread, MapBegun(t), Map!GetNext(t)
  PROVE  MapMoves(t)
<1> DEFINE f1 == [pc |-> "next_mark", curr |-> mem.ptr[loc[t].pred]]
           f2 == [pc |-> "succ"]
           f3 == [pc |-> "succ_mark", succ |-> mem.ptr[loc[t].curr]]
           f4 == [pc |-> "skip", mark |-> mem.mark[loc[t].curr]]
           f5 == [pc |-> "skip_mark"]
           f6 == [pc |-> "next"]
<1>1. \/ mem' = mem /\ loc[t].pc = "next" /\ Go(t, f1)
      \/ mem' = mem /\ loc[t].pc = "next_mark" /\ loc[t].curr # Map!Null /\ Go(t, f2)
      \/ mem' = mem /\ loc[t].pc = "next_mark" /\ loc[t].curr # Map!Null /\ Map!Found(t)
      \/ mem' = mem /\ loc[t].pc = "succ" /\ Go(t, f3)
      \/ mem' = mem /\ loc[t].pc = "succ_mark" /\ Go(t, f4)
      \/ Map!Crash
      \/ loc[t].pc = "skip" /\ mem' = [mem EXCEPT !.ptr[loc[t].pred] = loc[t].succ] /\ Go(t, f5)
      \/ loc[t].pc = "skip_mark" /\ mem' = [mem EXCEPT !.mark[loc[t].pred] = loc[t].mark] /\ Go(t, f6)
  BY MapFrames, Zenon DEF Map!GetNext
<1>2. /\ DOMAIN f1 = {"pc", "curr"} /\ f1.pc = "next_mark" /\ f1.curr = mem.ptr[loc[t].pred]
      /\ DOMAIN f2 = {"pc"} /\ f2.pc = "succ"
      /\ DOMAIN f3 = {"pc", "succ"} /\ f3.pc = "succ_mark" /\ f3.succ = mem.ptr[loc[t].curr]
      /\ DOMAIN f4 = {"pc", "mark"} /\ f4.pc = "skip"
      /\ DOMAIN f5 = {"pc"} /\ f5.pc = "skip_mark"
      /\ DOMAIN f6 = {"pc"} /\ f6.pc = "next"
  OBVIOUS
<1> HIDE DEF f1, f2, f3, f4, f5, f6
<1>3. CASE mem' = mem /\ loc[t].pc = "next" /\ Go(t, f1)
  BY <1>2, <1>3, MapLoads
<1>4. CASE mem' = mem /\ loc[t].pc = "next_mark" /\ loc[t].curr # Map!Null /\ Go(t, f2)
  BY <1>2, <1>4, MapLoads
<1>5. CASE mem' = mem /\ loc[t].pc = "next_mark" /\ loc[t].curr # Map!Null /\ Map!Found(t)
  BY <1>5, MapFound
<1>6. CASE mem' = mem /\ loc[t].pc = "succ" /\ Go(t, f3)
  BY <1>2, <1>6, MapLoads
<1>7. CASE mem' = mem /\ loc[t].pc = "succ_mark" /\ Go(t, f4)
  BY <1>2, <1>7, MapLoads
<1>8. CASE Map!Crash
  BY <1>8, MapCrashes
<1>9. CASE loc[t].pc = "skip" /\ mem' = [mem EXCEPT !.ptr[loc[t].pred] = loc[t].succ] /\ Go(t, f5)
  BY <1>2, <1>9, MapSkips, Zenon
<1>10. CASE loc[t].pc = "skip_mark" /\ mem' = [mem EXCEPT !.mark[loc[t].pred] = loc[t].mark] /\ Go(t, f6)
  BY <1>2, <1>10, MapMarks, Zenon
<1> QED  BY <1>1, <1>3, <1>4, <1>5, <1>6, <1>7, <1>8, <1>9, <1>10

\* A node is spliced in where its key belongs; if the word has changed, the
\* search starts again.
LEMMA MapSplices ==
  ASSUME NEW t \in Thread, MapBegun(t), loc[t].pc = "splice", NEW n, n = mem.made + 4,
         mem' = [mem EXCEPT !.made = @ + 1, !.key[n] = Map!KeyOf(t), !.ptr[n] = loc[t].curr, !.ptr[loc[t].pred] = n],
         Map!Returns(t, TRUE)
  PROVE  MapMoves(t)
<1> DEFINE p == loc[t].pred  c == loc[t].curr  k == Map!KeyOf(t)
<1>1. /\ p \in MapLive /\ mem.key[p] < k /\ c \in MapLive /\ k <= mem.key[c] /\ k \in Nat
  <2>1. Looks(t) /\ k \in Nat
    BY MapFacts, MapKeys, Zenon
  <2> QED  BY <2>1 DEF Looks
<1>2. MapShape /\ MapRoom /\ MapLive \subseteq Map!Node /\ Map!Node \subseteq Int
  BY MapBase, Zenon
<1>3. mem.made \in Nat /\ mem.made < MaxNodes /\ MaxNodes \in Nat
  <2>1. left[t] > 0 /\ "value" \notin DOMAIN loc[t]
    BY MapFacts, Zenon
  <2> QED  BY <1>2, <2>1, MapRoomFor, Zenon
<1>4. n \in Map!Node /\ n \notin MapLive /\ n # Map!Null /\ n \in Nat /\ Map!Null \notin MapLive
  BY <1>3 DEF Map!Node, MapLive, Map!Null
<1>5. /\ mem'.made = mem.made + 1 /\ DOMAIN mem' = DOMAIN mem
      /\ mem'.key = [mem.key EXCEPT ![n] = k]
      /\ mem'.ptr = [[mem.ptr EXCEPT ![n] = c] EXCEPT ![p] = n]
  <2> HIDE DEF p, c, k
  <2>1. mem' = [mem EXCEPT !.made = @ + 1, !.key[n] = k, !.ptr[n] = c, !.ptr[p] = n]
    BY DEF p, c, k
  <2> QED  BY <1>2, <2>1 DEF MapShape
<1> HIDE DEF p, c, k
<1>6. MapLive' = MapLive \union {n} /\ \A m \in MapLive : mem'.key[m] = mem.key[m]
  <2>1. MapLive' = MapLive \union {n}
    BY <1>3, <1>5 DEF MapLive
  <2> QED  BY <1>2, <1>4, <1>5, <2>1 DEF MapShape
<1>7. MapEvolves
  BY <1>5, <1>6 DEF MapEvolves
<1>8. MapShape'
  <2>1. mem'.key \in [Map!Node -> Nat] /\ mem'.key[n] = k /\ \A m \in Map!Node : m # n => mem'.key[m] = mem.key[m]
    BY <1>1, <1>2, <1>4, <1>5 DEF MapShape
  <2>2. /\ mem'.ptr \in [Map!Node -> MapLive' \union {Map!Null}] /\ p # n /\ mem'.ptr[p] = n /\ mem'.ptr[n] = c
        /\ \A m \in Map!Node : m # n /\ m # p => mem'.ptr[m] = mem.ptr[m]
    BY <1>1, <1>2, <1>4, <1>5, <1>6 DEF MapShape
  <2>3. ASSUME NEW m \in Map!Node, mem'.ptr[m] # Map!Null
        PROVE  mem'.key[m] < mem'.key[mem'.ptr[m]] \/ (mem'.key[m] = mem'.key[mem'.ptr[m]] /\ m > mem'.ptr[m])
    <3>1. CASE m = n
      <4>1. mem'.ptr[m] = c /\ mem'.key[m] = k /\ mem'.key[c] = mem.key[c] /\ mem.key[c] \in Nat
        BY <1>1, <1>2, <1>6, <2>1, <2>2, <3>1 DEF MapShape
      <4>2. n > c
        BY <1>1, <1>3 DEF MapLive
      <4>3. k < mem.key[c] \/ k = mem.key[c]
        BY <1>1, <4>1
      <4> QED  BY <3>1, <4>1, <4>2, <4>3
    <3>2. CASE m = p
      BY <1>1, <1>6, <2>1, <2>2, <3>2
    <3>3. CASE m # n /\ m # p
      <4>1. mem'.ptr[m] = mem.ptr[m] /\ mem.ptr[m] \in MapLive /\ Leads(m, mem.ptr[m]) /\ mem'.key[m] = mem.key[m]
        BY <1>2, <2>1, <2>2, <2>3, <3>3 DEF MapShape
      <4>2. mem'.key[mem.ptr[m]] = mem.key[mem.ptr[m]]
        BY <1>6, <4>1
      <4> QED  BY <4>1, <4>2 DEF Leads
    <3> QED  BY <3>1, <3>2, <3>3
  <2>4. mem'.key[0] = 0 /\ mem'.key[1] = 0
    <3>1. 0 \in MapLive /\ 1 \in MapLive
      BY <1>2, MapNodes
    <3> QED  BY <1>2, <1>6, <3>1 DEF MapShape
  <2>5. mem'.made \in Nat
    BY <1>3, <1>5
  <2>6. \A m \in Map!Node : (mem.ptr[m] # Map!Null => Leads(m, mem.ptr[m]))'
    BY <2>3 DEF Leads
  <2> QED  BY <1>2, <1>5, <2>1, <2>2, <2>4, <2>5, <2>6 DEF MapShape
<1> QED  BY <1>7, <1>8, MapGives, Zenon

LEMMA MapRetries ==
  ASSUME NEW t \in Thread, MapBegun(t), mem' = mem,
         NEW f, Go(t, f), DOMAIN f = {"pc", "pred"}, f.pc = "next", f.pred = Map!HeadOf(Map!Bucket(call[t][3]))
  PROVE  MapMoves(t)
<1>1. MapSame
  BY MapFacts, MapSames
<1>2. /\ MapShape' /\ MapEvolves /\ mem'.made = mem.made /\ MapLive' = MapLive
  BY <1>1, MapFacts, MapQuiet
<1>3. Goes(t, {"pc", "pred"}) /\ loc'[t].pc = "next" /\ loc'[t].pred \in {0, 1} /\ "pred" \in DOMAIN loc'[t]
  <2>1. Goes(t, DOMAIN f) /\ \A x \in DOMAIN f : loc'[t][x] = f[x]
    BY MapGoFacts
  <2> QED  BY <2>1, MapKeys DEF Goes
<1>4. loc'[t].pred \in MapLive
  BY <1>3, MapBase, MapNodes
<1>5. mem.key[loc'[t].pred] < Map!KeyOf(t)
  <2>1. mem.key[loc'[t].pred] = 0
    BY <1>3, MapBase DEF MapShape
  <2> QED  BY <2>1, MapKeys
<1>6. Looks(t)'
  BY <1>2, <1>3, <1>4, <1>5, MapFacts DEF Looks
<1> QED  BY <1>2, <1>3, <1>6, MapGoes

LEMMA MapSwaps ==
  ASSUME NEW t \in Thread, MapBegun(t), Map!Splice(t) \/ Map!Snip(t)
  PROVE  MapMoves(t)
<1> DEFINE f == [pc |-> "next", pred |-> Map!HeadOf(Map!Bucket(call[t][3]))]  n == mem.made + 4
           spliced == [mem EXCEPT !.made = @ + 1, !.key[n] = Map!KeyOf(t), !.ptr[n] = loc[t].curr, !.ptr[loc[t].pred] = n]
           snipped == [mem EXCEPT !.mark[loc[t].pred] = TRUE]
<1>1. \/ loc[t].pc = "splice" /\ Map!Cas(t, spliced)
      \/ Map!Cas(t, snipped)
  BY MapFrames, Zenon DEF Map!Splice, Map!Snip
<1>2. ASSUME NEW m, Map!Cas(t, m) PROVE (mem' = m /\ Map!Returns(t, TRUE)) \/ (mem' = mem /\ Go(t, f))
  BY <1>2, MapFrames, Zenon DEF Map!Cas
<1>3. DOMAIN f = {"pc", "pred"} /\ f.pc = "next" /\ f.pred = Map!HeadOf(Map!Bucket(call[t][3]))
  OBVIOUS
<1> HIDE DEF f, spliced, snipped
<1>4. \/ loc[t].pc = "splice" /\ mem' = spliced /\ Map!Returns(t, TRUE)
      \/ mem' = snipped /\ Map!Returns(t, TRUE)
      \/ mem' = mem /\ Go(t, f)
  BY <1>1, <1>2
<1>5. CASE loc[t].pc = "splice" /\ mem' = spliced /\ Map!Returns(t, TRUE)
  BY <1>5, MapSplices, Zenon DEF spliced
<1>6. CASE mem' = snipped /\ Map!Returns(t, TRUE)
  <2>1. MapSame
    <3>1. \E p, m : mem' = [mem EXCEPT !.mark[p] = m]
      BY <1>6, Zenon DEF snipped
    <3> QED  BY <3>1, MapFacts, MapSames, Zenon
  <2>2. MapShape' /\ MapEvolves
    BY <2>1, MapFacts, MapQuiet
  <2> QED  BY <1>6, <2>2, MapGives, Zenon
<1>7. CASE mem' = mem /\ Go(t, f)
  BY <1>3, <1>7, MapRetries, Zenon
<1> QED  BY <1>4, <1>5, <1>6, <1>7

\* What the other workers have does not depend on t.
LEMMA MapOthers ==
  ASSUME MapOK, MapRoom, MapShape', MapEvolves, NEW u \in Thread, loc'[u] = loc[u], call'[u] = call[u]
  PROVE  MapFrame(u)'
<1>1. MapFrame(u) /\ MapShape
  BY DEF MapOK
<1>2. MapLive \subseteq MapLive' /\ Map!Null \notin MapLive
  <2>1. mem.made \in Nat /\ mem'.made \in {mem.made, mem.made + 1} /\ Map!Null = -1
    BY <1>1 DEF MapShape, MapEvolves, Map!Null
  <2> QED  BY <2>1 DEF MapLive
<1>3. \A m, n \in MapLive : mem'.key[m] = mem.key[m] /\ (Leads(m, n) => (mem'.key[m] < mem'.key[n] \/ (mem'.key[m] = mem'.key[n] /\ m > n)))
  BY DEF MapEvolves, Leads
<1>4. \A m, n \in MapLive : Leads(m, n) => Leads(m, n)'
  BY <1>3 DEF Leads
<1>5. Map!KeyOf(u)' = Map!KeyOf(u)
  BY DEF Map!KeyOf
<1>6. ASSUME Looks(u), loc[u].pc \notin {"idle", "return"} PROVE Looks(u)'
  BY <1>2, <1>3, <1>4, <1>5, <1>6 DEF Looks
<1> QED  BY <1>1, <1>6 DEF MapFrame

LEMMA MapWork ==
  ASSUME MapOK, MapRoom, NEW t \in Thread, Map!Step(t), call' = call, left' = left
  PROVE  MapOK' /\ MapRoom'
<1>1. MapBegun(t) /\ MapMoves(t)
  <2>1. MapFrame(t)
    BY DEF MapOK
  <2>2. CASE Map!GetNext(t)
    <3>1. loc[t].pc \in {"next", "next_mark", "succ", "succ_mark", "skip", "skip_mark"}
      <4>1. \/ loc[t].pc = "next" \/ loc[t].pc = "next_mark" \/ loc[t].pc = "succ"
            \/ loc[t].pc = "succ_mark" \/ loc[t].pc = "skip" \/ loc[t].pc = "skip_mark"
        BY <2>2, MapFrames, Zenon DEF Map!GetNext
      <4> QED  BY <4>1
    <3>2. MapBegun(t)
      BY <3>1 DEF MapBegun
    <3> QED  BY <2>2, <3>2, MapFinds
  <2>3. CASE Map!Splice(t) \/ Map!Snip(t)
    <3>1. loc[t].pc = "splice" \/ loc[t].pc = "snip"
      BY <2>3, MapFrames, Zenon DEF Map!Splice, Map!Snip
    <3>2. MapBegun(t)
      BY <3>1 DEF MapBegun
    <3> QED  BY <2>3, <3>2, MapSwaps
  <2> QED  BY <2>2, <2>3 DEF Map!Step
<1>2. /\ MapShape' /\ MapEvolves /\ MapFrame(t)' /\ loc'[t].pc # "idle" /\ (mem'.made # mem.made => "value" \in DOMAIN loc'[t])
      /\ DOMAIN loc' = Thread /\ \A u \in Thread : u # t => loc'[u] = loc[u]
  BY <1>1 DEF MapMoves
<1>3. \A u \in Thread : MapFrame(u)'
  BY <1>2, MapOthers
<1>4. /\ DOMAIN call' = Thread /\ left[t] > 0 /\ "value" \notin DOMAIN loc[t]
  BY <1>1, MapFacts
<1>5. MapRoom'
  <2>1. CASE "value" \in DOMAIN loc'[t]
    BY <1>2, <1>4, <2>1, MapRoomReturns DEF MapEvolves
  <2>2. CASE "value" \notin DOMAIN loc'[t]
    <3>1. \A u \in Thread : ("value" \in DOMAIN loc'[u] <=> "value" \in DOMAIN loc[u]) /\ (~At(u, "idle")' => left[u] > 0)
      BY <1>2, <1>4, <2>2 DEF MapRoom, At
    <3> QED  BY <1>2, <1>4, <2>2, <3>1, MapRoomStays
  <2> QED  BY <2>1, <2>2
<1> QED  BY <1>2, <1>3, <1>5 DEF MapOK

LEMMA MapCall ==
  ASSUME MapOK, MapRoom, NEW t \in Thread, left[t] > 0, At(t, "idle"), left' = left,
         NEW name \in {"insert", "remove", "contains"}, NEW k \in Key, Map!Call(t, name, k)
  PROVE  MapOK' /\ MapRoom'
<1>1. /\ DOMAIN loc' = Thread /\ DOMAIN call' = Thread /\ mem' = mem
      /\ DOMAIN loc'[t] = {"pc", "pred"} /\ loc'[t].pc = "next" /\ loc'[t].pred = Map!HeadOf(Map!Bucket(k))
      /\ call'[t] \in {"insert", "remove", "contains"} \X {""} \X Key /\ call'[t][3] = k
      /\ \A u \in Thread : u # t => loc'[u] = loc[u] /\ call'[u] = call[u]
  <2> DEFINE f == [pc |-> "next", pred |-> Map!HeadOf(Map!Bucket(k))]  c == <<name, "", k>>
  <2>1. loc' = [loc EXCEPT ![t] = f] /\ call' = [call EXCEPT ![t] = c] /\ mem' = mem
    BY DEF Map!Call
  <2>2. DOMAIN f = {"pc", "pred"} /\ f.pc = "next" /\ f.pred = Map!HeadOf(Map!Bucket(k))
    OBVIOUS
  <2>3. c \in {"insert", "remove", "contains"} \X {""} \X Key /\ c[3] = k
    OBVIOUS
  <2> HIDE DEF f, c
  <2>4. DOMAIN loc = Thread /\ DOMAIN call = Thread
    BY DEF MapRoom
  <2>5. /\ DOMAIN loc' = Thread /\ DOMAIN call' = Thread /\ loc'[t] = f /\ call'[t] = c
        /\ \A u \in Thread : u # t => loc'[u] = loc[u] /\ call'[u] = call[u]
    BY <2>1, <2>4
  <2> QED  BY <2>1, <2>2, <2>3, <2>5
<1>2. MapShape /\ MapFrame(t) /\ "value" \notin DOMAIN loc[t] /\ "value" \notin DOMAIN loc'[t]
  BY <1>1 DEF MapOK, MapFrame, At
<1>3. MapShape' /\ MapEvolves /\ MapLive' = MapLive
  BY <1>1, <1>2, MapSames, MapQuiet
<1>4. MapFrame(t)'
  <2>1. loc'[t].pred \in {0, 1} /\ Map!RegularKey(k) \in Nat \ {0}
    BY <1>1, RegularKeysAre
  <2>2. loc'[t].pred \in MapLive /\ mem.key[loc'[t].pred] = 0
    BY <1>2, <2>1, MapNodes DEF MapShape
  <2>3. Map!KeyOf(t)' = Map!RegularKey(k)
    BY <1>1 DEF Map!KeyOf
  <2>4. mem.key[loc'[t].pred] < Map!KeyOf(t)'
    BY <2>1, <2>2, <2>3
  <2>5. Looks(t)'
    BY <1>1, <1>3, <2>2, <2>4 DEF Looks
  <2> QED  BY <1>1, <1>2, <2>5 DEF MapFrame
<1>5. \A u \in Thread : u # t => MapFrame(u)'
  BY <1>1, <1>3, MapOthers
<1>6. MapRoom'
  <2>1. \A u \in Thread : ("value" \in DOMAIN loc'[u] <=> "value" \in DOMAIN loc[u]) /\ (~At(u, "idle")' => left[u] > 0)
    BY <1>1, <1>2 DEF MapRoom, At
  <2> QED  BY <1>1, <2>1, MapRoomStays
<1> QED  BY <1>3, <1>4, <1>5, <1>6 DEF MapOK

LEMMA MapReturn ==
  ASSUME MapOK, MapRoom, NEW t \in Thread, Return(t)
  PROVE  MapOK' /\ MapRoom'
<1>1. /\ DOMAIN loc' = Thread /\ DOMAIN call' = Thread /\ DOMAIN loc'[t] = {"pc"} /\ loc'[t].pc = "idle" /\ loc[t].pc = "return"
      /\ left' = [left EXCEPT ![t] = @ - 1] /\ mem' = mem
      /\ \A u \in Thread : u # t => loc'[u] = loc[u] /\ call'[u] = call[u]
  BY DEF Return, Leave, Idle, At, MapRoom
<1>2. MapShape /\ "value" \in DOMAIN loc[t] /\ "value" \notin DOMAIN loc'[t] /\ left[t] > 0
  BY <1>1 DEF MapOK, MapFrame, MapRoom, At
<1>3. MapShape' /\ MapEvolves
  BY <1>1, <1>2, MapSames, MapQuiet
<1>4. MapFrame(t)'
  BY <1>1 DEF MapFrame
<1>5. \A u \in Thread : u # t => MapFrame(u)'
  BY <1>1, <1>3, MapOthers
<1>6. MapRoom'
  BY <1>1, <1>2, MapRoomLeaves
<1> QED  BY <1>3, <1>4, <1>5, <1>6 DEF MapOK

LEMMA MapStays ==
  ASSUME MapOK, MapRoom, mem' = mem, loc' = loc, call' = call, left' = left
  PROVE  MapOK' /\ MapRoom'
<1>1. MapShape'
  BY MapSames, MapQuiet DEF MapOK
<1>2. MapEvolves
  BY MapSames, MapQuiet DEF MapOK
<1>3. \A u \in Thread : MapFrame(u)'
  BY <1>1, <1>2, MapOthers
<1>4. MapRoom'
  BY MapRoomStays DEF MapRoom, At
<1> QED  BY <1>1, <1>3, <1>4 DEF MapOK

LEMMA MapStarts ==
  ASSUME Init, chosen = "hashmap"
  PROVE  MapOK /\ MapRoom
<1> DEFINE top == 2 ^ WordSize
<1>1. mem = [ptr |-> [n \in Map!Node |-> IF n \in {Map!HeadOf(0), Map!HeadOf(1)} THEN n + 2 ELSE Map!Null],
             mark |-> [n \in Map!Node |-> FALSE],
             key |-> [n \in Map!Node |-> IF n \in {Map!TailOf(0), Map!TailOf(1)} THEN top ELSE 0],
             made |-> 0, crashed |-> FALSE]
  BY DEF Init, Map!Init
<1>2. top \in Nat \ {0}
  <2>1. WordSize \in 0 .. WordSize
    BY Powers
  <2> QED  BY <2>1, PowersAreNat DEF Pow
<1> HIDE DEF top
<1>3. /\ {"ptr", "mark", "key", "made", "crashed"} \subseteq DOMAIN mem /\ mem.made = 0
      /\ mem.ptr = [n \in Map!Node |-> IF n \in {Map!HeadOf(0), Map!HeadOf(1)} THEN n + 2 ELSE Map!Null]
      /\ mem.key = [n \in Map!Node |-> IF n \in {Map!TailOf(0), Map!TailOf(1)} THEN top ELSE 0]
  BY <1>1
<1>4. MapRoom
  BY <1>3, MapRoomStarts
<1>5. MaxNodes \in Nat /\ 0 .. 3 \subseteq Map!Node /\ Map!Null = -1 /\ MapLive = 0 .. 3
  BY <1>3, LockFreeAssumption DEF Map!Node, Map!Null, MapLive
<1>6. /\ mem.ptr = [n \in Map!Node |-> IF n \in {0, 1} THEN n + 2 ELSE Map!Null]
      /\ mem.key = [n \in Map!Node |-> IF n \in {2, 3} THEN top ELSE 0]
  BY <1>3 DEF Map!HeadOf, Map!TailOf
<1>7. MapShape
  <2>1. mem.ptr \in [Map!Node -> MapLive \union {Map!Null}] /\ mem.key \in [Map!Node -> Nat]
    BY <1>2, <1>5, <1>6
  <2>2. ASSUME NEW n \in Map!Node, mem.ptr[n] # Map!Null PROVE Leads(n, mem.ptr[n])
    BY <1>2, <1>5, <1>6, <2>2 DEF Leads
  <2>3. mem.key[0] = 0 /\ mem.key[1] = 0
    BY <1>5, <1>6
  <2> QED  BY <1>3, <2>1, <2>2, <2>3 DEF MapShape
<1>8. \A t \in Thread : MapFrame(t)
  BY DEF Init, Idle, MapFrame
<1> QED  BY <1>4, <1>7, <1>8 DEF MapOK

LEMMA MapLeadsOn ==
  ASSUME MapOK
  PROVE  Map!LinksLeadOn
BY RegularKeysDiffer DEF MapOK, MapShape, Leads, Map!LinksLeadOn

-----------------------------------------------------------------------------
(***************************************************************************)
(* The program.                                                            *)
(***************************************************************************)
LinksInv ==
  /\ chosen = "sorted-list" => ListOK /\ Room(MaxNodes)
  /\ chosen = "hashmap" => MapOK /\ MapRoom

LEMMA LinksStart == Init => LinksInv
BY ListStarts, MapStarts DEF LinksInv

\* A step that changes nothing.
LEMMA LinksStay ==
  ASSUME LinksInv, UNCHANGED vars
  PROVE  LinksInv'
<1>1. chosen' = chosen /\ left' = left /\ mem' = mem /\ call' = call /\ loc' = loc
  BY DEF vars
<1>2. Open' = Open
  BY <1>1 DEF Open, At
<1>3. Room(MaxNodes) => Room(MaxNodes)'
  BY <1>1, <1>2 DEF Room, At
<1>4. chosen = "sorted-list" /\ ListOK /\ Room(MaxNodes) => ListOK'
  BY <1>1, ListStays DEF Room
<1>5. chosen = "hashmap" /\ MapOK /\ MapRoom => MapOK' /\ MapRoom'
  BY <1>1, MapStays
<1> QED  BY <1>1, <1>3, <1>4, <1>5 DEF LinksInv

LEMMA LinksStep ==
  ASSUME LinksInv, NEW t \in Thread, Step(t)
  PROVE  LinksInv'
<1>1. chosen' = chosen
  BY DEF Step, Call, Work, Return
<1>2. CASE chosen = "sorted-list"
  <2>1. ListOK /\ Room(MaxNodes)
    BY <1>2 DEF LinksInv
  <2>2. ListOK' /\ Room(MaxNodes)'
    <3>1. CASE Call(t)
      <4>1. left[t] > 0 /\ At(t, "idle") /\ left' = left /\ UseList(t)
        BY <1>2, <3>1 DEF Call, UseQueue, UseStack, UseSPSC, UseDeque, UseMap, UseTree
      <4>2. PICK name \in {"insert", "remove", "count"}, k \in ListKey : List!Call(t, name, k)
        BY <4>1 DEF UseList
      <4> QED  BY <2>1, <4>1, <4>2, ListCall
    <3>2. CASE Work(t)
      <4>1. List!Step(t) /\ call' = call /\ left' = left
        BY <1>2, <3>2 DEF Work
      <4> QED  BY <2>1, <4>1, ListWork
    <3>3. CASE Return(t)
      BY <2>1, <3>3, ListReturn
    <3> QED  BY <3>1, <3>2, <3>3 DEF Step
  <2> QED  BY <1>1, <1>2, <2>2 DEF LinksInv
<1>3. CASE chosen = "hashmap"
  <2>1. MapOK /\ MapRoom
    BY <1>3 DEF LinksInv
  <2>2. MapOK' /\ MapRoom'
    <3>1. CASE Call(t)
      <4>1. left[t] > 0 /\ At(t, "idle") /\ left' = left /\ UseMap(t)
        BY <1>3, <3>1 DEF Call, UseQueue, UseStack, UseSPSC, UseDeque, UseList, UseTree
      <4>2. PICK name \in {"insert", "remove", "contains"}, k \in Key : Map!Call(t, name, k)
        BY <4>1 DEF UseMap
      <4> QED  BY <2>1, <4>1, <4>2, MapCall
    <3>2. CASE Work(t)
      <4>1. Map!Step(t) /\ call' = call /\ left' = left
        BY <1>3, <3>2 DEF Work
      <4> QED  BY <2>1, <4>1, MapWork
    <3>3. CASE Return(t)
      BY <2>1, <3>3, MapReturn
    <3> QED  BY <3>1, <3>2, <3>3 DEF Step
  <2> QED  BY <1>1, <1>3, <2>2 DEF LinksInv
<1>4. CASE chosen \notin {"sorted-list", "hashmap"}
  BY <1>1, <1>4 DEF LinksInv
<1> QED  BY <1>2, <1>3, <1>4

\* The list and the hash map keep their shapes, whatever their workers do.
THEOREM LinksInvariant == Spec => []LinksInv
<1>1. ASSUME LinksInv, [Next]_vars PROVE LinksInv'
  <2>1. CASE UNCHANGED vars
    BY <1>1, <2>1, LinksStay
  <2>2. CASE Terminated
    BY <1>1, <2>2, LinksStay DEF Terminated
  <2>3. ASSUME NEW t \in Thread, Step(t) PROVE LinksInv'
    BY <1>1, <2>3, LinksStep
  <2> QED  BY <1>1, <2>1, <2>2, <2>3 DEF Next
<1> QED  BY LinksStart, <1>1, PTL DEF Spec

\* ListStaysWhole: a node that insertBetween has linked into the lock-free list
\* can be reached from the head until deleteNode marks it, whatever other
\* workers insert, mark and pass in fixforward, until a worker links past a
\* marked node a pointer that the node had before it was marked.
THEOREM ListIsWhole == Spec => []ListStaysWhole
<1>1. LinksInv => ListStaysWhole
  BY DEF LinksInv, ListOK, ListStaysWhole
<1> QED  BY LinksInvariant, <1>1, PTL

\* LinksLeadOn: in the lock-free hash map a next word leads to a greater key,
\* or to an older node with the same one, even when getnext stores what has
\* changed since it read it; and makeRegularKey confuses no two keys.
THEOREM LinksAlwaysLeadOn == Spec => []LinksLeadOn
<1>1. LinksInv => LinksLeadOn
  BY MapLeadsOn DEF LinksInv, LinksLeadOn
<1> QED  BY LinksInvariant, <1>1, PTL
=============================================================================
