------------------------ MODULE McasSortedListProofs ------------------------
(***************************************************************************)
(* Proofs about McasSortedList, for any number of workers, calls, keys and *)
(* nodes and both builds of mcas.h: the list stays whole, a count is       *)
(* regular, and every insert and remove takes effect at one instant.       *)
(***************************************************************************)
EXTENDS McasSortedList, TLAPS, SequenceTheorems, FiniteSetTheorems

Addr == Link
Val == {head, tail, Null} \cup Node

\* The lemmas of MCASProofs about the links; they do not mention the callers of
\* MCASCalls, its last three parameters.
L == INSTANCE MCASProofs WITH MaxWords <- 4, args <- call, status <- pc

\* The links once the qcas under way is over.
Settled == L!Settled

\* M and L are the same instance of MCAS.
LEMMA Same ==
  /\ M!MCASTypeOK <=> L!MCASTypeOK
  /\ M!LockDiscipline <=> L!LockDiscipline
  /\ M!MCASTypeOK' <=> L!MCASTypeOK'
  /\ M!LockDiscipline' <=> L!LockDiscipline'
  /\ M!NoStore <=> L!NoStore
  /\ M!Settled = L!Settled /\ M!Settled' = L!Settled'
  /\ \A t, w : M!Succeed(t, w) <=> L!Succeed(t, w)
  /\ \A t : M!StoreNext(t) <=> L!StoreNext(t)
BY DEF M!MCASTypeOK, L!MCASTypeOK, M!LockDiscipline, L!LockDiscipline,
       M!NoStore, L!NoStore, M!Settled, L!Settled, M!Stored, L!Stored,
       M!Distinct, L!Distinct, M!Succeed, L!Succeed, M!StoreNext, L!StoreNext,
       M!Words, L!Words, M!Matches, L!Matches, M!Store, L!Store,
       M!StoreAll, L!StoreAll, M!StoreFirst, L!StoreFirst, Addr, Val

LEMMA Assumed == L!MCASAssumption /\ L!MCASCallsAssumption
BY McasSortedListAssumption DEF L!MCASAssumption, L!MCASCallsAssumption

LEMMA Constants ==
  /\ head # tail /\ head # Null /\ tail # Null
  /\ head \notin Node /\ tail \notin Node /\ Null \notin Node
  /\ IsFiniteSet(Node) /\ Cardinality(Node) \in Nat /\ Node \subseteq Nat
<1>1. \A a, b : Cardinality({a, b}) # 3
  <2> SUFFICES ASSUME NEW a, NEW b PROVE Cardinality({a, b}) # 3
    OBVIOUS
  <2>1. IsFiniteSet({a}) /\ Cardinality({a}) = 1
    BY FS_Singleton
  <2>2. {a, b} = {a} \cup {b}
    OBVIOUS
  <2>3. Cardinality({a, b}) = Cardinality({a}) \/ Cardinality({a, b}) = Cardinality({a}) + 1
    BY <2>1, <2>2, FS_AddElement
  <2> QED  BY <2>1, <2>3
<1>2. head # tail /\ head # Null /\ tail # Null
  <2>1. ASSUME head = tail  PROVE FALSE
    <3>1. {head, tail, Null} = {tail, Null}
      BY <2>1
    <3> QED  BY <3>1, <1>1, McasSortedListAssumption
  <2>2. ASSUME head = Null  PROVE FALSE
    <3>1. {head, tail, Null} = {tail, Null}
      BY <2>2
    <3> QED  BY <3>1, <1>1, McasSortedListAssumption
  <2>3. ASSUME tail = Null  PROVE FALSE
    <3>1. {head, tail, Null} = {head, Null}
      BY <2>3
    <3> QED  BY <3>1, <1>1, McasSortedListAssumption
  <2> QED  BY <2>1, <2>2, <2>3
<1>3. PICK N : N = MaxPrefill + Ops * Cardinality(Thread)
  OBVIOUS
<1>4. N \in Nat
  <2>1. Cardinality(Thread) \in Nat
    BY McasSortedListAssumption, FS_CardinalityType
  <2> QED  BY <2>1, <1>3, McasSortedListAssumption
<1>5. Node = 1 .. N
  BY <1>3 DEF Node
<1>6. IsFiniteSet(Node) /\ Cardinality(Node) \in Nat
  BY <1>4, <1>5, FS_Interval, FS_CardinalityType
<1> QED  BY <1>2, <1>4, <1>5, <1>6, McasSortedListAssumption

-----------------------------------------------------------------------------
(***************************************************************************)
(* The inductive invariant: the list is a path p from the head over k      *)
(* nodes to the tail.                                                      *)
(***************************************************************************)

\* t has a node of its own, and nobody else can have come across it.
Inserting(t) == Is(t, "insert") /\ pc[t] \notin {"store", "return"}

\* The nodes any worker can have come across.
Known == {head, tail, Null} \cup ({n \in Node : data[n] # 0} \ Private)

On(k, p) == {p[i] : i \in 1 .. k}

\* The path p and its links in the memory m.
PathOK(m, k, p) ==
  /\ p[0] = head /\ p[k + 1] = tail
  /\ \A i \in 1 .. k : p[i] \in Node
  /\ \A i, j \in 0 .. k + 1 : p[i] = p[j] => i = j
  /\ \A i \in 0 .. k : m[<<p[i], "next">>] = p[i + 1] /\ m[<<p[i + 1], "prev">>] = p[i]

\* The links of all other nodes, but the ones that are still private, are null.
Off(m, x) == m[<<x, "next">>] = Null /\ m[<<x, "prev">>] = Null

RestOff(m, k, p) ==
  /\ m[<<head, "prev">>] = Null /\ m[<<tail, "next">>] = Null /\ Off(m, Null)
  /\ \A x \in Node \ (Private \cup On(k, p)) : Off(m, x)

\* Links lead to known nodes.
LinksOK(m) ==
  \A x \in Val : m[<<x, "next">>] \in Known \ {head} /\ m[<<x, "prev">>] \in Known \ {tail}

\* Only the node that a qcas is deleting has another next than the settled one.
Behind(k, p) ==
  \A x \in Val : mem[<<x, "next">>] # Settled[<<x, "next">>] =>
    /\ Settled[<<x, "next">>] = Null
    /\ \E i \in 0 .. k : mem[<<x, "next">>] = p[i + 1]

ListOK(k, p) ==
  /\ PathOK(Settled, k, p)
  /\ On(k, p) \subseteq Known
  /\ RestOff(Settled, k, p)
  /\ LinksOK(Settled) /\ LinksOK(mem)
  /\ Behind(k, p)
  /\ \A i \in 1 .. Len(todo) : todo[i].addr[1] \in Known

AtQcas == {"test_next", "test_prev", "load_prev", "load_next", "reload_prev", "qcas", "store"}

\* Where a worker can be, and the nodes it has come across.
WorkerOK(t) ==
  /\ pc[t] = "idle" <=> call[t] = <<>>
  /\ call[t] # <<>> => left[t] > 0
  /\ lock = t <=> pc[t] = "store"
  /\ curr[t] \in Known /\ prev[t] \in Known /\ next[t] \in Known
  /\ pc[t] = "idle" => curr[t] = head
  /\ pc[t] = "walk" => curr[t] # tail
  /\ pc[t] = "reload_prev" => Is(t, "insert")
  /\ pc[t] \in AtQcas => /\ Is(t, "insert") \/ Is(t, "remove")
                         /\ curr[t] # head
                         /\ Is(t, "remove") => curr[t] \in Node /\ data[curr[t]] = KeyOf(t)
  /\ Inserting(t) => data[NewNode(t)] # 0
  /\ ~Is(t, "count") => n_val[t] = 0

\* Of the nodes of S, C has those up to position i, and no node after it.
UpTo(k, p, i, C, S) ==
  /\ \A j \in 1 .. k : p[j] \in C => j <= i
  /\ \A j \in 1 .. i : p[j] \in S => p[j] \in C

\* C are the nodes t has counted: all those of stayed[t] up to the next node of
\* its walk, and none after.
Counted(t, k, p, C) ==
  /\ Cardinality(C) = n_val[t]
  /\ pc[t] = "return" => stayed[t] \subseteq C
  /\ pc[t] = "walk" =>
       \A i \in 0 .. k : mem[<<curr[t], "next">>] = p[i + 1] => UpTo(k, p, i, C, stayed[t])

CountOK(t, k, p) ==
  Is(t, "count") =>
    /\ stayed[t] \subseteq {n \in On(k, p) : data[n] = KeyOf(t)}
    /\ \E C \in SUBSET {n \in Known \cap Node : data[n] = KeyOf(t)} : Counted(t, k, p, C)

Holds(k, p) ==
  /\ ListOK(k, p)
  /\ \A t \in Thread : WorkerOK(t) /\ CountOK(t, k, p)

IInv ==
  /\ TypeOK
  /\ \A t, u \in Thread : Inserting(t) /\ Inserting(u) /\ NewNode(t) = NewNode(u) => t = u
  /\ \E k \in Nat : \E p \in [0 .. k + 1 -> Val] : Holds(k, p)

-----------------------------------------------------------------------------
(***************************************************************************)
(* Paths.                                                                  *)
(***************************************************************************)

\* The path with node n put in after position i, and with position i + 1 taken out.
WithNode(k, p, i, n) ==
  [j \in 0 .. k + 2 |-> IF j <= i THEN p[j] ELSE IF j = i + 1 THEN n ELSE p[j - 1]]
Without(k, p, i) == [j \in 0 .. k |-> IF j <= i THEN p[j] ELSE p[j + 1]]

\* The links of the memory mm are those of m but for the ones that put n in.
LinkedIn(m, mm, k, p, i, n) ==
  /\ mm[<<p[i], "next">>] = n /\ mm[<<n, "prev">>] = p[i]
  /\ mm[<<n, "next">>] = p[i + 1] /\ mm[<<p[i + 1], "prev">>] = n
  /\ \A j \in 0 .. k : j # i => /\ mm[<<p[j], "next">>] = m[<<p[j], "next">>]
                               /\ mm[<<p[j + 1], "prev">>] = m[<<p[j + 1], "prev">>]

\* pp is p with n put in after position i.
Longer(k, p, pp, i, n) ==
  /\ pp \in [0 .. (k + 1) + 1 -> Val]
  /\ On(k + 1, pp) = On(k, p) \cup {n}
  /\ pp[i + 1] = n
  /\ \A j \in 0 .. i : pp[j] = p[j]
  /\ \A j \in i + 1 .. k + 1 : pp[j + 1] = p[j]

LEMMA WithNodePath ==
  ASSUME NEW k \in Nat, NEW p \in [0 .. k + 1 -> Val], NEW m, PathOK(m, k, p),
         NEW i \in 0 .. k, NEW n \in Node, n \notin On(k, p), NEW mm, LinkedIn(m, mm, k, p, i, n)
  PROVE  LET pp == WithNode(k, p, i, n)
         IN  PathOK(mm, k + 1, pp) /\ Longer(k, p, pp, i, n)
<1> DEFINE pp == WithNode(k, p, i, n)
<1>1. /\ mm[<<p[i], "next">>] = n /\ mm[<<n, "prev">>] = p[i]
      /\ mm[<<n, "next">>] = p[i + 1] /\ mm[<<p[i + 1], "prev">>] = n
      /\ \A j \in 0 .. k : j # i => /\ mm[<<p[j], "next">>] = m[<<p[j], "next">>]
                                   /\ mm[<<p[j + 1], "prev">>] = m[<<p[j + 1], "prev">>]
  BY DEF LinkedIn
<1>2. /\ p[0] = head /\ p[k + 1] = tail
      /\ \A j \in 1 .. k : p[j] \in Node
      /\ \A j, l \in 0 .. k + 1 : p[j] = p[l] => j = l
      /\ \A j \in 0 .. k : m[<<p[j], "next">>] = p[j + 1] /\ m[<<p[j + 1], "prev">>] = p[j]
  BY DEF PathOK
<1>3. /\ \A j \in 0 .. k + 1 : p[j] # n
      /\ \A j \in 0 .. k + 1 : p[j] \in Val
  <2>1. \A j \in 1 .. k : p[j] # n
    BY DEF On
  <2>2. \A j \in 0 .. k + 1 : j = 0 \/ j = k + 1 \/ j \in 1 .. k
    OBVIOUS
  <2> QED  BY <1>2, <2>1, <2>2, Constants
<1>4. /\ \A j \in 0 .. i : pp[j] = p[j]
      /\ pp[i + 1] = n
      /\ \A j \in i + 1 .. k + 1 : pp[j + 1] = p[j]
      /\ (k + 1) + 1 = k + 2
  <2>1. \A j \in 0 .. i : j \in 0 .. k + 2
    OBVIOUS
  <2>2. i + 1 \in 0 .. k + 2 /\ ~(i + 1 <= i)
    OBVIOUS
  <2>3. \A j \in i + 1 .. k + 1 : j + 1 \in 0 .. k + 2 /\ ~(j + 1 <= i) /\ j + 1 # i + 1 /\ (j + 1) - 1 = j
    OBVIOUS
  <2> QED  BY <2>1, <2>2, <2>3 DEF WithNode
<1>5. pp \in [0 .. k + 2 -> Val]
  <2>1. n \in Val
    BY DEF Val
  <2>2. \A j \in 0 .. k + 2 : (j <= i => j \in 0 .. k + 1) /\ (~(j <= i) /\ j # i + 1 => j - 1 \in 0 .. k + 1)
    OBVIOUS
  <2> QED  BY <1>3, <2>1, <2>2 DEF WithNode
<1> HIDE DEF pp
<1>6. \A j \in 0 .. k + 2 : \/ j = i + 1
                           \/ \E a \in 0 .. k + 1 : /\ pp[j] = p[a]
                                                    /\ (a <= i /\ j = a) \/ (a > i /\ j = a + 1)
  <2> SUFFICES ASSUME NEW j \in 0 .. k + 2, j # i + 1
               PROVE  \E a \in 0 .. k + 1 : /\ pp[j] = p[a]
                                            /\ (a <= i /\ j = a) \/ (a > i /\ j = a + 1)
    OBVIOUS
  <2>1. CASE j <= i
    <3>1. j \in 0 .. i /\ j \in 0 .. k + 1
      BY <2>1
    <3> QED  BY <2>1, <3>1, <1>4
  <2>2. CASE j > i + 1
    <3>1. PICK a \in i + 1 .. k + 1 : j = a + 1
      <4>1. j - 1 \in i + 1 .. k + 1 /\ j = (j - 1) + 1
        BY <2>2
      <4> QED  BY <4>1
    <3>2. pp[j] = p[a] /\ a \in 0 .. k + 1 /\ a > i
      BY <1>4, <3>1
    <3> QED  BY <3>1, <3>2
  <2> QED  BY <2>1, <2>2
<1>7. pp[0] = head /\ pp[(k + 1) + 1] = tail
  <2>1. 0 \in 0 .. i /\ k + 1 \in i + 1 .. k + 1
    OBVIOUS
  <2> QED  BY <2>1, <1>2, <1>4
<1>8. ASSUME NEW j \in 1 .. k + 1  PROVE pp[j] = n \/ \E a \in 1 .. k : pp[j] = p[a]
  <2>1. CASE j = i + 1
    BY <2>1, <1>4
  <2>2. CASE j # i + 1
    <3>1. PICK a \in 0 .. k + 1 : pp[j] = p[a] /\ ((a <= i /\ j = a) \/ (a > i /\ j = a + 1))
      <4>1. j \in 0 .. k + 2
        OBVIOUS
      <4> QED  BY <1>6, <2>2, <4>1
    <3>2. a \in 1 .. k
      BY <3>1
    <3> QED  BY <3>1, <3>2
  <2> QED  BY <2>1, <2>2
<1>9. ASSUME NEW j \in 0 .. k + 2, NEW l \in 0 .. k + 2, pp[j] = pp[l]  PROVE j = l
  <2>1. CASE j = i + 1 \/ l = i + 1
    BY <1>3, <1>4, <1>6, <1>9, <2>1
  <2>2. CASE j # i + 1 /\ l # i + 1
    <3>1. PICK a \in 0 .. k + 1 : pp[j] = p[a] /\ ((a <= i /\ j = a) \/ (a > i /\ j = a + 1))
      BY <1>6, <2>2
    <3>2. PICK b \in 0 .. k + 1 : pp[l] = p[b] /\ ((b <= i /\ l = b) \/ (b > i /\ l = b + 1))
      BY <1>6, <2>2
    <3>3. p[a] = p[b]
      BY <1>9, <3>1, <3>2
    <3>4. a = b
      BY <1>2, <3>3
    <3> QED  BY <3>1, <3>2, <3>4
  <2> QED  BY <2>1, <2>2
<1>10. ASSUME NEW j \in 0 .. k + 1
      PROVE  mm[<<pp[j], "next">>] = pp[j + 1] /\ mm[<<pp[j + 1], "prev">>] = pp[j]
  <2>1. CASE j < i
    <3>1. j \in 0 .. i /\ j + 1 \in 0 .. i /\ j \in 0 .. k /\ j # i
      BY <2>1
    <3> QED  BY <1>1, <1>2, <1>4, <3>1
  <2>2. CASE j = i
    <3>1. i \in 0 .. i
      OBVIOUS
    <3> QED  BY <1>1, <1>4, <2>2, <3>1
  <2>3. CASE j = i + 1
    <3>1. i + 1 \in i + 1 .. k + 1
      OBVIOUS
    <3> QED  BY <1>1, <1>4, <2>3, <3>1
  <2>4. CASE j > i + 1
    <3>1. j - 1 \in i + 1 .. k + 1 /\ j \in i + 1 .. k + 1 /\ j - 1 \in 0 .. k /\ j - 1 # i /\ (j - 1) + 1 = j
      BY <2>4
    <3>2. pp[j] = p[j - 1] /\ pp[j + 1] = p[j]
      BY <1>4, <3>1
    <3>3. mm[<<p[j - 1], "next">>] = p[(j - 1) + 1] /\ mm[<<p[(j - 1) + 1], "prev">>] = p[j - 1]
      BY <1>1, <1>2, <3>1
    <3> QED  BY <3>1, <3>2, <3>3
  <2> QED  BY <2>1, <2>2, <2>3, <2>4
<1>11. On(k + 1, pp) = On(k, p) \cup {n}
  <2>1. ASSUME NEW x \in On(k + 1, pp)  PROVE x \in On(k, p) \cup {n}
    <3>1. PICK j \in 1 .. k + 1 : x = pp[j]
      BY DEF On
    <3> QED  BY <1>8, <3>1 DEF On
  <2>2. ASSUME NEW j \in 1 .. k  PROVE p[j] \in On(k + 1, pp)
    <3>1. CASE j <= i
      <4>1. j \in 0 .. i /\ j \in 1 .. k + 1
        BY <3>1
      <4> QED  BY <4>1, <1>4 DEF On
    <3>2. CASE j > i
      <4>1. j \in i + 1 .. k + 1 /\ j + 1 \in 1 .. k + 1
        BY <3>2
      <4> QED  BY <4>1, <1>4 DEF On
    <3> QED  BY <3>1, <3>2
  <2>3. n \in On(k + 1, pp)
    <3>1. i + 1 \in 1 .. k + 1
      OBVIOUS
    <3> QED  BY <1>4, <3>1 DEF On
  <2> QED  BY <2>1, <2>2, <2>3 DEF On
<1>12. PathOK(mm, k + 1, pp)
  BY <1>2, <1>4, <1>7, <1>8, <1>9, <1>10 DEF PathOK
<1> QED  BY <1>4, <1>5, <1>11, <1>12 DEF pp, Longer

\* The links of mm are those of m but for the ones that take p[i + 1] out.
LinkedOut(m, mm, k, p, i) ==
  /\ mm[<<p[i], "next">>] = p[i + 2] /\ mm[<<p[i + 2], "prev">>] = p[i]
  /\ \A j \in 0 .. k : j # i /\ j # i + 1 =>
       /\ mm[<<p[j], "next">>] = m[<<p[j], "next">>]
       /\ mm[<<p[j + 1], "prev">>] = m[<<p[j + 1], "prev">>]

\* pp is p with position i + 1 taken out.
Shorter(k, p, pp, i) ==
  /\ pp \in [0 .. (k - 1) + 1 -> Val]
  /\ On(k - 1, pp) = On(k, p) \ {p[i + 1]}
  /\ \A j \in 0 .. i : pp[j] = p[j]
  /\ \A j \in i + 1 .. k : pp[j] = p[j + 1]

LEMMA WithoutPath ==
  ASSUME NEW k \in Nat, NEW p \in [0 .. k + 1 -> Val], NEW m, PathOK(m, k, p),
         NEW i \in 0 .. k - 1, NEW mm, LinkedOut(m, mm, k, p, i)
  PROVE  LET pp == Without(k, p, i)
         IN  PathOK(mm, k - 1, pp) /\ Shorter(k, p, pp, i)
<1> DEFINE pp == Without(k, p, i)
<1>1. /\ mm[<<p[i], "next">>] = p[i + 2] /\ mm[<<p[i + 2], "prev">>] = p[i]
      /\ \A j \in 0 .. k : j # i /\ j # i + 1 =>
           /\ mm[<<p[j], "next">>] = m[<<p[j], "next">>]
           /\ mm[<<p[j + 1], "prev">>] = m[<<p[j + 1], "prev">>]
  BY DEF LinkedOut
<1>2. /\ p[0] = head /\ p[k + 1] = tail
      /\ \A j \in 1 .. k : p[j] \in Node
      /\ \A j, l \in 0 .. k + 1 : p[j] = p[l] => j = l
      /\ \A j \in 0 .. k : m[<<p[j], "next">>] = p[j + 1] /\ m[<<p[j + 1], "prev">>] = p[j]
  BY DEF PathOK
<1>3. \A j \in 0 .. k + 1 : p[j] \in Val
  OBVIOUS
<1>4. /\ \A j \in 0 .. i : pp[j] = p[j]
      /\ \A j \in i + 1 .. k : pp[j] = p[j + 1]
      /\ (k - 1) + 1 = k
  <2>1. \A j \in 0 .. i : j \in 0 .. k
    OBVIOUS
  <2>2. \A j \in i + 1 .. k : j \in 0 .. k /\ ~(j <= i)
    OBVIOUS
  <2> QED  BY <2>1, <2>2 DEF Without
<1>5. pp \in [0 .. k -> Val]
  <2>1. \A j \in 0 .. k : j \in 0 .. k + 1 /\ j + 1 \in 0 .. k + 1
    OBVIOUS
  <2> QED  BY <1>3, <2>1 DEF Without
<1>6. \A j \in 0 .. k : j \in 0 .. i \/ j \in i + 1 .. k
  OBVIOUS
<1> HIDE DEF pp
<1>7. pp[0] = head /\ pp[k] = tail
  <2>1. 0 \in 0 .. i /\ k \in i + 1 .. k
    OBVIOUS
  <2> QED  BY <2>1, <1>2, <1>4
<1>8. \A j \in 1 .. k - 1 : pp[j] \in Node
  <2>1. \A j \in 1 .. k - 1 : (j \in 0 .. i /\ j \in 1 .. k) \/ (j \in i + 1 .. k /\ j + 1 \in 1 .. k)
    OBVIOUS
  <2> QED  BY <2>1, <1>2, <1>4
<1>9. ASSUME NEW j \in 0 .. k, NEW l \in 0 .. k, pp[j] = pp[l]  PROVE j = l
  <2>1. \A x \in 0 .. i : x \in 0 .. k + 1
    OBVIOUS
  <2>2. \A x \in i + 1 .. k : x + 1 \in 0 .. k + 1
    OBVIOUS
  <2>3. \A x \in 0 .. i, y \in i + 1 .. k : x # y + 1
    OBVIOUS
  <2>4. \A x, y \in i + 1 .. k : x + 1 = y + 1 => x = y
    OBVIOUS
  <2>5. CASE j \in 0 .. i /\ l \in 0 .. i
    BY <1>2, <1>4, <1>9, <2>1, <2>5
  <2>6. CASE j \in 0 .. i /\ l \in i + 1 .. k
    <3>1. p[j] = p[l + 1] /\ j \in 0 .. k + 1 /\ l + 1 \in 0 .. k + 1 /\ j # l + 1
      BY <1>4, <1>9, <2>1, <2>2, <2>3, <2>6
    <3> QED  BY <1>2, <3>1
  <2>7. CASE j \in i + 1 .. k /\ l \in 0 .. i
    <3>1. p[l] = p[j + 1] /\ l \in 0 .. k + 1 /\ j + 1 \in 0 .. k + 1 /\ l # j + 1
      BY <1>4, <1>9, <2>1, <2>2, <2>3, <2>7
    <3> QED  BY <1>2, <3>1
  <2>8. CASE j \in i + 1 .. k /\ l \in i + 1 .. k
    <3>1. p[l + 1] = p[j + 1] /\ l + 1 \in 0 .. k + 1 /\ j + 1 \in 0 .. k + 1
      BY <1>4, <1>9, <2>2, <2>8
    <3>2. l + 1 = j + 1
      BY <1>2, <3>1
    <3> QED  BY <3>2, <2>4, <2>8
  <2> QED  BY <1>6, <2>5, <2>6, <2>7, <2>8
<1>10. ASSUME NEW j \in 0 .. k - 1
      PROVE  mm[<<pp[j], "next">>] = pp[j + 1] /\ mm[<<pp[j + 1], "prev">>] = pp[j]
  <2>1. CASE j < i
    <3>1. j \in 0 .. i /\ j + 1 \in 0 .. i /\ j \in 0 .. k /\ j # i /\ j # i + 1
      BY <2>1
    <3>2. pp[j] = p[j] /\ pp[j + 1] = p[j + 1]
      BY <1>4, <3>1
    <3>3. mm[<<p[j], "next">>] = p[j + 1] /\ mm[<<p[j + 1], "prev">>] = p[j]
      BY <1>1, <1>2, <3>1
    <3> QED  BY <3>2, <3>3
  <2>2. CASE j = i
    <3>1. i \in 0 .. i /\ i + 1 \in i + 1 .. k /\ (i + 1) + 1 = i + 2
      OBVIOUS
    <3>2. pp[i] = p[i] /\ pp[i + 1] = p[i + 2]
      BY <1>4, <3>1
    <3> QED  BY <1>1, <2>2, <3>2
  <2>3. CASE j > i
    <3>1. j + 1 \in i + 1 .. k /\ j \in i + 1 .. k /\ j + 1 \in 0 .. k /\ j + 1 # i /\ j + 1 # i + 1
      BY <2>3
    <3>2. pp[j] = p[j + 1] /\ pp[j + 1] = p[(j + 1) + 1]
      BY <1>4, <3>1
    <3>3. mm[<<p[j + 1], "next">>] = p[(j + 1) + 1] /\ mm[<<p[(j + 1) + 1], "prev">>] = p[j + 1]
      BY <1>1, <1>2, <3>1
    <3> QED  BY <3>2, <3>3
  <2> QED  BY <2>1, <2>2, <2>3
<1>11. On(k - 1, pp) = On(k, p) \ {p[i + 1]}
  <2>1. \A j \in 1 .. k - 1 : \/ j \in 0 .. i /\ j \in 1 .. k /\ j # i + 1 /\ j \in 0 .. k + 1
                              \/ j \in i + 1 .. k /\ j + 1 \in 1 .. k /\ j + 1 # i + 1 /\ j + 1 \in 0 .. k + 1
    OBVIOUS
  <2>2. \A j \in 1 .. k : \/ j \in 0 .. i /\ j \in 1 .. k - 1
                          \/ j = i + 1
                          \/ j - 1 \in i + 1 .. k /\ j - 1 \in 1 .. k - 1 /\ (j - 1) + 1 = j
    OBVIOUS
  <2>3. i + 1 \in 0 .. k + 1
    OBVIOUS
  <2>4. ASSUME NEW x \in On(k - 1, pp)  PROVE x \in On(k, p) \ {p[i + 1]}
    <3>1. PICK j \in 1 .. k - 1 : x = pp[j]
      BY DEF On
    <3>2. CASE j \in 0 .. i /\ j \in 1 .. k /\ j # i + 1 /\ j \in 0 .. k + 1
      BY <1>2, <1>4, <2>3, <3>1, <3>2 DEF On
    <3>3. CASE j \in i + 1 .. k /\ j + 1 \in 1 .. k /\ j + 1 # i + 1 /\ j + 1 \in 0 .. k + 1
      BY <1>2, <1>4, <2>3, <3>1, <3>3 DEF On
    <3> QED  BY <2>1, <3>2, <3>3
  <2>5. ASSUME NEW x \in On(k, p), x # p[i + 1]  PROVE x \in On(k - 1, pp)
    <3>1. PICK j \in 1 .. k : x = p[j]
      BY DEF On
    <3>2. CASE j \in 0 .. i /\ j \in 1 .. k - 1
      BY <1>4, <3>1, <3>2 DEF On
    <3>3. CASE j - 1 \in i + 1 .. k /\ j - 1 \in 1 .. k - 1 /\ (j - 1) + 1 = j
      <4>1. pp[j - 1] = p[j]
        BY <1>4, <3>3
      <4> QED  BY <3>1, <3>3, <4>1 DEF On
    <3> QED  BY <2>2, <2>5, <3>1, <3>2, <3>3
  <2> QED  BY <2>4, <2>5
<1>12. PathOK(mm, k - 1, pp)
  BY <1>4, <1>7, <1>8, <1>9, <1>10 DEF PathOK
<1> QED  BY <1>4, <1>5, <1>11, <1>12 DEF pp, Shorter

-----------------------------------------------------------------------------
(***************************************************************************)
(* What the invariant says of the variables.                               *)
(***************************************************************************)

CallType == {<<>>} \cup ({"insert"} \X Key \X Node) \cup ({"remove", "count"} \X Key \X {Null})

LEMMA CallTypes ==
  ASSUME NEW c \in CallType, c # <<>>
  PROVE  /\ c[1] \in {"insert", "remove", "count"} /\ c[2] \in Key
         /\ c[1] = "insert" => c[3] \in Node
         /\ c[1] # "insert" => c[3] = Null
BY DEF CallType

LEMMA TypeFacts ==
  ASSUME TypeOK
  PROVE  /\ L!MCASTypeOK /\ L!LockDiscipline
         /\ mem \in [Addr -> Val] /\ Settled \in [Addr -> Val]
         /\ lock = NoThread => Settled = mem
         /\ todo \in Seq(L!Words)
         /\ call \in [Thread -> CallType]
         /\ data \in [Node -> Key \cup {0}] /\ \A n \in Node : data[n] \in Nat
         /\ \A t \in Thread : call[t] # <<>> =>
              /\ Is(t, "insert") \/ Is(t, "remove") \/ Is(t, "count")
              /\ KeyOf(t) \in Key /\ KeyOf(t) # 0 /\ KeyOf(t) \in Nat
              /\ Is(t, "insert") => NewNode(t) \in Node
              /\ ~Is(t, "insert") => NewNode(t) = Null
<1>1. L!MCASTypeOK /\ L!LockDiscipline
  BY Same DEF TypeOK
<1>2. /\ mem \in [Addr -> Val] /\ Settled \in [Addr -> Val]
      /\ lock = NoThread => Settled = mem
      /\ todo \in Seq(L!Words)
  BY <1>1, Assumed, L!SettledFacts DEF L!MCASTypeOK, Settled
<1>3. call \in [Thread -> CallType] /\ data \in [Node -> Key \cup {0}]
  BY DEF TypeOK, CallType
<1>4. Key \subseteq Nat /\ 0 \notin Key
  BY McasSortedListAssumption
<1>5. ASSUME NEW t \in Thread, call[t] # <<>>
      PROVE  /\ Is(t, "insert") \/ Is(t, "remove") \/ Is(t, "count")
             /\ KeyOf(t) \in Key /\ KeyOf(t) # 0 /\ KeyOf(t) \in Nat
             /\ Is(t, "insert") => NewNode(t) \in Node
             /\ ~Is(t, "insert") => NewNode(t) = Null
  <2>1. call[t] \in CallType
    BY <1>3
  <2> QED  BY <1>4, <1>5, <2>1, CallTypes DEF Is, KeyOf, NewNode
<1>6. \A n \in Node : data[n] \in Nat
  <2>1. \A x \in Key \cup {0} : x \in Nat
    BY <1>4
  <2>2. \A n \in Node : data[n] \in Key \cup {0}
    BY <1>3
  <2> QED  BY <2>1, <2>2
<1> QED  BY <1>1, <1>2, <1>3, <1>5, <1>6

\* No two workers make two kinds of calls at once.
LEMMA Names ==
  ASSUME NEW t
  PROVE  /\ ~(Is(t, "insert") /\ Is(t, "remove")) /\ ~(Is(t, "insert") /\ Is(t, "count"))
         /\ ~(Is(t, "remove") /\ Is(t, "count"))
         /\ Is(t, "insert") \/ Is(t, "remove") \/ Is(t, "count") => call[t] # <<>>
BY DEF Is

LEMMA PrivateIs ==
  /\ Private = {NewNode(t) : t \in {u \in Thread : Inserting(u)}}
  /\ \A x : x \in Private <=> \E u \in Thread : Inserting(u) /\ x = NewNode(u)
  /\ \A x : x \in Private' <=> \E u \in Thread : Inserting(u)' /\ x = NewNode(u)'
BY DEF Private, Inserting

PC == {"idle", "walk", "return"} \cup AtQcas

\* The types of what belongs to the workers.
LocalTypes ==
  /\ call \in [Thread -> CallType] /\ pc \in [Thread -> PC]
  /\ curr \in [Thread -> {head, tail} \cup Node]
  /\ prev \in [Thread -> {head, Null} \cup Node]
  /\ next \in [Thread -> {tail, Null} \cup Node]
  /\ n_val \in [Thread -> 0 .. Cardinality(Node)]
  /\ left \in [Thread -> 0 .. Ops]
  /\ stayed \in [Thread -> SUBSET Node]

TypeConjuncts ==
  /\ L!MCASTypeOK /\ L!LockDiscipline
  /\ data \in [Node -> Key \cup {0}] /\ crashed \in BOOLEAN
  /\ LocalTypes

LEMMA TypeParts == (TypeOK <=> TypeConjuncts) /\ (TypeOK' <=> TypeConjuncts')
<1>1. PC = {"idle", "walk", "test_next", "test_prev", "load_prev", "load_next",
            "reload_prev", "qcas", "store", "return"}
  BY DEF PC, AtQcas
<1> QED  BY <1>1, Same DEF TypeOK, TypeConjuncts, LocalTypes, CallType

\* The positions of a path.
LEMMA PathFacts ==
  ASSUME NEW k \in Nat, NEW p \in [0 .. k + 1 -> Val], NEW m, PathOK(m, k, p)
  PROVE  /\ p[0] = head /\ p[k + 1] = tail
         /\ \A i \in 1 .. k : p[i] \in Node /\ p[i] \in On(k, p)
         /\ \A i, j \in 0 .. k + 1 : p[i] = p[j] => i = j
         /\ \A i \in 0 .. k : m[<<p[i], "next">>] = p[i + 1] /\ m[<<p[i + 1], "prev">>] = p[i]
         /\ \A x \in On(k, p) : x \in Node /\ \E i \in 1 .. k : x = p[i]
         /\ \A i \in 0 .. k + 1 : p[i] = head \/ p[i] = tail \/ p[i] \in On(k, p)
         /\ \A i \in 0 .. k : p[i] # tail /\ p[i + 1] # head /\ p[i] # p[i + 1]
         /\ \A i \in 0 .. k : /\ p[i] = head \/ p[i] \in On(k, p)
                              /\ p[i + 1] = tail \/ p[i + 1] \in On(k, p)
<1>1. /\ p[0] = head /\ p[k + 1] = tail
      /\ \A i \in 1 .. k : p[i] \in Node /\ p[i] \in On(k, p)
      /\ \A i, j \in 0 .. k + 1 : p[i] = p[j] => i = j
      /\ \A i \in 0 .. k : m[<<p[i], "next">>] = p[i + 1] /\ m[<<p[i + 1], "prev">>] = p[i]
  BY DEF PathOK, On
<1>2. \A x \in On(k, p) : x \in Node /\ \E i \in 1 .. k : x = p[i]
  BY <1>1 DEF On
<1>3. \A i \in 0 .. k : i = 0 \/ i \in 1 .. k
  OBVIOUS
<1>4. \A i \in 0 .. k : i + 1 = k + 1 \/ i + 1 \in 1 .. k
  OBVIOUS
<1>5. \A i \in 0 .. k + 1 : i = k + 1 \/ i \in 0 .. k
  OBVIOUS
<1>6. \A i \in 0 .. k : /\ p[i] = head \/ p[i] \in On(k, p)
                        /\ p[i + 1] = tail \/ p[i + 1] \in On(k, p)
  BY <1>1, <1>3, <1>4
<1>7. \A i \in 0 .. k : i \in 0 .. k + 1 /\ i + 1 \in 0 .. k + 1 /\ i # i + 1
  OBVIOUS
<1>8. \A i \in 0 .. k : p[i] # tail /\ p[i + 1] # head /\ p[i] # p[i + 1]
  BY <1>1, <1>2, <1>6, <1>7, Constants
<1> QED  BY <1>1, <1>2, <1>5, <1>6, <1>8

\* The nodes of the list are those of the path.
LEMMA LinkedIsPath ==
  ASSUME NEW k \in Nat, NEW p \in [0 .. k + 1 -> Val], TypeOK, ListOK(k, p)
  PROVE  Linked = On(k, p)
<1>1. /\ PathOK(Settled, k, p) /\ On(k, p) \subseteq Known
      /\ RestOff(Settled, k, p) /\ LinksOK(Settled)
  BY DEF ListOK
<1>2. Linked = {n \in Node : Settled[<<n, "prev">>] # Null /\ Settled[<<Settled[<<n, "prev">>], "next">>] = n}
  BY Same DEF Linked, Settled
<1>3. ASSUME NEW n \in On(k, p)  PROVE n \in Linked
  <2>1. PICK i \in 1 .. k : n = p[i] /\ n \in Node
    BY <1>1, PathFacts
  <2>2. i - 1 \in 0 .. k /\ (i - 1) + 1 = i
    OBVIOUS
  <2>3. Settled[<<p[i - 1], "next">>] = p[i] /\ Settled[<<p[i], "prev">>] = p[i - 1]
        /\ (p[i - 1] = head \/ p[i - 1] \in Node)
    BY <1>1, <2>2, PathFacts
  <2> QED  BY <1>2, <2>1, <2>3, Constants
<1>4. ASSUME NEW n \in Node, n \notin On(k, p)  PROVE n \notin Linked
  <2>1. CASE n \in Private
    <3>1. n \notin Known
      BY <2>1, Constants DEF Known
    <3>2. Settled[<<n, "prev">>] \in Val
      BY TypeFacts DEF Addr, Link, Val
    <3> QED  BY <1>1, <1>2, <3>1, <3>2 DEF LinksOK
  <2>2. CASE n \notin Private
    BY <1>1, <1>2, <1>4, <2>2 DEF RestOff, Off
  <2> QED  BY <2>1, <2>2
<1> QED  BY <1>2, <1>3, <1>4, <1>1, PathFacts

\* Where a walk goes from a known node: along the path, or nowhere.
LEMMA NextOnPath ==
  ASSUME NEW k \in Nat, NEW p \in [0 .. k + 1 -> Val], TypeOK, ListOK(k, p), NEW x \in Known, x # tail
  PROVE  mem[<<x, "next">>] = Null \/ \E i \in 0 .. k : mem[<<x, "next">>] = p[i + 1]
<1>1. PathOK(Settled, k, p) /\ RestOff(Settled, k, p) /\ Behind(k, p)
  BY DEF ListOK
<1>2. x \in Val
  BY DEF Known, Val
<1>3. CASE mem[<<x, "next">>] # Settled[<<x, "next">>]
  BY <1>1, <1>2, <1>3 DEF Behind
<1>4. CASE mem[<<x, "next">>] = Settled[<<x, "next">>]
  <2>1. CASE x = head
    <3>1. 0 \in 0 .. k
      OBVIOUS
    <3>2. Settled[<<p[0], "next">>] = p[0 + 1] /\ p[0] = head
      BY <1>1, <3>1 DEF PathOK
    <3> QED  BY <1>4, <2>1, <3>1, <3>2
  <2>2. CASE x = Null
    BY <1>1, <1>4, <2>2 DEF RestOff, Off
  <2>3. CASE x \in On(k, p)
    <3>1. PICK i \in 1 .. k : x = p[i]
      BY <1>1, <2>3, PathFacts
    <3>2. i \in 0 .. k
      OBVIOUS
    <3>3. Settled[<<p[i], "next">>] = p[i + 1]
      BY <1>1, <3>2 DEF PathOK
    <3> QED  BY <1>4, <3>1, <3>2, <3>3
  <2>4. CASE x \in Node /\ x \notin On(k, p)
    <3>1. x \notin Private
      BY <2>4, Constants DEF Known
    <3> QED  BY <1>1, <1>4, <2>4, <3>1 DEF RestOff, Off
  <2> QED  BY <2>1, <2>2, <2>3, <2>4 DEF Known
<1> QED  BY <1>3, <1>4

\* A count does not count a node twice.
LEMMA CountBound ==
  ASSUME NEW t \in Thread, NEW k, NEW p, CountOK(t, k, p), Is(t, "count")
  PROVE  n_val[t] \in 0 .. Cardinality(Node)
<1>1. PICK C \in SUBSET {n \in Known \cap Node : data[n] = KeyOf(t)} : Counted(t, k, p, C)
  BY DEF CountOK
<1>2. C \subseteq Node /\ Cardinality(C) = n_val[t]
  BY <1>1 DEF Counted, UpTo
<1>3. IsFiniteSet(C) /\ Cardinality(C) <= Cardinality(Node) /\ Cardinality(C) \in Nat
  BY <1>2, Constants, FS_Subset, FS_CardinalityType
<1> QED  BY <1>2, <1>3, Constants

-----------------------------------------------------------------------------
(***************************************************************************)
(* Steps that keep the path.                                               *)
(***************************************************************************)

\* The step leaves what belongs to u alone.
Keeps(u) ==
  /\ call'[u] = call[u] /\ pc'[u] = pc[u] /\ left'[u] = left[u] /\ n_val'[u] = n_val[u]
  /\ curr'[u] = curr[u] /\ prev'[u] = prev[u] /\ next'[u] = next[u]

LEMMA WorkerStays ==
  ASSUME TypeOK, NEW u \in Thread, WorkerOK(u), Keeps(u), lock' = u <=> lock = u,
         Known \subseteq Known', \A n \in Node : data[n] # 0 => data'[n] = data[n]
  PROVE  /\ WorkerOK(u)' /\ (Inserting(u)' <=> Inserting(u))
         /\ NewNode(u)' = NewNode(u) /\ KeyOf(u)' = KeyOf(u)
         /\ \A name : Is(u, name)' <=> Is(u, name)
<1>1. /\ NewNode(u)' = NewNode(u) /\ KeyOf(u)' = KeyOf(u)
      /\ \A name : Is(u, name)' <=> Is(u, name)
  BY DEF Keeps, NewNode, KeyOf, Is
<1>2. Inserting(u)' <=> Inserting(u)
  BY <1>1 DEF Inserting, Keeps
<1>3. curr'[u] \in Known' /\ prev'[u] \in Known' /\ next'[u] \in Known'
  BY DEF WorkerOK, Keeps
<1>4. Inserting(u) => data'[NewNode(u)] # 0
  <2>1. Inserting(u) => NewNode(u) \in Node /\ data[NewNode(u)] # 0
    BY TypeFacts, Names DEF WorkerOK, Inserting
  <2> QED  BY <2>1
<1>5. pc[u] \in AtQcas /\ Is(u, "remove") => curr[u] \in Node /\ data'[curr[u]] = KeyOf(u)
  <2>1. pc[u] \in AtQcas /\ Is(u, "remove") => curr[u] \in Node /\ data[curr[u]] = KeyOf(u) /\ KeyOf(u) # 0
    BY TypeFacts, Names DEF WorkerOK
  <2> QED  BY <2>1
<1> QED  BY <1>1, <1>2, <1>3, <1>4, <1>5 DEF WorkerOK, Keeps

LEMMA CountStays ==
  ASSUME TypeOK, NEW k \in Nat, NEW p \in [0 .. k + 1 -> Val], ListOK(k, p),
         NEW u \in Thread, CountOK(u, k, p), Keeps(u), stayed'[u] = stayed[u],
         Known \subseteq Known', \A n \in Node : data[n] # 0 => data'[n] = data[n],
         \/ mem'[<<curr[u], "next">>] = mem[<<curr[u], "next">>]
         \/ mem'[<<curr[u], "next">>] = Null
  PROVE  CountOK(u, k, p)'
<1> SUFFICES ASSUME Is(u, "count")' PROVE CountOK(u, k, p)'
  BY DEF CountOK
<1>1. Is(u, "count") /\ KeyOf(u)' = KeyOf(u) /\ KeyOf(u) # 0
  <2>1. Is(u, "count") /\ KeyOf(u)' = KeyOf(u)
    BY DEF Keeps, Is, KeyOf
  <2> QED  BY <2>1, TypeFacts, Names
<1>2. \A n \in Node : data[n] = KeyOf(u) => data'[n] = KeyOf(u)'
  BY <1>1
<1>3. PathOK(Settled, k, p)
  BY DEF ListOK
<1>4. stayed'[u] \subseteq {n \in On(k, p) : data'[n] = KeyOf(u)'}
  <2>1. stayed[u] \subseteq {n \in On(k, p) : data[n] = KeyOf(u)}
    BY <1>1 DEF CountOK
  <2> QED  BY <1>2, <1>3, <2>1, PathFacts
<1>5. PICK C \in SUBSET {n \in Known \cap Node : data[n] = KeyOf(u)} : Counted(u, k, p, C)
  BY <1>1 DEF CountOK
<1>6. C \in SUBSET {n \in Known' \cap Node : data'[n] = KeyOf(u)'}
  BY <1>2, <1>5
<1>7. Counted(u, k, p, C)'
  <2>1. \A i \in 0 .. k : p[i + 1] # Null
    BY <1>3, PathFacts, Constants
  <2>2. \A i \in 0 .. k : mem'[<<curr'[u], "next">>] = p[i + 1] => mem[<<curr[u], "next">>] = p[i + 1]
    BY <2>1 DEF Keeps
  <2>3. Cardinality(C) = n_val'[u] /\ (pc'[u] = "return" => stayed'[u] \subseteq C)
    BY <1>5 DEF Counted, UpTo, Keeps
  <2>4. pc'[u] = "walk" =>
          \A i \in 0 .. k : mem'[<<curr'[u], "next">>] = p[i + 1] =>
            /\ \A j \in 1 .. k : p[j] \in C => j <= i
            /\ \A j \in 1 .. i : p[j] \in stayed'[u] => p[j] \in C
    BY <1>5, <2>2 DEF Counted, UpTo, Keeps
  <2> QED  BY <2>3, <2>4 DEF Counted, UpTo
<1> QED  BY <1>4, <1>6, <1>7 DEF CountOK

LEMMA ListStays ==
  ASSUME TypeOK, NEW k \in Nat, NEW p \in [0 .. k + 1 -> Val], ListOK(k, p),
         Known \subseteq Known', Private \subseteq Private', Settled' = Settled,
         \A a \in Addr : mem'[a] = mem[a] \/ mem'[a] = Settled[a],
         \A i \in 1 .. Len(todo') : \E j \in 1 .. Len(todo) : todo'[i] = todo[j]
  PROVE  ListOK(k, p)'
<1>1. \A x \in Val : <<x, "next">> \in Addr /\ <<x, "prev">> \in Addr
  BY DEF Addr, Link, Val
<1>2. PathOK(Settled, k, p)' /\ On(k, p) \subseteq Known' /\ RestOff(Settled, k, p)' /\ LinksOK(Settled)'
  BY DEF ListOK, PathOK, RestOff, Off, LinksOK
<1>3. LinksOK(mem)'
  BY <1>1 DEF ListOK, LinksOK
<1>4. Behind(k, p)'
  BY <1>1 DEF ListOK, Behind
<1>5. \A i \in 1 .. Len(todo') : todo'[i].addr[1] \in Known'
  BY DEF ListOK
<1> QED  BY <1>2, <1>3, <1>4, <1>5 DEF ListOK

\* What Known and Private depend on.
LEMMA KnownStays ==
  ASSUME data' = data, NEW t \in Thread, \A u \in Thread : u # t => Keeps(u),
         Inserting(t)' <=> Inserting(t), Inserting(t) => call'[t] = call[t]
  PROVE  Known' = Known /\ Private' = Private
<1>1. \A u \in Thread : (Inserting(u)' <=> Inserting(u)) /\ (Inserting(u) => NewNode(u)' = NewNode(u))
  BY DEF Keeps, Inserting, Is, NewNode
<1>2. \A x : x \in Private <=> \E u \in Thread : Inserting(u) /\ x = NewNode(u)
  BY PrivateIs
<1>3. \A x : x \in Private' <=> \E u \in Thread : Inserting(u)' /\ x = NewNode(u)'
  BY PrivateIs
<1>4. Private' = Private
  BY <1>1, <1>2, <1>3
<1> QED  BY <1>4 DEF Known

\* A step of t that stores nothing and concerns its local variables.
LEMMA LocalStep ==
  ASSUME IInv, NEW k \in Nat, NEW p \in [0 .. k + 1 -> Val], Holds(k, p), NEW t \in Thread,
         M!NoStore, data' = data, crashed' \in BOOLEAN, LocalTypes',
         \A u \in Thread : u # t => Keeps(u) /\ stayed'[u] = stayed[u],
         Inserting(t)' <=> Inserting(t), Inserting(t) => call'[t] = call[t],
         WorkerOK(t)', CountOK(t, k, p)'
  PROVE  IInv' /\ Settled' = Settled
<1>1. /\ TypeOK /\ ListOK(k, p) /\ \A u \in Thread : WorkerOK(u) /\ CountOK(u, k, p)
      /\ mem' = mem /\ lock' = lock /\ todo' = todo
  BY DEF IInv, Holds, M!NoStore
<1>2. L!MCASTypeOK' /\ L!LockDiscipline' /\ Settled' = Settled
  BY <1>1, TypeFacts, Assumed, Same, L!NoStoreStep DEF Settled
<1>3. TypeOK'
  <2>1. data' \in [Node -> Key \cup {0}]
    BY <1>1 DEF TypeOK
  <2> QED  BY <1>2, <2>1, TypeParts DEF TypeConjuncts
<1>4. Known' = Known /\ Private' = Private
  BY KnownStays
<1>5. ListOK(k, p)'
  BY <1>1, <1>2, <1>4, ListStays
<1>6. \A u \in Thread : u # t => WorkerOK(u)' /\ CountOK(u, k, p)'
  BY <1>1, <1>4, WorkerStays, CountStays
<1>7. \A u \in Thread : (Inserting(u)' <=> Inserting(u)) /\ (Inserting(u) => NewNode(u)' = NewNode(u))
  BY DEF Keeps, Inserting, Is, NewNode
<1>8. \A u, v \in Thread : Inserting(u)' /\ Inserting(v)' /\ NewNode(u)' = NewNode(v)' => u = v
  BY <1>7 DEF IInv
<1>9. Holds(k, p)'
  BY <1>5, <1>6 DEF Holds
<1> QED  BY <1>2, <1>3, <1>8, <1>9 DEF IInv

\* The head leads to the first node of the path.
LEMMA HeadNext ==
  ASSUME TypeOK, NEW k \in Nat, NEW p \in [0 .. k + 1 -> Val], ListOK(k, p)
  PROVE  \A i \in 0 .. k : mem[<<head, "next">>] = p[i + 1] => i = 0
<1>1. PathOK(Settled, k, p) /\ Behind(k, p) /\ head \in Val
  BY DEF ListOK, Val
<1>2. 0 \in 0 .. k /\ 0 + 1 \in 0 .. k + 1
  OBVIOUS
<1>3. Settled[<<head, "next">>] = p[0 + 1] /\ p[0 + 1] # Null
  <2>1. Settled[<<p[0], "next">>] = p[0 + 1] /\ p[0] = head
    BY <1>1, <1>2 DEF PathOK
  <2>2. p[0 + 1] = tail \/ p[0 + 1] \in On(k, p)
    BY <1>1, <1>2, PathFacts
  <2> QED  BY <2>1, <2>2, <1>1, PathFacts, Constants
<1>4. mem[<<head, "next">>] = p[0 + 1]
  BY <1>1, <1>3 DEF Behind
<1>5. ASSUME NEW i \in 0 .. k, p[i + 1] = p[0 + 1]  PROVE i = 0
  <2>1. i + 1 \in 0 .. k + 1
    OBVIOUS
  <2>2. i + 1 = 0 + 1
    BY <1>1, <1>2, <1>5, <2>1 DEF PathOK
  <2> QED  BY <2>2
<1> QED  BY <1>4, <1>5

\* A round that starts over: nothing is counted, and the walk is at the head.
LEMMA RestartOK ==
  ASSUME TypeOK, NEW k \in Nat, NEW p \in [0 .. k + 1 -> Val], ListOK(k, p),
         NEW t \in Thread, WorkerOK(t), CountOK(t, k, p), pc[t] \in AtQcas \cup {"walk"}, lock # t,
         Restart(t), lock' = lock, mem'[<<head, "next">>] = mem[<<head, "next">>],
         UNCHANGED <<data, call, left, stayed>>
  PROVE  /\ WorkerOK(t)' /\ CountOK(t, k, p)' /\ LocalTypes'
         /\ \A u \in Thread : u # t => Keeps(u) /\ stayed'[u] = stayed[u]
         /\ Inserting(t)' <=> Inserting(t)
<1>1. LocalTypes /\ head \in Known' /\ Null \in Known' /\ head # tail
  BY TypeParts, Constants DEF TypeConjuncts, Known
<1>2. /\ curr'[t] = head /\ prev'[t] = Null /\ next'[t] = Null /\ n_val'[t] = 0 /\ pc'[t] = "walk"
      /\ call'[t] = call[t] /\ left'[t] = left[t]
  BY <1>1 DEF Restart, LocalTypes
<1>3. LocalTypes'
  <2>1. 0 \in 0 .. Cardinality(Node) /\ "walk" \in PC
    BY Constants DEF PC
  <2> QED  BY <1>1, <2>1 DEF Restart, LocalTypes
<1>4. \A u \in Thread : u # t => Keeps(u) /\ stayed'[u] = stayed[u]
  BY <1>1 DEF Restart, LocalTypes, Keeps
<1>5. \A name : Is(t, name)' <=> Is(t, name)
  BY DEF Is
<1>6. Inserting(t)' <=> Inserting(t)
  BY <1>2, <1>5 DEF Inserting, AtQcas, WorkerOK
<1>7. WorkerOK(t)'
  <2>1. call[t] # <<>>
    BY DEF WorkerOK, AtQcas
  <2>2. Inserting(t)' => data'[NewNode(t)'] # 0
    BY <1>6 DEF WorkerOK, NewNode
  <2> QED  BY <1>1, <1>2, <1>5, <2>1, <2>2 DEF WorkerOK, AtQcas
<1>8. CountOK(t, k, p)'
  <2> SUFFICES ASSUME Is(t, "count") PROVE CountOK(t, k, p)'
    BY <1>5 DEF CountOK
  <2>1. KeyOf(t)' = KeyOf(t) /\ stayed' = stayed
    BY DEF KeyOf
  <2>2. stayed'[t] \subseteq {n \in On(k, p) : data'[n] = KeyOf(t)'}
    BY <2>1 DEF CountOK
  <2>3. \A i \in 0 .. k : mem'[<<head, "next">>] = p[i + 1] => i = 0
    BY HeadNext
  <2>4. Counted(t, k, p, {})'
    <3>1. Cardinality({}) = 0
      BY FS_EmptySet
    <3>2. \A j \in 1 .. 0 : FALSE
      OBVIOUS
    <3> QED  BY <1>2, <2>3, <3>1, <3>2 DEF Counted, UpTo
  <2> QED  BY <2>2, <2>4 DEF CountOK
<1> QED  BY <1>3, <1>4, <1>6, <1>7, <1>8

\* A walk that goes on to the next node.
LEMMA ReachOK ==
  ASSUME TypeOK, NEW k \in Nat, NEW p \in [0 .. k + 1 -> Val], ListOK(k, p),
         NEW t \in Thread, WorkerOK(t), CountOK(t, k, p), pc[t] = "walk", M!NoStore,
         UNCHANGED <<data, call, left, stayed>>,
         NEW c, c = mem[<<curr[t], "next">>], c # Null, Reach(t, c)
  PROVE  /\ WorkerOK(t)' /\ CountOK(t, k, p)' /\ LocalTypes'
         /\ \A u \in Thread : u # t => Keeps(u) /\ stayed'[u] = stayed[u]
         /\ Inserting(t)' <=> Inserting(t)
<1>1. /\ LocalTypes /\ mem' = mem /\ lock' = lock /\ PathOK(Settled, k, p) /\ On(k, p) \subseteq Known
      /\ call[t] # <<>> /\ lock # t
  BY TypeParts DEF TypeConjuncts, M!NoStore, ListOK, WorkerOK
<1>2. PICK i \in 0 .. k : c = p[i + 1]
  BY <1>1, NextOnPath DEF WorkerOK
<1>3. c # head /\ (c = tail \/ c \in On(k, p)) /\ (c # tail => c \in Node) /\ c \in Known
  <2>1. c # head /\ (c = tail \/ c \in On(k, p))
    BY <1>1, <1>2, PathFacts
  <2>2. \A x \in On(k, p) : x \in Node
    BY <1>1, PathFacts
  <2>3. tail \in Known
    BY DEF Known
  <2> QED  BY <1>1, <2>1, <2>2, <2>3
<1>4. \A name : Is(t, name)' <=> Is(t, name)
  BY DEF Is
<1>5. \/ Is(t, "count") /\ c # tail /\ pc'[t] = "walk" /\ pc' = pc
      \/ Is(t, "count") /\ c = tail /\ pc' = [pc EXCEPT ![t] = "return"]
      \/ ~Is(t, "count") /\ c # tail /\ pc' = pc
      \/ ~Is(t, "count") /\ pc' = [pc EXCEPT ![t] = "return"] /\ ~Is(t, "insert")
      \/ /\ ~Is(t, "count") /\ pc' = [pc EXCEPT ![t] = "test_next"]
         /\ Is(t, "insert") \/ (Is(t, "remove") /\ c # tail /\ data[c] = KeyOf(t))
  BY Names DEF Reach, WalksOn, AfterWalk
<1>6. /\ curr' = [curr EXCEPT ![t] = c] /\ prev' = prev /\ next' = next
      /\ ~Is(t, "count") => n_val' = n_val
  BY DEF Reach
<1>7. CountOK(t, k, p)'
  <2> SUFFICES ASSUME Is(t, "count") PROVE CountOK(t, k, p)'
    BY <1>4 DEF CountOK
  <2>1. KeyOf(t)' = KeyOf(t) /\ stayed' = stayed /\ curr'[t] = c /\ Known' = Known
    <3>1. ~Inserting(t) /\ ~Inserting(t)'
      BY <1>4, Names DEF Inserting
    <3>2. \A u \in Thread : u # t => Keeps(u)
      BY <1>1, <1>5, <1>6 DEF Keeps, LocalTypes, Reach
    <3>3. Known' = Known
      BY <3>1, <3>2, KnownStays
    <3> QED  BY <1>1, <1>6, <3>3 DEF KeyOf, LocalTypes
  <2>2. stayed[t] \subseteq {n \in On(k, p) : data[n] = KeyOf(t)}
    BY DEF CountOK
  <2>3. PICK C \in SUBSET {n \in Known \cap Node : data[n] = KeyOf(t)} : Counted(t, k, p, C)
    BY DEF CountOK
  <2>4. /\ \A j \in 1 .. k : p[j] \in C => j <= i
        /\ \A j \in 1 .. i : p[j] \in stayed[t] => p[j] \in C
        /\ Cardinality(C) = n_val[t] /\ n_val[t] \in Nat
    BY <1>1, <1>2, <2>3 DEF Counted, UpTo, LocalTypes
  <2>5. CASE c = tail
    <3>1. i = k
      <4>1. p[k + 1] = p[i + 1] /\ i + 1 \in 0 .. k + 1 /\ k + 1 \in 0 .. k + 1
        BY <1>1, <1>2, <2>5 DEF PathOK
      <4>2. i + 1 = k + 1
        BY <1>1, <4>1 DEF PathOK
      <4> QED  BY <4>2
    <3>2. stayed[t] \subseteq C
      <4> SUFFICES ASSUME NEW n \in stayed[t] PROVE n \in C
        OBVIOUS
      <4>1. PICK j \in 1 .. k : n = p[j]
        BY <1>1, <2>2, PathFacts
      <4> QED  BY <2>4, <3>1, <4>1
    <3>3. n_val' = n_val /\ pc'[t] = "return"
      <4>1. c \notin Node
        BY <2>5, Constants
      <4> QED  BY <1>1, <1>5, <2>5, <4>1 DEF Reach, LocalTypes
    <3>4. Counted(t, k, p, C)'
      BY <2>1, <2>4, <3>2, <3>3 DEF Counted, UpTo
    <3> QED  BY <2>1, <2>2, <2>3, <3>4 DEF CountOK
  <2>6. CASE c # tail
    <3>1. c \in Node /\ c \in Known /\ i + 1 \in 1 .. k /\ pc'[t] = "walk"
      <4>1. i # k
        BY <1>1, <1>2, <2>6 DEF PathOK
      <4> QED  BY <1>3, <1>5, <2>6, <4>1
    <3>2. ASSUME NEW l \in 0 .. k, mem'[<<c, "next">>] = p[l + 1]  PROVE l = i + 1
      <4>1. i + 1 \in 0 .. k /\ (i + 1) + 1 \in 0 .. k + 1 /\ l + 1 \in 0 .. k + 1
        BY <3>1
      <4>2. Settled[<<c, "next">>] = p[(i + 1) + 1] /\ p[(i + 1) + 1] # Null
        <5>1. Settled[<<p[i + 1], "next">>] = p[(i + 1) + 1]
          BY <1>1, <4>1 DEF PathOK
        <5>2. p[(i + 1) + 1] = tail \/ p[(i + 1) + 1] \in On(k, p)
          BY <1>1, <4>1, PathFacts
        <5> QED  BY <1>1, <1>2, <5>1, <5>2, PathFacts, Constants
      <4>3. mem[<<c, "next">>] = p[(i + 1) + 1]
        BY <3>1, <4>2 DEF ListOK, Behind, Val
      <4>4. l + 1 = (i + 1) + 1
        BY <1>1, <3>2, <4>1, <4>3 DEF PathOK
      <4> QED  BY <4>4
    <3>0. PICK D : D = IF data[c] = KeyOf(t) THEN C \cup {c} ELSE C
      OBVIOUS
    <3>3. c \notin C
      BY <1>2, <2>4, <3>1
    <3>4. D \in SUBSET {n \in Known \cap Node : data[n] = KeyOf(t)}
      BY <2>3, <3>0, <3>1
    <3>5. Cardinality(D) = n_val'[t]
      <4>1. IsFiniteSet(C)
        BY <2>3, Constants, FS_Subset
      <4>2. Cardinality(C \cup {c}) = Cardinality(C) + 1
        BY <3>3, <4>1, FS_AddElement
      <4>3. n_val'[t] = IF data[c] = KeyOf(t) THEN n_val[t] + 1 ELSE n_val[t]
        BY <1>1, <3>1 DEF Reach, LocalTypes
      <4> QED  BY <2>4, <3>0, <4>2, <4>3
    <3>6. \A j \in 1 .. k : p[j] \in D => j <= i + 1
      <4> SUFFICES ASSUME NEW j \in 1 .. k, p[j] \in D PROVE j <= i + 1
        OBVIOUS
      <4>1. CASE p[j] \in C
        BY <2>4, <4>1
      <4>2. CASE p[j] = c
        <5>1. j \in 0 .. k + 1 /\ i + 1 \in 0 .. k + 1
          BY <3>1
        <5>2. j = i + 1
          BY <1>1, <1>2, <4>2, <5>1 DEF PathOK
        <5> QED  BY <5>2
      <4> QED  BY <3>0, <4>1, <4>2
    <3>7. \A j \in 1 .. i + 1 : p[j] \in stayed[t] => p[j] \in D
      <4> SUFFICES ASSUME NEW j \in 1 .. i + 1, p[j] \in stayed[t] PROVE p[j] \in D
        OBVIOUS
      <4>1. j \in 1 .. i \/ j = i + 1
        OBVIOUS
      <4> QED  BY <1>2, <2>2, <2>4, <3>0, <4>1
    <3>8. Counted(t, k, p, D)'
      <4>1. \A l \in 0 .. k : mem'[<<curr'[t], "next">>] = p[l + 1] =>
              /\ \A j \in 1 .. k : p[j] \in D => j <= l
              /\ \A j \in 1 .. l : p[j] \in stayed'[t] => p[j] \in D
        BY <2>1, <3>2, <3>6, <3>7
      <4> QED  BY <2>1, <3>1, <3>5, <4>1 DEF Counted, UpTo
    <3> QED  BY <2>1, <2>2, <3>4, <3>8 DEF CountOK
  <2> QED  BY <2>5, <2>6
<1>8. pc'[t] \in {"walk", "return", "test_next"} /\ pc' \in [Thread -> PC]
      /\ \A u \in Thread : u # t => pc'[u] = pc[u]
  BY <1>1, <1>5 DEF LocalTypes, PC, AtQcas
<1>9. LocalTypes'
  <2>1. n_val' \in [Thread -> 0 .. Cardinality(Node)]
    <3>1. CASE ~Is(t, "count")
      BY <1>1, <1>6, <3>1 DEF LocalTypes
    <3>2. CASE Is(t, "count")
      <4>1. n_val'[t] \in 0 .. Cardinality(Node)
        <5>1. PICK C \in SUBSET {n \in Known' \cap Node : data'[n] = KeyOf(t)'} : Counted(t, k, p, C)'
          BY <1>4, <1>7, <3>2 DEF CountOK
        <5>2. C \subseteq Node /\ Cardinality(C) = n_val'[t]
          BY <5>1 DEF Counted, UpTo
        <5>3. Cardinality(C) <= Cardinality(Node) /\ Cardinality(C) \in Nat
          BY <5>2, Constants, FS_Subset, FS_CardinalityType
        <5> QED  BY <5>2, <5>3, Constants
      <4>2. n_val' = n_val \/ n_val' = [n_val EXCEPT ![t] = n_val[t] + 1]
        BY DEF Reach
      <4> QED  BY <1>1, <4>1, <4>2 DEF LocalTypes
    <3> QED  BY <3>1, <3>2
  <2>2. curr' \in [Thread -> {head, tail} \cup Node]
    BY <1>1, <1>3, <1>6 DEF LocalTypes
  <2> QED  BY <1>1, <1>6, <1>8, <2>1, <2>2 DEF LocalTypes
<1>10. \A u \in Thread : u # t => Keeps(u) /\ stayed'[u] = stayed[u]
  BY <1>1, <1>6, <1>8 DEF Keeps, LocalTypes, Reach
<1>11. Inserting(t)' <=> Inserting(t)
  <2>1. pc'[t] = "return" => ~Is(t, "insert")
    BY <1>1, <1>5, Names DEF LocalTypes
  <2> QED  BY <1>4, <1>8, <2>1 DEF Inserting
<1>12. WorkerOK(t)'
  <2>1. Known' = Known
    BY <1>10, <1>11, KnownStays
  <2>2. Inserting(t)' => data'[NewNode(t)'] # 0
    BY <1>11 DEF WorkerOK, NewNode
  <2>3. curr'[t] = c /\ prev'[t] = prev[t] /\ next'[t] = next[t] /\ left'[t] = left[t]
        /\ call'[t] = call[t] /\ KeyOf(t)' = KeyOf(t)
    BY <1>1, <1>6 DEF LocalTypes, KeyOf
  <2>4. pc'[t] = "walk" => c # tail
    BY <1>1, <1>5 DEF LocalTypes
  <2>5. pc'[t] = "test_next" => Is(t, "insert") \/ (Is(t, "remove") /\ c # tail /\ data[c] = KeyOf(t))
    BY <1>1, <1>5 DEF LocalTypes
  <2> QED  BY <1>1, <1>3, <1>4, <1>6, <1>8, <2>1, <2>2, <2>3, <2>4, <2>5, Names DEF WorkerOK, AtQcas
<1> QED  BY <1>7, <1>9, <1>10, <1>11, <1>12

\* The path of the invariant.
LEMMA HasPath ==
  ASSUME IInv
  PROVE  /\ TypeOK /\ LocalTypes
         /\ \E k \in Nat : \E p \in [0 .. k + 1 -> Val] :
              /\ Holds(k, p) /\ ListOK(k, p)
              /\ \A t \in Thread : WorkerOK(t) /\ CountOK(t, k, p)
BY TypeParts DEF IInv, Holds, TypeConjuncts

LEMMA WalkStep ==
  ASSUME IInv, NEW t \in Thread, Walk(t)
  PROVE  IInv' /\ Settled' = Settled
<1>1. PICK k \in Nat : \E p \in [0 .. k + 1 -> Val] :
              /\ Holds(k, p) /\ ListOK(k, p)
              /\ \A u \in Thread : WorkerOK(u) /\ CountOK(u, k, p)
  BY HasPath
<1>2. PICK p \in [0 .. k + 1 -> Val] :
              /\ Holds(k, p) /\ ListOK(k, p)
              /\ \A u \in Thread : WorkerOK(u) /\ CountOK(u, k, p)
  BY <1>1
<1>3. PICK c : c = mem[<<curr[t], "next">>]
  OBVIOUS
<1>4. /\ pc[t] = "walk" /\ M!NoStore /\ UNCHANGED <<data, call, left, crashed, stayed>>
      /\ IF c = Null THEN Restart(t) ELSE Reach(t, c)
  BY <1>3 DEF Walk
<1>5. TypeOK /\ lock # t /\ mem' = mem /\ lock' = lock /\ crashed' \in BOOLEAN
  BY <1>2, <1>4 DEF IInv, WorkerOK, M!NoStore, TypeOK
<1>6. /\ WorkerOK(t)' /\ CountOK(t, k, p)' /\ LocalTypes'
      /\ \A u \in Thread : u # t => Keeps(u) /\ stayed'[u] = stayed[u]
      /\ Inserting(t)' <=> Inserting(t)
  <2>1. CASE c = Null
    <3>1. Restart(t) /\ pc[t] \in AtQcas \cup {"walk"}
      BY <1>4, <2>1
    <3> QED  BY <1>2, <1>4, <1>5, <3>1, RestartOK
  <2>2. CASE c # Null
    BY <1>2, <1>3, <1>4, <1>5, <2>2, ReachOK
  <2> QED  BY <2>1, <2>2
<1> QED  BY <1>2, <1>4, <1>5, <1>6, LocalStep

\* The steps between a walk and a qcas that do not start over.
LEMMA ForwardOK ==
  ASSUME TypeOK, NEW k, NEW p, NEW t \in Thread, WorkerOK(t),
         pc[t] \in AtQcas, lock # t, M!NoStore, UNCHANGED <<data, call, left, stayed, curr, n_val>>,
         NEW l \in AtQcas \ {"store"}, pc' = [pc EXCEPT ![t] = l], l = "reload_prev" => Is(t, "insert"),
         NEW x \in Known \ {tail}, prev' = prev \/ prev' = [prev EXCEPT ![t] = x],
         NEW y \in Known \ {head}, next' = next \/ next' = [next EXCEPT ![t] = y]
  PROVE  /\ WorkerOK(t)' /\ CountOK(t, k, p)' /\ LocalTypes'
         /\ \A u \in Thread : u # t => Keeps(u) /\ stayed'[u] = stayed[u]
         /\ Inserting(t)' <=> Inserting(t)
<1>1. LocalTypes /\ lock' = lock /\ l \in PC /\ l # "idle" /\ l # "walk" /\ l # "store" /\ l # "return"
  BY TypeParts DEF TypeConjuncts, M!NoStore, PC, AtQcas
<1>2. LocalTypes'
  <2>1. x \in {head, Null} \cup Node /\ y \in {tail, Null} \cup Node
    BY DEF Known
  <2>2. pc' \in [Thread -> PC]
    BY <1>1 DEF LocalTypes
  <2>3. prev' \in [Thread -> {head, Null} \cup Node]
    BY <1>1, <2>1 DEF LocalTypes
  <2>4. next' \in [Thread -> {tail, Null} \cup Node]
    BY <1>1, <2>1 DEF LocalTypes
  <2> QED  BY <1>1, <2>2, <2>3, <2>4 DEF LocalTypes
<1>3. \A u \in Thread : u # t => Keeps(u) /\ stayed'[u] = stayed[u]
  BY <1>1 DEF LocalTypes, Keeps
<1>4. /\ pc'[t] = l /\ (prev'[t] = prev[t] \/ prev'[t] = x) /\ (next'[t] = next[t] \/ next'[t] = y)
      /\ \A name : Is(t, name)' <=> Is(t, name)
  BY <1>1 DEF LocalTypes, Is
<1>5. Inserting(t)' <=> Inserting(t)
  BY <1>1, <1>4 DEF Inserting, WorkerOK, AtQcas
<1>6. Known' = Known
  BY <1>3, <1>5, KnownStays
<1>7. call[t] # <<>> /\ (Is(t, "insert") \/ Is(t, "remove"))
  BY Names DEF WorkerOK
<1>8. CountOK(t, k, p)'
  BY <1>4, <1>7, Names DEF CountOK
<1>9. WorkerOK(t)'
  <2>1. Inserting(t)' => data'[NewNode(t)'] # 0
    BY <1>5 DEF WorkerOK, NewNode
  <2>2. KeyOf(t)' = KeyOf(t)
    BY DEF KeyOf
  <2> QED  BY <1>1, <1>4, <1>6, <1>7, <2>1, <2>2 DEF WorkerOK
<1> QED  BY <1>2, <1>3, <1>5, <1>8, <1>9

\* A load of a link of a known node.
LEMMA Loads ==
  ASSUME TypeOK, NEW k, NEW p, ListOK(k, p), NEW x \in Known
  PROVE  mem[<<x, "next">>] \in Known \ {head} /\ mem[<<x, "prev">>] \in Known \ {tail}
BY DEF ListOK, LinksOK, Known, Val

LEMMA TestsStep ==
  ASSUME IInv, NEW t \in Thread, TestNext(t) \/ TestPrev(t) \/ LoadPrev(t) \/ LoadNext(t)
  PROVE  IInv' /\ Settled' = Settled
<1>1. PICK k \in Nat : \E p \in [0 .. k + 1 -> Val] :
              /\ Holds(k, p) /\ ListOK(k, p)
              /\ \A u \in Thread : WorkerOK(u) /\ CountOK(u, k, p)
  BY HasPath
<1>2. PICK p \in [0 .. k + 1 -> Val] :
              /\ Holds(k, p) /\ ListOK(k, p)
              /\ \A u \in Thread : WorkerOK(u) /\ CountOK(u, k, p)
  BY <1>1
<1>3. /\ pc[t] \in AtQcas \ {"store"} /\ M!NoStore /\ UNCHANGED <<data, call, left, crashed, stayed>>
  BY DEF TestNext, TestPrev, LoadPrev, LoadNext, AtQcas
<1>4. TypeOK /\ lock # t /\ mem' = mem /\ lock' = lock /\ crashed' \in BOOLEAN /\ WorkerOK(t) /\ curr[t] \in Known
  BY <1>2, <1>3 DEF IInv, WorkerOK, M!NoStore, TypeOK
<1>5. PICK x, y : x = mem[<<curr[t], "prev">>] /\ y = mem[<<curr[t], "next">>]
  OBVIOUS
<1>6. x \in Known \ {tail} /\ y \in Known \ {head}
  BY <1>2, <1>4, <1>5, Loads
<1>7. \/ Restart(t)
      \/ /\ UNCHANGED <<curr, n_val>>
         /\ \E l \in AtQcas \ {"store"} : pc' = [pc EXCEPT ![t] = l] /\ (l = "reload_prev" => Is(t, "insert"))
         /\ prev' = prev \/ prev' = [prev EXCEPT ![t] = x]
         /\ next' = next \/ next' = [next EXCEPT ![t] = y]
  <2>1. CASE TestNext(t)
    BY <2>1 DEF TestNext, GoTo, AtQcas
  <2>2. CASE TestPrev(t)
    BY <2>2 DEF TestPrev, GoTo, AtQcas
  <2>3. CASE LoadPrev(t)
    BY <1>5, <2>3 DEF LoadPrev, GoTo, AtQcas
  <2>4. CASE LoadNext(t)
    BY <1>5, <2>4 DEF LoadNext, GoTo, AtQcas
  <2> QED  BY <2>1, <2>2, <2>3, <2>4
<1>8. /\ WorkerOK(t)' /\ CountOK(t, k, p)' /\ LocalTypes'
      /\ \A u \in Thread : u # t => Keeps(u) /\ stayed'[u] = stayed[u]
      /\ Inserting(t)' <=> Inserting(t)
  <2>1. CASE Restart(t)
    <3>1. pc[t] \in AtQcas \cup {"walk"}
      BY <1>3
    <3> QED  BY <1>2, <1>3, <1>4, <2>1, <3>1, RestartOK
  <2>2. CASE ~Restart(t)
    <3>1. PICK l \in AtQcas \ {"store"} : pc' = [pc EXCEPT ![t] = l] /\ (l = "reload_prev" => Is(t, "insert"))
      BY <1>7, <2>2
    <3>2. /\ pc[t] \in AtQcas /\ UNCHANGED <<curr, n_val, data, call, left, stayed>>
          /\ prev' = prev \/ prev' = [prev EXCEPT ![t] = x]
          /\ next' = next \/ next' = [next EXCEPT ![t] = y]
      BY <1>3, <1>7, <2>2
    <3> QED  BY <1>3, <1>4, <1>6, <3>1, <3>2, ForwardOK
  <2> QED  BY <2>1, <2>2
<1> QED  BY <1>2, <1>3, <1>4, <1>8, LocalStep

LEMMA ReturnStep ==
  ASSUME IInv, NEW t \in Thread, Return(t)
  PROVE  IInv' /\ Settled' = Settled
<1>1. PICK k \in Nat : \E p \in [0 .. k + 1 -> Val] :
              /\ Holds(k, p) /\ ListOK(k, p)
              /\ \A u \in Thread : WorkerOK(u) /\ CountOK(u, k, p)
  BY HasPath
<1>2. PICK p \in [0 .. k + 1 -> Val] :
              /\ Holds(k, p) /\ ListOK(k, p)
              /\ \A u \in Thread : WorkerOK(u) /\ CountOK(u, k, p)
  BY <1>1
<1>3. LocalTypes /\ pc[t] = "return" /\ WorkerOK(t) /\ TypeOK
  BY <1>2, HasPath DEF Return
<1>4. /\ M!NoStore /\ data' = data /\ crashed' = crashed /\ crashed' \in BOOLEAN /\ lock' = lock
      /\ call' = [call EXCEPT ![t] = <<>>] /\ pc' = [pc EXCEPT ![t] = "idle"]
      /\ curr' = [curr EXCEPT ![t] = head] /\ prev' = [prev EXCEPT ![t] = Null]
      /\ next' = [next EXCEPT ![t] = Null] /\ n_val' = [n_val EXCEPT ![t] = 0]
      /\ stayed' = [stayed EXCEPT ![t] = {}] /\ left' = [left EXCEPT ![t] = @ - 1]
  BY <1>3, TypeParts DEF Return, M!NoStore, TypeConjuncts
<1>5. call[t] # <<>> /\ left[t] > 0 /\ lock # t
  BY <1>3 DEF WorkerOK
<1>6. LocalTypes'
  <2>1. left[t] \in 0 .. Ops /\ Ops \in Nat
    BY <1>3, McasSortedListAssumption DEF LocalTypes
  <2>2. left[t] - 1 \in 0 .. Ops /\ 0 \in 0 .. Cardinality(Node) /\ "idle" \in PC /\ <<>> \in CallType
    BY <1>5, <2>1, Constants DEF PC, CallType
  <2>3. left' \in [Thread -> 0 .. Ops]
    BY <1>3, <1>4, <2>2 DEF LocalTypes
  <2> QED  BY <1>3, <1>4, <2>2, <2>3 DEF LocalTypes
<1>7. \A u \in Thread : u # t => Keeps(u) /\ stayed'[u] = stayed[u]
  BY <1>3, <1>4 DEF LocalTypes, Keeps
<1>8. /\ call'[t] = <<>> /\ pc'[t] = "idle" /\ curr'[t] = head /\ prev'[t] = Null /\ next'[t] = Null
      /\ n_val'[t] = 0
  BY <1>3, <1>4 DEF LocalTypes
<1>9. \A name : ~Is(t, name)'
  BY <1>8 DEF Is
<1>10. ~Inserting(t) /\ ~Inserting(t)'
  BY <1>3, <1>9 DEF Inserting
<1>11. WorkerOK(t)' /\ CountOK(t, k, p)'
  <2>1. head \in Known' /\ Null \in Known'
    BY DEF Known
  <2> QED  BY <1>4, <1>5, <1>8, <1>9, <1>10, <2>1 DEF WorkerOK, CountOK, AtQcas
<1> QED  BY <1>2, <1>4, <1>6, <1>7, <1>10, <1>11, LocalStep

LEMMA FaultStep ==
  ASSUME IInv, NEW t \in Thread, QcasFaults(t)
  PROVE  IInv' /\ Settled' = Settled
<1>1. PICK k \in Nat : \E p \in [0 .. k + 1 -> Val] :
              /\ Holds(k, p) /\ ListOK(k, p)
              /\ \A u \in Thread : WorkerOK(u) /\ CountOK(u, k, p)
  BY HasPath
<1>2. PICK p \in [0 .. k + 1 -> Val] :
              /\ Holds(k, p) /\ ListOK(k, p)
              /\ \A u \in Thread : WorkerOK(u) /\ CountOK(u, k, p)
  BY <1>1
<1>3. /\ M!NoStore /\ UNCHANGED <<mem, lock, todo, data, call, pc, curr, prev, next, n_val, left, stayed>>
      /\ crashed' \in BOOLEAN /\ LocalTypes
  BY HasPath DEF QcasFaults, M!NoStore
<1>4. Inserting(t)' <=> Inserting(t)
  BY <1>3 DEF Inserting, Is
<1>5. \A u \in Thread : Keeps(u) /\ stayed'[u] = stayed[u]
  BY <1>3 DEF Keeps
<1>6. Known' = Known
  BY <1>3, <1>4, <1>5, KnownStays
<1>7. WorkerOK(t)' /\ CountOK(t, k, p)'
  BY <1>2, <1>3, <1>5, <1>6, HasPath, WorkerStays, CountStays
<1>8. LocalTypes'
  BY <1>3 DEF LocalTypes
<1> QED  BY <1>2, <1>3, <1>4, <1>5, <1>7, <1>8, LocalStep

\* A later store of a qcas.
LEMMA StoresStep ==
  ASSUME IInv, NEW t \in Thread, QcasStores(t)
  PROVE  IInv' /\ Settled' = Settled
<1>1. PICK k \in Nat : \E p \in [0 .. k + 1 -> Val] :
              /\ Holds(k, p) /\ ListOK(k, p)
              /\ \A u \in Thread : WorkerOK(u) /\ CountOK(u, k, p)
  BY HasPath
<1>2. PICK p \in [0 .. k + 1 -> Val] :
              /\ Holds(k, p) /\ ListOK(k, p)
              /\ \A u \in Thread : WorkerOK(u) /\ CountOK(u, k, p)
  BY <1>1
<1>3. TypeOK /\ LocalTypes /\ L!MCASTypeOK /\ L!LockDiscipline /\ todo \in Seq(L!Words)
  BY HasPath, TypeFacts
<1>4. L!StoreNext(t) /\ UNCHANGED <<data, call, curr, prev, next, n_val, left, crashed, stayed>>
  BY Same DEF QcasStores
<1>5. /\ L!MCASTypeOK' /\ L!LockDiscipline' /\ Settled' = Settled
      /\ lock = t /\ lock' \in {t, NoThread}
      /\ Len(todo') = Len(todo) - 1
      /\ \A i \in 1 .. Len(todo') : todo'[i] = todo[i + 1]
  BY <1>3, <1>4, Assumed, L!StoreNextStep DEF Settled
<1>6. \A a \in Addr : mem'[a] = mem[a] \/ mem'[a] = Settled[a]
  BY <1>3, <1>4, <1>5, Assumed, L!StoreNextSettles DEF Settled
<1>7. \A i \in 1 .. Len(todo') : \E j \in 1 .. Len(todo) : todo'[i] = todo[j]
  <2>1. Len(todo) \in Nat
    BY <1>3, LenProperties
  <2> SUFFICES ASSUME NEW i \in 1 .. Len(todo') PROVE \E j \in 1 .. Len(todo) : todo'[i] = todo[j]
    OBVIOUS
  <2>2. i + 1 \in 1 .. Len(todo)
    BY <1>5, <2>1
  <2> QED  BY <1>5, <2>2
<1>8. /\ pc[t] = "store" /\ pc'[t] = (IF lock' = NoThread THEN "return" ELSE "store")
      /\ pc' \in [Thread -> PC] /\ \A u \in Thread : u # t => pc'[u] = pc[u]
  <2>1. pc[t] = "store" /\ pc' = [pc EXCEPT ![t] = IF lock' = NoThread THEN "return" ELSE "store"]
    BY <1>2, <1>5 DEF QcasStores, Advance, M!Returns, WorkerOK
  <2> QED  BY <1>3, <2>1 DEF LocalTypes, PC, AtQcas
<1>9. t # NoThread
  BY McasSortedListAssumption
<1>10. \A u \in Thread : u # t => Keeps(u) /\ stayed'[u] = stayed[u]
  BY <1>4, <1>8 DEF Keeps
<1>11. ~Inserting(t) /\ ~Inserting(t)'
  BY <1>8 DEF Inserting
<1>12. Known' = Known /\ Private' = Private
  BY <1>4, <1>10, <1>11, KnownStays
<1>13. ListOK(k, p)'
  BY <1>2, <1>3, <1>5, <1>6, <1>7, <1>12, ListStays
<1>14. \A x \in Val : \/ mem'[<<x, "next">>] = mem[<<x, "next">>]
                      \/ mem'[<<x, "next">>] = Null
  <2> SUFFICES ASSUME NEW x \in Val, mem'[<<x, "next">>] # mem[<<x, "next">>]
               PROVE  mem'[<<x, "next">>] = Null
    OBVIOUS
  <2>1. <<x, "next">> \in Addr
    BY DEF Addr, Link, Val
  <2> QED  BY <1>2, <1>6, <2>1 DEF ListOK, Behind
<1>15. \A u \in Thread : curr[u] \in Val
  BY <1>3 DEF LocalTypes, Val
<1>16. ASSUME NEW u \in Thread, u # t  PROVE WorkerOK(u)' /\ CountOK(u, k, p)'
  <2>1. lock' = u <=> lock = u
    BY <1>5, <1>9, <1>16, McasSortedListAssumption
  <2> QED  BY <1>2, <1>3, <1>4, <1>10, <1>12, <1>14, <1>15, <1>16, <2>1, WorkerStays, CountStays
<1>17. \A name : Is(t, name)' <=> Is(t, name)
  BY <1>4 DEF Is
<1>18. Is(t, "insert") \/ Is(t, "remove")
  BY <1>2, <1>8 DEF WorkerOK, AtQcas
<1>19. WorkerOK(t)'
  <2>1. KeyOf(t)' = KeyOf(t)
    BY <1>4 DEF KeyOf
  <2> QED  BY <1>2, <1>4, <1>5, <1>8, <1>9, <1>11, <1>12, <1>17, <2>1 DEF WorkerOK, AtQcas
<1>20. CountOK(t, k, p)'
  BY <1>17, <1>18, Names DEF CountOK
<1>21. TypeOK'
  <2>1. LocalTypes'
    BY <1>3, <1>4, <1>8 DEF LocalTypes
  <2> QED  BY <1>3, <1>4, <1>5, <2>1, TypeParts DEF TypeConjuncts
<1>22. \A u \in Thread : (Inserting(u)' <=> Inserting(u)) /\ NewNode(u)' = NewNode(u)
  BY <1>4, <1>10, <1>11 DEF Keeps, Inserting, Is, NewNode
<1>23. Holds(k, p)'
  BY <1>13, <1>16, <1>19, <1>20 DEF Holds
<1> QED  BY <1>5, <1>21, <1>22, <1>23 DEF IInv

\* A call begins, before it has allocated a node.
LEMMA BeginOK ==
  ASSUME IInv, NEW k \in Nat, NEW p \in [0 .. k + 1 -> Val], Holds(k, p), NEW t \in Thread,
         pc[t] = "idle", left[t] > 0,
         NEW c \in CallType, c # <<>>, call' = [call EXCEPT ![t] = c],
         pc' = [pc EXCEPT ![t] = "walk"], UNCHANGED <<curr, prev, next, n_val, left>>,
         stayed' = [stayed EXCEPT ![t] = IF c[1] = "count" THEN {n \in Linked : data[n] = c[2]} ELSE {}],
         M!NoStore, Known' = Known, \A n \in Node : data[n] # 0 => data'[n] = data[n],
         c[1] = "insert" => data'[c[3]] # 0, c[1] # "insert" => data' = data
  PROVE  /\ LocalTypes' /\ \A u \in Thread : u # t => Keeps(u) /\ stayed'[u] = stayed[u]
         /\ ~Inserting(t) /\ (Inserting(t)' <=> c[1] = "insert") /\ NewNode(t)' = c[3]
         /\ WorkerOK(t)' /\ CountOK(t, k, p)'
<1>1. TypeOK /\ ListOK(k, p) /\ WorkerOK(t) /\ LocalTypes /\ mem' = mem /\ lock' = lock
  BY HasPath DEF Holds, M!NoStore
<1>2. /\ call[t] = <<>> /\ lock # t /\ curr[t] = head
      /\ curr[t] \in Known /\ prev[t] \in Known /\ next[t] \in Known
  BY <1>1 DEF WorkerOK
<1>3. (\A name : ~Is(t, name)) /\ n_val[t] = 0
  BY <1>1, <1>2 DEF Is, WorkerOK
<1>4. /\ call'[t] = c /\ pc'[t] = "walk"
      /\ stayed'[t] = IF c[1] = "count" THEN {n \in Linked : data[n] = c[2]} ELSE {}
  BY <1>1 DEF LocalTypes
<1>5. (\A name : Is(t, name)' <=> c[1] = name) /\ KeyOf(t)' = c[2] /\ NewNode(t)' = c[3]
  BY <1>4 DEF Is, KeyOf, NewNode
<1>6. LocalTypes'
  <2>1. "walk" \in PC /\ Linked \subseteq Node
    BY DEF PC, Linked
  <2> QED  BY <1>1, <2>1 DEF LocalTypes
<1>7. \A u \in Thread : u # t => Keeps(u) /\ stayed'[u] = stayed[u]
  BY <1>1 DEF LocalTypes, Keeps
<1>8. ~Inserting(t) /\ (Inserting(t)' <=> c[1] = "insert")
  BY <1>3, <1>4, <1>5 DEF Inserting
<1>9. WorkerOK(t)'
  <2>1. Inserting(t)' => data'[NewNode(t)'] # 0
    BY <1>5, <1>8
  <2> QED  BY <1>1, <1>2, <1>3, <1>4, <2>1, Constants DEF WorkerOK, AtQcas
<1>10. CountOK(t, k, p)'
  <2> SUFFICES ASSUME c[1] = "count" PROVE CountOK(t, k, p)'
    BY <1>5 DEF CountOK
  <2>1. data' = data /\ stayed'[t] \subseteq {n \in On(k, p) : data'[n] = KeyOf(t)'}
    <3>1. Linked = On(k, p) /\ data' = data
      BY <1>1, LinkedIsPath
    <3> QED  BY <1>4, <1>5, <3>1
  <2>2. \A i \in 0 .. k : mem'[<<curr'[t], "next">>] = p[i + 1] => i = 0
    BY <1>1, <1>2, HeadNext
  <2>3. Counted(t, k, p, {})'
    <3>1. Cardinality({}) = 0
      BY FS_EmptySet
    <3>2. \A j \in 1 .. 0 : FALSE
      OBVIOUS
    <3> QED  BY <1>3, <1>4, <2>2, <3>1, <3>2 DEF Counted, UpTo
  <2> QED  BY <2>1, <2>3 DEF CountOK
<1> QED  BY <1>5, <1>6, <1>7, <1>8, <1>9, <1>10

\* The node that an insert allocates is nobody's.
LEMMA Allocated ==
  ASSUME IInv, Unused # {}, NEW n, n = CHOOSE x \in Unused : \A y \in Unused : x <= y
  PROVE  n \in Node /\ data[n] = 0
<1>1. Unused \in SUBSET Nat /\ Unused \subseteq Node
  BY Constants DEF Unused
<1>2. n \in Unused
  <2>1. \E x \in Unused : \A y \in Unused : x <= y
    BY <1>1, Assumed, L!Least
  <2> QED  BY <2>1
<1> QED  BY <1>2 DEF Unused

LEMMA CallStep ==
  ASSUME IInv, NEW t \in Thread, NEW name \in {"insert", "remove", "count"}, NEW key \in Key,
         Call(t, name, key)
  PROVE  IInv' /\ Settled' = Settled
<1>1. PICK k \in Nat : \E p \in [0 .. k + 1 -> Val] :
              /\ Holds(k, p) /\ ListOK(k, p)
              /\ \A u \in Thread : WorkerOK(u) /\ CountOK(u, k, p)
  BY HasPath
<1>2. PICK p \in [0 .. k + 1 -> Val] :
              /\ Holds(k, p) /\ ListOK(k, p)
              /\ \A u \in Thread : WorkerOK(u) /\ CountOK(u, k, p)
  BY <1>1
<1>3. TypeOK /\ LocalTypes /\ WorkerOK(t) /\ crashed \in BOOLEAN /\ key # 0
  BY <1>2, HasPath, TypeParts, McasSortedListAssumption DEF TypeConjuncts
<1>4. /\ pc[t] = "idle" /\ left[t] > 0 /\ M!NoStore /\ UNCHANGED <<curr, prev, next, n_val, left, crashed>>
      /\ pc' = [pc EXCEPT ![t] = "walk"]
      /\ stayed' = [stayed EXCEPT ![t] = IF name = "count" THEN {n \in Linked : data[n] = key} ELSE {}]
  BY DEF Call
<1>5. ~Inserting(t)
  BY <1>3, <1>4 DEF WorkerOK, Inserting, Is
<1>6. CASE name # "insert"
  <2>1. PICK c : c = <<name, key, Null>>
    OBVIOUS
  <2>2. c \in CallType /\ c # <<>> /\ c[1] = name /\ c[2] = key /\ c[3] = Null
    BY <1>6, <2>1 DEF CallType
  <2>3. call' = [call EXCEPT ![t] = c] /\ data' = data
    BY <1>6, <2>1 DEF Call
  <2>4. call'[t] = c
    BY <1>3, <2>3 DEF LocalTypes
  <2>5. ~Inserting(t)'
    BY <1>6, <2>2, <2>4 DEF Inserting, Is
  <2>6. \A u \in Thread : u # t => Keeps(u)
    BY <1>3, <1>4, <2>3 DEF LocalTypes, Keeps
  <2>7. Known' = Known
    BY <1>5, <2>3, <2>5, <2>6, KnownStays
  <2>8. /\ LocalTypes' /\ \A u \in Thread : u # t => Keeps(u) /\ stayed'[u] = stayed[u]
        /\ WorkerOK(t)' /\ CountOK(t, k, p)'
    BY <1>2, <1>4, <1>6, <2>2, <2>3, <2>7, BeginOK
  <2> QED  BY <1>2, <1>3, <1>4, <1>5, <2>3, <2>5, <2>8, LocalStep
<1>7. CASE name = "insert"
  <2>1. PICK n : n = CHOOSE x \in Unused : \A y \in Unused : x <= y
    OBVIOUS
  <2>2. n \in Node /\ data[n] = 0
    BY <1>7, <2>1, Allocated DEF Call
  <2>3. PICK c : c = <<name, key, n>>
    OBVIOUS
  <2>4. c \in CallType /\ c # <<>> /\ c[1] = name /\ c[2] = key /\ c[3] = n
    BY <1>7, <2>2, <2>3 DEF CallType
  <2>5. call' = [call EXCEPT ![t] = c] /\ data' = [data EXCEPT ![n] = key]
    BY <1>7, <2>1, <2>3 DEF Call
  <2>6. /\ data \in [Node -> Key \cup {0}] /\ data' \in [Node -> Key \cup {0}] /\ data'[n] = key
        /\ \A x \in Node : x # n => data'[x] = data[x]
    BY <1>3, <2>2, <2>5, TypeFacts
  <2>7. Inserting(t)' /\ NewNode(t)' = n
    <3>1. call'[t] = c /\ pc'[t] = "walk"
      BY <1>3, <1>4, <2>5 DEF LocalTypes
    <3> QED  BY <1>7, <2>4, <3>1 DEF Inserting, Is, NewNode
  <2>8. \A u \in Thread : u # t => Keeps(u) /\ (Inserting(u)' <=> Inserting(u)) /\ NewNode(u)' = NewNode(u)
    BY <1>3, <1>4, <2>5 DEF LocalTypes, Keeps, Inserting, Is, NewNode
  <2>9. Private' = Private \cup {n}
    <3>1. \A x : x \in Private' <=> x \in Private \/ x = n
      BY <1>5, <2>7, <2>8, PrivateIs
    <3> QED  BY <3>1
  <2>10. Known' = Known
    <3>1. {x \in Node : data'[x] # 0} \ Private' = {x \in Node : data[x] # 0} \ Private
      BY <2>2, <2>6, <2>9
    <3> QED  BY <3>1 DEF Known
  <2>11. /\ LocalTypes' /\ \A u \in Thread : u # t => stayed'[u] = stayed[u]
         /\ WorkerOK(t)' /\ CountOK(t, k, p)'
    <3>1. /\ \A x \in Node : data[x] # 0 => data'[x] = data[x]
          /\ c[1] = "insert" /\ data'[c[3]] # 0
      BY <1>3, <1>7, <2>2, <2>4, <2>6
    <3> QED  BY <1>2, <1>4, <2>4, <2>5, <2>10, <3>1, BeginOK
  <2>12. L!MCASTypeOK' /\ L!LockDiscipline' /\ Settled' = Settled /\ mem' = mem /\ lock' = lock /\ todo' = todo
    BY <1>3, <1>4, TypeFacts, Assumed, Same, L!NoStoreStep DEF Settled, M!NoStore
  <2>13. ListOK(k, p)'
    BY <1>2, <1>3, <2>9, <2>10, <2>12, ListStays
  <2>14. \A u \in Thread : u # t => WorkerOK(u)' /\ CountOK(u, k, p)'
    BY <1>2, <1>3, <2>2, <2>6, <2>8, <2>10, <2>11, <2>12, WorkerStays, CountStays
  <2>15. \A u \in Thread : u # t /\ Inserting(u) => NewNode(u) # n
    BY <1>2, <2>2 DEF WorkerOK
  <2>16. \A u, v \in Thread : Inserting(u)' /\ Inserting(v)' /\ NewNode(u)' = NewNode(v)' => u = v
    BY <2>7, <2>8, <2>15 DEF IInv
  <2>17. TypeOK'
    BY <1>3, <1>4, <2>6, <2>11, <2>12, TypeParts DEF TypeConjuncts
  <2>18. Holds(k, p)'
    BY <2>11, <2>13, <2>14 DEF Holds
  <2> QED  BY <2>12, <2>16, <2>17, <2>18 DEF IInv
<1> QED  BY <1>6, <1>7

\* LinkedIsPath, after a step.
LEMMA LinkedIsAnyPath ==
  \A k \in Nat : \A p \in [0 .. k + 1 -> Val] : TypeOK /\ ListOK(k, p) => Linked = On(k, p)
BY LinkedIsPath

LEMMA LinkedIsAnyPathNext ==
  (\A k \in Nat : \A p \in [0 .. k + 1 -> Val] : TypeOK /\ ListOK(k, p) => Linked = On(k, p))'
BY LinkedIsAnyPath, PTL

LEMMA LinkedIsPathNext ==
  ASSUME NEW k \in Nat, NEW p \in [0 .. k + 1 -> Val], TypeOK', ListOK(k, p)'
  PROVE  Linked' = On(k, p)
BY LinkedIsAnyPathNext DEF On

\* A step that stores to the links of the node of an insert.
LEMMA PrivateStep ==
  ASSUME IInv, NEW k \in Nat, NEW p \in [0 .. k + 1 -> Val], Holds(k, p), NEW t \in Thread,
         Inserting(t), Inserting(t)', UNCHANGED <<lock, todo, data, call, crashed>>, LocalTypes',
         NEW n, n = NewNode(t), mem' \in [Addr -> Val],
         \A a \in Addr : a[1] # n => mem'[a] = mem[a],
         mem'[<<n, "next">>] \in Known \ {head}, mem'[<<n, "prev">>] \in Known \ {tail},
         \A u \in Thread : u # t => Keeps(u) /\ stayed'[u] = stayed[u], WorkerOK(t)'
  PROVE  IInv' /\ Linked' = Linked
<1>1. TypeOK /\ ListOK(k, p) /\ crashed \in BOOLEAN /\ \A u \in Thread : WorkerOK(u) /\ CountOK(u, k, p)
  BY HasPath, TypeParts DEF Holds, TypeConjuncts
<1>2. Known' = Known /\ Private' = Private
  BY KnownStays
<1>3. n \in Node /\ n \in Private /\ n \notin Known
  <2>1. n \in Node /\ n \in Private
    BY <1>1, TypeFacts, Names, PrivateIs DEF Inserting
  <2> QED  BY <2>1, Constants DEF Known
<1>4. \A x \in Val : <<x, "next">> \in Addr /\ <<x, "prev">> \in Addr
  BY DEF Addr, Link, Val
<1>5. \A x \in Val \ {n} : mem'[<<x, "next">>] = mem[<<x, "next">>] /\ mem'[<<x, "prev">>] = mem[<<x, "prev">>]
  BY <1>4
<1>6. /\ L!MCASTypeOK' /\ L!LockDiscipline'
      /\ \A a \in Addr : (\A i \in 1 .. Len(todo) : todo[i].addr # a) => Settled'[a] = mem'[a]
      /\ \A a \in Addr : mem'[a] = mem[a] => Settled'[a] = Settled[a]
  BY <1>1, TypeFacts, Assumed, L!StoresElsewhere DEF Settled
<1>7. \A x \in Val \ {n} : /\ Settled'[<<x, "next">>] = Settled[<<x, "next">>]
                           /\ Settled'[<<x, "prev">>] = Settled[<<x, "prev">>]
  BY <1>4, <1>5, <1>6
<1>8. Settled'[<<n, "next">>] = mem'[<<n, "next">>] /\ Settled'[<<n, "prev">>] = mem'[<<n, "prev">>]
  <2>1. \A i \in 1 .. Len(todo) : todo[i].addr # <<n, "next">> /\ todo[i].addr # <<n, "prev">>
    BY <1>1, <1>3 DEF ListOK
  <2>2. n \in Val
    BY <1>3 DEF Val
  <2> QED  BY <1>4, <1>6, <2>1, <2>2
<1>9. \A x \in Known : x # n /\ x \in Val
  BY <1>3 DEF Known, Val
<1>10. PathOK(Settled, k, p)'
  <2>1. PathOK(Settled, k, p) /\ On(k, p) \subseteq Known
    BY <1>1 DEF ListOK
  <2>2. \A i \in 0 .. k + 1 : p[i] \in Known
    BY <2>1, PathFacts DEF Known
  <2>3. \A i \in 0 .. k : i \in 0 .. k + 1 /\ i + 1 \in 0 .. k + 1
    OBVIOUS
  <2>4. \A i \in 0 .. k : p[i] \in Val \ {n} /\ p[i + 1] \in Val \ {n}
    BY <1>9, <2>2, <2>3
  <2> QED  BY <1>7, <2>1, <2>4 DEF PathOK
<1>11. RestOff(Settled, k, p)'
  <2>1. head \in Val \ {n} /\ tail \in Val \ {n} /\ Null \in Val \ {n}
    BY <1>9 DEF Known
  <2>2. \A x \in Node \ Private : x \in Val \ {n}
    BY <1>3 DEF Val
  <2>3. RestOff(Settled, k, p)
    BY <1>1 DEF ListOK
  <2> QED  BY <1>2, <1>7, <2>1, <2>2, <2>3 DEF RestOff, Off
<1>12. LinksOK(mem)' /\ LinksOK(Settled)'
  <2>1. LinksOK(mem) /\ LinksOK(Settled)
    BY <1>1 DEF ListOK
  <2>2. \A x \in Val : x = n \/ x \in Val \ {n}
    OBVIOUS
  <2> QED  BY <1>2, <1>5, <1>7, <1>8, <2>1, <2>2 DEF LinksOK
<1>13. Behind(k, p)'
  <2>1. Behind(k, p)
    BY <1>1 DEF ListOK
  <2>2. ASSUME NEW x \in Val, mem'[<<x, "next">>] # Settled'[<<x, "next">>]
        PROVE  /\ Settled'[<<x, "next">>] = Null
               /\ \E i \in 0 .. k : mem'[<<x, "next">>] = p[i + 1]
    <3>1. x \in Val \ {n}
      BY <2>2, <1>8
    <3>2. mem'[<<x, "next">>] = mem[<<x, "next">>] /\ Settled'[<<x, "next">>] = Settled[<<x, "next">>]
      BY <3>1, <1>5, <1>7
    <3> QED  BY <3>2, <2>1, <2>2 DEF Behind
  <2> QED  BY <2>2 DEF Behind
<1>14. ListOK(k, p)'
  <2>1. (On(k, p) \subseteq Known)' /\ \A i \in 1 .. Len(todo') : todo'[i].addr[1] \in Known'
    BY <1>1, <1>2 DEF ListOK
  <2> QED  BY <1>10, <1>11, <1>12, <1>13, <2>1 DEF ListOK
<1>15. \A u \in Thread : curr[u] \in Known
  BY <1>1 DEF WorkerOK
<1>16. \A u \in Thread : u # t => WorkerOK(u)' /\ CountOK(u, k, p)'
  <2>1. \A u \in Thread : mem'[<<curr[u], "next">>] = mem[<<curr[u], "next">>]
    BY <1>5, <1>9, <1>15
  <2> QED  BY <1>1, <1>2, <2>1, WorkerStays, CountStays
<1>17. CountOK(t, k, p)'
  <2>1. ~Is(t, "count")'
    BY Names DEF Inserting, Is
  <2> QED  BY <2>1 DEF CountOK
<1>18. TypeOK'
  <2>1. data' \in [Node -> Key \cup {0}] /\ crashed' \in BOOLEAN
    BY <1>1, TypeFacts
  <2> QED  BY <1>6, <2>1, TypeParts DEF TypeConjuncts
<1>19. \A u \in Thread : (Inserting(u)' <=> Inserting(u)) /\ NewNode(u)' = NewNode(u)
  BY DEF Keeps, Inserting, Is, NewNode
<1>20. \A u, v \in Thread : Inserting(u)' /\ Inserting(v)' /\ NewNode(u)' = NewNode(v)' => u = v
  BY <1>19 DEF IInv
<1>21. Holds(k, p)'
  BY <1>14, <1>16, <1>17 DEF Holds
<1>22. Linked' = Linked
  BY <1>1, <1>14, <1>18, LinkedIsPath, LinkedIsPathNext
<1> QED  BY <1>18, <1>20, <1>21, <1>22 DEF IInv

\* insert_before sets the links of its node.
LEMMA ReloadPrevStep ==
  ASSUME IInv, NEW t \in Thread, ReloadPrev(t)
  PROVE  IInv' /\ Linked' = Linked
<1>1. PICK k \in Nat : \E p \in [0 .. k + 1 -> Val] :
              /\ Holds(k, p) /\ ListOK(k, p)
              /\ \A u \in Thread : WorkerOK(u) /\ CountOK(u, k, p)
  BY HasPath
<1>2. PICK p \in [0 .. k + 1 -> Val] :
              /\ Holds(k, p) /\ ListOK(k, p)
              /\ \A u \in Thread : WorkerOK(u) /\ CountOK(u, k, p)
  BY <1>1
<1>3. TypeOK /\ LocalTypes /\ WorkerOK(t) /\ pc[t] = "reload_prev" /\ mem \in [Addr -> Val]
  BY <1>2, HasPath, TypeFacts DEF ReloadPrev
<1>4. PICK n, q : n = NewNode(t) /\ q = mem[<<curr[t], "prev">>]
  OBVIOUS
<1>5. /\ prev' = [prev EXCEPT ![t] = q] /\ pc' = [pc EXCEPT ![t] = "qcas"]
      /\ mem' = [mem EXCEPT ![<<n, "next">>] = curr[t], ![<<n, "prev">>] = q]
      /\ UNCHANGED <<lock, todo, data, call, curr, next, n_val, left, crashed, stayed>>
  BY <1>4 DEF ReloadPrev
<1>6. Is(t, "insert") /\ Inserting(t) /\ curr[t] \in Known \ {head} /\ call[t] # <<>> /\ lock # t
  BY <1>3 DEF WorkerOK, Inserting, AtQcas
<1>7. q \in Known \ {tail} /\ n \in Node
  BY <1>2, <1>3, <1>4, <1>6, Loads, TypeFacts
<1>8. /\ pc'[t] = "qcas" /\ prev'[t] = q /\ \A name : Is(t, name)' <=> Is(t, name)
  BY <1>3, <1>5 DEF LocalTypes, Is
<1>9. Inserting(t)'
  BY <1>6, <1>8 DEF Inserting
<1>10. \A u \in Thread : u # t => Keeps(u) /\ stayed'[u] = stayed[u]
  BY <1>3, <1>5 DEF Keeps, LocalTypes
<1>11. LocalTypes'
  <2>1. q \in {head, Null} \cup Node /\ "qcas" \in PC
    BY <1>7 DEF Known, PC, AtQcas
  <2>2. prev' \in [Thread -> {head, Null} \cup Node] /\ pc' \in [Thread -> PC]
    BY <1>3, <1>5, <2>1 DEF LocalTypes
  <2> QED  BY <1>3, <1>5, <2>2 DEF LocalTypes
<1>12. WorkerOK(t)'
  <2>1. Known' = Known
    BY <1>5, <1>6, <1>9, <1>10, KnownStays
  <2>2. KeyOf(t)' = KeyOf(t) /\ NewNode(t)' = NewNode(t)
    BY <1>5 DEF KeyOf, NewNode
  <2> QED  BY <1>3, <1>5, <1>6, <1>7, <1>8, <2>1, <2>2 DEF WorkerOK, AtQcas
<1>13. <<n, "next">> \in Addr /\ <<n, "prev">> \in Addr /\ curr[t] \in Val /\ q \in Val
  BY <1>6, <1>7 DEF Addr, Link, Known, Val
<1>14. mem' \in [Addr -> Val] /\ mem'[<<n, "next">>] = curr[t] /\ mem'[<<n, "prev">>] = q
  BY <1>3, <1>5, <1>13
<1>15. \A a \in Addr : a[1] # n => mem'[a] = mem[a]
  BY <1>3, <1>5
<1> QED  BY <1>2, <1>4, <1>5, <1>6, <1>7, <1>9, <1>10, <1>11, <1>12, <1>14, <1>15, PrivateStep

\* A qcas that fails: an insert clears the links of its node.
LEMMA FailStep ==
  ASSUME IInv, NEW t \in Thread, QcasFails(t)
  PROVE  IInv' /\ Linked' = Linked
<1>1. PICK k \in Nat : \E p \in [0 .. k + 1 -> Val] :
              /\ Holds(k, p) /\ ListOK(k, p)
              /\ \A u \in Thread : WorkerOK(u) /\ CountOK(u, k, p)
  BY HasPath
<1>2. PICK p \in [0 .. k + 1 -> Val] :
              /\ Holds(k, p) /\ ListOK(k, p)
              /\ \A u \in Thread : WorkerOK(u) /\ CountOK(u, k, p)
  BY <1>1
<1>3. /\ TypeOK /\ LocalTypes /\ WorkerOK(t) /\ pc[t] = "qcas" /\ mem \in [Addr -> Val] /\ lock = NoThread
      /\ Settled = mem /\ crashed \in BOOLEAN
  BY <1>2, HasPath, TypeFacts, TypeParts DEF QcasFails, TypeConjuncts
<1>4. PICK n : n = NewNode(t)
  OBVIOUS
<1>5. /\ Restart(t) /\ mem' = [a \in Addr |-> IF a[1] = n THEN Null ELSE mem[a]]
      /\ UNCHANGED <<lock, todo, data, call, left, crashed, stayed>>
  BY <1>4 DEF QcasFails, Addr
<1>6. Null \in Val /\ Null \in Known \ {head} /\ Null \in Known \ {tail} /\ <<head, "next">> \in Addr
  BY Constants DEF Val, Known, Addr, Link
<1>7. mem' \in [Addr -> Val] /\ \A a \in Addr : a[1] # n => mem'[a] = mem[a]
  BY <1>3, <1>5, <1>6
<1>8. call[t] # <<>> /\ (Is(t, "insert") \/ Is(t, "remove")) /\ lock # t
  BY <1>3 DEF WorkerOK, AtQcas
<1>9. (Is(t, "insert") => n \in Node) /\ (~Is(t, "insert") => n = Null) /\ n # head
  BY <1>3, <1>4, <1>8, TypeFacts, Constants
<1>10. mem'[<<head, "next">>] = mem[<<head, "next">>]
  BY <1>6, <1>7, <1>9
<1>11. /\ WorkerOK(t)' /\ CountOK(t, k, p)' /\ LocalTypes'
       /\ \A u \in Thread : u # t => Keeps(u) /\ stayed'[u] = stayed[u]
       /\ Inserting(t)' <=> Inserting(t)
  <2>1. pc[t] \in AtQcas \cup {"walk"}
    BY <1>3 DEF AtQcas
  <2> QED  BY <1>2, <1>3, <1>5, <1>8, <1>10, <2>1, RestartOK
<1>12. CASE Is(t, "insert")
  <2>1. Inserting(t)
    BY <1>3, <1>12 DEF Inserting
  <2>2. <<n, "next">> \in Addr /\ <<n, "prev">> \in Addr
    BY <1>9, <1>12 DEF Addr, Link
  <2>3. mem'[<<n, "next">>] \in Known \ {head} /\ mem'[<<n, "prev">>] \in Known \ {tail}
    BY <1>5, <1>6, <2>2
  <2>4. Inserting(t)' /\ UNCHANGED <<lock, todo, data, call, crashed>> /\ LocalTypes' /\ WorkerOK(t)'
    BY <1>5, <1>11, <2>1
  <2>5. \A u \in Thread : u # t => Keeps(u) /\ stayed'[u] = stayed[u]
    BY <1>11
  <2> QED  BY <1>2, <1>4, <1>7, <2>1, <2>3, <2>4, <2>5, PrivateStep
<1>13. CASE ~Is(t, "insert")
  <2>1. mem[<<Null, "next">>] = Null /\ mem[<<Null, "prev">>] = Null
    BY <1>2, <1>3 DEF ListOK, RestOff, Off
  <2>2. \A a \in Addr : a[1] = n => mem[a] = Null
    BY <1>9, <1>13, <2>1 DEF Addr, Link
  <2>3. \A a \in Addr : mem'[a] = mem[a]
    BY <1>5, <2>2
  <2>4. mem' = mem
    BY <1>3, <1>7, <2>3
  <2>5. M!NoStore
    BY <1>5, <2>4 DEF M!NoStore
  <2>6. IInv' /\ Settled' = Settled
    BY <1>2, <1>3, <1>5, <1>11, <2>5, LocalStep
  <2>7. Linked' = Linked
    BY <2>6, Same DEF Linked, Settled
  <2> QED  BY <2>6, <2>7
<1> QED  BY <1>12, <1>13

-----------------------------------------------------------------------------
(***************************************************************************)
(* The steps that change the path.                                         *)
(***************************************************************************)

\* The walk of a count over the path that gets node n after position i: what
\* was the position l + 1 ahead of it is now lnew + 1.
LEMMA CountWithNode ==
  ASSUME NEW k \in Nat, NEW p, NEW pp, NEW i \in 0 .. k, NEW n, Longer(k, p, pp, i, n),
         NEW l \in 0 .. k, NEW C, NEW S, UpTo(k, p, l, C, S), n \notin C, n \notin S,
         NEW lnew \in 0 .. k + 1, (l <= i /\ lnew = l) \/ (l >= i /\ lnew = l + 1)
  PROVE  UpTo(k + 1, pp, lnew, C, S)
<1>1. /\ pp[i + 1] = n /\ (\A j \in 0 .. i : pp[j] = p[j]) /\ \A j \in i + 1 .. k + 1 : pp[j + 1] = p[j]
      /\ \A j \in 1 .. k : p[j] \in C => j <= l
      /\ \A j \in 1 .. l : p[j] \in S => p[j] \in C
  BY DEF Longer, UpTo
<1>2. ASSUME NEW j \in 1 .. k + 1, pp[j] \in C  PROVE j <= lnew
  <2>1. CASE j <= i
    <3>1. j \in 0 .. i /\ j \in 1 .. k
      BY <2>1
    <3>2. j <= l
      BY <1>1, <1>2, <3>1
    <3> QED  BY <3>2
  <2>2. CASE j = i + 1
    BY <1>1, <1>2, <2>2
  <2>3. CASE j > i + 1
    <3>1. j - 1 \in i + 1 .. k + 1 /\ j - 1 \in 1 .. k /\ (j - 1) + 1 = j
      BY <2>3
    <3>2. p[j - 1] \in C
      BY <1>1, <1>2, <3>1
    <3>3. j - 1 <= l
      BY <1>1, <3>1, <3>2
    <3> QED  BY <2>3, <3>3
  <2> QED  BY <2>1, <2>2, <2>3
<1>3. ASSUME NEW j \in 1 .. lnew, pp[j] \in S  PROVE pp[j] \in C
  <2>1. CASE j <= i
    <3>1. j \in 0 .. i /\ j \in 1 .. l
      BY <2>1
    <3> QED  BY <1>1, <1>3, <3>1
  <2>2. CASE j = i + 1
    BY <1>1, <1>3, <2>2
  <2>3. CASE j > i + 1
    <3>1. j - 1 \in i + 1 .. k + 1 /\ j - 1 \in 1 .. l /\ (j - 1) + 1 = j
      BY <2>3
    <3> QED  BY <1>1, <1>3, <3>1
  <2> QED  BY <2>1, <2>2, <2>3
<1> QED  BY <1>2, <1>3 DEF UpTo

\* The same for the path that loses the node at position i + 1.
LEMMA CountWithout ==
  ASSUME NEW k \in Nat, NEW p, NEW pp, NEW i \in 0 .. k - 1, Shorter(k, p, pp, i),
         NEW l \in 0 .. k, NEW C, NEW S, UpTo(k, p, l, C, S),
         NEW lnew \in 0 .. k - 1, (l <= i /\ lnew = l) \/ (l >= i + 1 /\ lnew = l - 1)
  PROVE  UpTo(k - 1, pp, lnew, C, S)
<1>1. /\ (\A j \in 0 .. i : pp[j] = p[j]) /\ \A j \in i + 1 .. k : pp[j] = p[j + 1]
      /\ \A j \in 1 .. k : p[j] \in C => j <= l
      /\ \A j \in 1 .. l : p[j] \in S => p[j] \in C
  BY DEF Shorter, UpTo
<1>2. ASSUME NEW j \in 1 .. k - 1, pp[j] \in C  PROVE j <= lnew
  <2>1. CASE j <= i
    <3>1. j \in 0 .. i /\ j \in 1 .. k
      BY <2>1
    <3>2. j <= l
      BY <1>1, <1>2, <3>1
    <3> QED  BY <2>1, <3>2
  <2>2. CASE j > i
    <3>1. j \in i + 1 .. k /\ j + 1 \in 1 .. k
      BY <2>2
    <3>2. p[j + 1] \in C
      BY <1>1, <1>2, <3>1
    <3>3. j + 1 <= l
      BY <1>1, <3>1, <3>2
    <3> QED  BY <2>2, <3>3
  <2> QED  BY <2>1, <2>2
<1>3. ASSUME NEW j \in 1 .. lnew, pp[j] \in S  PROVE pp[j] \in C
  <2>1. CASE j <= i
    <3>1. j \in 0 .. i /\ j \in 1 .. l
      BY <2>1
    <3> QED  BY <1>1, <1>3, <3>1
  <2>2. CASE j > i
    <3>1. j \in i + 1 .. k /\ j + 1 \in 1 .. l
      BY <2>2
    <3> QED  BY <1>1, <1>3, <3>1
  <2> QED  BY <2>1, <2>2
<1> QED  BY <1>2, <1>3 DEF UpTo

\* What a qcas that succeeds has found.
LEMMA QcasFinds ==
  ASSUME TypeOK, NEW t, QcasSucceeds(t), NEW w, w = QcasWords(t)
  PROVE  /\ L!Succeed(t, w) /\ lock = NoThread /\ Settled = mem
         /\ \A i \in DOMAIN w : mem[w[i].addr] = w[i].old /\ w[i].addr[1] # Null
<1>1. M!Succeed(t, w) /\ ~Faults(w) /\ lock = NoThread /\ M!Matches(w)
  BY DEF QcasSucceeds, M!Succeed
<1>2. \A i \in DOMAIN w : mem[w[i].addr] = w[i].old
  BY <1>1 DEF M!Matches
<1>3. ASSUME NEW i \in DOMAIN w  PROVE w[i].addr[1] # Null
  <2>1. DOMAIN w = 1 .. 4
    BY DEF QcasWords, InsertWords, DeleteWords
  <2>2. \A j \in 1 .. i - 1 : j \in DOMAIN w
    BY <2>1
  <2> QED  BY <1>1, <1>2, <2>2 DEF Faults
<1> QED  BY <1>1, <1>2, <1>3, TypeFacts, Same

\* The qcas of t has made its first store: the rest of the invariant, when
\* the list is the path pp and the counts have moved with it.
LEMMA EffectOK ==
  ASSUME IInv, NEW k \in Nat, NEW p \in [0 .. k + 1 -> Val], Holds(k, p),
         NEW t \in Thread, QcasSucceeds(t), L!MCASTypeOK', L!LockDiscipline', lock' \in {t, NoThread},
         NEW kk \in Nat, NEW pp \in [0 .. kk + 1 -> Val], ListOK(kk, pp)', Known \subseteq Known',
         \A u \in Thread : u # t => CountOK(u, kk, pp)'
  PROVE  IInv' /\ Linked' = On(kk, pp)
<1>1. /\ TypeOK /\ LocalTypes /\ crashed \in BOOLEAN /\ data \in [Node -> Key \cup {0}]
      /\ \A u \in Thread : WorkerOK(u)
  BY HasPath, TypeParts DEF Holds, TypeConjuncts
<1>2. /\ pc[t] = "qcas" /\ lock = NoThread
      /\ UNCHANGED <<data, call, curr, prev, next, n_val, left, crashed>>
      /\ pc' = [pc EXCEPT ![t] = IF lock' = NoThread THEN "return" ELSE "store"]
      /\ stayed' = IF Is(t, "remove") THEN [u \in Thread |-> stayed[u] \ {curr[t]}] ELSE stayed
  BY DEF QcasSucceeds, Advance, M!Returns, M!Succeed
<1>3. /\ pc'[t] = (IF lock' = NoThread THEN "return" ELSE "store")
      /\ pc' \in [Thread -> PC] /\ \A u \in Thread : u # t => pc'[u] = pc[u]
  BY <1>1, <1>2 DEF LocalTypes, PC, AtQcas
<1>4. t # NoThread
  BY McasSortedListAssumption
<1>5. LocalTypes'
  <2>1. stayed' \in [Thread -> SUBSET Node]
    BY <1>1, <1>2 DEF LocalTypes
  <2> QED  BY <1>1, <1>2, <1>3, <2>1 DEF LocalTypes
<1>6. TypeOK'
  BY <1>1, <1>2, <1>5, TypeParts DEF TypeConjuncts
<1>7. \A u \in Thread : u # t => Keeps(u)
  BY <1>2, <1>3 DEF Keeps
<1>8. ~Inserting(t)'
  BY <1>3 DEF Inserting
<1>9. \A u \in Thread : Inserting(u)' => Inserting(u) /\ NewNode(u)' = NewNode(u)
  BY <1>2, <1>7, <1>8 DEF Keeps, Inserting, Is, NewNode
<1>10. \A u, v \in Thread : Inserting(u)' /\ Inserting(v)' /\ NewNode(u)' = NewNode(v)' => u = v
  BY <1>9 DEF IInv
<1>11. ASSUME NEW u \in Thread, u # t  PROVE WorkerOK(u)'
  <2>1. lock' = u <=> lock = u
    BY <1>2, <1>11, McasSortedListAssumption
  <2> QED  BY <1>1, <1>2, <1>7, <1>11, <2>1, WorkerStays
<1>12. Is(t, "insert") \/ Is(t, "remove")
  BY <1>1, <1>2 DEF WorkerOK, AtQcas
<1>13. \A name : Is(t, name)' <=> Is(t, name)
  BY <1>2 DEF Is
<1>14. WorkerOK(t)'
  <2>1. KeyOf(t)' = KeyOf(t)
    BY <1>2 DEF KeyOf
  <2> QED  BY <1>1, <1>2, <1>3, <1>4, <1>8, <1>13, <2>1 DEF WorkerOK, AtQcas
<1>15. CountOK(t, kk, pp)'
  BY <1>12, <1>13, Names DEF CountOK
<1>16. Holds(kk, pp)'
  BY <1>11, <1>14, <1>15 DEF Holds
<1>17. Linked' = On(kk, pp)
  BY <1>6, LinkedIsPathNext
<1> QED  BY <1>6, <1>10, <1>16, <1>17 DEF IInv

\* What a qcas that succeeds stores.
LEMMA QcasEffect ==
  ASSUME TypeOK, NEW t \in Thread, QcasSucceeds(t), NEW w \in Seq(L!Words), w = QcasWords(t), L!Distinct(w)
  PROVE  /\ L!MCASTypeOK' /\ L!LockDiscipline' /\ lock' \in {t, NoThread}
         /\ \A i \in 1 .. 4 : Settled'[w[i].addr] = w[i].new
         /\ \A a \in Addr : (\A i \in 1 .. 4 : w[i].addr # a) => Settled'[a] = mem[a]
         /\ \A a \in Addr : mem'[a] = mem[a] \/ mem'[a] = Settled'[a]
         /\ mem'[w[1].addr] = w[1].new
         /\ \A i \in 1 .. Len(todo') : \E j \in 1 .. 4 : todo'[i] = w[j]
<1>1. /\ L!MCASTypeOK /\ L!LockDiscipline /\ L!Succeed(t, w) /\ mem \in [Addr -> Val]
  BY QcasFinds, TypeFacts
<1>2. Len(w) = 4 /\ w # <<>>
  BY DEF QcasWords, InsertWords, DeleteWords
<1>3. /\ L!MCASTypeOK' /\ L!LockDiscipline' /\ Settled' = L!Stored(mem, w)
      /\ lock' \in {t, NoThread}
      /\ lock' = t => /\ Len(todo') = Len(w) - 1
                      /\ \A i \in 1 .. Len(todo') : todo'[i] = w[i + 1]
  BY <1>1, <1>2, Assumed, L!SucceedStep DEF Settled
<1>4. /\ \A i \in 1 .. 4 : Settled'[w[i].addr] = w[i].new
      /\ \A a \in Addr : (\A i \in 1 .. 4 : w[i].addr # a) => Settled'[a] = mem[a]
  <2>1. PICK m : m = L!Stored(mem, w)
    OBVIOUS
  <2>2. /\ \A i \in 1 .. Len(w) : m[w[i].addr] = w[i].new
        /\ \A a \in Addr : (\A i \in 1 .. Len(w) : w[i].addr # a) => m[a] = mem[a]
    <3>1. mem \in [Addr -> Val]
      BY <1>1
    <3>2. /\ \A i \in 1 .. Len(w) : L!Stored(mem, w)[w[i].addr] = w[i].new
          /\ \A a \in Addr : (\A i \in 1 .. Len(w) : w[i].addr # a) => L!Stored(mem, w)[a] = mem[a]
      BY <3>1, Assumed, L!StoredAt
    <3> QED  BY <2>1, <3>2
  <2>3. Settled' = m
    BY <1>3, <2>1
  <2>4. 1 .. Len(w) = 1 .. 4
    BY <1>2
  <2>5. \A i \in 1 .. 4 : m[w[i].addr] = w[i].new
    BY <2>2, <2>4
  <2>6. \A a \in Addr : (\A i \in 1 .. 4 : w[i].addr # a) => m[a] = mem[a]
    BY <2>2, <2>4
  <2> QED  BY <2>3, <2>5, <2>6
<1>5. \A a \in Addr : mem'[a] = mem[a] \/ mem'[a] = Settled'[a]
  BY <1>1, <1>2, Assumed, L!SucceedSettles DEF Settled
<1>6. mem'[w[1].addr] = w[1].new
  BY <1>1, <1>2, Assumed, L!SucceedFirst
<1>7. \A i \in 1 .. Len(todo') : \E j \in 1 .. 4 : todo'[i] = w[j]
  <2>1. CASE lock' = t
    <3>1. Len(todo') = 3 /\ \A i \in 1 .. Len(todo') : todo'[i] = w[i + 1]
      BY <1>2, <1>3, <2>1
    <3>2. \A i \in 1 .. 3 : i + 1 \in 1 .. 4
      OBVIOUS
    <3> QED  BY <3>1, <3>2
  <2>2. CASE lock' = NoThread
    <3>1. Len(todo') = 0
      BY <1>3, <2>2 DEF L!LockDiscipline
    <3> QED  BY <3>1
  <2> QED  BY <1>3, <2>1, <2>2
<1> QED  BY <1>3, <1>4, <1>5, <1>6, <1>7

\* The qcas of t puts node n between q and c, two neighbours on the path.
InsertsAt(t, k, p, q, c, n) ==
  /\ \E i \in 0 .. k : q = p[i] /\ c = p[i + 1]
  /\ n \in Node /\ n \in Private /\ data[n] # 0
  /\ q \in Known \ {tail, Null} /\ c \in Known \ {head, Null}
  /\ Settled = mem /\ mem[<<n, "next">>] = c
  /\ L!MCASTypeOK' /\ L!LockDiscipline' /\ lock' \in {t, NoThread}
  /\ Settled'[<<q, "next">>] = n /\ Settled'[<<c, "prev">>] = n
  /\ Settled'[<<n, "next">>] = c /\ Settled'[<<n, "prev">>] = q
  /\ \A x \in Val \ {q, n} : Settled'[<<x, "next">>] = mem[<<x, "next">>]
  /\ \A x \in Val \ {c, n} : Settled'[<<x, "prev">>] = mem[<<x, "prev">>]
  /\ \A a \in Addr : mem'[a] = mem[a] \/ mem'[a] = Settled'[a]
  /\ mem'[<<q, "next">>] = n
  /\ \A i \in 1 .. Len(todo') : todo'[i].addr[1] \in {q, c, n}

\* Where the qcas of an insert succeeds, and what it stores.
LEMMA InsertPlace ==
  ASSUME IInv, NEW k \in Nat, NEW p \in [0 .. k + 1 -> Val], Holds(k, p),
         NEW t \in Thread, QcasSucceeds(t), Is(t, "insert"),
         NEW q, q = prev[t], NEW c, c = curr[t], NEW n, n = NewNode(t)
  PROVE  InsertsAt(t, k, p, q, c, n)
<1>1. /\ TypeOK /\ LocalTypes /\ ListOK(k, p) /\ WorkerOK(t) /\ pc[t] = "qcas"
  BY HasPath DEF Holds, QcasSucceeds
<1>2. PICK w : w = <<M!Word(<<q, "next">>, c, n), M!Word(<<c, "prev">>, q, n),
                     M!Word(<<n, "next">>, c, c), M!Word(<<n, "prev">>, q, q)>>
  OBVIOUS
<1>3. /\ w = QcasWords(t) /\ DOMAIN w = 1 .. 4
      /\ w[1].addr = <<q, "next">> /\ w[1].old = c /\ w[1].new = n
      /\ w[2].addr = <<c, "prev">> /\ w[2].old = q /\ w[2].new = n
      /\ w[3].addr = <<n, "next">> /\ w[3].old = c /\ w[3].new = c
      /\ w[4].addr = <<n, "prev">> /\ w[4].old = q /\ w[4].new = q
  <2>1. w = QcasWords(t)
    BY <1>2 DEF QcasWords, InsertWords
  <2> QED  BY <1>2, <2>1 DEF M!Word
<1>4. /\ Settled = mem
      /\ \A i \in 1 .. 4 : mem[w[i].addr] = w[i].old /\ w[i].addr[1] # Null
  BY <1>1, <1>3, QcasFinds
<1>5. /\ mem[<<q, "next">>] = c /\ mem[<<c, "prev">>] = q /\ mem[<<n, "next">>] = c
      /\ q # Null /\ c # Null
  <2>1. 1 \in 1 .. 4 /\ 2 \in 1 .. 4 /\ 3 \in 1 .. 4
    OBVIOUS
  <2>2. /\ mem[w[1].addr] = w[1].old /\ w[1].addr[1] # Null
        /\ mem[w[2].addr] = w[2].old /\ w[2].addr[1] # Null
        /\ mem[w[3].addr] = w[3].old
    BY <1>4, <2>1
  <2> QED  BY <1>3, <2>2
<1>6. Inserting(t) /\ n \in Node /\ n \in Private /\ data[n] # 0 /\ n \notin Known
  <2>1. Inserting(t) /\ n \in Node /\ n \in Private /\ data[n] # 0
    BY <1>1, TypeFacts, Names, PrivateIs DEF Inserting, WorkerOK
  <2> QED  BY <2>1, Constants DEF Known
<1>7. q \in Known \ {tail, Null} /\ c \in Known \ {head, Null}
  <2>1. q \in Known /\ q # tail /\ c \in Known /\ c # head
    BY <1>1, Constants DEF WorkerOK, LocalTypes, AtQcas
  <2> QED  BY <1>5, <2>1
<1>8. \E i \in 0 .. k : q = p[i] /\ c = p[i + 1]
  <2>1. PathOK(Settled, k, p) /\ RestOff(Settled, k, p)
    BY <1>1 DEF ListOK
  <2>2. q = head \/ q \in On(k, p)
    <3>1. q \in Known /\ q # tail /\ q # Null
      BY <1>7
    <3>2. q = head \/ q \in Node \ Private
      BY <3>1 DEF Known
    <3> QED  BY <3>2, <1>4, <1>5, <2>1 DEF RestOff, Off
  <2>3. \E i \in 0 .. k : q = p[i]
    <3>1. 0 \in 0 .. k /\ \A i \in 1 .. k : i \in 0 .. k
      OBVIOUS
    <3> QED  BY <2>1, <2>2, <3>1, PathFacts
  <2>4. PICK i \in 0 .. k : q = p[i]
    BY <2>3
  <2>5. Settled[<<p[i], "next">>] = p[i + 1]
    BY <2>1 DEF PathOK
  <2> QED  BY <1>4, <1>5, <2>4, <2>5
<1>9. q \in Val /\ c \in Val /\ n \in Val /\ q # n /\ c # n
  BY <1>6, <1>7 DEF Known, Val
<1>10. w \in Seq(L!Words) /\ L!Distinct(w)
  <2>1. \A x \in Val : <<x, "next">> \in Addr /\ <<x, "prev">> \in Addr
    BY DEF Addr, Link, Val
  <2>2. /\ M!Word(<<q, "next">>, c, n) \in L!Words /\ M!Word(<<c, "prev">>, q, n) \in L!Words
        /\ M!Word(<<n, "next">>, c, c) \in L!Words /\ M!Word(<<n, "prev">>, q, q) \in L!Words
    BY <1>9, <2>1 DEF M!Word, L!Words
  <2>3. w \in Seq(L!Words)
    BY <1>2, <2>2
  <2>4. L!Distinct(w)
    <3>1. <<q, "next">> # <<c, "prev">> /\ <<q, "next">> # <<n, "next">> /\ <<q, "next">> # <<n, "prev">>
          /\ <<c, "prev">> # <<n, "next">> /\ <<c, "prev">> # <<n, "prev">> /\ <<n, "next">> # <<n, "prev">>
      BY <1>9
    <3> QED  BY <1>3, <3>1 DEF L!Distinct
  <2> QED  BY <2>3, <2>4
<1>11. /\ L!MCASTypeOK' /\ L!LockDiscipline' /\ lock' \in {t, NoThread}
       /\ \A i \in 1 .. 4 : Settled'[w[i].addr] = w[i].new
       /\ \A a \in Addr : (\A i \in 1 .. 4 : w[i].addr # a) => Settled'[a] = mem[a]
       /\ \A a \in Addr : mem'[a] = mem[a] \/ mem'[a] = Settled'[a]
       /\ mem'[w[1].addr] = w[1].new
       /\ \A i \in 1 .. Len(todo') : \E j \in 1 .. 4 : todo'[i] = w[j]
  BY <1>1, <1>3, <1>10, QcasEffect
<1>12. \A x \in Val \ {q, n} : Settled'[<<x, "next">>] = mem[<<x, "next">>]
  <2> SUFFICES ASSUME NEW x \in Val \ {q, n} PROVE Settled'[<<x, "next">>] = mem[<<x, "next">>]
    OBVIOUS
  <2>1. <<x, "next">> \in Addr /\ \A i \in 1 .. 4 : w[i].addr # <<x, "next">>
    BY <1>3 DEF Addr, Link, Val
  <2> QED  BY <1>11, <2>1
<1>13. \A x \in Val \ {c, n} : Settled'[<<x, "prev">>] = mem[<<x, "prev">>]
  <2> SUFFICES ASSUME NEW x \in Val \ {c, n} PROVE Settled'[<<x, "prev">>] = mem[<<x, "prev">>]
    OBVIOUS
  <2>1. <<x, "prev">> \in Addr /\ \A i \in 1 .. 4 : w[i].addr # <<x, "prev">>
    BY <1>3 DEF Addr, Link, Val
  <2> QED  BY <1>11, <2>1
<1>14. /\ Settled'[<<q, "next">>] = n /\ Settled'[<<c, "prev">>] = n
       /\ Settled'[<<n, "next">>] = c /\ Settled'[<<n, "prev">>] = q
       /\ mem'[<<q, "next">>] = n
  <2>1. 1 \in 1 .. 4 /\ 2 \in 1 .. 4 /\ 3 \in 1 .. 4 /\ 4 \in 1 .. 4
    OBVIOUS
  <2>2. /\ Settled'[w[1].addr] = w[1].new /\ Settled'[w[2].addr] = w[2].new
        /\ Settled'[w[3].addr] = w[3].new /\ Settled'[w[4].addr] = w[4].new
        /\ mem'[w[1].addr] = w[1].new
    BY <1>11, <2>1
  <2> QED  BY <1>3, <2>2
<1>15. \A i \in 1 .. Len(todo') : todo'[i].addr[1] \in {q, c, n}
  <2>1. \A j \in 1 .. 4 : w[j].addr[1] \in {q, c, n}
    BY <1>3
  <2> QED  BY <1>11, <2>1
<1> QED  BY <1>4, <1>5, <1>6, <1>7, <1>8, <1>11, <1>12, <1>13, <1>14, <1>15 DEF InsertsAt

\* The qcas of an insert links its node.
LEMMA InsertStep ==
  ASSUME IInv, NEW t \in Thread, QcasSucceeds(t), Is(t, "insert")
  PROVE  IInv' /\ NewNode(t) \in Node \ Linked /\ Linked' = Linked \cup {NewNode(t)}
<1>1. PICK k \in Nat : \E p \in [0 .. k + 1 -> Val] :
              /\ Holds(k, p) /\ ListOK(k, p)
              /\ \A u \in Thread : WorkerOK(u) /\ CountOK(u, k, p)
  BY HasPath
<1>2. PICK p \in [0 .. k + 1 -> Val] :
              /\ Holds(k, p) /\ ListOK(k, p)
              /\ \A u \in Thread : WorkerOK(u) /\ CountOK(u, k, p)
  BY <1>1
<1>3. PICK q, c, n : q = prev[t] /\ c = curr[t] /\ n = NewNode(t)
  OBVIOUS
<1>4. /\ \E i \in 0 .. k : q = p[i] /\ c = p[i + 1]
      /\ n \in Node /\ n \in Private /\ data[n] # 0
      /\ q \in Known \ {tail, Null} /\ c \in Known \ {head, Null}
      /\ Settled = mem /\ mem[<<n, "next">>] = c
      /\ L!MCASTypeOK' /\ L!LockDiscipline' /\ lock' \in {t, NoThread}
      /\ Settled'[<<q, "next">>] = n /\ Settled'[<<c, "prev">>] = n
      /\ Settled'[<<n, "next">>] = c /\ Settled'[<<n, "prev">>] = q
      /\ \A x \in Val \ {q, n} : Settled'[<<x, "next">>] = mem[<<x, "next">>]
      /\ \A x \in Val \ {c, n} : Settled'[<<x, "prev">>] = mem[<<x, "prev">>]
      /\ \A a \in Addr : mem'[a] = mem[a] \/ mem'[a] = Settled'[a]
      /\ mem'[<<q, "next">>] = n
      /\ \A i \in 1 .. Len(todo') : todo'[i].addr[1] \in {q, c, n}
  <2>1. InsertsAt(t, k, p, q, c, n)
    BY <1>2, <1>3, InsertPlace
  <2> QED  BY <2>1 DEF InsertsAt
<1>5. PICK i \in 0 .. k : q = p[i] /\ c = p[i + 1]
  BY <1>4
<1>6. /\ TypeOK /\ LocalTypes /\ pc[t] = "qcas" /\ pc'[t] \in {"return", "store"} /\ data' = data
      /\ \A u \in Thread : u # t => Keeps(u) /\ stayed'[u] = stayed[u]
  <2>1. TypeOK /\ LocalTypes /\ ~Is(t, "remove")
    BY HasPath, Names
  <2> QED  BY <2>1 DEF QcasSucceeds, Advance, Keeps, LocalTypes
<1>7. Private' = Private \ {n} /\ Inserting(t)
  <2>1. Inserting(t) /\ ~Inserting(t)'
    BY <1>6 DEF Inserting
  <2>2. \A u \in Thread : u # t => /\ Inserting(u)' <=> Inserting(u)
                                   /\ NewNode(u)' = NewNode(u)
                                   /\ Inserting(u) => NewNode(u) # n
    BY <1>3, <1>6, <2>1 DEF Keeps, Inserting, Is, NewNode, IInv
  <2>3. \A x : x \in Private' <=> x \in Private /\ x # n
    BY <1>3, <2>1, <2>2, PrivateIs
  <2> QED  BY <2>1, <2>3
<1>8. Known' = Known \cup {n} /\ n \notin Known /\ n # head /\ n # tail /\ n # Null
  BY <1>4, <1>6, <1>7, Constants DEF Known
<1>9. /\ PathOK(mem, k, p) /\ On(k, p) \subseteq Known /\ RestOff(mem, k, p)
      /\ LinksOK(mem) /\ Linked = On(k, p) /\ n \notin On(k, p)
  <2>1. Linked = On(k, p)
    BY <1>2, <1>6, LinkedIsPath
  <2> QED  BY <1>2, <1>4, <1>8, <2>1 DEF ListOK
<1>10. PICK mm : mm = Settled'
  OBVIOUS
<1>11. \A j \in 0 .. k + 1 : p[j] \in Val /\ p[j] # n
  <2>1. \A j \in 0 .. k + 1 : p[j] = head \/ p[j] = tail \/ p[j] \in On(k, p)
    BY <1>9, PathFacts
  <2> QED  BY <1>8, <1>9, <2>1
<1>12. PICK pp : pp = WithNode(k, p, i, n)
  OBVIOUS
<1>13. /\ PathOK(mm, k + 1, pp) /\ Longer(k, p, pp, i, n)
       /\ pp \in [0 .. (k + 1) + 1 -> Val]
       /\ On(k + 1, pp) = On(k, p) \cup {n}
       /\ pp[i + 1] = n
       /\ \A j \in 0 .. i : pp[j] = p[j]
       /\ \A j \in i + 1 .. k + 1 : pp[j + 1] = p[j]
  <2>1. ASSUME NEW j \in 0 .. k, j # i
        PROVE  mm[<<p[j], "next">>] = mem[<<p[j], "next">>] /\ mm[<<p[j + 1], "prev">>] = mem[<<p[j + 1], "prev">>]
    <3>1. j \in 0 .. k + 1 /\ j + 1 \in 0 .. k + 1 /\ i \in 0 .. k + 1 /\ i + 1 \in 0 .. k + 1 /\ j + 1 # i + 1
      BY <2>1
    <3>2. p[j] # q /\ p[j + 1] # c
      BY <1>5, <1>9, <2>1, <3>1 DEF PathOK
    <3>3. p[j] \in Val \ {q, n} /\ p[j + 1] \in Val \ {c, n}
      BY <1>11, <3>1, <3>2
    <3> QED  BY <1>4, <1>10, <3>3
  <2>2. /\ mm[<<p[i], "next">>] = n /\ mm[<<n, "prev">>] = p[i]
        /\ mm[<<n, "next">>] = p[i + 1] /\ mm[<<p[i + 1], "prev">>] = n
    BY <1>4, <1>5, <1>10
  <2>3. n \in Node /\ n \notin On(k, p) /\ PathOK(mem, k, p)
    BY <1>4, <1>9
  <2>4. LinkedIn(mem, mm, k, p, i, n)
    BY <2>1, <2>2 DEF LinkedIn
  <2>5. PathOK(mm, k + 1, pp) /\ Longer(k, p, pp, i, n)
    BY <1>12, <2>3, <2>4, WithNodePath
  <2> QED  BY <2>5 DEF Longer
<1>14. RestOff(mm, k + 1, pp)'
  <2>1. /\ head \in Val \ {c, n} /\ tail \in Val \ {q, n}
        /\ Null \in Val \ {q, n} /\ Null \in Val \ {c, n}
    BY <1>4, <1>8 DEF Val
  <2>2. ASSUME NEW x \in Node \ (Private' \cup On(k + 1, pp))  PROVE Off(mm, x)
    <3>1. x \in Node \ (Private \cup On(k, p)) /\ x # n
      BY <1>7, <1>13, <2>2
    <3>2. x # q /\ x # c
      <4>1. q = head \/ q = tail \/ q \in On(k, p)
        BY <1>5, <1>9, PathFacts
      <4>2. c = tail \/ c \in On(k, p)
        BY <1>5, <1>9, PathFacts
      <4> QED  BY <3>1, <4>1, <4>2, Constants
    <3>3. x \in Val \ {q, n} /\ x \in Val \ {c, n}
      BY <3>1, <3>2 DEF Val
    <3> QED  BY <1>4, <1>9, <1>10, <3>1, <3>3 DEF RestOff, Off
  <2>3. mm[<<head, "prev">>] = Null /\ mm[<<tail, "next">>] = Null /\ Off(mm, Null)
    BY <1>4, <1>9, <1>10, <2>1 DEF RestOff, Off
  <2> QED  BY <2>2, <2>3 DEF RestOff, On, Off
<1>15. LinksOK(Settled)' /\ LinksOK(mem)'
  <2>1. ASSUME NEW x \in Val
        PROVE  /\ Settled'[<<x, "next">>] \in Known' \ {head} /\ Settled'[<<x, "prev">>] \in Known' \ {tail}
               /\ mem[<<x, "next">>] \in Known' \ {head} /\ mem[<<x, "prev">>] \in Known' \ {tail}
    <3>1. mem[<<x, "next">>] \in Known' \ {head} /\ mem[<<x, "prev">>] \in Known' \ {tail}
      BY <1>8, <1>9 DEF LinksOK
    <3>2. Settled'[<<x, "next">>] \in Known' \ {head}
      BY <1>4, <1>8, <3>1
    <3>3. Settled'[<<x, "prev">>] \in Known' \ {tail}
      BY <1>4, <1>8, <3>1
    <3> QED  BY <3>1, <3>2, <3>3
  <2>2. \A x \in Val : <<x, "next">> \in Addr /\ <<x, "prev">> \in Addr
    BY DEF Addr, Link, Val
  <2> QED  BY <1>4, <2>1, <2>2 DEF LinksOK
<1>16. Behind(k + 1, pp)'
  <2> SUFFICES ASSUME NEW x \in Val, mem'[<<x, "next">>] # Settled'[<<x, "next">>]  PROVE FALSE
    BY DEF Behind
  <2>1. <<x, "next">> \in Addr
    BY DEF Addr, Link, Val
  <2>2. mem[<<x, "next">>] # Settled'[<<x, "next">>]
    BY <1>4, <2>1
  <2>3. x = q
    BY <1>4, <2>2
  <2> QED  BY <1>4, <2>3
<1>17. ListOK(k + 1, pp)'
  <2>1. (On(k + 1, pp) \subseteq Known)'
    <3>1. On(k + 1, pp) \subseteq Known'
      BY <1>8, <1>9, <1>13
    <3> QED  BY <3>1 DEF On
  <2>2. \A j \in 1 .. Len(todo') : todo'[j].addr[1] \in Known'
    BY <1>4, <1>8
  <2>3. PathOK(Settled, k + 1, pp)' /\ RestOff(Settled, k + 1, pp)'
    BY <1>10, <1>13, <1>14 DEF PathOK, RestOff, Off
  <2> QED  BY <1>15, <1>16, <2>1, <2>2, <2>3 DEF ListOK
<1>18. ASSUME NEW u \in Thread, u # t  PROVE CountOK(u, k + 1, pp)'
  <2> SUFFICES ASSUME Is(u, "count") PROVE CountOK(u, k + 1, pp)'
    BY <1>6, <1>18 DEF CountOK, Keeps, Is
  <2>1. KeyOf(u)' = KeyOf(u) /\ stayed'[u] = stayed[u] /\ pc'[u] = pc[u] /\ n_val'[u] = n_val[u]
        /\ curr'[u] = curr[u]
    BY <1>6, <1>18 DEF Keeps, KeyOf
  <2>2. stayed[u] \subseteq {x \in On(k, p) : data[x] = KeyOf(u)}
    BY <1>2 DEF CountOK
  <2>3. PICK C \in SUBSET {x \in Known \cap Node : data[x] = KeyOf(u)} : Counted(u, k, p, C)
    BY <1>2 DEF CountOK
  <2>4. n \notin C /\ n \notin stayed[u]
    BY <1>8, <1>9, <2>2, <2>3
  <2>5. ASSUME pc[u] = "walk", NEW lnew \in 0 .. k + 1, mem'[<<curr[u], "next">>] = pp[lnew + 1]
        PROVE  \E l \in 0 .. k : /\ mem[<<curr[u], "next">>] = p[l + 1]
                                 /\ (l <= i /\ lnew = l) \/ (l >= i /\ lnew = l + 1)
    <3>1. curr[u] \in Known /\ curr[u] \in Val /\ curr[u] # n /\ <<curr[u], "next">> \in Addr
      BY <1>2, <1>8 DEF WorkerOK, Known, Val, Addr, Link
    <3>2. CASE curr[u] = q
      <4>1. pp[lnew + 1] = pp[i + 1]
        BY <1>4, <1>13, <2>5, <3>2
      <4>2. lnew + 1 \in 0 .. (k + 1) + 1 /\ i + 1 \in 0 .. (k + 1) + 1
        OBVIOUS
      <4>3. lnew = i
        <5>1. lnew + 1 = i + 1
          BY <1>13, <4>1, <4>2 DEF PathOK
        <5> QED  BY <5>1
      <4>4. mem[<<curr[u], "next">>] = p[i + 1]
        BY <1>5, <1>9, <3>2 DEF PathOK
      <4> QED  BY <4>3, <4>4
    <3>3. CASE curr[u] # q
      <4>1. mem[<<curr[u], "next">>] = pp[lnew + 1]
        BY <1>4, <2>5, <3>1, <3>3
      <4>2. mem[<<curr[u], "next">>] # n
        BY <1>8, <1>9, <3>1 DEF LinksOK
      <4>3. lnew # i
        BY <1>13, <4>1, <4>2
      <4>4. CASE lnew < i
        <5>1. lnew + 1 \in 0 .. i /\ lnew \in 0 .. k
          BY <4>4
        <5> QED  BY <1>13, <4>1, <4>4, <5>1
      <4>5. CASE lnew > i
        <5>1. lnew \in i + 1 .. k + 1 /\ lnew - 1 \in 0 .. k /\ lnew - 1 >= i /\ lnew = (lnew - 1) + 1
          BY <4>5
        <5>2. mem[<<curr[u], "next">>] = p[(lnew - 1) + 1]
          BY <1>13, <4>1, <5>1
        <5> QED  BY <5>1, <5>2
      <4>6. lnew < i \/ lnew > i
        BY <4>3
      <4> QED  BY <4>4, <4>5, <4>6
    <3> QED  BY <3>2, <3>3
  <2>6. ASSUME pc[u] = "walk", NEW lnew \in 0 .. k + 1, mem'[<<curr[u], "next">>] = pp[lnew + 1]
        PROVE  UpTo(k + 1, pp, lnew, C, stayed[u])
    <3>1. PICK l \in 0 .. k : /\ mem[<<curr[u], "next">>] = p[l + 1]
                              /\ (l <= i /\ lnew = l) \/ (l >= i /\ lnew = l + 1)
      BY <2>5, <2>6
    <3>2. UpTo(k, p, l, C, stayed[u])
      BY <2>3, <2>6, <3>1 DEF Counted
    <3> QED  BY <1>13, <2>4, <3>1, <3>2, CountWithNode
  <2>7. Counted(u, k + 1, pp, C)'
    BY <2>1, <2>3, <2>6 DEF Counted
  <2>8. stayed'[u] \subseteq {x \in On(k + 1, pp) : data'[x] = KeyOf(u)'}
    BY <1>6, <1>13, <2>1, <2>2
  <2>9. C \in SUBSET {x \in Known' \cap Node : data'[x] = KeyOf(u)'}
    BY <1>6, <1>8, <2>1, <2>3
  <2> QED  BY <2>7, <2>8, <2>9 DEF CountOK
<1>19. IInv' /\ Linked' = On(k + 1, pp)
  <2>1. k + 1 \in Nat /\ Known \subseteq Known'
    BY <1>8
  <2> QED  BY <1>2, <1>4, <1>13, <1>17, <1>18, <2>1, EffectOK
<1> QED  BY <1>3, <1>4, <1>9, <1>13, <1>19

\* The qcas of t takes node c out from between q and r on the path.
DeletesAt(t, k, p, q, c, r) ==
  /\ \E i \in 0 .. k - 1 : q = p[i] /\ c = p[i + 1] /\ r = p[i + 2]
  /\ c \in Node /\ c \in Known /\ q \in Known \ {tail, Null} /\ r \in Known \ {head, Null}
  /\ Settled = mem /\ mem[<<c, "next">>] = r
  /\ L!MCASTypeOK' /\ L!LockDiscipline' /\ lock' \in {t, NoThread}
  /\ Settled'[<<q, "next">>] = r /\ Settled'[<<r, "prev">>] = q
  /\ Off(Settled', c)
  /\ \A x \in Val \ {q, c} : Settled'[<<x, "next">>] = mem[<<x, "next">>]
  /\ \A x \in Val \ {r, c} : Settled'[<<x, "prev">>] = mem[<<x, "prev">>]
  /\ \A a \in Addr : mem'[a] = mem[a] \/ mem'[a] = Settled'[a]
  /\ mem'[<<q, "next">>] = r
  /\ \A i \in 1 .. Len(todo') : todo'[i].addr[1] \in {q, c, r}

\* Where the qcas of a remove succeeds, and what it stores.
LEMMA DeletePlace ==
  ASSUME IInv, NEW k \in Nat, NEW p \in [0 .. k + 1 -> Val], Holds(k, p),
         NEW t \in Thread, QcasSucceeds(t), ~Is(t, "insert"),
         NEW q, q = prev[t], NEW c, c = curr[t], NEW r, r = next[t]
  PROVE  DeletesAt(t, k, p, q, c, r)
<1>1. /\ TypeOK /\ LocalTypes /\ ListOK(k, p) /\ WorkerOK(t) /\ pc[t] = "qcas"
  BY HasPath DEF Holds, QcasSucceeds
<1>2. PICK w : w = <<M!Word(<<q, "next">>, c, r), M!Word(<<r, "prev">>, c, q),
                     M!Word(<<c, "next">>, r, Null), M!Word(<<c, "prev">>, q, Null)>>
  OBVIOUS
<1>3. /\ w = QcasWords(t) /\ DOMAIN w = 1 .. 4
      /\ w[1].addr = <<q, "next">> /\ w[1].old = c /\ w[1].new = r
      /\ w[2].addr = <<r, "prev">> /\ w[2].old = c /\ w[2].new = q
      /\ w[3].addr = <<c, "next">> /\ w[3].old = r /\ w[3].new = Null
      /\ w[4].addr = <<c, "prev">> /\ w[4].old = q /\ w[4].new = Null
  <2>1. w = QcasWords(t)
    BY <1>2 DEF QcasWords, DeleteWords
  <2> QED  BY <1>2, <2>1 DEF M!Word
<1>4. /\ Settled = mem
      /\ \A i \in 1 .. 4 : mem[w[i].addr] = w[i].old /\ w[i].addr[1] # Null
  BY <1>1, <1>3, QcasFinds
<1>5. /\ mem[<<c, "next">>] = r /\ mem[<<c, "prev">>] = q
      /\ q # Null /\ r # Null
  <2>1. 1 \in 1 .. 4 /\ 2 \in 1 .. 4 /\ 3 \in 1 .. 4 /\ 4 \in 1 .. 4
    OBVIOUS
  <2>2. /\ w[1].addr[1] # Null /\ w[2].addr[1] # Null
        /\ mem[w[3].addr] = w[3].old /\ mem[w[4].addr] = w[4].old
    BY <1>4, <2>1
  <2> QED  BY <1>3, <2>2
<1>6. /\ c \in Node /\ c \in Known /\ c \notin Private
      /\ q \in Known \ {tail, Null} /\ r \in Known \ {head, Null}
  <2>1. Is(t, "remove") /\ c \in Node /\ c \in Known
    BY <1>1 DEF WorkerOK, AtQcas
  <2>2. q \in Known /\ q # tail /\ r \in Known /\ r # head
    BY <1>1, Constants DEF WorkerOK, LocalTypes
  <2> QED  BY <1>5, <2>1, <2>2, Constants DEF Known
<1>7. PathOK(mem, k, p) /\ RestOff(mem, k, p)
  BY <1>1, <1>4 DEF ListOK
<1>8. PICK j \in 1 .. k : c = p[j]
  <2>1. c \in On(k, p)
    BY <1>5, <1>6, <1>7 DEF RestOff, Off
  <2> QED  BY <2>1 DEF On
<1>9. PICK i \in 0 .. k - 1 : j = i + 1
  <2>1. j - 1 \in 0 .. k - 1 /\ j = (j - 1) + 1
    OBVIOUS
  <2> QED  BY <2>1
<1>10. q = p[i] /\ c = p[i + 1] /\ r = p[i + 2]
  <2>1. i \in 0 .. k /\ i + 1 \in 0 .. k /\ (i + 1) + 1 = i + 2
    OBVIOUS
  <2>2. mem[<<p[i + 1], "prev">>] = p[i] /\ mem[<<p[i + 1], "next">>] = p[(i + 1) + 1]
    BY <1>7, <2>1 DEF PathOK
  <2> QED  BY <1>5, <1>8, <1>9, <2>1, <2>2
<1>11. q # c /\ r # c /\ q \in Val /\ c \in Val /\ r \in Val /\ Null \in Val
  <2>1. i \in 0 .. k + 1 /\ i + 1 \in 0 .. k + 1 /\ i + 2 \in 0 .. k + 1 /\ i # i + 1 /\ i + 1 # i + 2
    OBVIOUS
  <2>2. q # c /\ r # c
    BY <1>7, <1>10, <2>1 DEF PathOK
  <2> QED  BY <1>6, <2>2 DEF Known, Val
<1>12. w \in Seq(L!Words) /\ L!Distinct(w)
  <2>1. \A x \in Val : <<x, "next">> \in Addr /\ <<x, "prev">> \in Addr
    BY DEF Addr, Link, Val
  <2>2. /\ M!Word(<<q, "next">>, c, r) \in L!Words /\ M!Word(<<r, "prev">>, c, q) \in L!Words
        /\ M!Word(<<c, "next">>, r, Null) \in L!Words /\ M!Word(<<c, "prev">>, q, Null) \in L!Words
    BY <1>11, <2>1 DEF M!Word, L!Words
  <2>3. w \in Seq(L!Words)
    BY <1>2, <2>2
  <2>4. L!Distinct(w)
    <3>1. <<q, "next">> # <<r, "prev">> /\ <<q, "next">> # <<c, "next">> /\ <<q, "next">> # <<c, "prev">>
          /\ <<r, "prev">> # <<c, "next">> /\ <<r, "prev">> # <<c, "prev">> /\ <<c, "next">> # <<c, "prev">>
      BY <1>11
    <3> QED  BY <1>3, <3>1 DEF L!Distinct
  <2> QED  BY <2>3, <2>4
<1>13. /\ L!MCASTypeOK' /\ L!LockDiscipline' /\ lock' \in {t, NoThread}
       /\ \A l \in 1 .. 4 : Settled'[w[l].addr] = w[l].new
       /\ \A a \in Addr : (\A l \in 1 .. 4 : w[l].addr # a) => Settled'[a] = mem[a]
       /\ \A a \in Addr : mem'[a] = mem[a] \/ mem'[a] = Settled'[a]
       /\ mem'[w[1].addr] = w[1].new
       /\ \A l \in 1 .. Len(todo') : \E m \in 1 .. 4 : todo'[l] = w[m]
  BY <1>1, <1>3, <1>12, QcasEffect
<1>14. \A x \in Val \ {q, c} : Settled'[<<x, "next">>] = mem[<<x, "next">>]
  <2> SUFFICES ASSUME NEW x \in Val \ {q, c} PROVE Settled'[<<x, "next">>] = mem[<<x, "next">>]
    OBVIOUS
  <2>1. <<x, "next">> \in Addr /\ \A l \in 1 .. 4 : w[l].addr # <<x, "next">>
    BY <1>3 DEF Addr, Link, Val
  <2> QED  BY <1>13, <2>1
<1>15. \A x \in Val \ {r, c} : Settled'[<<x, "prev">>] = mem[<<x, "prev">>]
  <2> SUFFICES ASSUME NEW x \in Val \ {r, c} PROVE Settled'[<<x, "prev">>] = mem[<<x, "prev">>]
    OBVIOUS
  <2>1. <<x, "prev">> \in Addr /\ \A l \in 1 .. 4 : w[l].addr # <<x, "prev">>
    BY <1>3 DEF Addr, Link, Val
  <2> QED  BY <1>13, <2>1
<1>16. /\ Settled'[<<q, "next">>] = r /\ Settled'[<<r, "prev">>] = q
       /\ Settled'[<<c, "next">>] = Null /\ Settled'[<<c, "prev">>] = Null
       /\ mem'[<<q, "next">>] = r
  <2>1. 1 \in 1 .. 4 /\ 2 \in 1 .. 4 /\ 3 \in 1 .. 4 /\ 4 \in 1 .. 4
    OBVIOUS
  <2>2. /\ Settled'[w[1].addr] = w[1].new /\ Settled'[w[2].addr] = w[2].new
        /\ Settled'[w[3].addr] = w[3].new /\ Settled'[w[4].addr] = w[4].new
        /\ mem'[w[1].addr] = w[1].new
    BY <1>13, <2>1
  <2> QED  BY <1>3, <2>2
<1>17. \A l \in 1 .. Len(todo') : todo'[l].addr[1] \in {q, c, r}
  <2>1. \A m \in 1 .. 4 : w[m].addr[1] \in {q, c, r}
    BY <1>3
  <2> QED  BY <1>13, <2>1
<1>18. \E l \in 0 .. k - 1 : q = p[l] /\ c = p[l + 1] /\ r = p[l + 2]
  BY <1>10
<1> QED  BY <1>4, <1>5, <1>6, <1>13, <1>14, <1>15, <1>16, <1>17, <1>18 DEF DeletesAt, Off

\* The qcas of a remove unlinks the node its walk has found.
LEMMA DeleteStep ==
  ASSUME IInv, NEW t \in Thread, QcasSucceeds(t), ~Is(t, "insert")
  PROVE  IInv' /\ curr[t] \in Linked /\ Linked' = Linked \ {curr[t]}
<1>1. PICK k \in Nat : \E p \in [0 .. k + 1 -> Val] :
              /\ Holds(k, p) /\ ListOK(k, p)
              /\ \A u \in Thread : WorkerOK(u) /\ CountOK(u, k, p)
  BY HasPath
<1>2. PICK p \in [0 .. k + 1 -> Val] :
              /\ Holds(k, p) /\ ListOK(k, p)
              /\ \A u \in Thread : WorkerOK(u) /\ CountOK(u, k, p)
  BY <1>1
<1>3. PICK q, c, r : q = prev[t] /\ c = curr[t] /\ r = next[t]
  OBVIOUS
<1>4. /\ \E i \in 0 .. k - 1 : q = p[i] /\ c = p[i + 1] /\ r = p[i + 2]
      /\ c \in Node /\ c \in Known /\ q \in Known \ {tail, Null} /\ r \in Known \ {head, Null}
      /\ Settled = mem /\ mem[<<c, "next">>] = r
      /\ L!MCASTypeOK' /\ L!LockDiscipline' /\ lock' \in {t, NoThread}
      /\ Settled'[<<q, "next">>] = r /\ Settled'[<<r, "prev">>] = q
      /\ Off(Settled', c)
      /\ \A x \in Val \ {q, c} : Settled'[<<x, "next">>] = mem[<<x, "next">>]
      /\ \A x \in Val \ {r, c} : Settled'[<<x, "prev">>] = mem[<<x, "prev">>]
      /\ \A a \in Addr : mem'[a] = mem[a] \/ mem'[a] = Settled'[a]
      /\ mem'[<<q, "next">>] = r
      /\ \A i \in 1 .. Len(todo') : todo'[i].addr[1] \in {q, c, r}
  <2>1. DeletesAt(t, k, p, q, c, r)
    BY <1>2, <1>3, DeletePlace
  <2> QED  BY <2>1 DEF DeletesAt
<1>5. PICK i \in 0 .. k - 1 : q = p[i] /\ c = p[i + 1] /\ r = p[i + 2]
  BY <1>4
<1>6. /\ TypeOK /\ LocalTypes /\ pc[t] = "qcas" /\ pc'[t] \in {"return", "store"} /\ data' = data
      /\ \A u \in Thread : u # t => Keeps(u) /\ stayed'[u] = stayed[u] \ {c}
  <2>1. TypeOK /\ LocalTypes /\ pc[t] = "qcas" /\ WorkerOK(t)
    BY <1>2, HasPath DEF QcasSucceeds
  <2>2. Is(t, "remove")
    BY <2>1 DEF WorkerOK, AtQcas
  <2> QED  BY <1>3, <2>1, <2>2 DEF QcasSucceeds, Advance, Keeps, LocalTypes
<1>7. Known' = Known /\ Private' = Private
  <2>1. ~Inserting(t) /\ ~Inserting(t)'
    BY <1>6 DEF Inserting
  <2> QED  BY <1>6, <2>1, KnownStays
<1>8. /\ PathOK(mem, k, p) /\ On(k, p) \subseteq Known /\ RestOff(mem, k, p)
      /\ LinksOK(mem) /\ Linked = On(k, p) /\ c \in On(k, p)
  <2>1. Linked = On(k, p)
    BY <1>2, <1>6, LinkedIsPath
  <2>2. i + 1 \in 1 .. k
    OBVIOUS
  <2> QED  BY <1>2, <1>4, <1>5, <2>1, <2>2 DEF ListOK, On
<1>9. PICK mm : mm = Settled'
  OBVIOUS
<1>10. \A j \in 0 .. k + 1 : p[j] \in Val
  OBVIOUS
<1>11. PICK pp : pp = Without(k, p, i)
  OBVIOUS
<1>12. /\ PathOK(mm, k - 1, pp) /\ Shorter(k, p, pp, i)
       /\ pp \in [0 .. (k - 1) + 1 -> Val]
       /\ On(k - 1, pp) = On(k, p) \ {c}
       /\ \A j \in 0 .. i : pp[j] = p[j]
       /\ \A j \in i + 1 .. k : pp[j] = p[j + 1]
  <2>1. ASSUME NEW j \in 0 .. k, j # i, j # i + 1
        PROVE  mm[<<p[j], "next">>] = mem[<<p[j], "next">>] /\ mm[<<p[j + 1], "prev">>] = mem[<<p[j + 1], "prev">>]
    <3>1. /\ j \in 0 .. k + 1 /\ j + 1 \in 0 .. k + 1 /\ i \in 0 .. k + 1 /\ i + 1 \in 0 .. k + 1
          /\ i + 2 \in 0 .. k + 1 /\ j + 1 # i + 1 /\ j + 1 # i + 2
      BY <2>1
    <3>2. p[j] # q /\ p[j] # c /\ p[j + 1] # c /\ p[j + 1] # r
      BY <1>5, <1>8, <2>1, <3>1 DEF PathOK
    <3>3. p[j] \in Val \ {q, c} /\ p[j + 1] \in Val \ {r, c}
      BY <1>10, <3>1, <3>2
    <3> QED  BY <1>4, <1>9, <3>3
  <2>2. mm[<<p[i], "next">>] = p[i + 2] /\ mm[<<p[i + 2], "prev">>] = p[i]
    BY <1>4, <1>5, <1>9
  <2>3. LinkedOut(mem, mm, k, p, i)
    BY <2>1, <2>2 DEF LinkedOut
  <2>4. PathOK(mm, k - 1, pp) /\ Shorter(k, p, pp, i)
    BY <1>8, <1>11, <2>3, WithoutPath
  <2> QED  BY <1>5, <2>4 DEF Shorter
<1>13. RestOff(mm, k - 1, pp)'
  <2>1. /\ head \in Val \ {r, c} /\ tail \in Val \ {q, c}
        /\ Null \in Val \ {q, c} /\ Null \in Val \ {r, c}
    BY <1>4, Constants DEF Val
  <2>2. ASSUME NEW x \in Node \ (Private' \cup On(k - 1, pp))  PROVE Off(mm, x)
    <3>1. CASE x = c
      BY <1>4, <1>9, <3>1
    <3>2. CASE x # c
      <4>1. x \in Node \ (Private \cup On(k, p))
        BY <1>7, <1>12, <2>2, <3>2
      <4>2. x # q /\ x # r
        <5>1. i \in 0 .. k + 1 /\ i + 2 \in 0 .. k + 1
          OBVIOUS
        <5>2. /\ q = head \/ q = tail \/ q \in On(k, p)
              /\ r = head \/ r = tail \/ r \in On(k, p)
          BY <1>5, <1>8, <5>1, PathFacts
        <5> QED  BY <4>1, <5>2, Constants
      <4>3. x \in Val \ {q, c} /\ x \in Val \ {r, c}
        BY <3>2, <4>1, <4>2 DEF Val
      <4> QED  BY <1>4, <1>8, <1>9, <4>1, <4>3 DEF RestOff, Off
    <3> QED  BY <3>1, <3>2
  <2>3. mm[<<head, "prev">>] = Null /\ mm[<<tail, "next">>] = Null /\ Off(mm, Null)
    BY <1>4, <1>8, <1>9, <2>1 DEF RestOff, Off
  <2> QED  BY <2>2, <2>3 DEF RestOff, On, Off
<1>14. LinksOK(Settled)' /\ LinksOK(mem)'
  <2>1. ASSUME NEW x \in Val
        PROVE  /\ Settled'[<<x, "next">>] \in Known' \ {head} /\ Settled'[<<x, "prev">>] \in Known' \ {tail}
               /\ mem[<<x, "next">>] \in Known' \ {head} /\ mem[<<x, "prev">>] \in Known' \ {tail}
    <3>1. mem[<<x, "next">>] \in Known' \ {head} /\ mem[<<x, "prev">>] \in Known' \ {tail}
      BY <1>7, <1>8 DEF LinksOK
    <3>2. Null \in Known' \ {head} /\ Null \in Known' \ {tail}
      BY Constants DEF Known
    <3>3. Settled'[<<x, "next">>] \in Known' \ {head}
      BY <1>4, <1>7, <3>1, <3>2 DEF Off
    <3>4. Settled'[<<x, "prev">>] \in Known' \ {tail}
      BY <1>4, <1>7, <3>1, <3>2 DEF Off
    <3> QED  BY <3>1, <3>3, <3>4
  <2>2. \A x \in Val : <<x, "next">> \in Addr /\ <<x, "prev">> \in Addr
    BY DEF Addr, Link, Val
  <2> QED  BY <1>4, <2>1, <2>2 DEF LinksOK
<1>15. i \in 0 .. k - 1 /\ i + 1 \in i + 1 .. k /\ (i + 1) + 1 = i + 2 /\ pp[i + 1] = r
  BY <1>5, <1>12
<1>16. Behind(k - 1, pp)'
  <2> SUFFICES ASSUME NEW x \in Val, mem'[<<x, "next">>] # Settled'[<<x, "next">>]
               PROVE  /\ Settled'[<<x, "next">>] = Null
                      /\ \E j \in 0 .. k - 1 : mem'[<<x, "next">>] = pp[j + 1]
    BY DEF Behind
  <2>1. <<x, "next">> \in Addr
    BY DEF Addr, Link, Val
  <2>2. mem[<<x, "next">>] # Settled'[<<x, "next">>] /\ mem'[<<x, "next">>] = mem[<<x, "next">>]
    BY <1>4, <2>1
  <2>3. x = c
    BY <1>4, <2>2
  <2> QED  BY <1>4, <1>15, <2>2, <2>3 DEF Off
<1>17. ListOK(k - 1, pp)'
  <2>1. (On(k - 1, pp) \subseteq Known)'
    <3>1. On(k - 1, pp) \subseteq Known'
      BY <1>7, <1>8, <1>12
    <3> QED  BY <3>1 DEF On
  <2>2. \A j \in 1 .. Len(todo') : todo'[j].addr[1] \in Known'
    BY <1>4, <1>7
  <2>3. PathOK(Settled, k - 1, pp)' /\ RestOff(Settled, k - 1, pp)'
    BY <1>9, <1>12, <1>13 DEF PathOK, RestOff, Off
  <2> QED  BY <1>14, <1>16, <2>1, <2>2, <2>3 DEF ListOK
<1>18. ASSUME NEW u \in Thread, u # t  PROVE CountOK(u, k - 1, pp)'
  <2> SUFFICES ASSUME Is(u, "count") PROVE CountOK(u, k - 1, pp)'
    BY <1>6, <1>18 DEF CountOK, Keeps, Is
  <2>1. KeyOf(u)' = KeyOf(u) /\ stayed'[u] = stayed[u] \ {c} /\ pc'[u] = pc[u] /\ n_val'[u] = n_val[u]
        /\ curr'[u] = curr[u]
    BY <1>6, <1>18 DEF Keeps, KeyOf
  <2>2. stayed[u] \subseteq {x \in On(k, p) : data[x] = KeyOf(u)}
    BY <1>2 DEF CountOK
  <2>3. PICK C \in SUBSET {x \in Known \cap Node : data[x] = KeyOf(u)} : Counted(u, k, p, C)
    BY <1>2 DEF CountOK
  <2>4. ASSUME pc[u] = "walk", NEW lnew \in 0 .. k - 1, mem'[<<curr[u], "next">>] = pp[lnew + 1]
        PROVE  \E l \in 0 .. k : /\ mem[<<curr[u], "next">>] = p[l + 1]
                                 /\ (l <= i /\ lnew = l) \/ (l >= i + 1 /\ lnew = l - 1)
    <3>1. curr[u] \in Known /\ curr[u] \in Val /\ <<curr[u], "next">> \in Addr
      BY <1>2 DEF WorkerOK, Known, Val, Addr, Link
    <3>2. ASSUME pp[lnew + 1] = pp[i + 1]  PROVE lnew = i
      <4>1. lnew + 1 \in 0 .. (k - 1) + 1 /\ i + 1 \in 0 .. (k - 1) + 1
        OBVIOUS
      <4>2. lnew + 1 = i + 1
        BY <1>12, <3>2, <4>1 DEF PathOK
      <4> QED  BY <4>2
    <3>3. CASE curr[u] = q
      <4>1. lnew = i
        BY <1>4, <1>15, <2>4, <3>2, <3>3
      <4>2. mem[<<curr[u], "next">>] = p[i + 1] /\ i \in 0 .. k
        <5>1. i \in 0 .. k
          OBVIOUS
        <5> QED  BY <1>5, <1>8, <3>3, <5>1 DEF PathOK
      <4> QED  BY <4>1, <4>2
    <3>4. CASE curr[u] = c
      <4>1. pp[lnew + 1] # Null
        <5>1. lnew \in 0 .. k - 1 /\ k - 1 \in Nat
          OBVIOUS
        <5>2. pp[lnew + 1] = tail \/ pp[lnew + 1] \in On(k - 1, pp)
          BY <1>12, <5>1, PathFacts
        <5>3. \A x \in On(k - 1, pp) : x \in Node
          BY <1>8, <1>12, PathFacts
        <5> QED  BY <5>2, <5>3, Constants
      <4>2. mem'[<<c, "next">>] = r
        BY <1>4, <2>4, <3>1, <3>4, <4>1 DEF Off
      <4>3. lnew = i
        BY <1>15, <2>4, <3>2, <3>4, <4>2
      <4>4. i + 1 \in 0 .. k /\ i + 1 >= i + 1 /\ i = (i + 1) - 1 /\ (i + 1) + 1 = i + 2
        OBVIOUS
      <4>5. mem[<<curr[u], "next">>] = p[(i + 1) + 1]
        BY <1>4, <1>5, <3>4, <4>4
      <4> QED  BY <4>3, <4>4, <4>5
    <3>5. CASE curr[u] # q /\ curr[u] # c
      <4>1. mem[<<curr[u], "next">>] = pp[lnew + 1]
        BY <1>4, <2>4, <3>1, <3>5
      <4>2. CASE lnew < i
        <5>1. lnew + 1 \in 0 .. i /\ lnew \in 0 .. k
          BY <4>2
        <5> QED  BY <1>12, <4>1, <4>2, <5>1
      <4>3. CASE lnew >= i
        <5>1. lnew + 1 \in i + 1 .. k /\ lnew + 1 \in 0 .. k /\ lnew + 1 >= i + 1 /\ lnew = (lnew + 1) - 1
          BY <4>3
        <5>2. mem[<<curr[u], "next">>] = p[(lnew + 1) + 1]
          BY <1>12, <4>1, <5>1
        <5> QED  BY <5>1, <5>2
      <4>4. lnew < i \/ lnew >= i
        OBVIOUS
      <4> QED  BY <4>2, <4>3, <4>4
    <3> QED  BY <3>3, <3>4, <3>5
  <2>5. ASSUME pc[u] = "walk", NEW lnew \in 0 .. k - 1, mem'[<<curr[u], "next">>] = pp[lnew + 1]
        PROVE  UpTo(k - 1, pp, lnew, C, stayed[u])
    <3>1. PICK l \in 0 .. k : /\ mem[<<curr[u], "next">>] = p[l + 1]
                              /\ (l <= i /\ lnew = l) \/ (l >= i + 1 /\ lnew = l - 1)
      BY <2>4, <2>5
    <3>2. UpTo(k, p, l, C, stayed[u])
      BY <2>3, <2>5, <3>1 DEF Counted
    <3> QED  BY <1>12, <3>1, <3>2, CountWithout
  <2>6. Counted(u, k - 1, pp, C)'
    <3>1. ASSUME pc'[u] = "walk", NEW lnew \in 0 .. k - 1, mem'[<<curr'[u], "next">>] = pp[lnew + 1]
          PROVE  UpTo(k - 1, pp, lnew, C, stayed'[u])
      <4>1. UpTo(k - 1, pp, lnew, C, stayed[u])
        BY <2>1, <2>5, <3>1
      <4> QED  BY <2>1, <4>1 DEF UpTo
    <3>2. Cardinality(C) = n_val'[u] /\ (pc'[u] = "return" => stayed'[u] \subseteq C)
      BY <2>1, <2>3 DEF Counted
    <3> QED  BY <3>1, <3>2 DEF Counted, UpTo
  <2>7. stayed'[u] \subseteq {x \in On(k - 1, pp) : data'[x] = KeyOf(u)'}
    BY <1>6, <1>12, <2>1, <2>2
  <2>8. C \in SUBSET {x \in Known' \cap Node : data'[x] = KeyOf(u)'}
    BY <1>6, <1>7, <2>1, <2>3
  <2> QED  BY <2>6, <2>7, <2>8 DEF CountOK
<1>19. IInv' /\ Linked' = On(k - 1, pp)
  <2>1. k - 1 \in Nat /\ Known \subseteq Known'
    BY <1>7
  <2> QED  BY <1>2, <1>4, <1>12, <1>17, <1>18, <2>1, EffectOK
<1> QED  BY <1>3, <1>8, <1>12, <1>19

-----------------------------------------------------------------------------
(***************************************************************************)
(* The invariant.                                                          *)
(***************************************************************************)

\* The path the list starts with: nodes 1 to k in their order.
FirstPath(k) == [i \in 0 .. k + 1 |-> IF i = 0 THEN head ELSE IF i > k THEN tail ELSE i]

LEMMA FirstPathIs ==
  ASSUME NEW k \in Nat, 1 .. k \subseteq Node, NEW p, p = FirstPath(k)
  PROVE  /\ p \in [0 .. k + 1 -> Val] /\ p[0] = head /\ p[k + 1] = tail
         /\ \A i \in 1 .. k : p[i] = i /\ p[i] \in Node
         /\ \A i, j \in 0 .. k + 1 : p[i] = p[j] => i = j
         /\ On(k, p) = 1 .. k
<1>1. 0 \in 0 .. k + 1 /\ k + 1 \in 0 .. k + 1 /\ k + 1 > k /\ k + 1 # 0
  OBVIOUS
<1>2. \A i \in 1 .. k : i \in 0 .. k + 1 /\ i # 0 /\ ~(i > k)
  OBVIOUS
<1>3. p[0] = head /\ p[k + 1] = tail /\ \A i \in 1 .. k : p[i] = i /\ p[i] \in Node
  BY <1>1, <1>2 DEF FirstPath
<1>4. \A i \in 0 .. k + 1 : i = 0 \/ i = k + 1 \/ i \in 1 .. k
  OBVIOUS
<1>5. \A i, j \in 0 .. k + 1 : p[i] = p[j] => i = j
  BY <1>3, <1>4, Constants
<1>6. p \in [0 .. k + 1 -> Val]
  BY <1>3, <1>4 DEF FirstPath, Val
<1>7. On(k, p) = 1 .. k
  BY <1>3 DEF On
<1> QED  BY <1>3, <1>5, <1>6, <1>7

\* The links of Filled, by the positions of that path.
LEMMA FilledIs ==
  ASSUME NEW k \in Nat, 1 .. k \subseteq Node, NEW q \in [1 .. k -> Key], NEW p, p = FirstPath(k), NEW m, m = Filled(q)
  PROVE  /\ m \in [Addr -> Val] /\ PathOK(m, k, p)
         /\ m[<<head, "prev">>] = Null /\ m[<<tail, "next">>] = Null /\ Off(m, Null)
         /\ \A x \in Node \ On(k, p) : Off(m, x)
<1>1. /\ p \in [0 .. k + 1 -> Val] /\ p[0] = head /\ p[k + 1] = tail
      /\ \A i \in 1 .. k : p[i] = i /\ p[i] \in Node
      /\ \A i, j \in 0 .. k + 1 : p[i] = p[j] => i = j
      /\ On(k, p) = 1 .. k
  BY FirstPathIs
<1>2. q \in Seq(Key) /\ Len(q) = k
  <2>1. q \in Seq(Key)
    BY IsASeq
  <2>2. DOMAIN q = 1 .. k /\ DOMAIN q = 1 .. Len(q) /\ Len(q) \in Nat
    BY <2>1, LenProperties
  <2> QED  BY <2>1, <2>2
<1> DEFINE Nth(i) == IF i = 0 THEN head ELSE IF i > k THEN tail ELSE i
           Pos(a) == CHOOSE i \in 0 .. k + 1 : Nth(i) = a
<1>3. m = [a \in Addr |->
             CASE a[1] = Null \/ a = <<head, "prev">> \/ a = <<tail, "next">> -> Null
               [] a[1] \in Node /\ a[1] > k -> Null
               [] OTHER -> Nth(IF a[2] = "next" THEN Pos(a[1]) + 1 ELSE Pos(a[1]) - 1)]
  BY <1>2 DEF Filled, Addr
<1>4. \A i \in 0 .. k + 1 : Nth(i) = p[i]
  BY DEF FirstPath
<1>5. \A i \in 0 .. k + 1 : Pos(p[i]) = i
  BY <1>1, <1>4
<1>6. \A x \in Val : <<x, "next">> \in Addr /\ <<x, "prev">> \in Addr
  BY DEF Addr, Link, Val
<1> HIDE DEF Nth, Pos
<1>7. ASSUME NEW i \in 0 .. k  PROVE m[<<p[i], "next">>] = p[i + 1]
  <2>1. i \in 0 .. k + 1 /\ i + 1 \in 0 .. k + 1 /\ k + 1 \in 0 .. k + 1 /\ i # k + 1 /\ (i = 0 \/ i \in 1 .. k)
    OBVIOUS
  <2>2. p[i] \in Val /\ p[i] # Null /\ p[i] # tail /\ ~(p[i] \in Node /\ p[i] > k)
    BY <1>1, <2>1, Constants
  <2>3. m[<<p[i], "next">>] = Nth(Pos(p[i]) + 1)
    BY <1>3, <1>6, <2>2
  <2> QED  BY <1>4, <1>5, <2>1, <2>3
<1>8. ASSUME NEW i \in 0 .. k  PROVE m[<<p[i + 1], "prev">>] = p[i]
  <2>1. i \in 0 .. k + 1 /\ i + 1 \in 0 .. k + 1 /\ (i + 1 = k + 1 \/ i + 1 \in 1 .. k) /\ (i + 1) - 1 = i
    OBVIOUS
  <2>2. p[i + 1] \in Val /\ p[i + 1] # Null /\ p[i + 1] # head /\ ~(p[i + 1] \in Node /\ p[i + 1] > k)
    BY <1>1, <2>1, Constants
  <2>3. m[<<p[i + 1], "prev">>] = Nth(Pos(p[i + 1]) - 1)
    BY <1>3, <1>6, <2>2
  <2> QED  BY <1>4, <1>5, <2>1, <2>3
<1>9. PathOK(m, k, p)
  BY <1>1, <1>7, <1>8 DEF PathOK
<1>10. m[<<head, "prev">>] = Null /\ m[<<tail, "next">>] = Null /\ Off(m, Null)
  <2>1. head \in Val /\ tail \in Val /\ Null \in Val
    BY DEF Val
  <2> QED  BY <1>3, <1>6, <2>1 DEF Off
<1>11. ASSUME NEW x \in Node \ On(k, p)  PROVE Off(m, x)
  <2>1. x \in Val /\ x \in Nat /\ x # Null /\ x # head /\ x # tail /\ x > k
    <3>1. x \in Node /\ x \in Nat /\ ~(x \in 1 .. k) /\ x # 0
      BY <1>1, Constants DEF Node
    <3> QED  BY <3>1, Constants DEF Val
  <2> QED  BY <1>3, <1>6, <2>1 DEF Off
<1>12. m \in [Addr -> Val]
  <2> SUFFICES ASSUME NEW a \in Addr PROVE m[a] \in Val
    BY <1>3
  <2>1. PICK x \in Val, s \in {"next", "prev"} : a = <<x, s>>
    BY DEF Addr, Link, Val
  <2>2. Null \in Val /\ Null \notin Node
    BY Constants DEF Val
  <2>3. CASE x = Null
    BY <1>10, <2>1, <2>2, <2>3 DEF Off
  <2>4. CASE x \in Node \ On(k, p)
    BY <1>11, <2>1, <2>2, <2>4 DEF Off
  <2>5. CASE x = head \/ x = tail \/ x \in On(k, p)
    <3>1. PICK i \in 0 .. k + 1 : x = p[i]
      <4>1. 0 \in 0 .. k + 1 /\ k + 1 \in 0 .. k + 1 /\ \A i \in 1 .. k : i \in 0 .. k + 1
        OBVIOUS
      <4> QED  BY <1>1, <2>5, <4>1 DEF On
    <3>2. CASE s = "next"
      <4>1. CASE i = k + 1
        BY <1>1, <1>10, <2>1, <2>2, <3>1, <3>2, <4>1
      <4>2. CASE i # k + 1
        <5>1. i \in 0 .. k /\ i + 1 \in 0 .. k + 1
          BY <4>2
        <5> QED  BY <1>1, <1>7, <2>1, <3>1, <3>2, <5>1
      <4> QED  BY <4>1, <4>2
    <3>3. CASE s = "prev"
      <4>1. CASE i = 0
        BY <1>1, <1>10, <2>1, <2>2, <3>1, <3>3, <4>1
      <4>2. CASE i # 0
        <5>1. i - 1 \in 0 .. k /\ (i - 1) + 1 = i /\ i - 1 \in 0 .. k + 1
          BY <4>2
        <5>2. m[<<p[(i - 1) + 1], "prev">>] = p[i - 1]
          BY <1>8, <5>1
        <5> QED  BY <1>1, <2>1, <3>1, <3>3, <5>1, <5>2
      <4> QED  BY <4>1, <4>2
    <3> QED  BY <2>1, <3>2, <3>3
  <2> QED  BY <2>3, <2>4, <2>5 DEF Val
<1> QED  BY <1>9, <1>10, <1>11, <1>12

\* The list is the path over the nodes allocated before the workers start.
LEMMA InitIInv == Init => IInv /\ Linked = {n \in Node : data[n] # 0}
<1> SUFFICES ASSUME Init PROVE IInv /\ Linked = {n \in Node : data[n] # 0}
  OBVIOUS
<1>1. PICK q \in UNION {[1 .. k -> Key] : k \in 0 .. MaxPrefill} :
         /\ mem = Filled(q)
         /\ data = [n \in Node |-> IF n <= Len(q) THEN q[n] ELSE 0]
  BY DEF Init
<1>2. PICK k \in 0 .. MaxPrefill : q \in [1 .. k -> Key]
  BY <1>1
<1>3. k \in Nat /\ 1 .. k \subseteq Node
  <2>1. PICK N : N = Ops * Cardinality(Thread)
    OBVIOUS
  <2>2. Cardinality(Thread) \in Nat /\ Ops \in Nat /\ MaxPrefill \in Nat
    BY McasSortedListAssumption, FS_CardinalityType
  <2>3. N \in Nat
    BY <2>1, <2>2
  <2>4. Node = 1 .. MaxPrefill + N
    BY <2>1 DEF Node
  <2> QED  BY <2>2, <2>3, <2>4
<1>4. Len(q) = k
  <2>1. q \in Seq(Key)
    BY <1>2, <1>3, IsASeq
  <2>2. DOMAIN q = 1 .. k /\ DOMAIN q = 1 .. Len(q) /\ Len(q) \in Nat
    BY <1>2, <2>1, LenProperties
  <2> QED  BY <1>3, <2>2
<1>5. PICK p : p = FirstPath(k)
  OBVIOUS
<1>6. /\ mem \in [Addr -> Val] /\ PathOK(mem, k, p)
      /\ mem[<<head, "prev">>] = Null /\ mem[<<tail, "next">>] = Null /\ Off(mem, Null)
      /\ \A x \in Node \ On(k, p) : Off(mem, x)
  BY <1>1, <1>2, <1>3, <1>5, FilledIs
<1>7. p \in [0 .. k + 1 -> Val] /\ On(k, p) = 1 .. k
  BY <1>3, <1>5, FirstPathIs
<1>8. /\ lock = NoThread /\ todo = <<>> /\ NoThread \notin Thread
      /\ call = [t \in Thread |-> <<>>] /\ pc = [t \in Thread |-> "idle"]
      /\ curr = [t \in Thread |-> head] /\ prev = [t \in Thread |-> Null] /\ next = [t \in Thread |-> Null]
      /\ n_val = [t \in Thread |-> 0] /\ left = [t \in Thread |-> Ops]
      /\ crashed = FALSE /\ stayed = [t \in Thread |-> {}]
  BY McasSortedListAssumption DEF Init, M!InitMCAS
<1>9. L!MCASTypeOK /\ L!LockDiscipline
  BY <1>6, <1>8, EmptySeq DEF L!MCASTypeOK, L!LockDiscipline, L!Distinct
<1>10. LocalTypes
  <2>1. 0 \in 0 .. Cardinality(Node) /\ Ops \in 0 .. Ops
    BY Constants, McasSortedListAssumption
  <2> QED  BY <1>8, <2>1 DEF LocalTypes, CallType, PC
<1>11. data \in [Node -> Key \cup {0}] /\ \A n \in 1 .. k : data[n] # 0
  <2>1. \A n \in Node : n \in Nat /\ (n <= k => n \in 1 .. k)
    BY <1>3, Constants DEF Node
  <2>2. \A n \in 1 .. k : q[n] \in Key /\ q[n] # 0 /\ n <= k
    BY <1>2, McasSortedListAssumption
  <2> QED  BY <1>1, <1>3, <1>4, <2>1, <2>2
<1>12. TypeOK
  BY <1>8, <1>9, <1>10, <1>11, TypeParts DEF TypeConjuncts
<1>13. Settled = mem /\ Len(todo) = 0
  BY <1>8, <1>12, TypeFacts
<1>14. \A t \in Thread : ~Inserting(t) /\ \A name : ~Is(t, name)
  BY <1>8 DEF Inserting, Is
<1>15. Private = {}
  BY <1>14, PrivateIs
<1>16. ListOK(k, p)
  <2>1. On(k, p) \subseteq Known
    BY <1>3, <1>7, <1>11, <1>15 DEF Known
  <2>2. RestOff(Settled, k, p)
    BY <1>6, <1>13, <1>15 DEF RestOff
  <2>3. LinksOK(mem)
    <3> SUFFICES ASSUME NEW x \in Val
                 PROVE  mem[<<x, "next">>] \in Known \ {head} /\ mem[<<x, "prev">>] \in Known \ {tail}
      BY DEF LinksOK
    <3>1. head \in Known /\ tail \in Known /\ Null \in Known /\ head # tail /\ head # Null /\ tail # Null
      BY Constants DEF Known
    <3>2. CASE x \in Node \ On(k, p) \/ x = Null
      BY <1>6, <3>1, <3>2 DEF Off
    <3>3. ASSUME NEW i \in 0 .. k
          PROVE  /\ mem[<<p[i], "next">>] \in Known \ {head}
                 /\ mem[<<p[i + 1], "prev">>] \in Known \ {tail}
      <4>1. /\ p[i] = head \/ p[i] \in On(k, p)
            /\ p[i + 1] = tail \/ p[i + 1] \in On(k, p)
            /\ p[i] # tail /\ p[i + 1] # head
            /\ mem[<<p[i], "next">>] = p[i + 1] /\ mem[<<p[i + 1], "prev">>] = p[i]
        <5>1. PathOK(mem, k, p) /\ k \in Nat /\ i \in 0 .. k
          BY <1>3, <1>6
        <5>2. mem[<<p[i], "next">>] = p[i + 1] /\ mem[<<p[i + 1], "prev">>] = p[i]
          BY <5>1 DEF PathOK
        <5>3. /\ i = 0 \/ i \in 1 .. k
              /\ i + 1 = k + 1 \/ i + 1 \in 1 .. k
          BY <5>1
        <5>4. /\ p[0] = head /\ p[k + 1] = tail
              /\ \A j \in 1 .. k : p[j] \in Node /\ p[j] \in On(k, p)
          BY <5>1 DEF PathOK, On
        <5>5. head # tail /\ head \notin Node /\ tail \notin Node
          BY Constants
        <5> QED  BY <5>2, <5>3, <5>4, <5>5
      <4> QED  BY <2>1, <3>1, <4>1
    <3>4. CASE x = head
      <4>1. 0 \in 0 .. k /\ p[0] = head
        BY <1>3, <1>6 DEF PathOK
      <4> QED  BY <1>6, <3>1, <3>3, <3>4, <4>1
    <3>5. CASE x = tail
      <4>1. k \in 0 .. k /\ p[k + 1] = tail
        BY <1>3, <1>6 DEF PathOK
      <4> QED  BY <1>6, <3>1, <3>3, <3>5, <4>1
    <3>6. CASE x \in On(k, p)
      <4>1. PICK i \in 1 .. k : x = p[i]
        BY <3>6 DEF On
      <4>2. i \in 0 .. k /\ i - 1 \in 0 .. k /\ (i - 1) + 1 = i
        BY <1>3
      <4>3. mem[<<p[(i - 1) + 1], "prev">>] \in Known \ {tail}
        BY <3>3, <4>2
      <4> QED  BY <3>3, <4>1, <4>2, <4>3
    <3> QED  BY <3>2, <3>4, <3>5, <3>6 DEF Val
  <2>4. Behind(k, p) /\ LinksOK(Settled) /\ PathOK(Settled, k, p)
    BY <1>6, <1>13, <2>3 DEF Behind
  <2> QED  BY <1>13, <2>1, <2>2, <2>3, <2>4 DEF ListOK
<1>17. ASSUME NEW t \in Thread  PROVE WorkerOK(t) /\ CountOK(t, k, p)
  <2>1. head \in Known /\ Null \in Known
    BY DEF Known
  <2> QED  BY <1>8, <1>14, <2>1 DEF WorkerOK, CountOK, AtQcas
<1>18. Holds(k, p)
  BY <1>16, <1>17 DEF Holds
<1>19. IInv
  BY <1>3, <1>7, <1>12, <1>14, <1>18 DEF IInv
<1>20. \A n \in Node : n \in 1 .. k <=> data[n] # 0
  <2>1. \A n \in Node : ~(n \in 1 .. k) => ~(n <= k)
    BY Constants DEF Node
  <2> QED  BY <1>1, <1>4, <1>11, <2>1
<1>21. Linked = 1 .. k
  BY <1>3, <1>7, <1>12, <1>16, LinkedIsPath
<1> QED  BY <1>3, <1>19, <1>20, <1>21

LEMMA UnchangedIInv ==
  ASSUME IInv, UNCHANGED vars
  PROVE  IInv' /\ Linked' = Linked
<1>1. UNCHANGED <<mem, lock, todo, data, call, pc, curr, prev, next, n_val, left, crashed, stayed>>
  BY DEF vars
<1>2. Settled' = Settled /\ Known' = Known /\ Private' = Private
  BY <1>1 DEF Settled, L!Settled, Known, Private, Is, NewNode
<1>3. L!MCASTypeOK' /\ L!LockDiscipline' /\ TypeOK'
  BY <1>1, TypeParts DEF IInv, TypeConjuncts, LocalTypes, L!MCASTypeOK, L!LockDiscipline
<1>4. \A u \in Thread : (Inserting(u)' <=> Inserting(u)) /\ NewNode(u)' = NewNode(u)
  BY <1>1 DEF Inserting, Is, NewNode
<1>5. \E k \in Nat : \E p \in [0 .. k + 1 -> Val] : Holds(k, p)'
  <2>1. PICK k \in Nat : \E p \in [0 .. k + 1 -> Val] : Holds(k, p)
    BY DEF IInv
  <2>2. PICK p \in [0 .. k + 1 -> Val] : Holds(k, p)
    BY <2>1
  <2>3. ListOK(k, p)' /\ \A u \in Thread : WorkerOK(u)' /\ CountOK(u, k, p)'
    <3>1. TypeOK /\ ListOK(k, p) /\ \A u \in Thread : WorkerOK(u) /\ CountOK(u, k, p) /\ Keeps(u)
      BY <1>1, <2>2 DEF Holds, IInv, Keeps
    <3> QED  BY <1>1, <1>2, <3>1, ListStays, WorkerStays, CountStays
  <2> QED  BY <2>3 DEF Holds
<1>6. Linked' = Linked
  BY <1>2, Same DEF Linked, Settled
<1> QED  BY <1>3, <1>4, <1>5, <1>6 DEF IInv

LEMMA NextIInv == IInv /\ [Next]_vars => IInv'
<1>1. ASSUME IInv, NEW t \in Thread, Step(t)  PROVE IInv'
  BY <1>1, CallStep, WalkStep, TestsStep, ReloadPrevStep, FaultStep, InsertStep, DeleteStep,
     StoresStep, FailStep, ReturnStep DEF Step
<1> QED  BY <1>1, UnchangedIInv DEF Next, Terminated

\* The invariant holds after every step of the walks, the tests and the qcas of
\* insert, remove and count (SortedList.h:23-155).
THEOREM Invariant == Spec => []IInv
<1> QED  BY InitIInv, NextIInv, PTL DEF Spec

\* Every state has the types of TypeOK (SortedList.h:13-21, 97-155), for any
\* number of workers, calls and keys.
THEOREM TypeCorrect == Spec => []TypeOK
<1>1. IInv => TypeOK
  BY DEF IInv
<1> QED  BY <1>1, Invariant, PTL

-----------------------------------------------------------------------------
(***************************************************************************)
(* What a walk finds, and what a count returns.                            *)
(***************************************************************************)

\* Node is large enough for the nodes of a path.
LEMMA PathFits ==
  ASSUME NEW k \in Nat, NEW p \in [0 .. k + 1 -> Val], NEW m, PathOK(m, k, p)
  PROVE  k <= Cardinality(Node)
<1> DEFINE g == [i \in 1 .. k |-> p[i]]
<1>1. /\ \A i \in 1 .. k : p[i] \in Node
      /\ \A i, j \in 0 .. k + 1 : p[i] = p[j] => i = j
  BY DEF PathOK
<1>2. \A i \in 1 .. k : i \in 0 .. k + 1
  OBVIOUS
<1>3. g \in Injection(1 .. k, Node)
  BY <1>1, <1>2 DEF Injection, IsInjective
<1>4. Cardinality(1 .. k) = k
  <2>1. Cardinality(1 .. k) = IF 1 > k THEN 0 ELSE k - 1 + 1
    BY FS_Interval
  <2> QED  BY <2>1
<1>5. Cardinality(1 .. k) <= Cardinality(Node)
  BY <1>3, Constants, FS_Injection
<1> QED  BY <1>4, <1>5

\* One link further from node n in the memory m.
Follow(m) == [n \in Val |-> IF n \in {tail, Null} THEN n ELSE m[<<n, "next">>]]

\* The way along the path p, which then stays at the tail.
Along(k, p) == [i \in 0 .. Cardinality(Node) + 1 |-> IF i <= k + 1 THEN p[i] ELSE tail]

IsWay(m, f) ==
  f = [i \in 0 .. Cardinality(Node) + 1 |-> IF i = 0 THEN head ELSE Follow(m)[f[i - 1]]]

\* The links lead along the path.
LEMMA AlongIsWay ==
  ASSUME NEW k \in Nat, NEW p \in [0 .. k + 1 -> Val], NEW m, PathOK(m, k, p)
  PROVE  IsWay(m, Along(k, p))
<1>1. PICK f : f = Along(k, p)
  OBVIOUS
<1>2. PICK N \in Nat : N = Cardinality(Node) + 1
  BY Constants
<1>3. f = [i \in 0 .. N |-> IF i <= k + 1 THEN p[i] ELSE tail]
  BY <1>1, <1>2 DEF Along
<1>4. /\ p[0] = head /\ p[k + 1] = tail /\ tail \in Val
      /\ \A i \in 0 .. k : p[i] \in Val /\ p[i] \notin {tail, Null} /\ m[<<p[i], "next">>] = p[i + 1]
  <2>1. \A i \in 0 .. k : p[i] = head \/ p[i] \in Node
    BY PathFacts
  <2>2. \A i \in 0 .. k : m[<<p[i], "next">>] = p[i + 1]
    BY DEF PathOK
  <2> QED  BY <2>1, <2>2, PathFacts, Constants DEF Val, PathOK
<1>5. \A i \in 0 .. k : Follow(m)[p[i]] = p[i + 1]
  BY <1>4 DEF Follow
<1>6. Follow(m)[tail] = tail
  BY <1>4 DEF Follow
<1>7. ASSUME NEW i \in 0 .. N  PROVE f[i] = IF i = 0 THEN head ELSE Follow(m)[f[i - 1]]
  <2>1. CASE i = 0
    BY <1>3, <1>4, <2>1
  <2>2. CASE i # 0
    <3>1. i - 1 \in 0 .. N /\ (i - 1) + 1 = i
      BY <1>2, <2>2
    <3>2. CASE i <= k + 1
      <4>1. i - 1 \in 0 .. k /\ i - 1 <= k + 1
        BY <2>2, <3>2
      <4>2. f[i] = p[i] /\ f[i - 1] = p[i - 1]
        BY <1>3, <3>1, <3>2, <4>1
      <4>3. Follow(m)[p[i - 1]] = p[(i - 1) + 1]
        BY <1>5, <4>1
      <4> QED  BY <2>2, <3>1, <4>2, <4>3
    <3>3. CASE i = k + 2
      <4>1. i - 1 = k + 1 /\ i - 1 <= k + 1 /\ ~(i <= k + 1)
        BY <3>3
      <4>2. f[i] = tail /\ f[i - 1] = p[k + 1]
        BY <1>3, <3>1, <4>1
      <4> QED  BY <1>4, <1>6, <2>2, <4>2
    <3>4. CASE i > k + 2
      <4>1. ~(i - 1 <= k + 1) /\ ~(i <= k + 1)
        BY <3>4
      <4>2. f[i] = tail /\ f[i - 1] = tail
        BY <1>3, <3>1, <4>1
      <4> QED  BY <1>6, <2>2, <4>2
    <3> QED  BY <3>2, <3>3, <3>4
  <2> QED  BY <2>1, <2>2
<1>8. f = [i \in 0 .. N |-> IF i = 0 THEN head ELSE Follow(m)[f[i - 1]]]
  BY <1>3, <1>7
<1> QED  BY <1>1, <1>2, <1>8 DEF IsWay

\* There is one way along the links.
LEMMA OneWay ==
  ASSUME NEW m, NEW f, NEW g, IsWay(m, f), IsWay(m, g)
  PROVE  f = g
<1>1. PICK N \in Nat : N = Cardinality(Node) + 1
  BY Constants
<1>2. /\ f = [i \in 0 .. N |-> IF i = 0 THEN head ELSE Follow(m)[f[i - 1]]]
      /\ g = [i \in 0 .. N |-> IF i = 0 THEN head ELSE Follow(m)[g[i - 1]]]
  BY <1>1 DEF IsWay
<1>3. PICK D : D = {i \in 0 .. N : f[i] # g[i]}
  OBVIOUS
<1>4. ASSUME D # {}  PROVE FALSE
  <2>1. PICK i \in D : \A j \in D : i <= j
    <3>1. D \in SUBSET Nat
      BY <1>3
    <3> QED  BY <1>4, <3>1, Assumed, L!Least
  <2>2. i \in 0 .. N /\ f[i] # g[i]
    BY <1>3
  <2>3. i # 0
    BY <1>2, <2>2
  <2>4. i - 1 \in 0 .. N /\ ~(i <= i - 1)
    BY <2>2, <2>3
  <2>5. f[i - 1] = g[i - 1]
    BY <1>3, <2>1, <2>4
  <2> QED  BY <1>2, <2>2, <2>3, <2>5
<1>5. \A i \in 0 .. N : f[i] = g[i]
  BY <1>3, <1>4
<1>6. DOMAIN f = 0 .. N /\ DOMAIN g = 0 .. N
  BY <1>2
<1> QED  BY <1>2, <1>5, <1>6

\* A walk goes along the path.
LEMMA AfterIsAlong ==
  ASSUME NEW k \in Nat, NEW p \in [0 .. k + 1 -> Val], NEW m, PathOK(m, k, p)
  PROVE  After(m) = Along(k, p)
<1>1. IsWay(m, Along(k, p))
  BY AlongIsWay
<1>2. After(m) = CHOOSE f : IsWay(m, f)
  BY DEF After, IsWay, Follow, Val
<1>3. IsWay(m, After(m))
  BY <1>1, <1>2
<1> QED  BY <1>1, <1>3, OneWay

\* The invariant makes the list whole.
LEMMA PathIsWhole ==
  ASSUME IInv
  PROVE  ListIsWhole
<1>1. PICK k \in Nat : \E p \in [0 .. k + 1 -> Val] :
              /\ Holds(k, p) /\ ListOK(k, p)
              /\ \A t \in Thread : WorkerOK(t) /\ CountOK(t, k, p)
  BY HasPath
<1>2. PICK p \in [0 .. k + 1 -> Val] : ListOK(k, p)
  BY <1>1
<1>3. TypeOK /\ PathOK(Settled, k, p) /\ RestOff(Settled, k, p)
  BY <1>2 DEF IInv, ListOK
<1>4. Linked = On(k, p)
  BY <1>2, <1>3, LinkedIsPath
<1>5. PICK m : m = M!Settled /\ m = Settled
  BY Same DEF Settled
<1>6. PICK way : way = {After(m)[i] : i \in 0 .. Cardinality(Node) + 1}
  OBVIOUS
<1>7. /\ p[0] = head /\ p[k + 1] = tail
      /\ \A i \in 0 .. k + 1 : p[i] = head \/ p[i] = tail \/ p[i] \in On(k, p)
      /\ \A x \in On(k, p) : \E i \in 1 .. k : x = p[i]
      /\ \A i \in 0 .. k : m[<<p[i], "next">>] = p[i + 1] /\ m[<<p[i + 1], "prev">>] = p[i]
  <2>1. PathOK(m, k, p)
    BY <1>3, <1>5
  <2>2. \A i \in 0 .. k + 1 : i = 0 \/ i = k + 1 \/ i \in 1 .. k
    OBVIOUS
  <2> QED  BY <2>1, <2>2 DEF PathOK, On
<1>8. way = {head, tail} \cup Linked
  <2>1. way = {Along(k, p)[i] : i \in 0 .. Cardinality(Node) + 1}
    BY <1>3, <1>5, <1>6, AfterIsAlong
  <2>2. /\ \A i \in 0 .. Cardinality(Node) + 1 : Along(k, p)[i] = IF i <= k + 1 THEN p[i] ELSE tail
        /\ \A i \in 0 .. Cardinality(Node) + 1 : i <= k + 1 => i \in 0 .. k + 1
        /\ \A i \in 0 .. k + 1 : i \in 0 .. Cardinality(Node) + 1 /\ i <= k + 1
    BY <1>3, PathFits, Constants DEF Along
  <2>3. ASSUME NEW i \in 0 .. k + 1  PROVE p[i] \in way
    BY <2>1, <2>2
  <2>4. ASSUME NEW x \in way  PROVE x \in {head, tail} \cup Linked
    <3>1. PICK i \in 0 .. Cardinality(Node) + 1 : x = IF i <= k + 1 THEN p[i] ELSE tail
      BY <2>1, <2>2
    <3>2. CASE i <= k + 1
      BY <1>4, <1>7, <2>2, <3>1, <3>2
    <3>3. CASE ~(i <= k + 1)
      BY <3>1, <3>3
    <3> QED  BY <3>2, <3>3
  <2>5. ASSUME NEW x \in {head, tail} \cup Linked  PROVE x \in way
    <3>1. 0 \in 0 .. k + 1 /\ k + 1 \in 0 .. k + 1 /\ \A i \in 1 .. k : i \in 0 .. k + 1
      OBVIOUS
    <3> QED  BY <1>4, <1>7, <2>3, <3>1
  <2> QED  BY <2>4, <2>5
<1>9. ASSUME NEW n \in way, n # tail  PROVE m[<<m[<<n, "next">>], "prev">>] = n
  <2>1. PICK i \in 0 .. k : n = p[i]
    <3>1. 0 \in 0 .. k /\ \A i \in 1 .. k : i \in 0 .. k
      OBVIOUS
    <3> QED  BY <1>4, <1>7, <1>8, <1>9, <3>1
  <2> QED  BY <1>7, <2>1
<1>10. \A n \in Node \ (Private \cup Linked) : m[<<n, "next">>] = Null /\ m[<<n, "prev">>] = Null
  BY <1>3, <1>4, <1>5 DEF RestOff, Off
<1> QED  BY <1>3, <1>5, <1>6, <1>8, <1>9, <1>10 DEF ListIsWhole

\* Once the qcas under way is over, the links forth from the head lead to the
\* tail and the links back mirror them, and a node that is out of the list has
\* none: whatever inserts and removes do at once (SortedList.h:23-94).
THEOREM ListStaysWhole == Spec => []ListIsWhole
<1>1. IInv => ListIsWhole
  BY PathIsWhole
<1> QED  BY <1>1, Invariant, PTL

\* A count returns at least the nodes of its key that are in the list from its
\* call to its return, and none twice, although it starts over at each deleted
\* node it comes to (SortedList.h:145-155).
THEOREM CountsAreRegular == Spec => []CountIsRegular
<1>1. IInv => CountIsRegular
  <2> SUFFICES ASSUME IInv, NEW t \in Thread, pc[t] = "return", Is(t, "count")
               PROVE  /\ Cardinality(stayed[t]) <= n_val[t]
                      /\ n_val[t] <= Cardinality({n \in Node : data[n] = KeyOf(t)})
    BY DEF CountIsRegular
  <2>1. PICK k \in Nat : \E p \in [0 .. k + 1 -> Val] :
                /\ Holds(k, p) /\ ListOK(k, p)
                /\ \A u \in Thread : WorkerOK(u) /\ CountOK(u, k, p)
    BY HasPath
  <2>2. PICK p \in [0 .. k + 1 -> Val] : CountOK(t, k, p)
    BY <2>1
  <2>3. PICK C \in SUBSET {n \in Known \cap Node : data[n] = KeyOf(t)} : Counted(t, k, p, C)
    BY <2>2 DEF CountOK
  <2>4. stayed[t] \subseteq C /\ Cardinality(C) = n_val[t] /\ C \subseteq {n \in Node : data[n] = KeyOf(t)}
    BY <2>3 DEF Counted
  <2>5. IsFiniteSet({n \in Node : data[n] = KeyOf(t)})
    BY Constants, FS_Subset
  <2>6. IsFiniteSet(C) /\ Cardinality(C) <= Cardinality({n \in Node : data[n] = KeyOf(t)})
    BY <2>4, <2>5, FS_Subset
  <2>7. Cardinality(stayed[t]) <= Cardinality(C)
    BY <2>4, <2>6, FS_Subset
  <2> QED  BY <2>4, <2>6, <2>7
<1> QED  BY <1>1, Invariant, PTL

-----------------------------------------------------------------------------
(***************************************************************************)
(* The list implements ListSpec: an insert and a remove take effect with   *)
(* the first store of their qcas, everything else at the end of the walk.  *)
(***************************************************************************)

\* The call of t has taken effect.
Settling(t) == pc[t] \in {"store", "return"}

\* What EffectsAreAtomic substitutes for the variables of ListSpec.
ACall ==
  [t \in Thread |->
     IF pc[t] \in {"store", "return"} \/ call[t] = <<>> THEN <<>>
     ELSE IF call[t][1] = "insert" THEN call[t] ELSE <<call[t][1], call[t][2], 0>>]
ALeft == [t \in Thread |-> IF pc[t] \in {"store", "return"} THEN left[t] - 1 ELSE left[t]]

\* A step of t changes only what ListSpec sees of t.
Alone(t) ==
  \A u \in Thread : u # t => pc'[u] = pc[u] /\ call'[u] = call[u] /\ left'[u] = left[u]

LEMMA StepAlone ==
  ASSUME IInv, NEW t \in Thread, Step(t)
  PROVE  Alone(t)
<1>1. LocalTypes
  BY HasPath
<1>2. /\ call \in [Thread -> CallType] /\ pc \in [Thread -> PC] /\ left \in [Thread -> 0 .. Ops]
  BY <1>1 DEF LocalTypes
<1>3. ASSUME \E name \in {"insert", "remove", "count"}, k \in Key : Call(t, name, k)  PROVE Alone(t)
  BY <1>2, <1>3 DEF Call, Alone
<1>4. ASSUME Walk(t)  PROVE Alone(t)
  BY <1>2, <1>4 DEF Walk, Restart, Reach, Alone
<1>5. ASSUME TestNext(t) \/ TestPrev(t) \/ LoadPrev(t) \/ LoadNext(t)  PROVE Alone(t)
  BY <1>2, <1>5 DEF TestNext, TestPrev, LoadPrev, LoadNext, Restart, GoTo, Alone
<1>6. ASSUME ReloadPrev(t) \/ QcasFaults(t) \/ QcasFails(t)  PROVE Alone(t)
  BY <1>2, <1>6 DEF ReloadPrev, QcasFaults, QcasFails, Restart, Alone
<1>7. ASSUME QcasSucceeds(t) \/ QcasStores(t)  PROVE Alone(t)
  BY <1>2, <1>7 DEF QcasSucceeds, QcasStores, Advance, Alone
<1>8. ASSUME Return(t)  PROVE Alone(t)
  BY <1>2, <1>8 DEF Return, Alone
<1> QED  BY <1>3, <1>4, <1>5, <1>6, <1>7, <1>8 DEF Step

LEMMA AOthers ==
  ASSUME NEW t \in Thread, Alone(t)
  PROVE  \A u \in Thread : u # t => ACall'[u] = ACall[u] /\ ALeft'[u] = ALeft[u]
BY DEF Alone, ACall, ALeft

\* A step of t that ListSpec does not see.
LEMMA RefineStutter ==
  ASSUME NEW t \in Thread, Alone(t), call'[t] = call[t], left'[t] = left[t],
         Settling(t)' <=> Settling(t), data' = data, Linked' = Linked
  PROVE  UNCHANGED <<Linked, data, ACall, ALeft>>
<1>1. \A u \in Thread : u # t => ACall'[u] = ACall[u] /\ ALeft'[u] = ALeft[u]
  BY AOthers
<1>2. ACall'[t] = ACall[t] /\ ALeft'[t] = ALeft[t]
  BY DEF ACall, ALeft, Settling
<1> QED  BY <1>1, <1>2 DEF ACall, ALeft

\* The effect of the call of t.
LEMMA RefineOver ==
  ASSUME NEW t \in Thread, Alone(t), call'[t] = call[t], left'[t] = left[t], call[t] # <<>>,
         ~Settling(t), Settling(t)'
  PROVE  /\ ACall' = [ACall EXCEPT ![t] = <<>>]
         /\ ALeft' = [ALeft EXCEPT ![t] = @ - 1]
         /\ ACall[t] # <<>> /\ ACall[t][1] = call[t][1] /\ ACall[t][2] = call[t][2]
         /\ call[t][1] = "insert" => ACall[t][3] = call[t][3]
<1>1. \A u \in Thread : u # t => ACall'[u] = ACall[u] /\ ALeft'[u] = ALeft[u]
  BY AOthers
<1>2. ACall'[t] = <<>> /\ ALeft'[t] = left[t] - 1 /\ ALeft[t] = left[t]
  BY DEF ACall, ALeft, Settling
<1>3. ACall[t] = IF call[t][1] = "insert" THEN call[t] ELSE <<call[t][1], call[t][2], 0>>
  BY DEF ACall, Settling
<1>4. ACall' = [ACall EXCEPT ![t] = <<>>]
  BY <1>1, <1>2 DEF ACall
<1>5. ALeft' = [ALeft EXCEPT ![t] = @ - 1]
  BY <1>1, <1>2 DEF ALeft
<1> QED  BY <1>3, <1>4, <1>5

\* The nodes of the list have been allocated.
LEMMA LinkedKnown ==
  ASSUME IInv
  PROVE  \A n \in Linked : n \in Node /\ data[n] # 0
<1>1. PICK k \in Nat : \E p \in [0 .. k + 1 -> Val] :
              /\ Holds(k, p) /\ ListOK(k, p)
              /\ \A t \in Thread : WorkerOK(t) /\ CountOK(t, k, p)
  BY HasPath
<1>2. PICK p \in [0 .. k + 1 -> Val] : ListOK(k, p)
  BY <1>1
<1>3. Linked = On(k, p) /\ On(k, p) \subseteq Known /\ PathOK(Settled, k, p)
  BY <1>2, LinkedIsPath, HasPath DEF ListOK
<1>4. On(k, p) \subseteq Node
  BY <1>3 DEF On, PathOK
<1> QED  BY <1>3, <1>4, Constants DEF Known

\* What the invariant says of one worker.
LEMMA Worker ==
  ASSUME IInv, NEW t \in Thread
  PROVE  TypeOK /\ LocalTypes /\ WorkerOK(t) /\ (call[t] # <<>> => call[t] \in CallType)
BY HasPath DEF LocalTypes

LEMMA SameLinked ==
  ASSUME Settled' = Settled
  PROVE  Linked' = Linked
BY Same DEF Linked, Settled

LEMMA RefineCall ==
  ASSUME IInv, NEW t \in Thread, NEW name \in {"insert", "remove", "count"}, NEW k \in Key,
         Call(t, name, k), Alone(t)
  PROVE  Abstract!Invoke(t, k)
<1>1. /\ pc[t] = "idle" /\ left[t] > 0 /\ left' = left /\ call[t] = <<>>
      /\ pc'[t] = "walk" /\ Linked' = Linked
      /\ LocalTypes /\ data \in [Node -> Key \cup {0}]
  <2>1. /\ pc[t] = "idle" /\ left[t] > 0 /\ left' = left /\ pc' = [pc EXCEPT ![t] = "walk"]
    BY DEF Call
  <2>2. TypeOK /\ LocalTypes /\ WorkerOK(t) /\ pc \in [Thread -> PC]
    BY Worker DEF LocalTypes
  <2>3. call[t] = <<>> /\ pc'[t] = "walk"
    BY <2>1, <2>2 DEF WorkerOK
  <2>4. Linked' = Linked
    BY CallStep, SameLinked
  <2> QED  BY <2>1, <2>2, <2>3, <2>4, TypeFacts
<1>2. \A u \in Thread : u # t => ACall'[u] = ACall[u] /\ ALeft'[u] = ALeft[u]
  BY AOthers
<1>3. ALeft' = ALeft /\ ALeft[t] > 0 /\ ACall[t] = <<>>
  BY <1>1, <1>2 DEF ALeft, ACall
<1>4. CASE name = "insert"
  <2>1. PICK n : n = CHOOSE x \in Unused : \A y \in Unused : x <= y
    OBVIOUS
  <2>2. n \in Node \ Linked /\ data[n] = 0
    BY <1>4, <2>1, Allocated, LinkedKnown DEF Call
  <2>3. data' = [data EXCEPT ![n] = k] /\ call' = [call EXCEPT ![t] = <<name, k, n>>]
    BY <1>4, <2>1 DEF Call
  <2>4. call'[t] = <<"insert", k, n>>
    BY <1>1, <1>4, <2>3 DEF LocalTypes
  <2>5. ACall'[t] = <<"insert", k, n>>
    BY <1>1, <2>4 DEF ACall
  <2>6. ACall' = [ACall EXCEPT ![t] = <<"insert", k, n>>]
    BY <1>2, <2>5 DEF ACall
  <2> QED  BY <1>1, <1>3, <2>2, <2>3, <2>6 DEF Abstract!Invoke, ACall, ALeft
<1>5. CASE name # "insert"
  <2>1. data' = data /\ call' = [call EXCEPT ![t] = <<name, k, Null>>]
    BY <1>5 DEF Call
  <2>2. call'[t] = <<name, k, Null>>
    BY <1>1, <2>1 DEF LocalTypes
  <2>3. ACall'[t] = <<name, k, 0>>
    BY <1>1, <1>5, <2>2 DEF ACall
  <2>4. ACall' = [ACall EXCEPT ![t] = <<name, k, 0>>]
    BY <1>2, <2>3 DEF ACall
  <2>5. name \in {"remove", "count"}
    BY <1>5
  <2> QED  BY <1>1, <1>3, <2>1, <2>4, <2>5 DEF Abstract!Invoke, ACall, ALeft
<1> QED  BY <1>4, <1>5

\* A walk that ends with nothing to link or unlink returns.
LEMMA RefineWalk ==
  ASSUME IInv, NEW t \in Thread, Walk(t), Alone(t)
  PROVE  Abstract!Pass(t) \/ UNCHANGED <<Linked, data, ACall, ALeft>>
<1>1. /\ pc[t] = "walk" /\ call' = call /\ left' = left /\ data' = data
      /\ Linked' = Linked /\ LocalTypes /\ call[t] # <<>> /\ ~Settling(t)
  BY Worker, WalkStep, SameLinked DEF Walk, WorkerOK, Settling
<1>2. /\ pc'[t] \in {"walk", "test_next", "return"}
      /\ pc'[t] = "return" => ~Is(t, "insert")
  BY <1>1 DEF Walk, Restart, Reach, AfterWalk, LocalTypes
<1>3. CASE pc'[t] # "return"
  <2>1. ~Settling(t)'
    BY <1>2, <1>3 DEF Settling
  <2> QED  BY <1>1, <2>1, RefineStutter
<1>4. CASE pc'[t] = "return"
  <2>1. call[t][1] \in {"remove", "count"}
    <3>1. call[t] \in CallType
      BY <1>1 DEF LocalTypes
    <3>2. call[t][1] \in {"insert", "remove", "count"}
      BY <1>1, <3>1, CallTypes
    <3> QED  BY <1>1, <1>2, <1>4, <3>2 DEF Is
  <2>2. Settling(t)'
    BY <1>4 DEF Settling
  <2>3. /\ ACall' = [ACall EXCEPT ![t] = <<>>] /\ ALeft' = [ALeft EXCEPT ![t] = @ - 1]
        /\ ACall[t] # <<>> /\ ACall[t][1] = call[t][1]
    BY <1>1, <2>2, RefineOver
  <2> QED  BY <1>1, <2>1, <2>3 DEF Abstract!Pass, Abstract!Over, ACall, ALeft
<1> QED  BY <1>3, <1>4

\* A qcas that succeeds.
LEMMA RefineQcas ==
  ASSUME IInv, NEW t \in Thread, QcasSucceeds(t), Alone(t)
  PROVE  Abstract!Insert(t) \/ Abstract!Remove(t)
<1>1. /\ pc[t] = "qcas" /\ call' = call /\ left' = left /\ data' = data /\ LocalTypes /\ WorkerOK(t)
      /\ call[t] # <<>> /\ ~Settling(t)
  BY Worker DEF QcasSucceeds, WorkerOK, Settling
<1>2. Settling(t)'
  BY <1>1 DEF QcasSucceeds, Advance, LocalTypes, Settling
<1>3. /\ ACall' = [ACall EXCEPT ![t] = <<>>] /\ ALeft' = [ALeft EXCEPT ![t] = @ - 1]
      /\ ACall[t] # <<>> /\ ACall[t][1] = call[t][1] /\ ACall[t][2] = call[t][2]
      /\ call[t][1] = "insert" => ACall[t][3] = call[t][3]
  BY <1>1, <1>2, RefineOver
<1>4. CASE Is(t, "insert")
  <2>1. call[t][1] = "insert" /\ Linked' = Linked \cup {call[t][3]}
    BY <1>4, InsertStep DEF Is, NewNode
  <2> QED  BY <1>1, <1>3, <2>1 DEF Abstract!Insert, Abstract!Over, ACall, ALeft
<1>5. CASE ~Is(t, "insert")
  <2>1. Is(t, "remove") /\ data[curr[t]] = KeyOf(t)
    BY <1>1, <1>5 DEF WorkerOK, AtQcas
  <2>2. call[t][1] = "remove" /\ data[curr[t]] = call[t][2]
    BY <2>1 DEF Is, KeyOf
  <2>3. curr[t] \in Linked /\ Linked' = Linked \ {curr[t]}
    BY <1>5, DeleteStep
  <2> QED  BY <1>1, <1>3, <2>2, <2>3 DEF Abstract!Remove, Abstract!Over, ACall, ALeft
<1> QED  BY <1>4, <1>5

\* The other steps inside a call.
LEMMA RefineInside ==
  ASSUME IInv, NEW t \in Thread, Alone(t),
         \/ TestNext(t) \/ TestPrev(t) \/ LoadPrev(t) \/ LoadNext(t)
         \/ ReloadPrev(t) \/ QcasFaults(t) \/ QcasFails(t) \/ QcasStores(t)
  PROVE  UNCHANGED <<Linked, data, ACall, ALeft>>
<1>1. LocalTypes /\ WorkerOK(t) /\ call' = call /\ left' = left /\ data' = data
  BY Worker DEF TestNext, TestPrev, LoadPrev, LoadNext, ReloadPrev, QcasFaults, QcasFails, QcasStores
<1>2. Linked' = Linked
  BY TestsStep, ReloadPrevStep, FaultStep, FailStep, StoresStep, SameLinked
<1>3. Settling(t)' <=> Settling(t)
  <2>1. CASE TestNext(t) \/ TestPrev(t) \/ LoadPrev(t) \/ LoadNext(t)
    BY <1>1, <2>1 DEF TestNext, TestPrev, LoadPrev, LoadNext, Restart, GoTo, LocalTypes, Settling
  <2>2. CASE ReloadPrev(t) \/ QcasFaults(t) \/ QcasFails(t)
    BY <1>1, <2>2 DEF ReloadPrev, QcasFaults, QcasFails, Restart, LocalTypes, Settling
  <2>3. CASE QcasStores(t)
    <3>1. lock = t
      BY <2>3 DEF QcasStores, M!StoreNext
    <3> QED  BY <1>1, <2>3, <3>1 DEF QcasStores, Advance, LocalTypes, Settling, WorkerOK
  <2> QED  BY <2>1, <2>2, <2>3
<1> QED  BY <1>1, <1>2, <1>3, RefineStutter

LEMMA RefineReturn ==
  ASSUME IInv, NEW t \in Thread, Return(t), Alone(t)
  PROVE  UNCHANGED <<Linked, data, ACall, ALeft>>
<1>1. /\ pc[t] = "return" /\ pc'[t] = "idle" /\ call'[t] = <<>> /\ left'[t] = left[t] - 1
      /\ data' = data /\ Linked' = Linked
  BY Worker, ReturnStep, SameLinked DEF Return, LocalTypes
<1>2. \A u \in Thread : ACall'[u] = ACall[u] /\ ALeft'[u] = ALeft[u]
  BY <1>1, AOthers DEF ACall, ALeft
<1> QED  BY <1>1, <1>2 DEF ACall, ALeft

LEMMA RefineInit == Init => Abstract!Init
<1> SUFFICES ASSUME Init PROVE Abstract!Init
  OBVIOUS
<1>1. IInv /\ Linked = {n \in Node : data[n] # 0}
  BY InitIInv
<1>2. ACall = [t \in Thread |-> <<>>] /\ ALeft = [t \in Thread |-> Ops]
  BY DEF Init, ACall, ALeft
<1>3. data \in [Node -> Key \cup {0}]
  BY <1>1, HasPath, TypeFacts
<1> QED  BY <1>1, <1>2, <1>3 DEF Abstract!Init, ACall, ALeft

LEMMA RefineNext == IInv /\ [Next]_vars => [Abstract!Next]_(Abstract!vars)
<1> SUFFICES ASSUME IInv, [Next]_vars
             PROVE  Abstract!Next \/ UNCHANGED <<Linked, data, ACall, ALeft>>
  BY DEF Abstract!vars, ACall, ALeft
<1>1. CASE UNCHANGED vars
  BY <1>1, UnchangedIInv DEF vars, ACall, ALeft
<1>2. ASSUME NEW t \in Thread, Step(t)
      PROVE  Abstract!Next \/ UNCHANGED <<Linked, data, ACall, ALeft>>
  <2>1. Alone(t)
    BY <1>2, StepAlone
  <2> QED  BY <1>2, <2>1, RefineCall, RefineWalk, RefineQcas, RefineInside, RefineReturn DEF Step, Abstract!Next
<1> QED  BY <1>1, <1>2 DEF Next, Terminated

\* Every insert puts its node in once and every remove takes out at most one
\* node, of its own key, each at one instant between its call and its return:
\* the first store of its qcas (SortedList.h:23-143).
THEOREM InsertsAndRemovesAreAtomic == Spec => EffectsAreAtomic
<1>1. Init /\ []IInv /\ [][Next]_vars => EffectsAreAtomic
  BY RefineInit, RefineNext, PTL DEF EffectsAreAtomic, Abstract!Spec
<1> QED  BY <1>1, Invariant, PTL DEF Spec
=============================================================================
