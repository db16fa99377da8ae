--------------------------- MODULE McasDequeProofs --------------------------
(***************************************************************************)
(* Proofs about McasDeque, for any number of workers, calls and nodes, any *)
(* mix of operations and both builds of mcas.h: the links always agree     *)
(* with the contents, a popped node stays out, and every call takes effect *)
(* at one instant.                                                         *)
(***************************************************************************)
EXTENDS McasDeque, TLAPS, SequenceTheorems, FiniteSetTheorems

Addr == ({This, Dummy} \cup Node) \X Side
Val == {Dummy, Null} \cup Node

\* The lemmas of MCASProofs about the links; they do not mention the callers of
\* MCASCalls, its last three parameters.
L == INSTANCE MCASProofs WITH MaxWords <- 4, args <- call, status <- result

\* M and L are the same instance of MCAS.
LEMMA Same ==
  /\ M!MCASTypeOK <=> L!MCASTypeOK
  /\ M!LockDiscipline <=> L!LockDiscipline
  /\ M!MCASTypeOK' <=> L!MCASTypeOK'
  /\ M!LockDiscipline' <=> L!LockDiscipline'
  /\ M!NoStore <=> L!NoStore
  /\ M!Settled = L!Settled /\ M!Settled' = L!Settled'
  /\ \A t, w : M!Succeed(t, w) <=> L!Succeed(t, w)
  /\ \A t, w : M!Fail(t, w) => L!NoStore
  /\ \A t : M!StoreNext(t) <=> L!StoreNext(t)
BY DEF M!MCASTypeOK, L!MCASTypeOK, M!LockDiscipline, L!LockDiscipline,
       M!NoStore, L!NoStore, M!Settled, L!Settled, M!Stored, L!Stored,
       M!Distinct, L!Distinct, M!Succeed, L!Succeed, M!StoreNext, L!StoreNext,
       M!Words, L!Words, M!Matches, L!Matches, M!Store, L!Store, M!Fail,
       M!StoreAll, L!StoreAll, M!StoreFirst, L!StoreFirst, Addr, Val

LEMMA Assumed == L!MCASAssumption /\ L!MCASCallsAssumption
BY McasDequeAssumption DEF L!MCASAssumption, L!MCASCallsAssumption

-----------------------------------------------------------------------------
(***************************************************************************)
(* The constants, numbers and sequences.                                   *)
(***************************************************************************)

LEMMA AtMostFive ==
  ASSUME NEW a, NEW b, NEW c, NEW d, NEW e
  PROVE  Cardinality({a, b, c, d, e}) # 6
<1>1. IsFiniteSet({a}) /\ Cardinality({a}) = 1
  BY FS_Singleton
<1>2. IsFiniteSet({a, b}) /\ Cardinality({a, b}) \in 1 .. 2
  <2>1. {a, b} = {a} \cup {b}
    OBVIOUS
  <2> QED  BY <2>1, <1>1, FS_AddElement
<1>3. IsFiniteSet({a, b, c}) /\ Cardinality({a, b, c}) \in 1 .. 3
  <2>1. {a, b, c} = {a, b} \cup {c}
    OBVIOUS
  <2> QED  BY <2>1, <1>2, FS_AddElement
<1>4. IsFiniteSet({a, b, c, d}) /\ Cardinality({a, b, c, d}) \in 1 .. 4
  <2>1. {a, b, c, d} = {a, b, c} \cup {d}
    OBVIOUS
  <2> QED  BY <2>1, <1>3, FS_AddElement
<1>5. Cardinality({a, b, c, d, e}) \in 1 .. 5
  <2>1. {a, b, c, d, e} = {a, b, c, d} \cup {e}
    OBVIOUS
  <2> QED  BY <2>1, <1>4, FS_AddElement
<1> QED  BY <1>5

\* Six values are different when their set has six elements.
LEMMA Constants ==
  /\ This # Dummy /\ This # Null /\ Dummy # Null
  /\ Void # Empty /\ Void # Pending /\ Empty # Pending
  /\ This \notin Node /\ Dummy \notin Node /\ Null \notin Node
  /\ Void \notin Node /\ Empty \notin Node /\ Pending \notin Node
  /\ Node \subseteq Nat
<1>1. ASSUME This = Dummy  PROVE FALSE
  <2>1. {This, Dummy, Null, Void, Empty, Pending} = {Dummy, Null, Void, Empty, Pending}
    BY <1>1
  <2> QED  BY <2>1, AtMostFive, McasDequeAssumption
<1>2. ASSUME This = Null  PROVE FALSE
  <2>1. {This, Dummy, Null, Void, Empty, Pending} = {Dummy, Null, Void, Empty, Pending}
    BY <1>2
  <2> QED  BY <2>1, AtMostFive, McasDequeAssumption
<1>3. ASSUME Dummy = Null  PROVE FALSE
  <2>1. {This, Dummy, Null, Void, Empty, Pending} = {This, Null, Void, Empty, Pending}
    BY <1>3
  <2> QED  BY <2>1, AtMostFive, McasDequeAssumption
<1>4. ASSUME Void = Empty  PROVE FALSE
  <2>1. {This, Dummy, Null, Void, Empty, Pending} = {This, Dummy, Null, Empty, Pending}
    BY <1>4
  <2> QED  BY <2>1, AtMostFive, McasDequeAssumption
<1>5. ASSUME Void = Pending  PROVE FALSE
  <2>1. {This, Dummy, Null, Void, Empty, Pending} = {This, Dummy, Null, Empty, Pending}
    BY <1>5
  <2> QED  BY <2>1, AtMostFive, McasDequeAssumption
<1>6. ASSUME Empty = Pending  PROVE FALSE
  <2>1. {This, Dummy, Null, Void, Empty, Pending} = {This, Dummy, Null, Void, Pending}
    BY <1>6
  <2> QED  BY <2>1, AtMostFive, McasDequeAssumption
<1>7. Node \subseteq Nat
  BY McasDequeAssumption DEF Node
<1>8. {This, Dummy, Null, Void, Empty, Pending} \cap Node = {}
  BY McasDequeAssumption
<1> QED  BY <1>1, <1>2, <1>3, <1>4, <1>5, <1>6, <1>7, <1>8

\* The i-th element of q, counted from side s, and the elements of q.
Nth(q, s, i) == IF s = "L" THEN q[i] ELSE q[Len(q) + 1 - i]
Elems(q) == {q[i] : i \in 1 .. Len(q)}

\* The two ways of counting.
LEMMA NthFacts ==
  ASSUME NEW q \in Seq(Node), NEW s \in Side
  PROVE  /\ Len(q) \in Nat /\ (Len(q) = 0 <=> q = <<>>)
         /\ \A i \in 1 .. Len(q) : Nth(q, s, i) \in Node /\ Nth(q, s, i) \in Elems(q)
         /\ \A i \in 1 .. Len(q) : Nth(q, s, i) = Nth(q, Other(s), Len(q) + 1 - i)
         /\ \A n \in Elems(q) : \E i \in 1 .. Len(q) : n = Nth(q, s, i)
         /\ Elems(q) \subseteq Node
<1>1. Len(q) \in Nat /\ (Len(q) = 0 <=> q = <<>>) /\ \A i \in 1 .. Len(q) : q[i] \in Node
  BY EmptySeq, LenProperties, ElementOfSeq
<1>2. \A i \in 1 .. Len(q) : Len(q) + 1 - i \in 1 .. Len(q) /\ Len(q) + 1 - (Len(q) + 1 - i) = i
  BY <1>1
<1>3. s \in {"L", "R"} /\ Other(s) = IF s = "L" THEN "R" ELSE "L"
  BY DEF Side, Other
<1>4. \A i \in 1 .. Len(q) : Nth(q, s, i) \in Node /\ Nth(q, s, i) \in Elems(q)
  BY <1>1, <1>2, <1>3 DEF Nth, Elems
<1>5. \A i \in 1 .. Len(q) : Nth(q, s, i) = Nth(q, Other(s), Len(q) + 1 - i)
  BY <1>1, <1>2, <1>3 DEF Nth
<1>6. ASSUME NEW n \in Elems(q)  PROVE \E i \in 1 .. Len(q) : n = Nth(q, s, i)
  <2>1. PICK i \in 1 .. Len(q) : n = q[i]
    BY DEF Elems
  <2> QED  BY <1>1, <1>2, <1>3, <2>1 DEF Nth
<1> QED  BY <1>1, <1>4, <1>5, <1>6 DEF Elems

\* What a push at side s does to the two ways of counting.
IsPushed(q, s, n, r) ==
  /\ r \in Seq(Node) /\ Len(r) = Len(q) + 1
  /\ Nth(r, s, 1) = n /\ Nth(r, Other(s), Len(r)) = n
  /\ \A i \in 1 .. Len(q) : Nth(r, s, i + 1) = Nth(q, s, i)
  /\ \A i \in 1 .. Len(q) : Nth(r, Other(s), i) = Nth(q, Other(s), i)
  /\ Elems(r) = Elems(q) \cup {n}

LEMMA PushedFacts ==
  ASSUME NEW q \in Seq(Node), NEW s \in Side, NEW n \in Node
  PROVE  IsPushed(q, s, n, Abstract!Pushed(q, s, n))
<1> DEFINE r == Abstract!Pushed(q, s, n)
<1> SUFFICES IsPushed(q, s, n, r)
  OBVIOUS
<1>1. Len(q) \in Nat
  BY LenProperties
<1>2. CASE s = "L"
  <2>1. r = <<n>> \o q /\ <<n>> \in Seq(Node) /\ Len(<<n>>) = 1 /\ <<n>>[1] = n
    BY <1>2 DEF Abstract!Pushed
  <2> HIDE DEF r
  <2>2. /\ r \in Seq(Node) /\ Len(r) = Len(q) + 1 /\ r[1] = n
        /\ \A i \in 1 .. Len(q) : r[i + 1] = q[i]
    <3>1. /\ r \in Seq(Node) /\ Len(r) = 1 + Len(q)
          /\ \A i \in 1 .. 1 + Len(q) : r[i] = IF i <= 1 THEN <<n>>[i] ELSE q[i - 1]
      BY <2>1, ConcatProperties
    <3> QED  BY <3>1, <2>1, <1>1
  <2>3. Elems(r) = Elems(q) \cup {n}
    <3>1. ASSUME NEW e \in Elems(r)  PROVE e \in Elems(q) \cup {n}
      <4>1. PICK i \in 1 .. Len(r) : e = r[i]
        BY DEF Elems
      <4>2. CASE i = 1
        BY <4>1, <4>2, <2>2
      <4>3. CASE i # 1
        <5>1. i - 1 \in 1 .. Len(q) /\ r[(i - 1) + 1] = q[i - 1] /\ (i - 1) + 1 = i
          BY <4>3, <2>2, <1>1
        <5> QED  BY <4>1, <5>1 DEF Elems
      <4> QED  BY <4>2, <4>3
    <3>2. ASSUME NEW i \in 1 .. Len(q)  PROVE q[i] \in Elems(r)
      <4>1. i + 1 \in 1 .. Len(r)
        BY <2>2, <1>1
      <4> QED  BY <4>1, <2>2 DEF Elems
    <3>3. n \in Elems(r)
      <4>1. 1 \in 1 .. Len(r)
        BY <2>2, <1>1
      <4> QED  BY <4>1, <2>2 DEF Elems
    <3> QED  BY <3>1, <3>2, <3>3 DEF Elems
  <2>4. \A i \in 1 .. Len(q) : Len(r) + 1 - i = (Len(q) + 1 - i) + 1 /\ Len(q) + 1 - i \in 1 .. Len(q)
    BY <2>2, <1>1
  <2>5. Len(r) + 1 - Len(r) = 1
    BY <2>2, <1>1
  <2>6. /\ Nth(r, s, 1) = n /\ Nth(r, Other(s), Len(r)) = n
        /\ \A i \in 1 .. Len(q) : Nth(r, s, i + 1) = Nth(q, s, i)
    BY <1>2, <2>2, <2>5 DEF Nth, Other
  <2>7. \A i \in 1 .. Len(q) : Nth(r, Other(s), i) = Nth(q, Other(s), i)
    BY <1>2, <2>2, <2>4 DEF Nth, Other
  <2> QED  BY <2>2, <2>3, <2>6, <2>7 DEF IsPushed
<1>3. CASE s = "R"
  <2>1. r = Append(q, n)
    BY <1>3 DEF Abstract!Pushed
  <2> HIDE DEF r
  <2>2. /\ r \in Seq(Node) /\ Len(r) = Len(q) + 1 /\ r[Len(q) + 1] = n
        /\ \A i \in 1 .. Len(q) : r[i] = q[i]
    BY <2>1, AppendProperties
  <2>3. Elems(r) = Elems(q) \cup {n}
    <3>1. \A i \in 1 .. Len(r) : i \in 1 .. Len(q) \/ i = Len(q) + 1
      BY <2>2, <1>1
    <3>2. \A i \in 1 .. Len(q) : i \in 1 .. Len(r)
      BY <2>2, <1>1
    <3>3. Len(q) + 1 \in 1 .. Len(r)
      BY <2>2, <1>1
    <3> QED  BY <3>1, <3>2, <3>3, <2>2 DEF Elems
  <2>4. \A i \in 1 .. Len(q) : Len(r) + 1 - (i + 1) = Len(q) + 1 - i /\ Len(q) + 1 - i \in 1 .. Len(q)
    BY <2>2, <1>1
  <2>5. Len(r) + 1 - 1 = Len(q) + 1
    BY <2>2, <1>1
  <2>6. Nth(r, s, 1) = n /\ Nth(r, Other(s), Len(r)) = n
    BY <1>3, <2>2, <2>5 DEF Nth, Other
  <2>7. /\ \A i \in 1 .. Len(q) : Nth(r, s, i + 1) = Nth(q, s, i)
        /\ \A i \in 1 .. Len(q) : Nth(r, Other(s), i) = Nth(q, Other(s), i)
    BY <1>3, <2>2, <2>4 DEF Nth, Other
  <2> QED  BY <2>2, <2>3, <2>6, <2>7 DEF IsPushed
<1> QED  BY <1>2, <1>3 DEF Side

LEMMA PushedType ==
  ASSUME NEW q \in Seq(Node), NEW s \in Side, NEW n \in Node
  PROVE  Abstract!Pushed(q, s, n) \in Seq(Node)
<1> DEFINE r == Abstract!Pushed(q, s, n)
<1>1. IsPushed(q, s, n, r)
  BY PushedFacts
<1> HIDE DEF r
<1>2. r \in Seq(Node)
  BY <1>1 DEF IsPushed
<1> QED  BY <1>2 DEF r

\* The same for a pop.
IsPopped(q, s, r) ==
  /\ r \in Seq(Node) /\ Len(r) = Len(q) - 1
  /\ \A i \in 1 .. Len(r) : Nth(r, s, i) = Nth(q, s, i + 1)
  /\ \A i \in 1 .. Len(r) : Nth(r, Other(s), i) = Nth(q, Other(s), i)
  /\ Abstract!End(q, s) = Nth(q, s, 1)

LEMMA PoppedFacts ==
  ASSUME NEW q \in Seq(Node), NEW s \in Side, q # <<>>
  PROVE  IsPopped(q, s, Abstract!Popped(q, s))
<1> DEFINE r == Abstract!Popped(q, s)
<1> SUFFICES IsPopped(q, s, r)
  OBVIOUS
<1>1. Len(q) \in Nat /\ Len(q) # 0 /\ \A i \in 1 .. Len(q) : q[i] \in Node
  BY EmptySeq, LenProperties, ElementOfSeq
<1>2. CASE s = "L"
  <2>1. r = SubSeq(q, 2, Len(q))
    BY <1>2 DEF Abstract!Popped
  <2>2. \A i \in 2 .. Len(q) : q[i] \in Node
    BY <1>1
  <2> HIDE DEF r
  <2>3. /\ r \in Seq(Node) /\ Len(r) = Len(q) - 1
        /\ \A i \in 1 .. Len(r) : r[i] = q[i + 1]
    <3>1. /\ r \in Seq(Node) /\ Len(r) = (IF 2 <= Len(q) THEN Len(q) - 2 + 1 ELSE 0)
          /\ \A i \in 1 .. Len(q) - 2 + 1 : r[i] = q[2 + i - 1]
      BY <2>1, <2>2, <1>1, SubSeqProperties
    <3>4. Len(r) = IF 2 <= Len(q) THEN Len(q) - 2 + 1 ELSE 0
      BY <3>1
    <3>2. Len(r) = Len(q) - 1 /\ Len(q) - 2 + 1 = Len(q) - 1
      <4> DEFINE k == Len(q)
                 l == Len(r)
      <4> HIDE DEF k, l
      <4>1. k \in Nat /\ k # 0 /\ l = IF 2 <= k THEN k - 2 + 1 ELSE 0
        BY <3>4, <1>1 DEF k, l
      <4>2. l = k - 1 /\ k - 2 + 1 = k - 1
        BY <4>1
      <4> QED  BY <4>2 DEF k, l
    <3>3. \A i \in 1 .. Len(r) : 2 + i - 1 = i + 1
      BY <3>2, <1>1
    <3> QED  BY <3>1, <3>2, <3>3
  <2>4. \A i \in 1 .. Len(r) : /\ Len(r) + 1 - i \in 1 .. Len(r)
                               /\ Len(q) + 1 - i = (Len(r) + 1 - i) + 1
    BY <2>3, <1>1
  <2>5. /\ \A i \in 1 .. Len(r) : Nth(r, s, i) = Nth(q, s, i + 1)
        /\ \A i \in 1 .. Len(r) : Nth(r, Other(s), i) = Nth(q, Other(s), i)
    BY <1>2, <2>3, <2>4 DEF Nth, Other
  <2>6. Abstract!End(q, s) = Nth(q, s, 1)
    BY <1>2 DEF Abstract!End, Nth
  <2> QED  BY <2>3, <2>5, <2>6 DEF IsPopped
<1>3. CASE s = "R"
  <2>1. r = SubSeq(q, 1, Len(q) - 1)
    BY <1>3 DEF Abstract!Popped
  <2>2. Len(q) - 1 \in Int /\ \A i \in 1 .. Len(q) - 1 : q[i] \in Node
    BY <1>1
  <2> HIDE DEF r
  <2>3. /\ r \in Seq(Node) /\ Len(r) = Len(q) - 1
        /\ \A i \in 1 .. Len(r) : r[i] = q[i]
    <3>1. /\ r \in Seq(Node) /\ Len(r) = (IF 1 <= Len(q) - 1 THEN Len(q) - 1 - 1 + 1 ELSE 0)
          /\ \A i \in 1 .. Len(q) - 1 - 1 + 1 : r[i] = q[1 + i - 1]
      BY <2>1, <2>2, <1>1, SubSeqProperties
    <3>4. Len(r) = IF 1 <= Len(q) - 1 THEN Len(q) - 1 - 1 + 1 ELSE 0
      BY <3>1
    <3>2. Len(r) = Len(q) - 1 /\ Len(q) - 1 - 1 + 1 = Len(q) - 1
      <4> DEFINE k == Len(q)
                 l == Len(r)
      <4> HIDE DEF k, l
      <4>1. k \in Nat /\ k # 0 /\ l = IF 1 <= k - 1 THEN k - 1 - 1 + 1 ELSE 0
        BY <3>4, <1>1 DEF k, l
      <4>2. l = k - 1 /\ k - 1 - 1 + 1 = k - 1
        BY <4>1
      <4> QED  BY <4>2 DEF k, l
    <3>3. \A i \in 1 .. Len(r) : 1 + i - 1 = i
      BY <3>2, <1>1
    <3> QED  BY <3>1, <3>2, <3>3
  <2>4. \A i \in 1 .. Len(r) : /\ Len(r) + 1 - i \in 1 .. Len(r)
                               /\ Len(q) + 1 - (i + 1) = Len(r) + 1 - i
    BY <2>3, <1>1
  <2>5. /\ \A i \in 1 .. Len(r) : Nth(r, s, i) = Nth(q, s, i + 1)
        /\ \A i \in 1 .. Len(r) : Nth(r, Other(s), i) = Nth(q, Other(s), i)
    BY <1>3, <2>3, <2>4 DEF Nth, Other
  <2>6. Len(q) + 1 - 1 = Len(q)
    BY <1>1
  <2>7. Abstract!End(q, s) = Nth(q, s, 1)
    BY <1>3, <2>6 DEF Abstract!End, Nth
  <2> QED  BY <2>3, <2>5, <2>7 DEF IsPopped
<1> QED  BY <1>2, <1>3 DEF Side

-----------------------------------------------------------------------------
(***************************************************************************)
(* The shape of the links m of a deque with the contents q.                *)
(***************************************************************************)

IsDead(m, n) == m[<<n, "L">>] = n /\ m[<<n, "R">>] = n

\* The nodes a worker can have come across.
Public(m, q) == {Dummy} \cup Elems(q) \cup {n \in Node : IsDead(m, n)}

\* No node is in q twice.
Once(q) == \A s \in Side : \A i, j \in 1 .. Len(q) : Nth(q, s, i) = Nth(q, s, j) => i = j

\* The hats point to the ends, and those outwards to dead nodes.
EndsMeet(m, q) ==
  \A s \in Side :
    /\ Len(q) = 0 => IsDead(m, m[<<This, s>>])
    /\ Len(q) # 0 => m[<<This, s>>] = Nth(q, s, 1) /\ IsDead(m, m[<<Nth(q, s, 1), s>>])

\* Neighbours point to each other.
Chained(m, q) ==
  \A s \in Side : \A i \in 1 .. Len(q) - 1 : m[<<Nth(q, s, i), Other(s)>>] = Nth(q, s, i + 1)

\* A node in q has no link to itself, and the links lead to nodes a worker can
\* have come across.
Proper(m, q) ==
  /\ \A n \in Elems(q), s \in Side : m[<<n, s>>] # n
  /\ \A n \in Public(m, q) \cup {This}, s \in Side : m[<<n, s>>] \in Public(m, q)

Shape(m, q) ==
  /\ Once(q)
  /\ IsDead(m, Dummy)
  /\ EndsMeet(m, q)
  /\ Chained(m, q)
  /\ Proper(m, q)

LEMMA Sides ==
  ASSUME NEW s \in Side
  PROVE  /\ Other(s) \in Side /\ Other(s) # s /\ Other(Other(s)) = s
         /\ \A u \in Side : u = s \/ u = Other(s)
BY DEF Side, Other

LEMMA DeadSides ==
  ASSUME NEW m, NEW n, NEW s \in Side
  PROVE  IsDead(m, n) <=> m[<<n, s>>] = n /\ m[<<n, Other(s)>>] = n
BY DEF IsDead, Side, Other

\* What the dcas of a push of n finds and stores, in a deque that is not empty
\* and in one that is.
PushesOnto(m, p, s, n) ==
  /\ m[<<n, s>>] = Dummy /\ m[<<n, Other(s)>>] = m[<<This, s>>]
  /\ m[<<m[<<This, s>>], s>>] # m[<<This, s>>]
  /\ p[<<This, s>>] = n /\ p[<<m[<<This, s>>], s>>] = n
  /\ \A a \in Addr : a # <<This, s>> /\ a # <<m[<<This, s>>], s>> => p[a] = m[a]
PushesFirst(m, p, s, n) ==
  /\ m[<<n, s>>] = Dummy /\ m[<<n, Other(s)>>] = Dummy
  /\ p[<<This, s>>] = n /\ p[<<This, Other(s)>>] = n
  /\ \A a \in Addr : a[1] # This => p[a] = m[a]

\* A worker that finds a node whose outer link is not itself at a hat has
\* found the end of the deque.
LEMMA EndFound ==
  ASSUME NEW m, NEW q \in Seq(Node), Shape(m, q), NEW s \in Side, m[<<m[<<This, s>>], s>>] # m[<<This, s>>]
  PROVE  /\ Len(q) # 0
         /\ m[<<This, s>>] = Nth(q, s, 1) /\ m[<<This, s>>] \in Elems(q) /\ m[<<This, s>>] \in Node
         /\ m[<<This, s>>] = Nth(q, Other(s), Len(q))
<1>1. Len(q) # 0
  BY DeadSides DEF Shape, EndsMeet
<1>2. Len(q) \in Nat /\ 1 \in 1 .. Len(q) /\ Len(q) + 1 - 1 = Len(q)
  BY <1>1, NthFacts
<1>3. m[<<This, s>>] = Nth(q, s, 1)
  BY <1>1 DEF Shape, EndsMeet
<1> QED  BY <1>1, <1>2, <1>3, NthFacts

LEMMA PushOntoShape ==
  ASSUME NEW m \in [Addr -> Val], NEW q \in Seq(Node), Shape(m, q),
         NEW s \in Side, NEW n \in Node, n \notin Public(m, q), NEW p, PushesOnto(m, p, s, n)
  PROVE  /\ Shape(p, Abstract!Pushed(q, s, n))
         /\ Public(p, Abstract!Pushed(q, s, n)) = Public(m, q) \cup {n}
         /\ \A x \in {Dummy} \cup Node : IsDead(m, x) => IsDead(p, x)
<1> DEFINE r == Abstract!Pushed(q, s, n)
           h == m[<<This, s>>]
           o == Other(s)
<1>1. /\ r \in Seq(Node) /\ Len(r) = Len(q) + 1
      /\ Nth(r, s, 1) = n /\ Nth(r, o, Len(r)) = n
      /\ \A i \in 1 .. Len(q) : Nth(r, s, i + 1) = Nth(q, s, i)
      /\ \A i \in 1 .. Len(q) : Nth(r, o, i) = Nth(q, o, i)
      /\ Elems(r) = Elems(q) \cup {n}
  <2>1. IsPushed(q, s, n, r)
    BY PushedFacts
  <2> HIDE DEF r
  <2> QED  BY <2>1 DEF IsPushed
<1> HIDE DEF r
<1>2. m[<<h, s>>] # h /\ p[<<This, s>>] = n /\ p[<<h, s>>] = n /\ m[<<n, s>>] = Dummy /\ m[<<n, o>>] = h
  BY DEF PushesOnto
<1>3. o \in Side /\ o # s /\ Other(o) = s /\ \A u \in Side : u = s \/ u = o
  BY Sides
<1>4. /\ Len(q) # 0 /\ Len(q) \in Nat /\ h = Nth(q, s, 1) /\ h \in Elems(q) /\ h \in Node
      /\ h = Nth(q, o, Len(q)) /\ h # n /\ h # This /\ n # This /\ n # Dummy
      /\ n \notin Elems(q) /\ Elems(q) \subseteq Node
  BY <1>2, EndFound, NthFacts, Constants DEF Public
<1>5. /\ \A x \in {Dummy} \cup Node : p[<<x, o>>] = m[<<x, o>>] /\ (x # h => p[<<x, s>>] = m[<<x, s>>])
      /\ p[<<This, o>>] = m[<<This, o>>]
  BY <1>3, <1>4, Constants DEF PushesOnto, Addr
<1>6. \A x \in {Dummy} \cup Node : IsDead(m, x) <=> IsDead(p, x)
  <2>1. \A x : /\ IsDead(m, x) <=> m[<<x, s>>] = x /\ m[<<x, o>>] = x
               /\ IsDead(p, x) <=> p[<<x, s>>] = x /\ p[<<x, o>>] = x
    BY DeadSides
  <2> QED  BY <2>1, <1>2, <1>4, <1>5
<1>7. Public(p, r) = Public(m, q) \cup {n}
  BY <1>1, <1>6 DEF Public
<1>8. Once(r)
  <2>1. ASSUME NEW i \in 1 .. Len(r), NEW j \in 1 .. Len(r), Nth(r, s, i) = Nth(r, s, j)
        PROVE  i = j
    <3>1. \A k \in 1 .. Len(r) : k = 1 \/ (k - 1 \in 1 .. Len(q) /\ Nth(r, s, k) = Nth(q, s, k - 1))
      <4> TAKE k \in 1 .. Len(r)
      <4>1. CASE k # 1
        <5>1. k - 1 \in 1 .. Len(q) /\ (k - 1) + 1 = k
          BY <4>1, <1>1, <1>4
        <5> QED  BY <5>1, <1>1
      <4> QED  BY <4>1
    <3>2. \A k \in 1 .. Len(q) : Nth(q, s, k) # n
      BY <1>4, NthFacts
    <3>3. \A k, l \in 1 .. Len(q) : Nth(q, s, k) = Nth(q, s, l) => k = l
      BY DEF Shape, Once
    <3>4. CASE i = 1 \/ j = 1
      BY <3>1, <3>2, <3>4, <2>1, <1>1
    <3>5. CASE i # 1 /\ j # 1
      <4>1. i - 1 = j - 1
        BY <3>1, <3>3, <3>5, <2>1
      <4> QED  BY <4>1, <1>1, <1>4
    <3> QED  BY <3>4, <3>5
  <2>2. ASSUME NEW i \in 1 .. Len(r), NEW j \in 1 .. Len(r), Nth(r, o, i) = Nth(r, o, j)
        PROVE  i = j
    <3>1. \A k \in 1 .. Len(r) : k = Len(r) \/ (k \in 1 .. Len(q) /\ Nth(r, o, k) = Nth(q, o, k))
      BY <1>1, <1>4
    <3>2. \A k \in 1 .. Len(q) : Nth(q, o, k) # n
      BY <1>3, <1>4, NthFacts
    <3>3. \A k, l \in 1 .. Len(q) : Nth(q, o, k) = Nth(q, o, l) => k = l
      BY <1>3 DEF Shape, Once
    <3> QED  BY <3>1, <3>2, <3>3, <2>2, <1>1
  <2> QED  BY <2>1, <2>2, <1>3 DEF Once
<1>9. EndsMeet(p, r)
  <2>1. Len(r) # 0 /\ 1 \in 1 .. Len(q)
    BY <1>1, <1>4
  <2>2. p[<<This, s>>] = Nth(r, s, 1) /\ IsDead(p, p[<<Nth(r, s, 1), s>>])
    <3>1. p[<<n, s>>] = Dummy
      BY <1>2, <1>4, <1>5
    <3>2. IsDead(p, Dummy)
      BY <1>6 DEF Shape
    <3> QED  BY <3>1, <3>2, <1>1, <1>2
  <2>3. p[<<This, o>>] = Nth(r, o, 1) /\ IsDead(p, p[<<Nth(r, o, 1), o>>])
    <3> DEFINE x == Nth(q, o, 1)
    <3>1. m[<<This, o>>] = x /\ IsDead(m, m[<<x, o>>]) /\ x \in Elems(q)
      BY <2>1, <1>3, <1>4, NthFacts DEF Shape, EndsMeet
    <3>2. m[<<x, o>>] \in {Dummy} \cup Node
      BY <3>1, <1>3, <1>4 DEF Shape, Proper, Public
    <3>3. Nth(r, o, 1) = x /\ p[<<x, o>>] = m[<<x, o>>]
      BY <2>1, <3>1, <1>1, <1>4, <1>5
    <3> QED  BY <3>1, <3>2, <3>3, <1>5, <1>6
  <2> QED  BY <2>1, <2>2, <2>3, <1>3 DEF EndsMeet
<1>10. Chained(p, r)
  <2>1. ASSUME NEW i \in 1 .. Len(r) - 1  PROVE p[<<Nth(r, s, i), o>>] = Nth(r, s, i + 1)
    <3>1. i \in 1 .. Len(q) /\ Nth(r, s, i + 1) = Nth(q, s, i)
      BY <1>1, <1>4
    <3>2. CASE i = 1
      BY <3>1, <3>2, <1>1, <1>2, <1>4, <1>5
    <3>3. CASE i # 1
      <4>1. i - 1 \in 1 .. Len(q) /\ i - 1 \in 1 .. Len(q) - 1 /\ (i - 1) + 1 = i
        BY <3>1, <3>3, <1>4
      <4>2. Nth(r, s, i) = Nth(q, s, i - 1) /\ Nth(q, s, i - 1) \in Node
        BY <4>1, <1>1, NthFacts
      <4>3. m[<<Nth(q, s, i - 1), o>>] = Nth(q, s, i)
        BY <4>1 DEF Shape, Chained
      <4> QED  BY <3>1, <4>2, <4>3, <1>5
    <3> QED  BY <3>2, <3>3
  <2>2. ASSUME NEW i \in 1 .. Len(r) - 1  PROVE p[<<Nth(r, o, i), s>>] = Nth(r, o, i + 1)
    <3>1. i \in 1 .. Len(q) /\ Nth(r, o, i) = Nth(q, o, i)
      BY <1>1, <1>4
    <3>2. CASE i = Len(q)
      BY <3>1, <3>2, <1>1, <1>2, <1>4
    <3>3. CASE i # Len(q)
      <4>1. i \in 1 .. Len(q) - 1 /\ i + 1 \in 1 .. Len(q) /\ Len(q) \in 1 .. Len(q)
        BY <3>1, <3>3, <1>4
      <4>2. Nth(q, o, i) # h
        BY <3>1, <3>3, <4>1, <1>3, <1>4 DEF Shape, Once
      <4>3. m[<<Nth(q, o, i), s>>] = Nth(q, o, i + 1)
        BY <4>1, <1>3 DEF Shape, Chained
      <4>4. Nth(q, o, i) \in Node
        BY <3>1, <1>3, NthFacts
      <4> QED  BY <3>1, <4>1, <4>2, <4>3, <4>4, <1>1, <1>5
    <3> QED  BY <3>2, <3>3
  <2> QED  BY <2>1, <2>2, <1>3 DEF Chained
<1>11. Proper(p, r)
  <2>1. ASSUME NEW x \in Elems(r), NEW u \in Side  PROVE p[<<x, u>>] # x
    <3>1. CASE x = n
      BY <3>1, <1>2, <1>3, <1>4, <1>5
    <3>2. CASE x # n
      <4>1. m[<<x, u>>] # x
        BY <3>2, <1>1 DEF Shape, Proper
      <4> QED  BY <3>2, <4>1, <1>1, <1>2, <1>3, <1>4, <1>5
    <3> QED  BY <3>1, <3>2
  <2>2. ASSUME NEW x \in Public(p, r) \cup {This}, NEW u \in Side  PROVE p[<<x, u>>] \in Public(p, r)
    <3>1. CASE x = n
      <4>1. p[<<n, u>>] \in {Dummy, h}
        BY <1>2, <1>3, <1>4, <1>5
      <4> QED  BY <3>1, <4>1, <1>4, <1>7 DEF Public
    <3>2. CASE x # n
      <4>1. m[<<x, u>>] \in Public(m, q)
        BY <3>2, <1>7 DEF Shape, Proper
      <4>2. p[<<x, u>>] = m[<<x, u>>] \/ p[<<x, u>>] = n
        <5>1. x = This \/ x \in {Dummy} \cup Node
          BY <1>4, <1>7 DEF Public
        <5> QED  BY <5>1, <1>2, <1>3, <1>5
      <4> QED  BY <4>1, <4>2, <1>7
    <3> QED  BY <3>1, <3>2
  <2> QED  BY <2>1, <2>2 DEF Proper
<1>12. IsDead(p, Dummy)
  BY <1>6 DEF Shape
<1>13. Shape(p, r)
  BY <1>8, <1>9, <1>10, <1>11, <1>12 DEF Shape
<1> QED  BY <1>6, <1>7, <1>13 DEF r

LEMMA PushFirstShape ==
  ASSUME NEW m \in [Addr -> Val], NEW q \in Seq(Node), NEW s \in Side, NEW n \in Node, NEW p,
         Shape(m, q), n \notin Public(m, q), PushesFirst(m, p, s, n), Elems(q) = {}
  PROVE  /\ Shape(p, Abstract!Pushed(q, s, n))
         /\ Public(p, Abstract!Pushed(q, s, n)) = Public(m, q) \cup {n}
         /\ \A x \in {Dummy} \cup Node : IsDead(m, x) => IsDead(p, x)
<1> DEFINE r == Abstract!Pushed(q, s, n)
           o == Other(s)
<1>1. /\ r \in Seq(Node) /\ Len(r) = 1
      /\ Nth(r, s, 1) = n /\ Nth(r, o, 1) = n
      /\ Elems(r) = {n} /\ Elems(q) = {}
  <2>1. Len(q) = 0
    <3>1. Len(q) # 0 => 1 \in 1 .. Len(q)
      BY NthFacts
    <3> QED  BY <3>1, NthFacts
  <2>2. /\ r \in Seq(Node) /\ Len(r) = Len(q) + 1
        /\ Nth(r, s, 1) = n /\ Nth(r, o, Len(r)) = n /\ Elems(r) = Elems(q) \cup {n}
    <3>1. IsPushed(q, s, n, r)
      BY PushedFacts
    <3> HIDE DEF r
    <3> QED  BY <3>1 DEF IsPushed
  <2> HIDE DEF r
  <2>3. Len(r) = 1
    BY <2>1, <2>2
  <2> QED  BY <2>1, <2>2, <2>3
<1> HIDE DEF r
<1>2. p[<<This, s>>] = n /\ p[<<This, o>>] = n /\ m[<<n, s>>] = Dummy /\ m[<<n, o>>] = Dummy
  BY DEF PushesFirst
<1>3. o \in Side /\ o # s /\ Other(o) = s /\ \A u \in Side : u = s \/ u = o
  BY Sides
<1>4. n # This /\ n # Dummy
  BY Constants
<1>5. \A x \in {Dummy} \cup Node : p[<<x, s>>] = m[<<x, s>>] /\ p[<<x, o>>] = m[<<x, o>>]
  BY <1>3, Constants DEF PushesFirst, Addr
<1>6. \A x \in {Dummy} \cup Node : IsDead(m, x) <=> IsDead(p, x)
  <2>1. \A x : /\ IsDead(m, x) <=> m[<<x, s>>] = x /\ m[<<x, o>>] = x
               /\ IsDead(p, x) <=> p[<<x, s>>] = x /\ p[<<x, o>>] = x
    BY DeadSides
  <2> QED  BY <2>1, <1>5
<1>7. Public(p, r) = Public(m, q) \cup {n}
  BY <1>1, <1>6 DEF Public
<1>8. Once(r)
  BY <1>1 DEF Once
<1>9. IsDead(p, Dummy)
  BY <1>6 DEF Shape
<1>10. EndsMeet(p, r)
  <2>1. Len(r) # 0
    BY <1>1
  <2>2. p[<<n, s>>] = Dummy /\ p[<<n, o>>] = Dummy
    BY <1>2, <1>5
  <2>3. p[<<This, s>>] = Nth(r, s, 1) /\ IsDead(p, p[<<Nth(r, s, 1), s>>])
    BY <2>2, <1>1, <1>2, <1>9
  <2>4. p[<<This, o>>] = Nth(r, o, 1) /\ IsDead(p, p[<<Nth(r, o, 1), o>>])
    BY <2>2, <1>1, <1>2, <1>9
  <2> QED  BY <2>1, <2>3, <2>4, <1>3 DEF EndsMeet
<1>11. Chained(p, r)
  BY <1>1 DEF Chained
<1>12. Proper(p, r)
  <2>1. \A x \in Elems(r), u \in Side : p[<<x, u>>] # x
    BY <1>1, <1>2, <1>3, <1>4, <1>5
  <2>2. ASSUME NEW x \in Public(p, r) \cup {This}, NEW u \in Side  PROVE p[<<x, u>>] \in Public(p, r)
    <3>1. CASE x = n
      <4>1. p[<<n, u>>] = Dummy
        BY <1>2, <1>3, <1>5
      <4> QED  BY <3>1, <4>1, <1>7 DEF Public
    <3>2. CASE x = This
      BY <3>2, <1>2, <1>3, <1>7
    <3>3. CASE x # n /\ x # This
      <4>1. x \in Public(m, q) /\ x \in {Dummy} \cup Node
        BY <3>3, <1>1, <1>7 DEF Public
      <4>2. p[<<x, u>>] = m[<<x, u>>]
        BY <4>1, <1>3, <1>5
      <4> QED  BY <4>1, <4>2, <1>7 DEF Shape, Proper
    <3> QED  BY <3>1, <3>2, <3>3
  <2> QED  BY <2>1, <2>2 DEF Proper
<1>13. Shape(p, r)
  BY <1>8, <1>9, <1>10, <1>11, <1>12 DEF Shape
<1> QED  BY <1>6, <1>7, <1>13 DEF r

\* What the tcas of a pop finds and stores.
Pops(m, p, s) ==
  LET h == m[<<This, s>>]  i == m[<<h, Other(s)>>]
  IN  /\ m[<<h, s>>] # h
      /\ p[<<This, s>>] = i /\ p[<<h, s>>] = h /\ p[<<h, Other(s)>>] = h
      /\ \A a \in Addr : a # <<This, s>> /\ a[1] # h => p[a] = m[a]

LEMMA PopShape ==
  ASSUME NEW m \in [Addr -> Val], NEW q \in Seq(Node), Shape(m, q),
         NEW s \in Side, NEW p, Pops(m, p, s)
  PROVE  /\ Shape(p, Abstract!Popped(q, s))
         /\ Public(p, Abstract!Popped(q, s)) = Public(m, q)
         /\ m[<<This, s>>] = Abstract!End(q, s)
         /\ \A x \in {Dummy} \cup Node : IsDead(m, x) => IsDead(p, x)
<1> DEFINE r == Abstract!Popped(q, s)
           h == m[<<This, s>>]
           o == Other(s)
           i == m[<<h, o>>]
<1>1. /\ m[<<h, s>>] # h /\ p[<<This, s>>] = i /\ p[<<h, s>>] = h /\ p[<<h, o>>] = h
      /\ \A a \in Addr : a # <<This, s>> /\ a[1] # h => p[a] = m[a]
  BY DEF Pops
<1>2. o \in Side /\ o # s /\ Other(o) = s /\ \A u \in Side : u = s \/ u = o
  BY Sides
<1>3. /\ Len(q) # 0 /\ Len(q) \in Nat /\ q # <<>> /\ h = Nth(q, s, 1) /\ h \in Elems(q) /\ h \in Node
      /\ h = Nth(q, o, Len(q)) /\ h # This /\ h # Dummy
      /\ Elems(q) \subseteq Node
  BY <1>1, EndFound, NthFacts, Constants
<1>4. /\ r \in Seq(Node) /\ Len(r) = Len(q) - 1
      /\ \A k \in 1 .. Len(r) : Nth(r, s, k) = Nth(q, s, k + 1)
      /\ \A k \in 1 .. Len(r) : Nth(r, o, k) = Nth(q, o, k)
      /\ Abstract!End(q, s) = Nth(q, s, 1)
  <2>1. IsPopped(q, s, r)
    BY <1>3, PoppedFacts
  <2> HIDE DEF r
  <2> QED  BY <2>1 DEF IsPopped
<1> HIDE DEF r, i, h
<1>5. /\ \A x \in {Dummy} \cup Node, u \in Side : x # h => p[<<x, u>>] = m[<<x, u>>]
      /\ p[<<This, o>>] = m[<<This, o>>]
  BY <1>1, <1>2, <1>3, Constants DEF Addr
<1>6. \A x \in {Dummy} \cup Node : IsDead(p, x) <=> IsDead(m, x) \/ x = h
  <2>1. \A x : /\ IsDead(m, x) <=> m[<<x, s>>] = x /\ m[<<x, o>>] = x
               /\ IsDead(p, x) <=> p[<<x, s>>] = x /\ p[<<x, o>>] = x
    BY DeadSides
  <2>2. p[<<h, s>>] = h /\ p[<<h, o>>] = h
    BY <1>1
  <2>3. ASSUME NEW x \in {Dummy} \cup Node, x # h  PROVE IsDead(p, x) <=> IsDead(m, x)
    <3>1. p[<<x, s>>] = m[<<x, s>>] /\ p[<<x, o>>] = m[<<x, o>>]
      BY <2>3, <1>2, <1>5
    <3> QED  BY <3>1, <2>1
  <2> QED  BY <2>1, <2>2, <2>3
<1>7. /\ \A k \in 1 .. Len(r) : k \in 1 .. Len(q) /\ k + 1 \in 1 .. Len(q)
      /\ \A k \in 1 .. Len(q) - 1 : k \in 1 .. Len(r)
      /\ Len(q) \in 1 .. Len(q) /\ 1 \in 1 .. Len(q)
  BY <1>4, <1>3
<1>8. Elems(q) = Elems(r) \cup {h} /\ h \notin Elems(r)
  <2>1. \A x \in Elems(r) : x \in Elems(q) /\ x # h
    <3> TAKE x \in Elems(r)
    <3>1. PICK k \in 1 .. Len(r) : x = Nth(r, o, k)
      BY <1>4, <1>2, NthFacts
    <3>2. x = Nth(q, o, k) /\ k # Len(q) /\ k \in 1 .. Len(q)
      BY <3>1, <1>4, <1>3, <1>7
    <3>3. x # h
      BY <3>2, <1>2, <1>3, <1>7 DEF Shape, Once
    <3> QED  BY <3>2, <3>3, <1>2, NthFacts
  <2>2. ASSUME NEW x \in Elems(q), x # h  PROVE x \in Elems(r)
    <3>1. PICK k \in 1 .. Len(q) : x = Nth(q, o, k)
      BY <1>2, NthFacts
    <3>2. k # Len(q)
      BY <3>1, <2>2, <1>3
    <3>3. k \in 1 .. Len(r)
      BY <3>2, <1>4, <1>3
    <3> QED  BY <3>1, <3>3, <1>4, <1>2, NthFacts
  <2> QED  BY <2>1, <2>2, <1>3
<1>9. \A k \in 1 .. Len(r) : Nth(r, o, k) \in Elems(r) /\ Nth(r, o, k) \in Node
  BY <1>4, <1>2, NthFacts
<1>10. Public(p, r) = Public(m, q)
  BY <1>3, <1>6, <1>8 DEF Public
<1>11. Once(r)
  <2>1. ASSUME NEW k \in 1 .. Len(r), NEW l \in 1 .. Len(r), Nth(r, s, k) = Nth(r, s, l)
        PROVE  k = l
    <3>1. k + 1 = l + 1
      BY <2>1, <1>4, <1>7 DEF Shape, Once
    <3> QED  BY <3>1, <1>4, <1>3
  <2>2. ASSUME NEW k \in 1 .. Len(r), NEW l \in 1 .. Len(r), Nth(r, o, k) = Nth(r, o, l)
        PROVE  k = l
    BY <2>2, <1>4, <1>2, <1>7 DEF Shape, Once
  <2> QED  BY <2>1, <2>2, <1>2 DEF Once
<1>12. EndsMeet(p, r)
  <2>1. CASE Len(r) = 0
    <3>1. Len(q) = 1 /\ h = Nth(q, o, 1)
      <4>1. Len(q) = 1
        BY <2>1, <1>4, <1>3
      <4> QED  BY <4>1, <1>3
    <3>2. m[<<This, o>>] = h
      BY <3>1, <1>2, <1>3 DEF Shape, EndsMeet
    <3>3. IsDead(p, p[<<This, o>>])
      BY <3>2, <1>3, <1>5, <1>6
    <3>4. IsDead(m, m[<<Nth(q, o, 1), o>>])
      BY <3>1, <1>2, <1>3 DEF Shape, EndsMeet
    <3>5. IsDead(m, i) /\ i \in {Dummy} \cup Node
      <4>1. IsDead(m, i)
        BY <3>1, <3>4 DEF i
      <4>2. i \in Public(m, q)
        BY <1>2, <1>3 DEF Shape, Proper, Public, i
      <4> QED  BY <4>1, <4>2, <1>3 DEF Public
    <3>6. IsDead(p, p[<<This, s>>])
      BY <3>5, <1>1, <1>6
    <3> QED  BY <2>1, <3>3, <3>6, <1>2 DEF EndsMeet
  <2>2. CASE Len(r) # 0
    <3>1. 1 \in 1 .. Len(q) - 1 /\ 1 \in 1 .. Len(r) /\ 1 + 1 \in 1 .. Len(q)
      BY <2>2, <1>4, <1>3
    <3>2. i = Nth(q, s, 1 + 1)
      BY <3>1, <1>3 DEF Shape, Chained, i
    <3>3. Nth(r, s, 1) = i
      BY <3>1, <3>2, <1>4
    <3>4. i \in Elems(r) /\ i \in Node /\ i # h
      BY <3>1, <3>3, <1>4, <1>8, NthFacts
    <3>5. IsDead(p, p[<<i, s>>])
      <4>1. m[<<i, s>>] = h
        <5>1. Len(q) - 1 \in 1 .. Len(q) - 1 /\ (Len(q) - 1) + 1 = Len(q)
              /\ Len(q) + 1 - (1 + 1) = Len(q) - 1
          BY <3>1, <1>3
        <5>2. i = Nth(q, o, Len(q) - 1)
          BY <3>1, <3>2, <5>1, NthFacts
        <5> QED  BY <5>1, <5>2, <1>2, <1>3 DEF Shape, Chained
      <4> QED  BY <4>1, <3>4, <1>3, <1>5, <1>6
    <3>6. p[<<This, o>>] = Nth(r, o, 1)
      BY <3>1, <1>4, <1>2, <1>3, <1>5 DEF Shape, EndsMeet
    <3>7. IsDead(p, p[<<Nth(r, o, 1), o>>])
      <4> DEFINE x == Nth(q, o, 1)
      <4>1. Nth(r, o, 1) = x /\ x \in Elems(r) /\ x # h /\ x \in Node /\ x \in Elems(q)
        BY <3>1, <1>4, <1>8, <1>9
      <4>2. IsDead(m, m[<<x, o>>])
        BY <1>2, <1>3 DEF Shape, EndsMeet
      <4>3. m[<<x, o>>] \in {Dummy} \cup Node
        BY <4>1, <1>2, <1>3 DEF Shape, Proper, Public
      <4> QED  BY <4>1, <4>2, <4>3, <1>2, <1>5, <1>6
    <3> QED  BY <2>2, <3>3, <3>5, <3>6, <3>7, <1>1, <1>2 DEF EndsMeet
  <2> QED  BY <2>1, <2>2
<1>13. Chained(p, r)
  <2>1. ASSUME NEW k \in 1 .. Len(r) - 1  PROVE p[<<Nth(r, s, k), o>>] = Nth(r, s, k + 1)
    <3>1. k \in 1 .. Len(r) /\ k + 1 \in 1 .. Len(r) /\ k + 1 \in 1 .. Len(q) - 1
      BY <1>4, <1>3
    <3>2. Nth(r, s, k) = Nth(q, s, k + 1) /\ Nth(r, s, k + 1) = Nth(q, s, (k + 1) + 1)
      BY <3>1, <1>4
    <3>3. Nth(r, s, k) # h /\ Nth(r, s, k) \in Node
      BY <3>1, <1>4, <1>8, NthFacts
    <3> QED  BY <3>1, <3>2, <3>3, <1>2, <1>5 DEF Shape, Chained
  <2>2. ASSUME NEW k \in 1 .. Len(r) - 1  PROVE p[<<Nth(r, o, k), s>>] = Nth(r, o, k + 1)
    <3>1. k \in 1 .. Len(r) /\ k + 1 \in 1 .. Len(r) /\ k \in 1 .. Len(q) - 1
      BY <1>4, <1>3
    <3>2. Nth(r, o, k) = Nth(q, o, k) /\ Nth(r, o, k + 1) = Nth(q, o, k + 1)
      BY <3>1, <1>4
    <3>3. Nth(r, o, k) # h /\ Nth(r, o, k) \in Node
      BY <3>1, <1>8, <1>9
    <3> QED  BY <3>1, <3>2, <3>3, <1>2, <1>5 DEF Shape, Chained
  <2> QED  BY <2>1, <2>2, <1>2 DEF Chained
<1>14. Proper(p, r)
  <2>1. ASSUME NEW x \in Elems(r), NEW u \in Side  PROVE p[<<x, u>>] # x
    BY <1>3, <1>5, <1>8 DEF Shape, Proper
  <2>2. ASSUME NEW x \in Public(p, r) \cup {This}, NEW u \in Side  PROVE p[<<x, u>>] \in Public(p, r)
    <3>1. \A y \in Public(m, q) \cup {This}, v \in Side : m[<<y, v>>] \in Public(m, q)
      BY DEF Shape, Proper
    <3>2. h \in Public(m, q) /\ i \in Public(m, q)
      <4>1. h \in Public(m, q)
        BY <1>3 DEF Public
      <4> QED  BY <4>1, <3>1, <1>2 DEF i
    <3>3. x \in Public(m, q) \cup {This} /\ Public(m, q) \subseteq {Dummy} \cup Node
      BY <1>3, <1>10 DEF Public
    <3> QED  BY <3>1, <3>2, <3>3, <1>1, <1>2, <1>5, <1>10
  <2> QED  BY <2>1, <2>2 DEF Proper
<1>15. IsDead(p, Dummy)
  BY <1>6 DEF Shape
<1>16. Shape(p, r)
  BY <1>11, <1>12, <1>13, <1>14, <1>15 DEF Shape
<1> QED  BY <1>4, <1>3, <1>6, <1>10, <1>16 DEF r, h

\* Two memories that agree on every node a worker can have come across.
LEMMA SameShape ==
  ASSUME NEW m, NEW q \in Seq(Node), Shape(m, q), NEW p,
         \A x \in Public(m, q) \cup {This}, s \in Side : p[<<x, s>>] = m[<<x, s>>],
         \A x \in {Dummy} \cup Node : IsDead(p, x) <=> IsDead(m, x)
  PROVE  Shape(p, q) /\ Public(p, q) = Public(m, q)
<1>1. Public(p, q) = Public(m, q)
  BY DEF Public
<1>2. IsDead(p, Dummy)
  BY DEF Shape
<1>3. Elems(q) \subseteq Public(m, q) /\ Public(m, q) \subseteq {Dummy} \cup Node
  BY NthFacts DEF Public, Side
<1>4. \A s \in Side, i \in 1 .. Len(q) : Nth(q, s, i) \in Public(m, q)
  BY <1>3, NthFacts
<1>5. \A x \in Public(m, q) \cup {This}, s \in Side : m[<<x, s>>] \in Public(m, q)
  BY DEF Shape, Proper
<1>6. EndsMeet(p, q)
  <2> SUFFICES ASSUME NEW s \in Side
               PROVE  /\ Len(q) = 0 => IsDead(p, p[<<This, s>>])
                      /\ Len(q) # 0 => p[<<This, s>>] = Nth(q, s, 1) /\ IsDead(p, p[<<Nth(q, s, 1), s>>])
    BY DEF EndsMeet
  <2>1. p[<<This, s>>] = m[<<This, s>>] /\ m[<<This, s>>] \in {Dummy} \cup Node
    BY <1>3, <1>5
  <2>2. CASE Len(q) = 0
    BY <2>1, <2>2 DEF Shape, EndsMeet
  <2>3. CASE Len(q) # 0
    <3>1. Nth(q, s, 1) \in Public(m, q)
      BY <2>3, <1>4, NthFacts
    <3>2. p[<<Nth(q, s, 1), s>>] = m[<<Nth(q, s, 1), s>>] /\ m[<<Nth(q, s, 1), s>>] \in {Dummy} \cup Node
      BY <3>1, <1>3, <1>5
    <3> QED  BY <2>1, <2>3, <3>2 DEF Shape, EndsMeet
  <2> QED  BY <2>2, <2>3
<1>7. Chained(p, q)
  <2> SUFFICES ASSUME NEW s \in Side, NEW i \in 1 .. Len(q) - 1
               PROVE  p[<<Nth(q, s, i), Other(s)>>] = Nth(q, s, i + 1)
    BY DEF Chained
  <2>1. i \in 1 .. Len(q)
    BY NthFacts
  <2>2. m[<<Nth(q, s, i), Other(s)>>] = Nth(q, s, i + 1)
    BY DEF Shape, Chained
  <2> QED  BY <2>1, <2>2, <1>4, Sides
<1>8. Proper(p, q)
  BY <1>1, <1>3, <1>5 DEF Shape, Proper
<1> QED  BY <1>1, <1>2, <1>6, <1>7, <1>8 DEF Shape

\* The memory m that the workers read while the stores to p are under way.
Covered(m, p, q) ==
  \A s \in Side :
    /\ \A x \in Public(p, q) \cup {This} : m[<<x, s>>] \in Public(p, q)
    /\ \A x \in Public(p, q) : m[<<x, s>>] = x => IsDead(p, x)

\* A step that stores nothing but what is settled keeps it so.
LEMMA StillCovered ==
  ASSUME NEW m, NEW p, NEW q, Covered(m, p, q),
         NEW mm, NEW pp, NEW qq, Shape(pp, qq), qq \in Seq(Node), q \in Seq(Node),
         Public(p, q) \subseteq Public(pp, qq),
         \A x \in {Dummy} \cup Node : IsDead(p, x) => IsDead(pp, x),
         \A x \in Public(pp, qq) \cup {This}, s \in Side :
            mm[<<x, s>>] = m[<<x, s>>] \/ mm[<<x, s>>] = pp[<<x, s>>],
         \A x \in Public(pp, qq) \ Public(p, q), s \in Side :
            m[<<x, s>>] \in Public(pp, qq) /\ m[<<x, s>>] # x
  PROVE  Covered(mm, pp, qq)
<1>1. Elems(q) \subseteq Node /\ Elems(qq) \subseteq Node
  BY NthFacts DEF Side
<1>2. Public(p, q) \subseteq {Dummy} \cup Node /\ Public(pp, qq) \subseteq {Dummy} \cup Node
  BY <1>1 DEF Public
<1>3. \A x \in Public(pp, qq), s \in Side : pp[<<x, s>>] = x => IsDead(pp, x)
  BY DEF Shape, Proper, Public
<1>4. This \notin Public(pp, qq)
  BY <1>2, Constants
<1> SUFFICES ASSUME NEW s \in Side, NEW x \in Public(pp, qq) \cup {This}
             PROVE  /\ mm[<<x, s>>] \in Public(pp, qq)
                    /\ x # This /\ mm[<<x, s>>] = x => IsDead(pp, x)
  BY <1>4 DEF Covered
<1>5. CASE mm[<<x, s>>] = pp[<<x, s>>]
  BY <1>3, <1>5 DEF Shape, Proper
<1>6. CASE mm[<<x, s>>] = m[<<x, s>>] /\ x \in Public(p, q) \cup {This}
  BY <1>2, <1>6 DEF Covered
<1>7. CASE mm[<<x, s>>] = m[<<x, s>>] /\ x \notin Public(p, q) \cup {This}
  BY <1>7
<1> QED  BY <1>5, <1>6, <1>7

-----------------------------------------------------------------------------
(***************************************************************************)
(* The inductive invariant.                                                *)
(***************************************************************************)

\* The links once the stores under way are made, and the nodes a worker can
\* have come across.
Settled == L!Settled
Known == Public(Settled, Contents)

\* Between its calls a worker has no pointers; inside, it has a call left.
CallOK(t) ==
  /\ call[t] = <<>> => seen[t] = <<>> /\ result[t] = Pending
  /\ call[t] # <<>> => left[t] > 0

\* The pointers a worker has loaded lead to nodes it can have come across, and
\* a node that looked dead is.
SeenOK(t) ==
  /\ \A i \in 1 .. Len(seen[t]) : seen[t][i] \in Known
  /\ Len(seen[t]) >= 2 /\ seen[t][2] = seen[t][1] => IsDead(Settled, seen[t][1])
  /\ In(t, "pop") /\ Len(seen[t]) = 3 /\ seen[t][3] = seen[t][1] => IsDead(Settled, seen[t][1])
  /\ In(t, "push") /\ Len(seen[t]) = 3 => seen[t][2] = seen[t][1]

\* The owner of the lock is inside a push or a pop; only a push on an empty
\* deque has still to store to a hat.
OwnerOK(t) ==
  lock = t =>
    /\ In(t, "push") \/ In(t, "pop")
    /\ Loaded(t)
    /\ In(t, "pop") => ~SelfLoop(t) /\ seen[t][1] \in Node
    /\ In(t, "push") /\ SelfLoop(t) => items = <<>>
    /\ In(t, "pop") \/ ~SelfLoop(t) => \A i \in 1 .. Len(todo) : todo[i].addr[1] # This

\* t pushes a node that nobody else can have come across.
Private(t) == In(t, "push") /\ lock # t

\* Such a node has the links its worker gave it.
PrivateOK(t) ==
  Private(t) =>
    /\ NewNode(t) \notin Known
    /\ mem[<<NewNode(t), SideOf(t)>>] = Dummy
    /\ Loaded(t) => mem[<<NewNode(t), Other(SideOf(t))>>] = IF SelfLoop(t) THEN Dummy ELSE seen[t][1]

TodoOK == \A i \in 1 .. Len(todo) : todo[i].addr[1] \in Known \cup {This}

IInv ==
  /\ TypeOK
  /\ Shape(Settled, Contents)
  /\ Covered(mem, Settled, Contents)
  /\ TodoOK
  /\ \A t \in Thread : CallOK(t) /\ SeenOK(t) /\ OwnerOK(t) /\ PrivateOK(t)
  /\ \A t, u \in Thread : Private(t) /\ Private(u) /\ NewNode(t) = NewNode(u) => t = u

-----------------------------------------------------------------------------
(***************************************************************************)
(* What the invariant says of the variables.                               *)
(***************************************************************************)

Pointer == {Dummy} \cup Node
SeenType == UNION {[1 .. n -> Pointer] : n \in 0 .. 3}
CallType == {<<>>} \cup ({"push"} \X Side \X Node) \cup ({"pop"} \X Side \X {Null})

\* At most three pointers are loaded.
LEMMA SeenTypes ==
  ASSUME NEW x
  PROVE  x \in SeenType <=> x \in Seq(Pointer) /\ Len(x) \in 0 .. 3
<1>1. ASSUME x \in SeenType  PROVE x \in Seq(Pointer) /\ Len(x) \in 0 .. 3
  <2>1. PICK n \in 0 .. 3 : x \in [1 .. n -> Pointer]
    BY <1>1 DEF SeenType
  <2>2. x \in Seq(Pointer) /\ Len(x) = n
    <3>1. n \in Nat /\ x \in UNION {[1 .. k -> Pointer] : k \in Nat}
      BY <2>1
    <3>2. x \in Seq(Pointer)
      BY <3>1, SeqDef
    <3>3. DOMAIN x = 1 .. n /\ DOMAIN x = 1 .. Len(x) /\ Len(x) \in Nat
      BY <2>1, <3>2, LenProperties
    <3>4. Len(x) = n
      BY <3>1, <3>3
    <3> QED  BY <3>2, <3>4
  <2> QED  BY <2>2
<1>2. ASSUME x \in Seq(Pointer), Len(x) \in 0 .. 3  PROVE x \in SeenType
  <2>1. x \in [1 .. Len(x) -> Pointer]
    BY <1>2, LenProperties, ElementOfSeq
  <2> QED  BY <2>1, <1>2 DEF SeenType
<1> QED  BY <1>1, <1>2

LEMMA CallTypes ==
  ASSUME NEW c \in CallType
  PROVE  /\ c # <<>> => /\ c[1] \in {"push", "pop"} /\ c[2] \in Side
                        /\ c[1] = "push" => c[3] \in Node
                        /\ c[1] = "pop" => c[3] = Null
BY DEF CallType

LEMMA TypeFacts ==
  ASSUME TypeOK
  PROVE  /\ L!MCASTypeOK /\ L!LockDiscipline
         /\ mem \in [Addr -> Val] /\ Settled \in [Addr -> Val]
         /\ lock = NoThread => Settled = mem
         /\ todo \in Seq(L!Words) /\ items \in Seq(Node)
         /\ call \in [Thread -> CallType] /\ seen \in [Thread -> SeenType]
         /\ result \in [Thread -> {Pending, Void, Empty} \cup Node]
         /\ left \in [Thread -> Nat]
         /\ \A t \in Thread : /\ seen[t] \in Seq(Pointer) /\ Len(seen[t]) \in 0 .. 3
                              /\ \A i \in 1 .. Len(seen[t]) : seen[t][i] \in Pointer
                              /\ call[t] # <<>> => call[t][1] \in {"push", "pop"} /\ SideOf(t) \in Side
                              /\ In(t, "push") => SideOf(t) \in Side /\ NewNode(t) \in Node
                              /\ In(t, "pop") => SideOf(t) \in Side
<1>1. L!MCASTypeOK /\ L!LockDiscipline
  BY Same DEF TypeOK
<1>2. /\ mem \in [Addr -> Val] /\ Settled \in [Addr -> Val]
      /\ lock = NoThread => Settled = mem
      /\ todo \in Seq(L!Words)
  BY <1>1, Assumed, L!SettledFacts DEF L!MCASTypeOK, Settled, Addr, Val
<1>3. /\ items \in Seq(Node)
      /\ call \in [Thread -> CallType] /\ seen \in [Thread -> SeenType]
      /\ result \in [Thread -> {Pending, Void, Empty} \cup Node]
      /\ left \in [Thread -> Nat]
  BY DEF TypeOK, CallType, SeenType, Pointer
<1>4. ASSUME NEW t \in Thread
      PROVE  /\ seen[t] \in Seq(Pointer) /\ Len(seen[t]) \in 0 .. 3
             /\ \A i \in 1 .. Len(seen[t]) : seen[t][i] \in Pointer
  <2>1. seen[t] \in Seq(Pointer) /\ Len(seen[t]) \in 0 .. 3
    BY <1>3, SeenTypes
  <2> QED  BY <2>1, ElementOfSeq
<1>5. ASSUME NEW t \in Thread
      PROVE  /\ call[t] # <<>> => call[t][1] \in {"push", "pop"} /\ SideOf(t) \in Side
             /\ In(t, "push") => SideOf(t) \in Side /\ NewNode(t) \in Node
             /\ In(t, "pop") => SideOf(t) \in Side
  <2>1. call[t] \in CallType
    BY <1>3
  <2> QED  BY <2>1, CallTypes DEF In, SideOf, NewNode
<1> QED  BY <1>1, <1>2, <1>3, <1>4, <1>5

\* The contents, when a push holds the lock and when none does.
LEMMA ContentsAre ==
  ASSUME NEW t \in Thread
  PROVE  /\ lock = t /\ In(t, "push") => Contents = Abstract!Pushed(items, SideOf(t), NewNode(t))
         /\ lock = t /\ ~In(t, "push") => Contents = items
         /\ lock = NoThread => Contents = items
BY McasDequeAssumption DEF Contents

\* A dead node stays dead.
DeadStay == \A x \in Pointer : IsDead(Settled, x) => IsDead(Settled, x)'

-----------------------------------------------------------------------------
(***************************************************************************)
(* The steps.                                                              *)
(***************************************************************************)

\* A worker whose call, pointers, lock and new node a step leaves alone.
LEMMA Others ==
  ASSUME IInv, NEW u \in Thread,
         call'[u] = call[u], seen'[u] = seen[u], result'[u] = result[u], left'[u] = left[u],
         Known \subseteq Known',
         \A x \in Pointer : IsDead(Settled, x) => IsDead(Settled, x)',
         lock' = u <=> lock = u,
         lock = u => todo' = todo /\ items' = items,
         Private(u) => /\ NewNode(u) \notin Known'
                       /\ \A s \in Side : mem'[<<NewNode(u), s>>] = mem[<<NewNode(u), s>>]
  PROVE  /\ CallOK(u)' /\ SeenOK(u)' /\ OwnerOK(u)' /\ PrivateOK(u)'
         /\ (Private(u)' <=> Private(u)) /\ NewNode(u)' = NewNode(u)
<1>1. /\ In(u, "push")' <=> In(u, "push")
      /\ In(u, "pop")' <=> In(u, "pop")
      /\ SideOf(u)' = SideOf(u) /\ NewNode(u)' = NewNode(u)
  BY DEF In, SideOf, NewNode
<1>2. SelfLoop(u)' <=> SelfLoop(u)
  BY <1>1 DEF SelfLoop, Outer
<1>3. Loaded(u)' <=> Loaded(u)
  BY <1>1, <1>2 DEF Loaded
<1>4. Private(u)' <=> Private(u)
  BY <1>1 DEF Private
<1>5. CallOK(u) /\ SeenOK(u) /\ OwnerOK(u) /\ PrivateOK(u) /\ TypeOK
  BY DEF IInv
<1>6. CallOK(u)'
  BY <1>5 DEF CallOK
<1>7. SeenOK(u)'
  <2>1. /\ Len(seen[u]) \in Nat
        /\ \A i \in 1 .. Len(seen[u]) : seen[u][i] \in Pointer
    BY <1>5, TypeFacts
  <2>2. Len(seen[u]) >= 2 => seen[u][1] \in Pointer
    BY <2>1
  <2>3. /\ \A i \in 1 .. Len(seen[u]) : seen[u][i] \in Known'
        /\ Len(seen[u]) >= 2 /\ seen[u][2] = seen[u][1] => IsDead(Settled, seen[u][1])'
        /\ In(u, "pop") /\ Len(seen[u]) = 3 /\ seen[u][3] = seen[u][1] => IsDead(Settled, seen[u][1])'
    BY <2>1, <2>2, <1>5 DEF SeenOK
  <2> QED  BY <2>3, <1>1, <1>5 DEF SeenOK
<1>8. OwnerOK(u)'
  BY <1>1, <1>2, <1>3, <1>5 DEF OwnerOK
<1>9. PrivateOK(u)'
  <2>1. CASE ~Private(u)
    BY <2>1, <1>4 DEF PrivateOK
  <2>2. CASE Private(u)
    <3>1. SideOf(u) \in Side /\ Other(SideOf(u)) \in Side
      BY <2>2, <1>5, TypeFacts, Sides DEF Private
    <3> QED  BY <2>2, <3>1, <1>1, <1>2, <1>3, <1>5 DEF PrivateOK
  <2> QED  BY <2>1, <2>2
<1> QED  BY <1>1, <1>4, <1>6, <1>7, <1>8, <1>9

\* A step of a worker that does not hold the lock and leaves the nodes others
\* can have come across as they are.
LEMMA LocalStep ==
  ASSUME IInv, TypeOK', NEW t \in Thread, lock # t,
         lock' = lock, todo' = todo, items' = items,
         \A u \in Thread : u # t => /\ call'[u] = call[u] /\ seen'[u] = seen[u]
                                    /\ result'[u] = result[u] /\ left'[u] = left[u]
                                    /\ Private(u) => \A s \in Side : mem'[<<NewNode(u), s>>] = mem[<<NewNode(u), s>>],
         Contents' = Contents, Shape(Settled, Contents)', Covered(mem, Settled, Contents)', Known' = Known,
         \A x \in Pointer : IsDead(Settled, x) => IsDead(Settled, x)',
         CallOK(t)', SeenOK(t)', PrivateOK(t)',
         \A u \in Thread : u # t /\ Private(u) /\ Private(t)' => NewNode(u) # NewNode(t)'
  PROVE  IInv' /\ DeadStay
<1>1. TodoOK'
  BY DEF IInv, TodoOK
<1>2. OwnerOK(t)'
  BY DEF OwnerOK
<1>3. ASSUME NEW u \in Thread, u # t
      PROVE  /\ CallOK(u)' /\ SeenOK(u)' /\ OwnerOK(u)' /\ PrivateOK(u)'
             /\ (Private(u)' <=> Private(u)) /\ NewNode(u)' = NewNode(u)
  <2>1. Private(u) => NewNode(u) \notin Known'
    BY DEF IInv, PrivateOK
  <2> QED  BY <2>1, <1>3, Others
<1>4. \A u \in Thread : CallOK(u)' /\ SeenOK(u)' /\ OwnerOK(u)' /\ PrivateOK(u)'
  BY <1>2, <1>3
<1>5. ASSUME NEW u \in Thread, NEW v \in Thread, Private(u)', Private(v)', NewNode(u)' = NewNode(v)'
      PROVE  u = v
  <2>1. CASE u # t /\ v # t
    BY <2>1, <1>3, <1>5 DEF IInv
  <2>2. CASE u = t \/ v = t
    BY <2>2, <1>3, <1>5
  <2> QED  BY <2>1, <2>2
<1> QED  BY <1>1, <1>4, <1>5 DEF IInv, DeadStay

\* The contents stay the same when a worker that does not hold the lock moves.
LEMMA ContentsStay ==
  ASSUME NEW t \in Thread, lock # t, lock' = lock, items' = items,
         \A u \in Thread : u # t => call'[u] = call[u] /\ result'[u] = result[u]
  PROVE  Contents' = Contents
<1>1. CASE lock \in Thread
  <2>1. /\ In(lock, "push")' <=> In(lock, "push")
        /\ SideOf(lock)' = SideOf(lock) /\ NewNode(lock)' = NewNode(lock)
    BY <1>1 DEF In, SideOf, NewNode
  <2> QED  BY <2>1 DEF Contents
<1>2. CASE lock \notin Thread
  BY <1>2 DEF Contents
<1> QED  BY <1>1, <1>2

\* What no step changes that stores nothing.
LEMMA Quiet ==
  ASSUME IInv, NEW t \in Thread, lock # t, M!NoStore, items' = items,
         \A u \in Thread : u # t => call'[u] = call[u] /\ result'[u] = result[u]
  PROVE  /\ lock' = lock /\ todo' = todo /\ mem' = mem
         /\ M!MCASTypeOK' /\ M!LockDiscipline'
         /\ Contents' = Contents /\ Known' = Known
         /\ Shape(Settled, Contents)' /\ Covered(mem, Settled, Contents)'
         /\ \A x \in Pointer : IsDead(Settled, x) => IsDead(Settled, x)'
<1>1. lock' = lock /\ todo' = todo /\ mem' = mem
  BY DEF M!NoStore
<1>2. Settled' = Settled
  BY <1>1 DEF Settled, L!Settled
<1>3. Contents' = Contents
  BY <1>1, ContentsStay
<1>4. M!MCASTypeOK' /\ M!LockDiscipline'
  BY <1>1 DEF IInv, TypeOK, M!MCASTypeOK, M!LockDiscipline
<1>5. Known' = Known /\ Shape(Settled, Contents)' /\ Covered(mem, Settled, Contents)'
      /\ \A x \in Pointer : IsDead(Settled, x) => IsDead(Settled, x)'
  BY <1>1, <1>2, <1>3 DEF IInv, Known
<1> QED  BY <1>1, <1>3, <1>4, <1>5

LEMMA ContentsType ==
  ASSUME IInv
  PROVE  Contents \in Seq(Node)
<1>1. TypeOK /\ items \in Seq(Node)
  BY TypeFacts DEF IInv
<1>2. CASE lock \in Thread /\ In(lock, "push")
  <2>1. SideOf(lock) \in Side /\ NewNode(lock) \in Node
    BY <1>1, <1>2, TypeFacts
  <2> QED  BY <1>1, <1>2, <2>1, PushedType DEF Contents
<1> QED  BY <1>1, <1>2 DEF Contents

\* A store to a node that only its worker can have come across.
LEMMA PrivateStore ==
  ASSUME IInv, NEW n \in Node, n \notin Known, NEW s \in Side, NEW v \in Pointer, v # n,
         mem' = [mem EXCEPT ![<<n, s>>] = v], lock' = lock, todo' = todo, Contents' = Contents
  PROVE  /\ M!MCASTypeOK' /\ M!LockDiscipline' /\ Known' = Known
         /\ Shape(Settled, Contents)' /\ Covered(mem, Settled, Contents)'
         /\ \A x \in Pointer : IsDead(Settled, x) => IsDead(Settled, x)'
         /\ mem'[<<n, s>>] = v /\ \A a \in Addr : a # <<n, s>> => mem'[a] = mem[a]
<1> DEFINE a == <<n, s>>
<1>1. a \in Addr /\ v \in Val
  BY DEF Addr, Val, Pointer
<1>2. TypeOK /\ mem \in [Addr -> Val] /\ Settled \in [Addr -> Val] /\ Contents \in Seq(Node)
  BY TypeFacts, ContentsType DEF IInv
<1>3. Known \subseteq Pointer
  BY <1>2, NthFacts DEF Known, Public, Pointer, Side
<1>4. n # This /\ n # Dummy
  BY Constants
<1>5. \A i \in 1 .. Len(todo) : todo[i].addr # a
  BY <1>4 DEF IInv, TodoOK
<1>6. L!MCASTypeOK' /\ L!LockDiscipline' /\ Settled' = [Settled EXCEPT ![a] = v]
  <2>1. L!MCASTypeOK /\ L!LockDiscipline
    BY <1>2, TypeFacts
  <2> QED  BY <1>1, <1>5, <2>1, Assumed, L!StoreElsewhere DEF Settled
<1>7. Settled'[a] = v /\ \A b \in Addr : b # a => Settled'[b] = Settled[b]
  BY <1>1, <1>2, <1>6
<1>8. mem'[a] = v /\ \A b \in Addr : b # a => mem'[b] = mem[b]
  BY <1>1, <1>2
<1>9. \A x \in Pointer \cup {This}, u \in Side : x # n =>
        /\ Settled'[<<x, u>>] = Settled[<<x, u>>]
        /\ mem'[<<x, u>>] = mem[<<x, u>>]
  BY <1>7, <1>8 DEF Addr, Pointer
<1>10. \A x \in Pointer : IsDead(Settled', x) <=> IsDead(Settled, x)
  <2> TAKE x \in Pointer
  <2>1. CASE x = n
    <3>1. ~IsDead(Settled, n)
      BY DEF Known, Public
    <3>2. ~IsDead(Settled', n)
      BY <1>7, DeadSides
    <3> QED  BY <2>1, <3>1, <3>2
  <2>2. CASE x # n
    BY <2>2, <1>9 DEF IsDead, Side
  <2> QED  BY <2>1, <2>2
<1>11. Shape(Settled', Contents) /\ Public(Settled', Contents) = Public(Settled, Contents)
  <2>1. \A x \in Public(Settled, Contents) \cup {This}, u \in Side : Settled'[<<x, u>>] = Settled[<<x, u>>]
    BY <1>3, <1>4, <1>9 DEF Known
  <2>2. Shape(Settled, Contents)
    BY DEF IInv
  <2> QED  BY <2>1, <2>2, <1>2, <1>10, SameShape DEF Pointer
<1>12. Covered(mem', Settled', Contents)
  BY <1>3, <1>4, <1>9, <1>10, <1>11 DEF IInv, Covered, Known
<1>13. Known' = Known /\ Shape(Settled, Contents)' /\ Covered(mem, Settled, Contents)'
  BY <1>11, <1>12 DEF Known
<1> QED  BY <1>6, <1>8, <1>10, <1>13, Same

LEMMA CallPopStep ==
  ASSUME IInv, NEW t \in Thread, NEW s \in Side,
         left[t] > 0, call[t] = <<>>, CallPop(t, s), UNCHANGED <<seen, result, left, items>>
  PROVE  IInv' /\ DeadStay
<1>1. TypeOK /\ CallOK(t) /\ OwnerOK(t) /\ call' = [call EXCEPT ![t] = <<"pop", s, Null>>] /\ M!NoStore
  BY DEF IInv, CallPop
<1>2. lock # t /\ seen[t] = <<>> /\ result[t] = Pending
  BY <1>1 DEF OwnerOK, In, CallOK
<1>3. call \in [Thread -> CallType] /\ <<"pop", s, Null>> \in CallType
  BY <1>1, TypeFacts DEF CallType
<1>4. call'[t] = <<"pop", s, Null>> /\ call' \in [Thread -> CallType]
      /\ \A u \in Thread : u # t => call'[u] = call[u]
  BY <1>1, <1>3
<1>5. /\ lock' = lock /\ todo' = todo /\ mem' = mem
      /\ M!MCASTypeOK' /\ M!LockDiscipline'
      /\ Contents' = Contents /\ Known' = Known
      /\ Shape(Settled, Contents)' /\ Covered(mem, Settled, Contents)'
      /\ \A x \in Pointer : IsDead(Settled, x) => IsDead(Settled, x)'
  BY <1>1, <1>2, <1>4, Quiet
<1>6. TypeOK'
  BY <1>1, <1>4, <1>5 DEF TypeOK, CallType
<1>7. ~In(t, "push")' /\ seen'[t] = <<>> /\ call'[t] # <<>>
  BY <1>2, <1>4 DEF In
<1>8. CallOK(t)' /\ SeenOK(t)' /\ PrivateOK(t)' /\ ~Private(t)'
  <2>1. Len(seen'[t]) = 0
    BY <1>7
  <2> QED  BY <2>1, <1>7 DEF CallOK, SeenOK, PrivateOK, Private
<1> QED  BY <1>2, <1>4, <1>5, <1>6, <1>8, LocalStep

\* The least of the nodes that have not been allocated is nobody's.
LEMMA Allocated ==
  ASSUME IInv, Unused # {}, NEW n, n = CHOOSE k \in Unused : \A l \in Unused : k <= l
  PROVE  /\ n \in Node /\ n \notin Known
         /\ \A u \in Thread : Private(u) => NewNode(u) # n
<1>1. Unused \in SUBSET Nat /\ Unused \subseteq Node
  BY Constants DEF Unused
<1>2. n \in Unused
  <2>1. \E k \in Unused : \A l \in Unused : k <= l
    BY <1>1, Assumed, L!Least
  <2> QED  BY <2>1
<1>3. n \in Node /\ mem[<<n, "L">>] = Null /\ mem[<<n, "R">>] = Null
  BY <1>2 DEF Unused
<1>4. n \notin Known
  <2>1. Null \notin Known
    <3>1. \A x \in Known : x \in {Dummy} \cup Node \cup Elems(Contents)
      BY DEF Known, Public
    <3>2. Contents \in Seq(Node)
      BY ContentsType
    <3> QED  BY <3>1, <3>2, NthFacts, Constants DEF Side
  <2>2. n \in Known => mem[<<n, "L">>] \in Known
    BY DEF IInv, Covered, Known, Side
  <2> QED  BY <2>1, <2>2, <1>3
<1>5. ASSUME NEW u \in Thread, Private(u)  PROVE NewNode(u) # n
  <2>1. SideOf(u) \in Side /\ mem[<<NewNode(u), SideOf(u)>>] = Dummy
    BY <1>5, TypeFacts DEF IInv, PrivateOK, Private
  <2> QED  BY <2>1, <1>3, Constants DEF Side
<1> QED  BY <1>3, <1>4, <1>5

LEMMA CallPushStep ==
  ASSUME IInv, NEW t \in Thread, NEW s \in Side,
         left[t] > 0, call[t] = <<>>, CallPush(t, s), UNCHANGED <<seen, result, left, items>>
  PROVE  IInv' /\ DeadStay
<1> DEFINE n == CHOOSE k \in Unused : \A l \in Unused : k <= l
<1>1. /\ TypeOK /\ CallOK(t) /\ OwnerOK(t) /\ Unused # {}
      /\ mem' = [mem EXCEPT ![<<n, s>>] = Dummy]
      /\ call' = [call EXCEPT ![t] = <<"push", s, n>>]
      /\ lock' = lock /\ todo' = todo
  BY DEF IInv, CallPush
<1>2. n \in Node /\ n \notin Known /\ \A u \in Thread : Private(u) => NewNode(u) # n
  BY <1>1, Allocated
<1> HIDE DEF n
<1>3. lock # t /\ seen[t] = <<>> /\ result[t] = Pending
  BY <1>1 DEF OwnerOK, In, CallOK
<1>4. call'[t] = <<"push", s, n>> /\ call' \in [Thread -> CallType]
      /\ \A u \in Thread : u # t => call'[u] = call[u]
  <2>1. call \in [Thread -> CallType] /\ <<"push", s, n>> \in CallType
    BY <1>1, <1>2, TypeFacts DEF CallType
  <2> QED  BY <2>1, <1>1
<1>5. Contents' = Contents
  BY <1>1, <1>3, <1>4, ContentsStay
<1>6. /\ M!MCASTypeOK' /\ M!LockDiscipline' /\ Known' = Known
      /\ Shape(Settled, Contents)' /\ Covered(mem, Settled, Contents)'
      /\ \A x \in Pointer : IsDead(Settled, x) => IsDead(Settled, x)'
      /\ mem'[<<n, s>>] = Dummy /\ \A a \in Addr : a # <<n, s>> => mem'[a] = mem[a]
  <2>1. Dummy \in Pointer /\ Dummy # n
    BY <1>2, Constants DEF Pointer
  <2> QED  BY <2>1, <1>1, <1>2, <1>5, PrivateStore
<1>7. TypeOK'
  BY <1>1, <1>4, <1>6 DEF TypeOK, CallType
<1>8. /\ SideOf(t)' = s /\ NewNode(t)' = n /\ ~In(t, "pop")' /\ Len(seen'[t]) = 0
      /\ call'[t] # <<>>
  BY <1>3, <1>4 DEF In, SideOf, NewNode
<1>9. CallOK(t)' /\ SeenOK(t)' /\ PrivateOK(t)'
  <2>1. ~Loaded(t)'
    BY <1>8 DEF Loaded
  <2> QED  BY <2>1, <1>2, <1>6, <1>8 DEF CallOK, SeenOK, PrivateOK
<1>10. ASSUME NEW u \in Thread, Private(u)
       PROVE  \A k \in Side : mem'[<<NewNode(u), k>>] = mem[<<NewNode(u), k>>]
  <2>1. NewNode(u) \in Node
    BY <1>1, <1>10, TypeFacts DEF Private
  <2> QED  BY <2>1, <1>2, <1>6, <1>10 DEF Addr
<1> QED  BY <1>1, <1>2, <1>3, <1>4, <1>5, <1>6, <1>7, <1>8, <1>9, <1>10, LocalStep

\* The pointers of a worker, with the next one loaded.
LEMMA Loads ==
  ASSUME IInv, NEW t \in Thread, In(t, "push") \/ In(t, "pop"), ~Loaded(t),
         NEW w, w = Append(seen[t], mem[LoadAddress(t)])
  PROVE  /\ lock # t /\ w \in SeenType /\ Len(w) \in 1 .. 3 /\ Len(w) = Len(seen[t]) + 1
         /\ \A i \in 1 .. Len(w) : w[i] \in Known
         /\ \A i \in 1 .. Len(seen[t]) : w[i] = seen[t][i]
         /\ Len(w) >= 2 /\ w[2] = w[1] => IsDead(Settled, w[1])
         /\ In(t, "pop") /\ Len(w) = 3 /\ w[3] = w[1] => IsDead(Settled, w[1])
         /\ In(t, "push") /\ Len(w) = 3 => w[2] = w[1]
<1> DEFINE v == mem[LoadAddress(t)]
           n == Len(seen[t])
<1>1. TypeOK /\ SeenOK(t) /\ OwnerOK(t) /\ Covered(mem, Settled, Contents)
  BY DEF IInv
<1>2. lock # t
  BY <1>1 DEF OwnerOK
<1>3. /\ seen[t] \in Seq(Pointer) /\ n \in 0 .. 3 /\ SideOf(t) \in Side /\ Other(SideOf(t)) \in Side
      /\ ~(In(t, "push") /\ In(t, "pop"))
  BY <1>1, TypeFacts, Sides DEF In
<1>4. n \in 0 .. 2 /\ (In(t, "push") /\ n = 2 => SelfLoop(t))
  BY <1>3 DEF Loaded
<1>5. Known \subseteq Pointer
  BY ContentsType, NthFacts DEF Known, Public, Pointer, Side
<1>6. /\ \A x \in Known \cup {This}, s \in Side : mem[<<x, s>>] \in Known
      /\ \A x \in Known, s \in Side : mem[<<x, s>>] = x => IsDead(Settled, x)
  BY <1>1 DEF Covered, Known
<1>7. /\ v \in Known
      /\ n # 0 => seen[t][1] \in Known
      /\ n = 1 \/ (n = 2 /\ In(t, "pop")) => (v = seen[t][1] => IsDead(Settled, seen[t][1]))
  <2>1. CASE n = 0
    BY <2>1, <1>3, <1>6 DEF LoadAddress, Hat
  <2>2. CASE n = 1
    <3>1. seen[t][1] \in Known
      BY <2>2, <1>1 DEF SeenOK
    <3>2. \E s \in Side : LoadAddress(t) = <<seen[t][1], s>>
      BY <2>2, <1>3 DEF LoadAddress, Side
    <3> QED  BY <3>1, <3>2, <1>6
  <2>3. CASE n = 2 /\ In(t, "pop")
    <3>1. seen[t][1] \in Known
      BY <2>3, <1>1 DEF SeenOK
    <3>2. ~In(t, "push")
      BY <2>3, <1>3
    <3>3. LoadAddress(t) = <<seen[t][1], "R">>
      BY <2>3, <3>2 DEF LoadAddress
    <3> QED  BY <3>1, <3>3, <1>6 DEF Side
  <2>4. CASE n = 2 /\ In(t, "push")
    <3>1. seen[t][1] \in Known
      BY <2>4, <1>1 DEF SeenOK
    <3>2. LoadAddress(t) = <<This, Other(SideOf(t))>>
      BY <2>4 DEF LoadAddress, Hat
    <3>3. ~In(t, "pop")
      BY <2>4, <1>3
    <3>4. mem[LoadAddress(t)] \in Known
      BY <3>2, <1>3, <1>6
    <3> QED  BY <3>1, <3>3, <3>4, <2>4
  <2> QED  BY <2>1, <2>2, <2>3, <2>4, <1>4
<1>8. /\ w \in Seq(Pointer) /\ Len(w) = n + 1 /\ w[n + 1] = v
      /\ \A i \in 1 .. n : w[i] = seen[t][i]
  <2>1. v \in Pointer
    BY <1>5, <1>7
  <2> HIDE DEF v
  <2>2. w = Append(seen[t], v)
    BY DEF v
  <2> QED  BY <2>1, <2>2, <1>3, AppendProperties
<1> HIDE DEF v
<1>9. w \in SeenType /\ Len(w) \in 1 .. 3
  <2>1. Len(w) \in 1 .. 3 /\ Len(w) \in 0 .. 3
    BY <1>4, <1>8
  <2> QED  BY <2>1, <1>8, SeenTypes
<1>10. \A i \in 1 .. Len(w) : w[i] \in Known
  <2> TAKE i \in 1 .. Len(w)
  <2>1. i \in 1 .. n \/ i = n + 1
    BY <1>3, <1>8
  <2> QED  BY <2>1, <1>1, <1>7, <1>8 DEF SeenOK
<1>11. ASSUME Len(w) >= 2, w[2] = w[1]  PROVE IsDead(Settled, w[1])
  <2>1. n = 1 \/ n = 2
    BY <1>4, <1>8, <1>11
  <2>2. w[1] = seen[t][1]
    BY <2>1, <1>8
  <2>3. CASE n = 1
    BY <2>2, <2>3, <1>7, <1>8, <1>11
  <2>4. CASE n = 2
    BY <2>2, <2>4, <1>1, <1>8, <1>11 DEF SeenOK
  <2> QED  BY <2>1, <2>3, <2>4
<1>12. ASSUME In(t, "pop"), Len(w) = 3, w[3] = w[1]  PROVE IsDead(Settled, w[1])
  <2>1. n = 2
    BY <1>4, <1>8, <1>12
  <2> QED  BY <2>1, <1>7, <1>8, <1>12
<1>13. ASSUME In(t, "push"), Len(w) = 3  PROVE w[2] = w[1]
  <2>1. n = 2
    BY <1>4, <1>8, <1>13
  <2>2. SelfLoop(t) /\ ~In(t, "pop")
    BY <2>1, <1>3, <1>4, <1>13
  <2> QED  BY <2>1, <2>2, <1>8 DEF SelfLoop, Outer
<1> QED  BY <1>2, <1>8, <1>9, <1>10, <1>11, <1>12, <1>13

LEMMA LoadStep ==
  ASSUME IInv, NEW t \in Thread, Load(t)
  PROVE  IInv' /\ DeadStay
<1>1. PICK w : w = Append(seen[t], mem[LoadAddress(t)])
  OBVIOUS
<1>2. /\ TypeOK /\ CallOK(t) /\ PrivateOK(t)
      /\ In(t, "push") \/ In(t, "pop")
      /\ ~Loaded(t) /\ seen' = [seen EXCEPT ![t] = w]
      /\ UNCHANGED <<call, result, left, items>>
  BY <1>1 DEF IInv, Load
<1>3. /\ lock # t /\ w \in SeenType /\ Len(w) \in 1 .. 3 /\ Len(w) = Len(seen[t]) + 1
      /\ \A i \in 1 .. Len(w) : w[i] \in Known
      /\ \A i \in 1 .. Len(seen[t]) : w[i] = seen[t][i]
      /\ Len(w) >= 2 /\ w[2] = w[1] => IsDead(Settled, w[1])
      /\ In(t, "pop") /\ Len(w) = 3 /\ w[3] = w[1] => IsDead(Settled, w[1])
      /\ In(t, "push") /\ Len(w) = 3 => w[2] = w[1]
  BY <1>1, <1>2, Loads
<1>4. IF Loaded(t)' /\ In(t, "push")
        THEN /\ mem' = [mem EXCEPT ![<<NewNode(t), Other(SideOf(t))>>] =
                          IF SelfLoop(t)' THEN Dummy ELSE seen[t][1]]
             /\ UNCHANGED <<lock, todo>>
        ELSE M!NoStore
  BY DEF Load
<1>5. /\ seen'[t] = w /\ seen' \in [Thread -> SeenType]
      /\ \A u \in Thread : u # t => seen'[u] = seen[u]
  <2>1. seen \in [Thread -> SeenType]
    BY <1>2, TypeFacts
  <2> QED  BY <2>1, <1>2, <1>3
<1>6. /\ In(t, "push")' <=> In(t, "push")
      /\ In(t, "pop")' <=> In(t, "pop")
      /\ ~(In(t, "push") /\ In(t, "pop"))
      /\ SideOf(t)' = SideOf(t) /\ NewNode(t)' = NewNode(t)
      /\ (Private(t) <=> In(t, "push"))
  BY <1>2, <1>3 DEF In, SideOf, NewNode, Private
<1>7. \A x \in Known : x \in Pointer
  BY ContentsType, NthFacts DEF Known, Public, Pointer, Side
<1>8. CallOK(t)'
  BY <1>2 DEF CallOK, In
<1>9. CASE Loaded(t)' /\ In(t, "push")
  <2> DEFINE n == NewNode(t)
             o == Other(SideOf(t))
             v == IF SelfLoop(t)' THEN Dummy ELSE seen[t][1]
  <2>1. n \in Node /\ n \notin Known /\ SideOf(t) \in Side /\ o \in Side /\ o # SideOf(t)
        /\ mem[<<n, SideOf(t)>>] = Dummy /\ n # Dummy
    BY <1>2, <1>6, <1>9, TypeFacts, Sides, Constants DEF PrivateOK
  <2>2. Len(w) >= 2 /\ Len(seen[t]) >= 1 /\ w[1] = seen[t][1]
    <3>1. Len(w) = 3 \/ Len(w) = 2
      BY <1>5, <1>9 DEF Loaded
    <3>2. Len(seen[t]) >= 1 /\ 1 \in 1 .. Len(seen[t])
      BY <3>1, <1>2, <1>3, TypeFacts
    <3> QED  BY <3>1, <3>2, <1>3
  <2>3. SelfLoop(t)' <=> w[2] = w[1]
    BY <1>5, <1>6, <1>9 DEF SelfLoop, Outer
  <2>4. seen[t][1] \in Known /\ v \in Pointer /\ v # n
    <3>1. seen[t][1] \in Known
      BY <2>2, <1>3
    <3> QED  BY <3>1, <2>1, <1>7 DEF Pointer
  <2>5. mem' = [mem EXCEPT ![<<n, o>>] = v] /\ lock' = lock /\ todo' = todo
    BY <1>4, <1>9
  <2> HIDE DEF v
  <2>6. Contents' = Contents
    BY <2>5, <1>2, <1>3, ContentsStay
  <2>7. /\ M!MCASTypeOK' /\ M!LockDiscipline' /\ Known' = Known
        /\ Shape(Settled, Contents)' /\ Covered(mem, Settled, Contents)'
        /\ \A x \in Pointer : IsDead(Settled, x) => IsDead(Settled, x)'
        /\ mem'[<<n, o>>] = v /\ \A a \in Addr : a # <<n, o>> => mem'[a] = mem[a]
    BY <2>1, <2>4, <2>5, <2>6, PrivateStore
  <2>8. TypeOK'
    BY <2>7, <1>2, <1>5 DEF TypeOK, SeenType, Pointer
  <2>9. SeenOK(t)'
    <3>1. Len(w) >= 2 => w[1] \in Pointer
      BY <1>3, <1>7
    <3> QED  BY <3>1, <2>7, <1>3, <1>5, <1>6 DEF SeenOK
  <2>10. PrivateOK(t)'
    <3>1. mem'[<<n, SideOf(t)>>] = Dummy
      BY <2>1, <2>7 DEF Addr
    <3>2. mem'[<<n, o>>] = IF SelfLoop(t)' THEN Dummy ELSE seen'[t][1]
      BY <2>2, <2>7, <1>5 DEF v
    <3> QED  BY <3>1, <3>2, <2>1, <2>7, <1>6 DEF PrivateOK
  <2>11. ASSUME NEW u \in Thread, u # t, Private(u)
         PROVE  NewNode(u) # n /\ \A s \in Side : mem'[<<NewNode(u), s>>] = mem[<<NewNode(u), s>>]
    <3>1. NewNode(u) # n
      BY <2>11, <1>6, <1>9 DEF IInv
    <3>2. NewNode(u) \in Node
      BY <2>11, <1>2, TypeFacts DEF Private
    <3> QED  BY <3>1, <3>2, <2>7 DEF Addr
  <2> QED  BY <2>5, <2>6, <2>7, <2>8, <2>9, <2>10, <2>11, <1>2, <1>3, <1>5, <1>6, <1>8, LocalStep
<1>10. CASE ~(Loaded(t)' /\ In(t, "push"))
  <2>1. M!NoStore
    BY <1>4, <1>10
  <2>2. /\ lock' = lock /\ todo' = todo /\ mem' = mem
        /\ M!MCASTypeOK' /\ M!LockDiscipline'
        /\ Contents' = Contents /\ Known' = Known
        /\ Shape(Settled, Contents)' /\ Covered(mem, Settled, Contents)'
        /\ \A x \in Pointer : IsDead(Settled, x) => IsDead(Settled, x)'
    BY <2>1, <1>2, <1>3, Quiet
  <2>3. TypeOK'
    BY <2>2, <1>2, <1>5 DEF TypeOK, SeenType, Pointer
  <2>4. SeenOK(t)'
    <3>1. Len(w) >= 2 => w[1] \in Pointer
      BY <1>3, <1>7
    <3>2. /\ \A i \in 1 .. Len(w) : w[i] \in Known'
          /\ Len(w) >= 2 /\ w[2] = w[1] => IsDead(Settled, w[1])'
          /\ In(t, "pop") /\ Len(w) = 3 /\ w[3] = w[1] => IsDead(Settled, w[1])'
      <4>1. Len(w) = 3 => Len(w) >= 2
        BY <1>3
      <4>2. Known' = Known /\ \A x \in Pointer : IsDead(Settled, x) => IsDead(Settled, x)'
        BY <2>2
      <4> QED  BY <3>1, <4>1, <4>2, <1>3
    <3> QED  BY <3>2, <1>3, <1>5, <1>6 DEF SeenOK
  <2>5. PrivateOK(t)' /\ (Private(t)' <=> Private(t))
    <3>1. Private(t)' => Private(t) /\ ~Loaded(t)'
      BY <2>2, <1>6, <1>10 DEF Private
    <3> QED  BY <3>1, <2>2, <1>2, <1>3, <1>6 DEF PrivateOK, Private
  <2>6. \A u \in Thread : u # t /\ Private(u) /\ Private(t)' => NewNode(u) # NewNode(t)'
    BY <2>5, <1>6 DEF IInv
  <2> QED  BY <2>2, <2>3, <2>4, <2>5, <2>6, <1>2, <1>3, <1>5, <1>8, LocalStep
<1> QED  BY <1>9, <1>10

\* Steps of a worker that starts its loop over, decides or returns.
LEMMA QuietStep ==
  ASSUME IInv, NEW t \in Thread, lock # t, M!NoStore, items' = items,
         \A u \in Thread : u # t => /\ call'[u] = call[u] /\ seen'[u] = seen[u]
                                    /\ result'[u] = result[u] /\ left'[u] = left[u],
         call' \in [Thread -> CallType], seen' \in [Thread -> SeenType],
         result' \in [Thread -> {Pending, Void, Empty} \cup Node], left' \in [Thread -> Nat],
         CallOK(t)',
         \/ seen'[t] = <<>>
         \/ seen'[t] = seen[t] /\ (In(t, "push")' => In(t, "push")) /\ (In(t, "pop")' => In(t, "pop")),
         Private(t)' => seen'[t] = <<>> /\ Private(t) /\ call'[t] = call[t]
  PROVE  IInv' /\ DeadStay
<1>1. /\ lock' = lock /\ todo' = todo /\ mem' = mem
      /\ M!MCASTypeOK' /\ M!LockDiscipline'
      /\ Contents' = Contents /\ Known' = Known
      /\ Shape(Settled, Contents)' /\ Covered(mem, Settled, Contents)'
      /\ \A x \in Pointer : IsDead(Settled, x) => IsDead(Settled, x)'
  BY Quiet
<1>2. TypeOK /\ SeenOK(t) /\ PrivateOK(t)
  BY DEF IInv
<1>3. TypeOK'
  <2>1. items' \in Seq(Node)
    BY <1>2 DEF TypeOK
  <2> QED  BY <1>1, <2>1 DEF TypeOK, CallType, SeenType, Pointer
<1>4. SeenOK(t)'
  <2>1. CASE seen'[t] = <<>>
    <3>1. Len(seen'[t]) = 0
      BY <2>1
    <3> QED  BY <3>1 DEF SeenOK
  <2>2. CASE seen'[t] = seen[t] /\ (In(t, "push")' => In(t, "push")) /\ (In(t, "pop")' => In(t, "pop"))
    <3>1. Len(seen[t]) >= 2 => seen[t][1] \in Pointer
      BY <1>2, TypeFacts
    <3>2. Len(seen[t]) = 3 => Len(seen[t]) >= 2
      OBVIOUS
    <3> QED  BY <2>2, <3>1, <3>2, <1>1, <1>2 DEF SeenOK
  <2> QED  BY <2>1, <2>2
<1>5. PrivateOK(t)' /\ (Private(t)' => NewNode(t)' = NewNode(t))
  <2>1. CASE ~Private(t)'
    BY <2>1 DEF PrivateOK
  <2>2. CASE Private(t)'
    <3>1. Private(t) /\ NewNode(t)' = NewNode(t) /\ SideOf(t)' = SideOf(t) /\ Len(seen'[t]) = 0
      BY <2>2 DEF NewNode, SideOf
    <3>2. ~Loaded(t)'
      BY <3>1 DEF Loaded
    <3> QED  BY <2>2, <3>1, <3>2, <1>1, <1>2 DEF PrivateOK
  <2> QED  BY <2>1, <2>2
<1>6. \A u \in Thread : u # t /\ Private(u) /\ Private(t)' => NewNode(u) # NewNode(t)'
  BY <1>5 DEF IInv
<1> QED  BY <1>1, <1>3, <1>4, <1>5, <1>6, LocalStep

LEMMA RetryStep ==
  ASSUME IInv, NEW t \in Thread, Retry(t)
  PROVE  IInv' /\ DeadStay
<1>1. /\ TypeOK /\ CallOK(t) /\ (In(t, "push") \/ In(t, "pop"))
      /\ lock = NoThread /\ M!NoStore
      /\ seen' = [seen EXCEPT ![t] = <<>>] /\ UNCHANGED <<call, result, left, items>>
  BY DEF IInv, Retry, M!Fail
<1>2. lock # t
  BY <1>1, McasDequeAssumption
<1>3. /\ call \in [Thread -> CallType] /\ seen \in [Thread -> SeenType]
      /\ result \in [Thread -> {Pending, Void, Empty} \cup Node] /\ left \in [Thread -> Nat]
      /\ <<>> \in SeenType
  <2>1. Len(<<>>) \in 0 .. 3 /\ <<>> \in Seq(Pointer)
    OBVIOUS
  <2> QED  BY <2>1, <1>1, TypeFacts, SeenTypes
<1>4. /\ seen' \in [Thread -> SeenType] /\ seen'[t] = <<>>
      /\ \A u \in Thread : u # t => seen'[u] = seen[u]
  BY <1>1, <1>3
<1>5. CallOK(t)'
  BY <1>1, <1>4 DEF CallOK
<1>6. Private(t)' => Private(t)
  BY <1>1, <1>2 DEF Private, In, M!NoStore
<1> QED  BY <1>1, <1>2, <1>3, <1>4, <1>5, <1>6, QuietStep

LEMMA ReturnStep ==
  ASSUME IInv, NEW t \in Thread, Return(t)
  PROVE  IInv' /\ DeadStay
<1>1. /\ TypeOK /\ CallOK(t) /\ OwnerOK(t) /\ result[t] # Pending /\ M!NoStore /\ items' = items
      /\ call' = [call EXCEPT ![t] = <<>>] /\ seen' = [seen EXCEPT ![t] = <<>>]
      /\ result' = [result EXCEPT ![t] = Pending] /\ left' = [left EXCEPT ![t] = @ - 1]
  BY DEF IInv, Return
<1>2. lock # t /\ left[t] > 0
  BY <1>1 DEF OwnerOK, CallOK, In
<1>3. /\ call \in [Thread -> CallType] /\ seen \in [Thread -> SeenType]
      /\ result \in [Thread -> {Pending, Void, Empty} \cup Node] /\ left \in [Thread -> Nat]
      /\ <<>> \in SeenType /\ <<>> \in CallType
  <2>1. Len(<<>>) \in 0 .. 3 /\ <<>> \in Seq(Pointer)
    OBVIOUS
  <2> QED  BY <2>1, <1>1, TypeFacts, SeenTypes DEF CallType
<1>4. /\ call' \in [Thread -> CallType] /\ seen' \in [Thread -> SeenType]
      /\ result' \in [Thread -> {Pending, Void, Empty} \cup Node]
      /\ call'[t] = <<>> /\ seen'[t] = <<>> /\ result'[t] = Pending
      /\ \A u \in Thread : u # t => /\ call'[u] = call[u] /\ seen'[u] = seen[u]
                                    /\ result'[u] = result[u]
  BY <1>1, <1>3
<1>5. left' \in [Thread -> Nat] /\ \A u \in Thread : u # t => left'[u] = left[u]
  <2>1. left[t] \in Nat /\ left[t] - 1 \in Nat
    BY <1>2, <1>3
  <2> QED  BY <2>1, <1>1, <1>3
<1>6. CallOK(t)' /\ ~In(t, "push")'
  BY <1>4 DEF CallOK, In
<1> QED  BY <1>1, <1>2, <1>4, <1>5, <1>6, QuietStep DEF Private

\* What a pop knows of the node at its hat once it has loaded both links.
LEMMA LoopIsDead ==
  ASSUME IInv, NEW t \in Thread, In(t, "push") \/ In(t, "pop"), Loaded(t), SelfLoop(t)
  PROVE  IsDead(Settled, seen[t][1])
<1>1. TypeOK /\ SeenOK(t)
  BY DEF IInv
<1>2. Len(seen[t]) \in 0 .. 3 /\ ~(In(t, "push") /\ In(t, "pop"))
  BY <1>1, TypeFacts DEF In
<1>3. Len(seen[t]) >= 2 /\ (In(t, "pop") => Len(seen[t]) = 3)
  BY <1>2 DEF Loaded
<1>4. CASE In(t, "pop") /\ SideOf(t) = "R"
  BY <1>1, <1>3, <1>4 DEF SeenOK, SelfLoop, Outer
<1>5. CASE ~(In(t, "pop") /\ SideOf(t) = "R")
  BY <1>1, <1>3, <1>5 DEF SeenOK, SelfLoop, Outer
<1> QED  BY <1>4, <1>5

\* A hat that points to a dead node is the hat of an empty deque.
LEMMA DeadAtHat ==
  ASSUME IInv, NEW s \in Side, IsDead(Settled, mem[<<This, s>>])
  PROVE  items = <<>>
<1>1. TypeOK /\ Shape(Settled, Contents) /\ Contents \in Seq(Node) /\ lock \in Thread \cup {NoThread}
  BY ContentsType DEF IInv, TypeOK, M!MCASTypeOK
<1>2. Len(Contents) # 0 => Settled[<<This, s>>] = Nth(Contents, s, 1) /\ Nth(Contents, s, 1) \in Elems(Contents)
  <2>1. Len(Contents) # 0 => 1 \in 1 .. Len(Contents)
    BY <1>1, NthFacts
  <2> QED  BY <2>1, <1>1, NthFacts DEF Shape, EndsMeet
<1>3. mem[<<This, s>>] = Settled[<<This, s>>] => Contents = <<>>
  <2>1. \A n \in Elems(Contents) : ~IsDead(Settled, n)
    BY <1>1 DEF Shape, Proper, IsDead, Side
  <2> QED  BY <2>1, <1>1, <1>2, NthFacts
<1>4. CASE lock = NoThread
  <2>1. Settled = mem /\ Contents = items
    BY <1>1, <1>4, TypeFacts, McasDequeAssumption DEF Contents
  <2> QED  BY <2>1, <1>3
<1>5. CASE lock \in Thread
  <2> DEFINE u == lock
  <2>1. OwnerOK(u) /\ lock = u
    BY <1>5 DEF IInv
  <2>2. CASE In(u, "push") /\ SelfLoop(u)
    BY <2>1, <2>2 DEF OwnerOK
  <2>3. CASE ~(In(u, "push") /\ SelfLoop(u))
    <3>1. In(u, "pop") \/ ~SelfLoop(u)
      BY <2>1, <2>3 DEF OwnerOK
    <3>2. \A i \in 1 .. Len(todo) : todo[i].addr # <<This, s>>
      <4>1. \A i \in 1 .. Len(todo) : todo[i].addr[1] # This
        BY <2>1, <3>1 DEF OwnerOK
      <4> QED  BY <4>1
    <3>3. Settled[<<This, s>>] = mem[<<This, s>>]
      <4>1. <<This, s>> \in Addr
        BY DEF Addr
      <4>2. mem \in [Addr -> Val] /\ todo \in Seq(L!Words) /\ L!Distinct(todo)
        BY <1>1, TypeFacts DEF L!LockDiscipline
      <4> QED  BY <4>1, <4>2, <3>2, Assumed, L!StoredAt DEF Settled, L!Settled
    <3>4. Contents = <<>>
      BY <3>3, <1>3
    <3>5. ~In(u, "push")
      <4>1. ASSUME In(u, "push")  PROVE FALSE
        <5>1. Contents = Abstract!Pushed(items, SideOf(u), NewNode(u))
          BY <4>1, <1>5 DEF Contents
        <5>2. items \in Seq(Node) /\ SideOf(u) \in Side /\ NewNode(u) \in Node
          BY <4>1, <1>1, <1>5, TypeFacts
        <5>3. Len(items) \in Nat /\ Len(Contents) = Len(items) + 1
          BY <5>1, <5>2, PushedFacts, LenProperties DEF IsPushed
        <5> QED  BY <5>3, <3>4
      <4> QED  BY <4>1
    <3> QED  BY <3>4, <3>5, <1>5 DEF Contents
  <2> QED  BY <2>2, <2>3
<1> QED  BY <1>1, <1>4, <1>5

LEMMA PopEmptyStep ==
  ASSUME IInv, NEW t \in Thread, PopEmpty(t)
  PROVE  /\ IInv' /\ DeadStay /\ lock # t
         /\ \/ result' = [result EXCEPT ![t] = Empty] /\ items = <<>>
            \/ result' = result
<1>1. /\ TypeOK /\ CallOK(t) /\ OwnerOK(t) /\ In(t, "pop") /\ Loaded(t) /\ SelfLoop(t)
      /\ M!NoStore /\ UNCHANGED <<call, left, items>>
      /\ IF mem[Hat(SideOf(t))] = seen[t][1]
           THEN result' = [result EXCEPT ![t] = Empty] /\ UNCHANGED seen
           ELSE seen' = [seen EXCEPT ![t] = <<>>] /\ UNCHANGED result
  BY DEF IInv, PopEmpty
<1>2. lock # t /\ ~Private(t)
  BY <1>1 DEF OwnerOK, In, Private
<1>3. /\ call \in [Thread -> CallType] /\ seen \in [Thread -> SeenType]
      /\ result \in [Thread -> {Pending, Void, Empty} \cup Node] /\ left \in [Thread -> Nat]
      /\ <<>> \in SeenType /\ SideOf(t) \in Side
  <2>1. Len(<<>>) \in 0 .. 3 /\ <<>> \in Seq(Pointer)
    OBVIOUS
  <2> QED  BY <2>1, <1>1, TypeFacts, SeenTypes
<1>4. CallOK(t)' /\ ~Private(t)'
  BY <1>1 DEF CallOK, In, Private
<1>5. CASE mem[Hat(SideOf(t))] = seen[t][1]
  <2>1. items = <<>>
    <3>1. IsDead(Settled, mem[<<This, SideOf(t)>>])
      BY <1>1, <1>5, LoopIsDead DEF Hat
    <3> QED  BY <3>1, <1>3, DeadAtHat
  <2>2. /\ result' = [result EXCEPT ![t] = Empty] /\ seen' = seen
        /\ result' \in [Thread -> {Pending, Void, Empty} \cup Node]
        /\ \A u \in Thread : u # t => result'[u] = result[u]
    BY <1>1, <1>3, <1>5
  <2>3. (In(t, "push")' => In(t, "push")) /\ (In(t, "pop")' => In(t, "pop"))
    BY <1>1 DEF In
  <2>4. IInv' /\ DeadStay
    BY <2>2, <2>3, <1>1, <1>2, <1>3, <1>4, QuietStep
  <2> QED  BY <2>1, <2>2, <2>4, <1>2
<1>6. CASE mem[Hat(SideOf(t))] # seen[t][1]
  <2>1. /\ result' = result /\ seen' = [seen EXCEPT ![t] = <<>>]
        /\ seen' \in [Thread -> SeenType] /\ seen'[t] = <<>>
        /\ \A u \in Thread : u # t => seen'[u] = seen[u]
    BY <1>1, <1>3, <1>6
  <2>2. IInv' /\ DeadStay
    BY <2>1, <1>1, <1>2, <1>3, <1>4, QuietStep
  <2> QED  BY <2>1, <2>2, <1>2
<1> QED  BY <1>5, <1>6

\* A step of a call that has found every word as expected: the worker's call,
\* its pointers and the other workers stay, and what it stores is settled.
LEMMA OwnerStep ==
  ASSUME IInv, TypeOK', NEW t \in Thread, In(t, "push") \/ In(t, "pop"),
         lock = t \/ lock = NoThread, lock' = t \/ lock' = NoThread,
         call' = call, seen' = seen, left' = left,
         \A u \in Thread : u # t => result'[u] = result[u],
         Shape(Settled, Contents)', Known \subseteq Known',
         \A x \in Pointer : IsDead(Settled, x) => IsDead(Settled, x)',
         \A a \in Addr : mem'[a] = mem[a] \/ mem'[a] = Settled'[a],
         \A x \in Known' \ Known, s \in Side : mem[<<x, s>>] \in Known' /\ mem[<<x, s>>] # x,
         TodoOK', OwnerOK(t)', ~Private(t)',
         \A u \in Thread : u # t /\ Private(u) =>
            NewNode(u) \notin Known' /\ \A s \in Side : Settled'[<<NewNode(u), s>>] = mem[<<NewNode(u), s>>]
  PROVE  IInv' /\ DeadStay
<1>1. /\ TypeOK /\ CallOK(t) /\ SeenOK(t) /\ Covered(mem, Settled, Contents)
      /\ NoThread \notin Thread
  BY McasDequeAssumption DEF IInv
<1>2. Contents \in Seq(Node) /\ Contents' \in Seq(Node)
  <2>1. Contents' \in Seq(Node)
    <3>1. /\ call' \in [Thread -> CallType] /\ items' \in Seq(Node)
      BY DEF TypeOK, CallType
    <3>2. CASE lock' \in Thread /\ In(lock, "push")'
      <4>1. /\ call'[lock'] \in CallType /\ call'[lock'][1] = "push" /\ call'[lock'] # <<>>
        BY <3>1, <3>2 DEF In
      <4>2. call'[lock'][2] \in Side /\ call'[lock'][3] \in Node
        BY <4>1, CallTypes
      <4>3. Contents' = Abstract!Pushed(items', call'[lock'][2], call'[lock'][3])
        BY <3>2 DEF Contents, SideOf, NewNode
      <4> QED  BY <4>2, <4>3, <3>1, PushedType
    <3> QED  BY <3>1, <3>2 DEF Contents
  <2> QED  BY <2>1, ContentsType
<1>3. \A x \in Known' : x \in Pointer
  <2>1. \A x \in Public(Settled', Contents') : x \in Pointer
    BY <1>2, NthFacts DEF Public, Pointer, Side
  <2> QED  BY <2>1 DEF Known
<1>4. Covered(mem, Settled, Contents)'
  <2>1. \A x \in Known' \cup {This}, s \in Side :
          mem'[<<x, s>>] = mem[<<x, s>>] \/ mem'[<<x, s>>] = Settled'[<<x, s>>]
    <3>1. \A x \in Known' \cup {This}, s \in Side : <<x, s>> \in Addr
      BY <1>3 DEF Addr, Pointer
    <3> QED  BY <3>1
  <2>2. \A x \in {Dummy} \cup Node : IsDead(Settled, x) => IsDead(Settled', x)
    BY DEF Pointer
  <2>3. /\ Public(Settled, Contents) \subseteq Public(Settled', Contents')
        /\ \A x \in Public(Settled', Contents') \cup {This}, s \in Side :
              mem'[<<x, s>>] = mem[<<x, s>>] \/ mem'[<<x, s>>] = Settled'[<<x, s>>]
        /\ \A x \in Public(Settled', Contents') \ Public(Settled, Contents), s \in Side :
              mem[<<x, s>>] \in Public(Settled', Contents') /\ mem[<<x, s>>] # x
    BY <2>1 DEF Known
  <2>4. Shape(Settled', Contents')
    OBVIOUS
  <2>5. Covered(mem', Settled', Contents')
    BY <1>1, <1>2, <2>2, <2>3, <2>4, StillCovered
  <2> QED  BY <2>5
<1>5. CallOK(t)'
  <2>1. call[t] # <<>>
    BY DEF In
  <2> QED  BY <2>1, <1>1 DEF CallOK
<1>6. SeenOK(t)'
  <2>1. Len(seen[t]) >= 2 => seen[t][1] \in Pointer
    BY <1>1, TypeFacts
  <2>2. Len(seen[t]) = 3 => Len(seen[t]) >= 2
    OBVIOUS
  <2>3. (In(t, "push")' => In(t, "push")) /\ (In(t, "pop")' => In(t, "pop"))
    BY DEF In
  <2> QED  BY <2>1, <2>2, <2>3, <1>1 DEF SeenOK
<1>7. PrivateOK(t)'
  BY DEF PrivateOK
<1>8. ASSUME NEW u \in Thread, u # t
      PROVE  /\ CallOK(u)' /\ SeenOK(u)' /\ OwnerOK(u)' /\ PrivateOK(u)'
             /\ (Private(u)' <=> Private(u)) /\ NewNode(u)' = NewNode(u)
  <2>1. lock # u /\ lock' # u
    BY <1>1, <1>8
  <2>2. Private(u) => /\ NewNode(u) \notin Known'
                      /\ \A s \in Side : mem'[<<NewNode(u), s>>] = mem[<<NewNode(u), s>>]
    <3>1. ASSUME Private(u), NEW s \in Side
          PROVE  mem'[<<NewNode(u), s>>] = mem[<<NewNode(u), s>>]
      <4>1. <<NewNode(u), s>> \in Addr
        BY <3>1, <1>1, TypeFacts DEF Private, Addr
      <4> QED  BY <3>1, <4>1, <1>8
    <3> QED  BY <3>1, <1>8
  <2> QED  BY <2>1, <2>2, <1>8, Others
<1>9. \A u \in Thread : CallOK(u)' /\ SeenOK(u)' /\ OwnerOK(u)' /\ PrivateOK(u)'
  BY <1>5, <1>6, <1>7, <1>8
<1>10. \A u, v \in Thread : Private(u)' /\ Private(v)' /\ NewNode(u)' = NewNode(v)' => u = v
  BY <1>8 DEF IInv
<1> QED  BY <1>4, <1>9, <1>10 DEF IInv, DeadStay

\* What the dcas of a push does, once it has found both words as expected.
LEMMA PushEffect ==
  ASSUME IInv, NEW t \in Thread, In(t, "push"), Loaded(t), M!Succeed(t, PushWords(t)),
         NEW s, s = SideOf(t), NEW n, n = NewNode(t)
  PROVE  /\ lock = NoThread /\ Settled = mem /\ Contents = items
         /\ lock' = t \/ lock' = NoThread
         /\ M!MCASTypeOK' /\ M!LockDiscipline'
         /\ n \in Node /\ n \notin Known /\ s \in Side
         /\ \/ SelfLoop(t) /\ items = <<>> /\ PushesFirst(mem, Settled', s, n)
            \/ ~SelfLoop(t) /\ PushesOnto(mem, Settled', s, n)
         /\ \A a \in Addr : mem'[a] = mem[a] \/ mem'[a] = Settled'[a]
         /\ \A a \in Addr : a[1] \notin Known \cup {This} => Settled'[a] = mem[a]
         /\ \A i \in 1 .. Len(todo') : /\ todo'[i].addr[1] \in Known \cup {This}
                                       /\ ~SelfLoop(t) => todo'[i].addr[1] # This
<1> DEFINE h == seen[t][1]
           o == Other(s)
           w == PushWords(t)
           a2 == IF SelfLoop(t) THEN <<This, o>> ELSE <<h, s>>
           o2 == IF SelfLoop(t) THEN seen[t][3] ELSE seen[t][2]
<1>1. /\ TypeOK /\ SeenOK(t) /\ PrivateOK(t) /\ NoThread \notin Thread
      /\ lock = NoThread /\ L!Succeed(t, PushWords(t)) /\ L!MCASTypeOK /\ L!LockDiscipline
      /\ ~In(t, "pop")
  BY Same, TypeFacts, McasDequeAssumption DEF IInv, M!Succeed, In
<1>2. /\ Settled = mem /\ mem \in [Addr -> Val] /\ Contents = items /\ items \in Seq(Node)
      /\ s \in Side /\ n \in Node /\ o \in Side /\ o # s
      /\ Private(t) /\ n \notin Known
      /\ mem[<<n, s>>] = Dummy
      /\ mem[<<n, o>>] = IF SelfLoop(t) THEN Dummy ELSE h
  BY <1>1, TypeFacts, ContentsAre, Sides DEF Private, PrivateOK
<1>3. /\ SelfLoop(t) <=> seen[t][2] = h
      /\ h \in Known /\ h \in Pointer /\ h # This /\ o2 \in Pointer
  <2>1. SelfLoop(t) <=> seen[t][2] = h
    BY <1>1 DEF SelfLoop, Outer
  <2>2. /\ Len(seen[t]) \in Nat /\ Len(seen[t]) >= 2
        /\ SelfLoop(t) => Len(seen[t]) >= 3
    <3> DEFINE l == Len(seen[t])
               b == SelfLoop(t)
    <3>1. l = 3 \/ (l = 2 /\ ~b)
      BY DEF Loaded
    <3> HIDE DEF l, b
    <3>2. l \in Nat /\ l >= 2 /\ (b => l >= 3)
      BY <3>1
    <3> QED  BY <3>2 DEF l, b
  <2>3. 1 \in 1 .. Len(seen[t]) /\ 2 \in 1 .. Len(seen[t]) /\ (SelfLoop(t) => 3 \in 1 .. Len(seen[t]))
    BY <2>2
  <2>4. h \in Known /\ h \in Pointer /\ o2 \in Pointer
    BY <2>3, <1>1, TypeFacts DEF SeenOK
  <2> QED  BY <2>1, <2>2, <2>4, Constants DEF Pointer
<1>4. w = <<M!Word(<<This, s>>, h, n), M!Word(a2, o2, n)>>
  BY DEF PushWords, Hat
<1>5. /\ w \in Seq(L!Words) /\ Len(w) = 2 /\ DOMAIN w = 1 .. 2
      /\ w[1].addr = <<This, s>> /\ w[1].old = h /\ w[1].new = n
      /\ w[2].addr = a2 /\ w[2].old = o2 /\ w[2].new = n
  <2>1. a2 \in Addr /\ <<This, s>> \in Addr /\ n \in Val /\ h \in Val /\ o2 \in Val
    BY <1>2, <1>3 DEF Addr, Val, Pointer
  <2> HIDE DEF a2, o2, h, w
  <2>2. M!Word(<<This, s>>, h, n) \in L!Words /\ M!Word(a2, o2, n) \in L!Words
    BY <2>1 DEF M!Word, L!Words
  <2> QED  BY <2>2, <1>4 DEF M!Word
<1>6. a2 # <<This, s>> /\ a2[1] \in Known \cup {This} /\ (~SelfLoop(t) => a2[1] # This)
  BY <1>2, <1>3
<1> HIDE DEF w, a2, o2
<1>7. L!Distinct(w) /\ w # <<>>
  <2>1. \A i \in DOMAIN w : i = 1 \/ i = 2
    BY <1>5
  <2>2. L!Distinct(w)
    BY <2>1, <1>5, <1>6 DEF L!Distinct
  <2>3. DOMAIN <<>> = {}
    OBVIOUS
  <2>4. 1 \in DOMAIN w
    BY <1>5
  <2> QED  BY <2>2, <2>3, <2>4
<1>8. L!Succeed(t, w)
  BY <1>1 DEF w
<1>9. /\ L!MCASTypeOK' /\ L!LockDiscipline' /\ Settled' = L!Stored(mem, w)
      /\ lock' \in {t, NoThread}
      /\ lock' = t => /\ Len(todo') = Len(w) - 1
                     /\ \A i \in 1 .. Len(todo') : todo'[i] = w[i + 1]
  BY <1>1, <1>5, <1>7, <1>8, Assumed, L!SucceedStep DEF Settled
<1>10. \A a \in Addr : mem'[a] = mem[a] \/ mem'[a] = Settled'[a]
  BY <1>1, <1>5, <1>7, <1>8, Assumed, L!SucceedSettles DEF Settled
<1>11. /\ \A i \in 1 .. Len(w) : Settled'[w[i].addr] = w[i].new
       /\ \A a \in Addr : (\A i \in 1 .. Len(w) : w[i].addr # a) => Settled'[a] = mem[a]
  BY <1>2, <1>5, <1>7, <1>9, Assumed, L!StoredAt
<1>12. /\ Settled'[<<This, s>>] = n /\ Settled'[a2] = n
       /\ \A a \in Addr : a # <<This, s>> /\ a # a2 => Settled'[a] = mem[a]
  BY <1>5, <1>11
<1>13. mem[<<This, s>>] = h /\ mem[a2] = o2
  BY <1>5, <1>8 DEF L!Succeed, L!Matches
<1>14. ASSUME SelfLoop(t)  PROVE items = <<>> /\ PushesFirst(mem, Settled', s, n)
  <2>1. items = <<>>
    <3>1. IsDead(Settled, mem[<<This, s>>])
      BY <1>13, <1>14, LoopIsDead
    <3> QED  BY <3>1, <1>2, DeadAtHat
  <2>2. a2 = <<This, o>>
    BY <1>14 DEF a2
  <2>3. \A a \in Addr : a[1] # This => Settled'[a] = mem[a]
    BY <2>2, <1>12
  <2> QED  BY <2>1, <2>2, <2>3, <1>2, <1>12, <1>14 DEF PushesFirst
<1>15. ASSUME ~SelfLoop(t)  PROVE PushesOnto(mem, Settled', s, n)
  <2>1. a2 = <<h, s>> /\ o2 = seen[t][2]
    BY <1>15 DEF a2, o2
  <2> QED  BY <2>1, <1>2, <1>3, <1>12, <1>13, <1>15 DEF PushesOnto
<1>16. \A a \in Addr : a[1] \notin Known \cup {This} => Settled'[a] = mem[a]
  BY <1>6, <1>12
<1>17. ASSUME NEW i \in 1 .. Len(todo')
       PROVE  todo'[i].addr[1] \in Known \cup {This} /\ (~SelfLoop(t) => todo'[i].addr[1] # This)
  <2>1. CASE lock' = t
    <3>1. Len(todo') = 1
      BY <2>1, <1>5, <1>9
    <3>2. i = 1
      BY <3>1
    <3>3. todo'[i] = w[2]
      BY <2>1, <3>2, <1>9
    <3> QED  BY <3>3, <1>5, <1>6
  <2>2. CASE lock' = NoThread
    <3>1. Len(todo') = 0
      BY <2>2, <1>9 DEF L!LockDiscipline
    <3> QED  BY <3>1
  <2> QED  BY <2>1, <2>2, <1>9
<1> QED  BY <1>1, <1>2, <1>9, <1>10, <1>14, <1>15, <1>16, <1>17, Same

\* The links once the stores of a push are made.
LEMMA PushSettles ==
  ASSUME IInv, NEW t \in Thread, In(t, "push"), Loaded(t), M!Succeed(t, PushWords(t)),
         NEW s, s = SideOf(t), NEW n, n = NewNode(t)
  PROVE  LET r == Abstract!Pushed(items, s, n)
         IN  /\ Shape(Settled', r) /\ Public(Settled', r) = Known \cup {n}
             /\ \A x \in Pointer : IsDead(Settled, x) => IsDead(Settled', x)
             /\ mem[<<n, s>>] = Dummy
             /\ mem[<<n, Other(s)>>] \in Known
<1> DEFINE r == Abstract!Pushed(items, s, n)
<1>1. /\ lock = NoThread /\ Settled = mem /\ Contents = items
      /\ n \in Node /\ n \notin Known /\ s \in Side
      /\ \/ SelfLoop(t) /\ items = <<>> /\ PushesFirst(mem, Settled', s, n)
         \/ ~SelfLoop(t) /\ PushesOnto(mem, Settled', s, n)
  BY PushEffect
<1>2. mem \in [Addr -> Val] /\ items \in Seq(Node) /\ Shape(mem, items) /\ Known = Public(mem, items)
  BY <1>1, TypeFacts DEF IInv, Known
<1>3. Dummy \in Known /\ mem[<<This, s>>] \in Known
  BY <1>1, <1>2 DEF Shape, Proper, Public
<1>4. CASE SelfLoop(t) /\ items = <<>> /\ PushesFirst(mem, Settled', s, n)
  <2>1. Elems(items) = {}
    BY <1>4 DEF Elems
  <2>3. n \in Node /\ s \in Side /\ n \notin Public(mem, items) /\ PushesFirst(mem, Settled', s, n)
    BY <1>1, <1>2, <1>4
  <2>2. /\ Shape(Settled', r) /\ Public(Settled', r) = Public(mem, items) \cup {n}
        /\ \A x \in {Dummy} \cup Node : IsDead(mem, x) => IsDead(Settled', x)
    BY <2>1, <2>3, <1>2, PushFirstShape
  <2> HIDE DEF r
  <2> QED  BY <2>2, <1>1, <1>2, <1>3, <1>4 DEF Pointer, PushesFirst, r
<1>5. CASE ~SelfLoop(t) /\ PushesOnto(mem, Settled', s, n)
  <2>2. /\ Shape(Settled', r) /\ Public(Settled', r) = Public(mem, items) \cup {n}
        /\ \A x \in {Dummy} \cup Node : IsDead(mem, x) => IsDead(Settled', x)
    BY <1>1, <1>2, <1>5, PushOntoShape
  <2> HIDE DEF r
  <2> QED  BY <2>2, <1>1, <1>2, <1>3, <1>5 DEF Pointer, PushesOnto, r
<1> QED  BY <1>1, <1>4, <1>5

LEMMA PushDcasStep ==
  ASSUME IInv, NEW t \in Thread, PushDcas(t)
  PROVE  IInv' /\ DeadStay /\ lock = NoThread
<1>1. PICK s, n : s = SideOf(t) /\ n = NewNode(t)
  OBVIOUS
<1> DEFINE r == Abstract!Pushed(items, s, n)
<1>2. /\ In(t, "push") /\ Loaded(t) /\ M!Succeed(t, PushWords(t))
      /\ call' = call /\ seen' = seen /\ left' = left
  BY DEF PushDcas
<1>3. IF lock' = NoThread
        THEN result' = [result EXCEPT ![t] = Void] /\ items' = r
        ELSE result' = result /\ items' = items
  BY <1>1 DEF PushDcas, PushAdvance, M!Returns, Abstract!Pushed
<1>4. /\ lock = NoThread /\ Settled = mem /\ Contents = items
      /\ lock' = t \/ lock' = NoThread
      /\ M!MCASTypeOK' /\ M!LockDiscipline'
      /\ n \in Node /\ n \notin Known /\ s \in Side
      /\ \/ SelfLoop(t) /\ items = <<>> /\ PushesFirst(mem, Settled', s, n)
         \/ ~SelfLoop(t) /\ PushesOnto(mem, Settled', s, n)
      /\ \A a \in Addr : mem'[a] = mem[a] \/ mem'[a] = Settled'[a]
      /\ \A a \in Addr : a[1] \notin Known \cup {This} => Settled'[a] = mem[a]
      /\ \A i \in 1 .. Len(todo') : /\ todo'[i].addr[1] \in Known \cup {This}
                                    /\ ~SelfLoop(t) => todo'[i].addr[1] # This
  BY <1>1, <1>2, PushEffect
<1>5. /\ Shape(Settled', r) /\ Public(Settled', r) = Known \cup {n}
      /\ \A x \in Pointer : IsDead(Settled, x) => IsDead(Settled', x)
      /\ mem[<<n, s>>] = Dummy
      /\ mem[<<n, Other(s)>>] \in Known
  BY <1>1, <1>2, PushSettles
<1>6. /\ TypeOK /\ items \in Seq(Node) /\ r \in Seq(Node) /\ NoThread \notin Thread
      /\ result \in [Thread -> {Pending, Void, Empty} \cup Node]
      /\ ~In(t, "pop")
  BY <1>2, <1>4, TypeFacts, PushedType, McasDequeAssumption DEF IInv, In
<1>7. Contents' = r
  <2>1. CASE lock' = NoThread
    BY <2>1, <1>3, <1>6 DEF Contents
  <2>2. CASE lock' = t
    <3>1. In(lock, "push")' /\ lock' \in Thread
      BY <2>2, <1>2, <1>3, <1>6 DEF In
    <3>2. SideOf(lock)' = s /\ NewNode(lock)' = n
      BY <2>2, <1>1, <1>2 DEF SideOf, NewNode
    <3> QED  BY <3>1, <3>2, <2>2, <1>3, <1>6 DEF Contents
  <2> QED  BY <2>1, <2>2, <1>4
<1> HIDE DEF r
<1>8. /\ result' \in [Thread -> {Pending, Void, Empty} \cup Node]
      /\ \A u \in Thread : u # t => result'[u] = result[u]
      /\ items' \in Seq(Node)
      /\ lock' = NoThread => result'[t] = Void
      /\ lock' = t => result' = result /\ items' = items
  BY <1>3, <1>4, <1>6
<1>9. TypeOK'
  BY <1>2, <1>4, <1>6, <1>8 DEF TypeOK
<1>10. Known' = Known \cup {n} /\ Shape(Settled, Contents)'
      /\ \A x \in Pointer : IsDead(Settled, x) => IsDead(Settled, x)'
  BY <1>5, <1>7 DEF Known
<1>11. \A x \in Known' \ Known, u \in Side : mem[<<x, u>>] \in Known' /\ mem[<<x, u>>] # x
  <2>1. Dummy \in Known /\ n # Dummy
    BY <1>4, Constants DEF Known, Public
  <2> QED  BY <2>1, <1>4, <1>5, <1>10, Sides
<1>12. TodoOK'
  BY <1>4, <1>10 DEF TodoOK
<1>13. ~Private(t)'
  BY <1>4, <1>8, Constants DEF Private, In
<1>14. OwnerOK(t)'
  <2>1. CASE lock' = t
    <3>1. /\ In(t, "push")' /\ ~In(t, "pop")'
          /\ (SelfLoop(t)' <=> SelfLoop(t)) /\ (Loaded(t)' <=> Loaded(t))
      BY <2>1, <1>2, <1>6, <1>8 DEF In, SelfLoop, Outer, Loaded
    <3> QED  BY <2>1, <3>1, <1>2, <1>4, <1>8 DEF OwnerOK
  <2>2. CASE lock' # t
    BY <2>2 DEF OwnerOK
  <2> QED  BY <2>1, <2>2
<1>15. ASSUME NEW u \in Thread, u # t, Private(u)
       PROVE  /\ NewNode(u) \notin Known'
              /\ \A k \in Side : Settled'[<<NewNode(u), k>>] = mem[<<NewNode(u), k>>]
  <2>1. Private(t)
    BY <1>2, <1>4, <1>6 DEF Private
  <2>2. NewNode(u) # n /\ NewNode(u) \notin Known /\ NewNode(u) \in Node
    BY <2>1, <1>1, <1>6, <1>15, TypeFacts DEF IInv, PrivateOK, Private
  <2>3. \A k \in Side : <<NewNode(u), k>> \in Addr /\ NewNode(u) # This
    BY <2>2, Constants DEF Addr
  <2> QED  BY <2>2, <2>3, <1>4, <1>10
<1>16. IInv' /\ DeadStay
  BY <1>2, <1>4, <1>8, <1>9, <1>10, <1>11, <1>12, <1>13, <1>14, <1>15, OwnerStep
<1> QED  BY <1>4, <1>16

\* What the next store of the owner of the lock does.
LEMMA StoresEffect ==
  ASSUME IInv, NEW t \in Thread, M!StoreNext(t)
  PROVE  /\ lock = t /\ (lock' = t \/ lock' = NoThread)
         /\ M!MCASTypeOK' /\ M!LockDiscipline' /\ Settled' = Settled
         /\ \A a \in Addr : mem'[a] = mem[a] \/ mem'[a] = Settled'[a]
         /\ \A a \in Addr : a[1] \notin Known \cup {This} => Settled'[a] = mem[a]
         /\ \A i \in 1 .. Len(todo') : \E j \in 1 .. Len(todo) : todo'[i] = todo[j]
<1>1. /\ TypeOK /\ TodoOK /\ L!StoreNext(t) /\ L!MCASTypeOK /\ L!LockDiscipline
      /\ mem \in [Addr -> Val] /\ todo \in Seq(L!Words)
  BY Same, TypeFacts DEF IInv
<1>2. /\ L!MCASTypeOK' /\ L!LockDiscipline' /\ Settled' = Settled /\ lock = t
      /\ lock' \in {t, NoThread} /\ Len(todo') = Len(todo) - 1
      /\ \A i \in 1 .. Len(todo') : todo'[i] = todo[i + 1]
  BY <1>1, Assumed, L!StoreNextStep DEF Settled
<1>3. \A a \in Addr : mem'[a] = mem[a] \/ mem'[a] = Settled'[a]
  BY <1>1, Assumed, L!StoreNextSettles DEF Settled
<1>4. ASSUME NEW a \in Addr, a[1] \notin Known \cup {This}  PROVE Settled'[a] = mem[a]
  <2>1. \A i \in 1 .. Len(todo) : todo[i].addr # a
    BY <1>1, <1>4 DEF TodoOK
  <2>2. L!Stored(mem, todo)[a] = mem[a]
    BY <2>1, <1>1, Assumed, L!StoredAt DEF L!LockDiscipline
  <2> QED  BY <2>2, <1>2 DEF Settled, L!Settled
<1>5. ASSUME NEW i \in 1 .. Len(todo')  PROVE \E j \in 1 .. Len(todo) : todo'[i] = todo[j]
  <2>1. i + 1 \in 1 .. Len(todo)
    BY <1>1, <1>2, LenProperties
  <2> QED  BY <2>1, <1>2
<1> QED  BY <1>2, <1>3, <1>4, <1>5, Same

LEMMA PushStoresStep ==
  ASSUME IInv, NEW t \in Thread, PushStores(t)
  PROVE  IInv' /\ DeadStay /\ lock = t
<1>1. PICK s, n : s = SideOf(t) /\ n = NewNode(t)
  OBVIOUS
<1> DEFINE r == Abstract!Pushed(items, s, n)
<1>2. /\ In(t, "push") /\ M!StoreNext(t)
      /\ call' = call /\ seen' = seen /\ left' = left
  BY DEF PushStores
<1>3. IF lock' = NoThread
        THEN result' = [result EXCEPT ![t] = Void] /\ items' = r
        ELSE result' = result /\ items' = items
  BY <1>1 DEF PushStores, PushAdvance, M!Returns, Abstract!Pushed
<1>4. /\ lock = t /\ (lock' = t \/ lock' = NoThread)
      /\ M!MCASTypeOK' /\ M!LockDiscipline' /\ Settled' = Settled
      /\ \A a \in Addr : mem'[a] = mem[a] \/ mem'[a] = Settled'[a]
      /\ \A a \in Addr : a[1] \notin Known \cup {This} => Settled'[a] = mem[a]
      /\ \A i \in 1 .. Len(todo') : \E j \in 1 .. Len(todo) : todo'[i] = todo[j]
  BY <1>2, StoresEffect
<1>5. /\ TypeOK /\ OwnerOK(t) /\ TodoOK /\ NoThread \notin Thread
      /\ items \in Seq(Node) /\ s \in Side /\ n \in Node
      /\ result \in [Thread -> {Pending, Void, Empty} \cup Node]
      /\ ~In(t, "pop")
  BY <1>1, <1>2, TypeFacts, McasDequeAssumption DEF IInv, In
<1>6. r \in Seq(Node) /\ Contents = r
  BY <1>1, <1>2, <1>4, <1>5, PushedType, ContentsAre
<1>7. Contents' = r
  <2>1. CASE lock' = NoThread
    BY <2>1, <1>3, <1>5 DEF Contents
  <2>2. CASE lock' = t
    <3>1. In(lock, "push")' /\ lock' \in Thread
      BY <2>2, <1>2, <1>3, <1>5 DEF In
    <3>2. SideOf(lock)' = s /\ NewNode(lock)' = n
      BY <2>2, <1>1, <1>2 DEF SideOf, NewNode
    <3> QED  BY <3>1, <3>2, <2>2, <1>3, <1>5 DEF Contents
  <2> QED  BY <2>1, <2>2, <1>4
<1> HIDE DEF r
<1>8. /\ result' \in [Thread -> {Pending, Void, Empty} \cup Node]
      /\ \A u \in Thread : u # t => result'[u] = result[u]
      /\ items' \in Seq(Node)
      /\ lock' = NoThread => result'[t] = Void
      /\ lock' = t => result' = result /\ items' = items
  BY <1>3, <1>4, <1>5, <1>6
<1>9. TypeOK'
  BY <1>2, <1>4, <1>5, <1>8 DEF TypeOK
<1>10. Known' = Known /\ Shape(Settled, Contents)'
      /\ \A x \in Pointer : IsDead(Settled, x) => IsDead(Settled, x)'
  <2>1. Contents' = Contents /\ Settled' = Settled
    BY <1>4, <1>6, <1>7
  <2> QED  BY <2>1 DEF Known, IInv
<1>11. TodoOK'
  BY <1>4, <1>5, <1>10 DEF TodoOK
<1>12. ~Private(t)'
  BY <1>4, <1>8, Constants DEF Private, In
<1>13. OwnerOK(t)'
  <2>1. CASE lock' = t
    <3>1. /\ In(t, "push")' /\ ~In(t, "pop")'
          /\ (SelfLoop(t)' <=> SelfLoop(t)) /\ (Loaded(t)' <=> Loaded(t))
      BY <2>1, <1>2, <1>5, <1>8 DEF In, SelfLoop, Outer, Loaded
    <3> QED  BY <2>1, <3>1, <1>2, <1>4, <1>5, <1>8 DEF OwnerOK
  <2>2. CASE lock' # t
    BY <2>2 DEF OwnerOK
  <2> QED  BY <2>1, <2>2
<1>14. ASSUME NEW u \in Thread, u # t, Private(u)
       PROVE  /\ NewNode(u) \notin Known'
              /\ \A k \in Side : Settled'[<<NewNode(u), k>>] = mem[<<NewNode(u), k>>]
  <2>1. NewNode(u) \notin Known /\ NewNode(u) \in Node
    BY <1>5, <1>14, TypeFacts DEF IInv, PrivateOK, Private
  <2>2. \A k \in Side : <<NewNode(u), k>> \in Addr /\ NewNode(u) # This
    BY <2>1, Constants DEF Addr
  <2> QED  BY <2>1, <2>2, <1>4, <1>10
<1>15. IInv' /\ DeadStay
  BY <1>2, <1>4, <1>8, <1>9, <1>10, <1>11, <1>12, <1>13, <1>14, OwnerStep
<1> QED  BY <1>4, <1>15

\* The stores of a pop are none of a push's contents.
LEMMA PopStoresStep ==
  ASSUME IInv, NEW t \in Thread, PopStores(t)
  PROVE  IInv' /\ DeadStay /\ lock = t
<1>1. /\ In(t, "pop") /\ M!StoreNext(t)
      /\ call' = call /\ seen' = seen /\ left' = left /\ items' = items
      /\ result' = IF lock' = NoThread THEN [result EXCEPT ![t] = seen[t][1]] ELSE result
  BY DEF PopStores, PopAdvance, M!Returns
<1>2. /\ lock = t /\ (lock' = t \/ lock' = NoThread)
      /\ M!MCASTypeOK' /\ M!LockDiscipline' /\ Settled' = Settled
      /\ \A a \in Addr : mem'[a] = mem[a] \/ mem'[a] = Settled'[a]
      /\ \A a \in Addr : a[1] \notin Known \cup {This} => Settled'[a] = mem[a]
      /\ \A i \in 1 .. Len(todo') : \E j \in 1 .. Len(todo) : todo'[i] = todo[j]
  BY <1>1, StoresEffect
<1>3. /\ TypeOK /\ OwnerOK(t) /\ TodoOK /\ NoThread \notin Thread
      /\ result \in [Thread -> {Pending, Void, Empty} \cup Node]
      /\ ~In(t, "push") /\ Loaded(t) /\ ~SelfLoop(t) /\ seen[t][1] \in Node
  BY <1>1, <1>2, TypeFacts, McasDequeAssumption DEF IInv, In, OwnerOK
<1>4. Contents' = Contents
  <2>1. Contents = items
    BY <1>2, <1>3 DEF Contents
  <2>2. CASE lock' = NoThread
    BY <2>1, <2>2, <1>1, <1>3 DEF Contents
  <2>3. CASE lock' = t
    <3>1. ~In(lock, "push")'
      BY <2>3, <1>1, <1>3 DEF In
    <3> QED  BY <3>1, <2>1, <1>1 DEF Contents
  <2> QED  BY <2>2, <2>3, <1>2
<1>5. /\ result' \in [Thread -> {Pending, Void, Empty} \cup Node]
      /\ \A u \in Thread : u # t => result'[u] = result[u]
      /\ lock' = NoThread => result'[t] # Pending
      /\ lock' = t => result' = result
  BY <1>1, <1>2, <1>3, Constants
<1>6. TypeOK'
  BY <1>1, <1>2, <1>3, <1>5 DEF TypeOK
<1>7. Known' = Known /\ Shape(Settled, Contents)'
      /\ \A x \in Pointer : IsDead(Settled, x) => IsDead(Settled, x)'
  BY <1>2, <1>4 DEF Known, IInv
<1>8. TodoOK'
  BY <1>2, <1>3, <1>7 DEF TodoOK
<1>9. ~Private(t)'
  BY <1>1 DEF Private, In
<1>10. OwnerOK(t)'
  <2>1. CASE lock' = t
    <3>1. /\ In(t, "pop")' /\ ~In(t, "push")'
          /\ (SelfLoop(t)' <=> SelfLoop(t)) /\ (Loaded(t)' <=> Loaded(t))
      BY <2>1, <1>1, <1>3, <1>5 DEF In, SideOf, SelfLoop, Outer, Loaded
    <3> QED  BY <2>1, <3>1, <1>1, <1>2, <1>3 DEF OwnerOK
  <2>2. CASE lock' # t
    BY <2>2 DEF OwnerOK
  <2> QED  BY <2>1, <2>2
<1>11. ASSUME NEW u \in Thread, u # t, Private(u)
       PROVE  /\ NewNode(u) \notin Known'
              /\ \A k \in Side : Settled'[<<NewNode(u), k>>] = mem[<<NewNode(u), k>>]
  <2>1. NewNode(u) \notin Known /\ NewNode(u) \in Node
    BY <1>3, <1>11, TypeFacts DEF IInv, PrivateOK, Private
  <2>2. \A k \in Side : <<NewNode(u), k>> \in Addr /\ NewNode(u) # This
    BY <2>1, Constants DEF Addr
  <2> QED  BY <2>1, <2>2, <1>2, <1>7
<1>12. IInv' /\ DeadStay
  BY <1>1, <1>2, <1>5, <1>6, <1>7, <1>8, <1>9, <1>10, <1>11, OwnerStep
<1> QED  BY <1>2, <1>12

\* What the tcas of a pop does, once it has found the three words as expected.
LEMMA PopEffect ==
  ASSUME IInv, NEW t \in Thread, In(t, "pop"), Loaded(t), ~SelfLoop(t), M!Succeed(t, PopWords(t)),
         NEW s, s = SideOf(t)
  PROVE  /\ lock = NoThread /\ Settled = mem /\ Contents = items
         /\ lock' = t \/ lock' = NoThread
         /\ M!MCASTypeOK' /\ M!LockDiscipline'
         /\ s \in Side /\ Pops(mem, Settled', s) /\ mem[<<This, s>>] = seen[t][1]
         /\ \A a \in Addr : mem'[a] = mem[a] \/ mem'[a] = Settled'[a]
         /\ \A a \in Addr : a[1] \notin Known \cup {This} => Settled'[a] = mem[a]
         /\ \A i \in 1 .. Len(todo') : todo'[i].addr[1] \in Known /\ todo'[i].addr[1] # This
<1> DEFINE h == seen[t][1]
           o == Other(s)
           w == PopWords(t)
           i == Inner(t)
           e == Outer(t)
<1>1. /\ TypeOK /\ SeenOK(t) /\ NoThread \notin Thread
      /\ lock = NoThread /\ L!Succeed(t, PopWords(t)) /\ L!MCASTypeOK /\ L!LockDiscipline
  BY Same, TypeFacts, McasDequeAssumption DEF IInv, M!Succeed
<1>2. /\ Settled = mem /\ mem \in [Addr -> Val] /\ Contents = items
      /\ s \in Side /\ o \in Side /\ o # s /\ \A u \in Side : u = s \/ u = o
  BY <1>1, TypeFacts, ContentsAre, Sides
<1>3. /\ e # h /\ h \in Known /\ h \in Pointer /\ h # This /\ i \in Pointer /\ e \in Pointer
  <2>1. e # h
    BY DEF SelfLoop
  <2>2. Len(seen[t]) = 3
    BY DEF Loaded, In
  <2>3. 1 \in 1 .. Len(seen[t]) /\ 2 \in 1 .. Len(seen[t]) /\ 3 \in 1 .. Len(seen[t])
    BY <2>2
  <2>4. h \in Known /\ h \in Pointer /\ seen[t][2] \in Pointer /\ seen[t][3] \in Pointer
    BY <2>3, <1>1, TypeFacts DEF SeenOK
  <2> QED  BY <2>1, <2>4, Constants DEF Pointer, Inner, Outer
<1>4. w = <<M!Word(<<This, s>>, h, i), M!Word(<<h, o>>, i, h), M!Word(<<h, s>>, e, h)>>
  BY DEF PopWords, Hat
<1>5. /\ w \in Seq(L!Words) /\ Len(w) = 3 /\ DOMAIN w = 1 .. 3
      /\ w[1].addr = <<This, s>> /\ w[1].old = h /\ w[1].new = i
      /\ w[2].addr = <<h, o>> /\ w[2].old = i /\ w[2].new = h
      /\ w[3].addr = <<h, s>> /\ w[3].old = e /\ w[3].new = h
  <2>1. /\ <<This, s>> \in Addr /\ <<h, o>> \in Addr /\ <<h, s>> \in Addr
        /\ h \in Val /\ i \in Val /\ e \in Val
    BY <1>2, <1>3 DEF Addr, Val, Pointer
  <2> HIDE DEF h, i, e, o, w
  <2>2. /\ M!Word(<<This, s>>, h, i) \in L!Words
        /\ M!Word(<<h, o>>, i, h) \in L!Words
        /\ M!Word(<<h, s>>, e, h) \in L!Words
    BY <2>1 DEF M!Word, L!Words
  <2> QED  BY <2>2, <1>4 DEF M!Word
<1> HIDE DEF w, i, e
<1>6. \A k \in DOMAIN w : k = 1 \/ k = 2 \/ k = 3
  BY <1>5
<1>7. L!Distinct(w) /\ w # <<>>
  <2>1. L!Distinct(w)
    BY <1>2, <1>3, <1>5, <1>6 DEF L!Distinct
  <2>2. DOMAIN <<>> = {}
    OBVIOUS
  <2>3. 1 \in DOMAIN w
    BY <1>5
  <2> QED  BY <2>1, <2>2, <2>3
<1>8. L!Succeed(t, w)
  BY <1>1 DEF w
<1>9. /\ L!MCASTypeOK' /\ L!LockDiscipline' /\ Settled' = L!Stored(mem, w)
      /\ lock' \in {t, NoThread}
      /\ lock' = t => /\ Len(todo') = Len(w) - 1
                     /\ \A k \in 1 .. Len(todo') : todo'[k] = w[k + 1]
  BY <1>1, <1>5, <1>7, <1>8, Assumed, L!SucceedStep DEF Settled
<1>10. \A a \in Addr : mem'[a] = mem[a] \/ mem'[a] = Settled'[a]
  BY <1>1, <1>5, <1>7, <1>8, Assumed, L!SucceedSettles DEF Settled
<1>11. /\ \A k \in 1 .. Len(w) : Settled'[w[k].addr] = w[k].new
       /\ \A a \in Addr : (\A k \in 1 .. Len(w) : w[k].addr # a) => Settled'[a] = mem[a]
  BY <1>2, <1>5, <1>7, <1>9, Assumed, L!StoredAt
<1>12. /\ Settled'[<<This, s>>] = i /\ Settled'[<<h, o>>] = h /\ Settled'[<<h, s>>] = h
       /\ \A a \in Addr : a # <<This, s>> /\ a # <<h, o>> /\ a # <<h, s>> => Settled'[a] = mem[a]
  <2>1. 1 \in 1 .. Len(w) /\ 2 \in 1 .. Len(w) /\ 3 \in 1 .. Len(w)
    BY <1>5
  <2>2. \A k \in 1 .. Len(w) : k = 1 \/ k = 2 \/ k = 3
    BY <1>5
  <2>3. Settled'[<<This, s>>] = i /\ Settled'[<<h, o>>] = h /\ Settled'[<<h, s>>] = h
    BY <2>1, <1>5, <1>11
  <2>4. ASSUME NEW a \in Addr, a # <<This, s>>, a # <<h, o>>, a # <<h, s>>
        PROVE  Settled'[a] = mem[a]
    <3>1. \A k \in 1 .. Len(w) : w[k].addr # a
      BY <2>2, <2>4, <1>5
    <3> QED  BY <3>1, <1>11
  <2> QED  BY <2>3, <2>4
<1>13. mem[<<This, s>>] = h /\ mem[<<h, o>>] = i /\ mem[<<h, s>>] = e
  BY <1>5, <1>8 DEF L!Succeed, L!Matches
<1>14. Pops(mem, Settled', s)
  <2>1. \A a \in Addr : a # <<This, s>> /\ a[1] # h => Settled'[a] = mem[a]
    BY <1>12
  <2> QED  BY <2>1, <1>3, <1>12, <1>13 DEF Pops
<1>15. \A a \in Addr : a[1] \notin Known \cup {This} => Settled'[a] = mem[a]
  BY <1>3, <1>12
<1>16. ASSUME NEW k \in 1 .. Len(todo')  PROVE todo'[k].addr[1] = h
  <2>1. CASE lock' = t
    <3>1. Len(todo') = 2
      BY <2>1, <1>5, <1>9
    <3>2. k = 1 \/ k = 2
      BY <3>1
    <3>3. todo'[k] = w[2] \/ todo'[k] = w[3]
      BY <2>1, <3>2, <1>9
    <3> QED  BY <3>3, <1>5
  <2>2. CASE lock' = NoThread
    <3>1. Len(todo') = 0
      BY <2>2, <1>9 DEF L!LockDiscipline
    <3> QED  BY <3>1
  <2> QED  BY <2>1, <2>2, <1>9
<1> QED  BY <1>1, <1>2, <1>3, <1>9, <1>10, <1>13, <1>14, <1>15, <1>16, Same

LEMMA PopTcasStep ==
  ASSUME IInv, NEW t \in Thread, PopTcas(t)
  PROVE  /\ IInv' /\ DeadStay /\ lock = NoThread
         /\ items # <<>> /\ seen[t][1] = Abstract!End(items, SideOf(t))
         /\ items' = Abstract!Popped(items, SideOf(t))
<1>1. PICK s : s = SideOf(t)
  OBVIOUS
<1> DEFINE r == Abstract!Popped(items, s)
<1>2. /\ In(t, "pop") /\ Loaded(t) /\ ~SelfLoop(t) /\ M!Succeed(t, PopWords(t))
      /\ call' = call /\ seen' = seen /\ left' = left /\ items' = r
      /\ result' = IF lock' = NoThread THEN [result EXCEPT ![t] = seen[t][1]] ELSE result
  BY <1>1 DEF PopTcas, PopAdvance, M!Returns, Abstract!Popped
<1>3. /\ lock = NoThread /\ Settled = mem /\ Contents = items
      /\ lock' = t \/ lock' = NoThread
      /\ M!MCASTypeOK' /\ M!LockDiscipline'
      /\ s \in Side /\ Pops(mem, Settled', s) /\ mem[<<This, s>>] = seen[t][1]
      /\ \A a \in Addr : mem'[a] = mem[a] \/ mem'[a] = Settled'[a]
      /\ \A a \in Addr : a[1] \notin Known \cup {This} => Settled'[a] = mem[a]
      /\ \A i \in 1 .. Len(todo') : todo'[i].addr[1] \in Known /\ todo'[i].addr[1] # This
  BY <1>1, <1>2, PopEffect
<1>4. /\ TypeOK /\ mem \in [Addr -> Val] /\ items \in Seq(Node) /\ NoThread \notin Thread
      /\ Shape(mem, items) /\ Known = Public(mem, items)
      /\ result \in [Thread -> {Pending, Void, Empty} \cup Node]
      /\ ~In(t, "push")
  BY <1>2, <1>3, TypeFacts, McasDequeAssumption DEF IInv, In, Known
<1>5. /\ Shape(Settled', r) /\ Public(Settled', r) = Known
      /\ mem[<<This, s>>] = Abstract!End(items, s)
      /\ \A x \in {Dummy} \cup Node : IsDead(Settled, x) => IsDead(Settled', x)
  BY <1>3, <1>4, PopShape
<1>6. Len(items) # 0 /\ items # <<>> /\ seen[t][1] \in Node /\ r \in Seq(Node)
  <2>1. Len(items) # 0 /\ seen[t][1] \in Node
    BY <1>3, <1>4, EndFound DEF Pops
  <2>2. items # <<>>
    BY <2>1
  <2>3. IsPopped(items, s, r)
    BY <2>2, <1>3, <1>4, PoppedFacts
  <2> QED  BY <2>1, <2>2, <2>3 DEF IsPopped
<1>7. Contents' = r
  <2>1. CASE lock' = NoThread
    BY <2>1, <1>2, <1>4 DEF Contents
  <2>2. CASE lock' = t
    <3>1. ~In(lock, "push")'
      BY <2>2, <1>2, <1>4 DEF In
    <3> QED  BY <3>1, <1>2 DEF Contents
  <2> QED  BY <2>1, <2>2, <1>3
<1> HIDE DEF r
<1>8. /\ result' \in [Thread -> {Pending, Void, Empty} \cup Node]
      /\ \A u \in Thread : u # t => result'[u] = result[u]
      /\ lock' = t => result' = result
  BY <1>2, <1>3, <1>4, <1>6
<1>9. TypeOK'
  BY <1>2, <1>3, <1>4, <1>6, <1>8 DEF TypeOK
<1>10. Known' = Known /\ Shape(Settled, Contents)'
      /\ \A x \in Pointer : IsDead(Settled, x) => IsDead(Settled, x)'
  BY <1>5, <1>7 DEF Known, Pointer
<1>11. TodoOK'
  BY <1>3, <1>10 DEF TodoOK
<1>12. ~Private(t)'
  BY <1>2 DEF Private, In
<1>13. OwnerOK(t)'
  <2>1. CASE lock' = t
    <3>1. /\ In(t, "pop")' /\ ~In(t, "push")'
          /\ (SelfLoop(t)' <=> SelfLoop(t)) /\ (Loaded(t)' <=> Loaded(t))
      BY <2>1, <1>2, <1>4, <1>8 DEF In, SideOf, SelfLoop, Outer, Loaded
    <3> QED  BY <2>1, <3>1, <1>2, <1>3, <1>6 DEF OwnerOK
  <2>2. CASE lock' # t
    BY <2>2 DEF OwnerOK
  <2> QED  BY <2>1, <2>2
<1>14. ASSUME NEW u \in Thread, u # t, Private(u)
       PROVE  /\ NewNode(u) \notin Known'
              /\ \A k \in Side : Settled'[<<NewNode(u), k>>] = mem[<<NewNode(u), k>>]
  <2>1. NewNode(u) \notin Known /\ NewNode(u) \in Node
    BY <1>4, <1>14, TypeFacts DEF IInv, PrivateOK, Private
  <2>2. \A k \in Side : <<NewNode(u), k>> \in Addr /\ NewNode(u) # This
    BY <2>1, Constants DEF Addr
  <2> QED  BY <2>1, <2>2, <1>3, <1>10
<1>15. IInv' /\ DeadStay
  BY <1>2, <1>3, <1>8, <1>9, <1>10, <1>11, <1>12, <1>13, <1>14, OwnerStep
<1> QED  BY <1>1, <1>2, <1>3, <1>5, <1>6, <1>15 DEF r

\* The deque the workers find is well formed.
LEMMA FilledShape ==
  ASSUME NEW k \in 0 .. MaxPrefill, NEW m, m = Filled(k), NEW q, q = [i \in 1 .. k |-> i]
  PROVE  /\ m \in [Addr -> Val] /\ q \in Seq(Node)
         /\ Shape(m, q) /\ Covered(m, m, q)
<1>1. k \in Nat /\ k <= MaxNodes /\ MaxNodes \in Nat /\ \A i \in 1 .. k : i \in Node
  BY McasDequeAssumption DEF Node
<1>2. q \in [1 .. k -> Node] /\ q \in Seq(Node) /\ Len(q) = k /\ \A i \in 1 .. k : q[i] = i
  <2>1. q \in [1 .. k -> Node]
    BY <1>1
  <2>2. q \in Seq(Node)
    BY <2>1, <1>1, SeqDef
  <2>3. DOMAIN q = 1 .. k /\ DOMAIN q = 1 .. Len(q) /\ Len(q) \in Nat
    BY <2>1, <2>2, LenProperties
  <2>4. Len(q) = k
    BY <2>3, <1>1
  <2> QED  BY <2>1, <2>2, <2>4
<1>3. Elems(q) = 1 .. k
  BY <1>2 DEF Elems
<1>4. /\ \A i \in 1 .. k : Nth(q, "L", i) = i
      /\ \A i \in 1 .. k : Nth(q, "R", i) = k + 1 - i
  <2>1. \A i \in 1 .. k : k + 1 - i \in 1 .. k
    BY <1>1
  <2> QED  BY <2>1, <1>2 DEF Nth
<1>5. /\ \A s \in Side : m[<<Dummy, s>>] = Dummy
      /\ \A n \in Node, s \in Side : n > k => m[<<n, s>>] = Null
      /\ \A n \in 1 .. k : /\ m[<<n, "L">>] = IF n = 1 THEN Dummy ELSE n - 1
                           /\ m[<<n, "R">>] = IF n = k THEN Dummy ELSE n + 1
      /\ k = 0 => \A s \in Side : m[<<This, s>>] = Dummy
      /\ k # 0 => m[<<This, "L">>] = 1 /\ m[<<This, "R">>] = k
  <2>1. ASSUME NEW x \in {This, Dummy} \cup Node, NEW s \in Side
        PROVE  /\ x = This => m[<<x, s>>] = IF k = 0 THEN Dummy ELSE IF s = "L" THEN 1 ELSE k
               /\ x = Dummy => m[<<x, s>>] = Dummy
               /\ x \in Node /\ x > k => m[<<x, s>>] = Null
               /\ x \in Node /\ x <= k => m[<<x, s>>] = IF s = "L" THEN IF x = 1 THEN Dummy ELSE x - 1
                                                        ELSE IF x = k THEN Dummy ELSE x + 1
    <3>1. <<x, s>> \in ({This, Dummy} \cup Node) \X Side /\ <<x, s>>[1] = x /\ <<x, s>>[2] = s
      OBVIOUS
    <3>2. m[<<x, s>>] = CASE x = This  -> IF k = 0 THEN Dummy ELSE IF s = "L" THEN 1 ELSE k
                          [] x = Dummy -> Dummy
                          [] x \in Node /\ x > k -> Null
                          [] x \in Node /\ x <= k ->
                               IF s = "L" THEN IF x = 1 THEN Dummy ELSE x - 1
                                          ELSE IF x = k THEN Dummy ELSE x + 1
      BY <3>1 DEF Filled
    <3>3. x \in Node => x \in Nat /\ (x > k <=> ~(x <= k))
      BY <1>1, Constants
    <3>4. x = This \/ x = Dummy => x \notin Node
      BY Constants
    <3> QED  BY <3>2, <3>3, <3>4, Constants
  <2>2. ASSUME NEW n \in 1 .. k
        PROVE  n \in {This, Dummy} \cup Node /\ n \in Node /\ n <= k
    BY <1>1
  <2>3. k = 0 \/ k # 0
    OBVIOUS
  <2> QED  BY <2>1, <2>2 DEF Side
<1>6. m \in [Addr -> Val]
  <2>1. m = [a \in Addr |-> m[a]]
    <3> DEFINE F(a) == CASE a[1] = This  -> IF k = 0 THEN Dummy ELSE IF a[2] = "L" THEN 1 ELSE k
                         [] a[1] = Dummy -> Dummy
                         [] a[1] \in Node /\ a[1] > k -> Null
                         [] a[1] \in Node /\ a[1] <= k ->
                              IF a[2] = "L" THEN IF a[1] = 1 THEN Dummy ELSE a[1] - 1
                                            ELSE IF a[1] = k THEN Dummy ELSE a[1] + 1
    <3>1. Filled(k) = [a \in Addr |-> F(a)]
      BY DEF Filled, Addr
    <3> HIDE DEF F
    <3> QED  BY <3>1
  <2>2. ASSUME NEW x \in {This, Dummy} \cup Node, NEW s \in Side  PROVE m[<<x, s>>] \in Val
    <3>1. CASE x = This
      <4>1. k # 0 => 1 \in Node /\ k \in Node
        BY <1>1
      <4> QED  BY <3>1, <4>1, <1>5 DEF Val, Side
    <3>2. CASE x = Dummy
      BY <3>2, <1>5 DEF Val
    <3>3. CASE x \in Node /\ x > k
      BY <3>3, <1>5 DEF Val
    <3>4. CASE x \in Node /\ x <= k
      <4>1. x \in 1 .. k
        BY <3>4, <1>1 DEF Node
      <4>2. (x # 1 => x - 1 \in Node) /\ (x # k => x + 1 \in Node)
        BY <4>1, <1>1
      <4>3. CASE s = "L"
        BY <4>1, <4>2, <4>3, <1>5 DEF Val
      <4>4. CASE s = "R"
        BY <4>1, <4>2, <4>4, <1>5 DEF Val
      <4> QED  BY <4>3, <4>4 DEF Side
    <3>5. x \in Node => x > k \/ x <= k
      BY <1>1 DEF Node
    <3> QED  BY <3>1, <3>2, <3>3, <3>4, <3>5
  <2>3. \A a \in Addr : m[a] \in Val
    BY <2>2 DEF Addr
  <2> QED  BY <2>1, <2>3
<1>7. \A n \in 1 .. k, s \in Side : m[<<n, s>>] # n /\ m[<<n, s>>] \in {Dummy} \cup (1 .. k)
  <2> TAKE n \in 1 .. k, s \in Side
  <2>1. n # Dummy /\ (n # 1 => n - 1 \in 1 .. k /\ n - 1 # n) /\ (n # k => n + 1 \in 1 .. k /\ n + 1 # n)
    BY <1>1, Constants
  <2>2. m[<<n, "L">>] \in {Dummy, n - 1} /\ (n = 1 => m[<<n, "L">>] = Dummy)
    BY <1>5
  <2>3. m[<<n, "R">>] \in {Dummy, n + 1} /\ (n = k => m[<<n, "R">>] = Dummy)
    BY <1>5
  <2>4. m[<<n, "L">>] # n /\ m[<<n, "L">>] \in {Dummy} \cup (1 .. k)
    BY <2>1, <2>2
  <2>5. m[<<n, "R">>] # n /\ m[<<n, "R">>] \in {Dummy} \cup (1 .. k)
    BY <2>1, <2>3
  <2> QED  BY <2>4, <2>5 DEF Side
<1>8. \A n \in Node : ~IsDead(m, n)
  <2> TAKE n \in Node
  <2>1. CASE n > k
    BY <2>1, <1>5, Constants DEF IsDead, Side
  <2>2. CASE n \in 1 .. k
    BY <2>2, <1>7 DEF IsDead, Side
  <2>3. n > k \/ n \in 1 .. k
    BY <1>1 DEF Node
  <2> QED  BY <2>1, <2>2, <2>3
<1>9. IsDead(m, Dummy) /\ Public(m, q) = {Dummy} \cup (1 .. k)
  BY <1>3, <1>5, <1>8 DEF IsDead, Public, Side
<1>10. Once(q)
  BY <1>1, <1>2, <1>4 DEF Once, Side
<1>11. \A s \in Side : m[<<This, s>>] \in {Dummy} \cup (1 .. k)
  <2>1. k # 0 => 1 \in 1 .. k /\ k \in 1 .. k
    BY <1>1
  <2> QED  BY <2>1, <1>5 DEF Side
<1>12. EndsMeet(m, q)
  <2>1. CASE k = 0
    BY <2>1, <1>2, <1>5, <1>9 DEF EndsMeet
  <2>2. CASE k # 0
    <3>1. 1 \in 1 .. k /\ k \in 1 .. k /\ k + 1 - 1 = k
      BY <2>2, <1>1
    <3>2. Nth(q, "L", 1) = 1 /\ Nth(q, "R", 1) = k
      BY <3>1, <1>4
    <3>3. m[<<1, "L">>] = Dummy /\ m[<<k, "R">>] = Dummy
      BY <3>1, <1>5
    <3>4. m[<<This, "L">>] = 1 /\ m[<<This, "R">>] = k
      BY <2>2, <1>5
    <3>5. IsDead(m, Dummy)
      BY <1>9
    <3>6. ASSUME NEW s \in Side
          PROVE  m[<<This, s>>] = Nth(q, s, 1) /\ IsDead(m, m[<<Nth(q, s, 1), s>>])
      <4>1. CASE s = "L"
        BY <4>1, <3>2, <3>3, <3>4, <3>5
      <4>2. CASE s = "R"
        BY <4>2, <3>2, <3>3, <3>4, <3>5
      <4> QED  BY <4>1, <4>2 DEF Side
    <3> QED  BY <2>2, <3>6, <1>2 DEF EndsMeet
  <2> QED  BY <2>1, <2>2
<1>13. Chained(m, q)
  <2>1. ASSUME NEW i \in 1 .. k - 1  PROVE m[<<Nth(q, "L", i), "R">>] = Nth(q, "L", i + 1)
    <3>1. i \in 1 .. k /\ i + 1 \in 1 .. k /\ i # k
      BY <1>1
    <3> QED  BY <3>1, <1>4, <1>5
  <2>2. ASSUME NEW i \in 1 .. k - 1  PROVE m[<<Nth(q, "R", i), "L">>] = Nth(q, "R", i + 1)
    <3>1. i \in 1 .. k /\ i + 1 \in 1 .. k /\ k + 1 - i \in 1 .. k /\ k + 1 - i # 1
          /\ (k + 1 - i) - 1 = k + 1 - (i + 1)
      BY <1>1
    <3> QED  BY <3>1, <1>4, <1>5
  <2> QED  BY <2>1, <2>2, <1>2 DEF Chained, Side, Other
<1>14. \A x \in Public(m, q) \cup {This}, s \in Side : m[<<x, s>>] \in Public(m, q)
  BY <1>5, <1>7, <1>9, <1>11
<1>15. Proper(m, q)
  BY <1>3, <1>7, <1>14 DEF Proper
<1>16. Covered(m, m, q)
  BY <1>5, <1>7, <1>9, <1>14 DEF Covered
<1> QED  BY <1>2, <1>6, <1>9, <1>10, <1>12, <1>13, <1>15, <1>16 DEF Shape

LEMMA InitIInv == Init => IInv
<1> SUFFICES ASSUME Init PROVE IInv
  OBVIOUS
<1>1. PICK k \in 0 .. MaxPrefill : mem = Filled(k) /\ items = [i \in 1 .. k |-> i] /\ left \in Share[k]
  BY DEF Init
<1>2. /\ lock = NoThread /\ todo = <<>> /\ NoThread \notin Thread
      /\ call = [t \in Thread |-> <<>>] /\ seen = [t \in Thread |-> <<>>]
      /\ result = [t \in Thread |-> Pending]
  BY McasDequeAssumption DEF Init, M!InitMCAS
<1>3. /\ mem \in [Addr -> Val] /\ items \in Seq(Node)
      /\ Shape(mem, items) /\ Covered(mem, mem, items)
  BY <1>1, FilledShape
<1>4. L!MCASTypeOK /\ L!LockDiscipline
  BY <1>2, <1>3, EmptySeq DEF L!MCASTypeOK, L!LockDiscipline, L!Distinct
<1>5. TypeOK
  <2>1. <<>> \in SeenType
    <3>1. Len(<<>>) \in 0 .. 3 /\ <<>> \in Seq(Pointer)
      OBVIOUS
    <3> QED  BY <3>1, SeenTypes
  <2>2. call \in [Thread -> CallType] /\ seen \in [Thread -> SeenType]
        /\ result \in [Thread -> {Pending, Void, Empty} \cup Node]
    BY <2>1, <1>2 DEF CallType
  <2>3. left \in [Thread -> Nat]
    BY <1>1, McasDequeAssumption
  <2> QED  BY <2>2, <2>3, <1>3, <1>4, Same DEF TypeOK, CallType, SeenType, Pointer
<1>6. Settled = mem /\ Contents = items
  BY <1>2, <1>5, TypeFacts DEF Contents
<1>7. TodoOK
  BY <1>2 DEF TodoOK
<1>8. ASSUME NEW t \in Thread
      PROVE  CallOK(t) /\ SeenOK(t) /\ OwnerOK(t) /\ PrivateOK(t) /\ ~Private(t)
  <2>1. call[t] = <<>> /\ seen[t] = <<>> /\ result[t] = Pending /\ lock # t /\ Len(seen[t]) = 0
    BY <1>2
  <2>2. ~In(t, "push") /\ ~In(t, "pop")
    BY <2>1 DEF In
  <2> QED  BY <2>1, <2>2 DEF CallOK, SeenOK, OwnerOK, PrivateOK, Private
<1> QED  BY <1>3, <1>5, <1>6, <1>7, <1>8 DEF IInv

LEMMA NextIInv == IInv /\ [Next]_vars => IInv' /\ DeadStay
<1> SUFFICES ASSUME IInv, [Next]_vars PROVE IInv' /\ DeadStay
  OBVIOUS
<1>1. ASSUME NEW t \in Thread, NEW m \in Menu, Call(t, m)  PROVE IInv' /\ DeadStay
  <2>1. m[1] \in {"push", "pop"} /\ m[2] \in Side
    BY McasDequeAssumption
  <2>2. CASE m[1] = "push"
    BY <2>1, <2>2, <1>1, CallPushStep DEF Call
  <2>3. CASE m[1] # "push"
    BY <2>1, <2>3, <1>1, CallPopStep DEF Call
  <2> QED  BY <2>2, <2>3
<1>2. CASE UNCHANGED vars
  <2>1. TypeOK' /\ Settled' = Settled /\ Contents' = Contents /\ Known' = Known
    BY <1>2 DEF IInv, vars, TypeOK, M!MCASTypeOK, M!LockDiscipline, Settled, L!Settled,
                Contents, In, SideOf, NewNode, Known
  <2>2. TodoOK' /\ Shape(Settled, Contents)' /\ Covered(mem, Settled, Contents)'
    BY <2>1, <1>2 DEF IInv, vars, TodoOK
  <2>3. ASSUME NEW t \in Thread
        PROVE  /\ CallOK(t)' /\ SeenOK(t)' /\ OwnerOK(t)' /\ PrivateOK(t)'
               /\ (Private(t)' <=> Private(t)) /\ NewNode(t)' = NewNode(t)
    <3>1. Private(t) => NewNode(t) \notin Known'
      BY <2>1 DEF IInv, PrivateOK
    <3> QED  BY <3>1, <2>1, <1>2, Others DEF vars
  <2> QED  BY <2>1, <2>2, <2>3 DEF IInv, DeadStay
<1>3. ASSUME NEW t \in Thread, Step(t)  PROVE IInv' /\ DeadStay
  BY <1>1, <1>3, LoadStep, PopEmptyStep, PushDcasStep, PushStoresStep, PopTcasStep,
     PopStoresStep, RetryStep, ReturnStep DEF Step
<1> QED  BY <1>2, <1>3 DEF Next, Terminated

\* The invariant holds after every step: of all the calls of a push or a pop
\* and of mcas.h (Deque.h:44-125).
THEOREM Invariant == Spec => []IInv
<1> QED  BY InitIInv, NextIInv, PTL DEF Spec

\* Links hold nodes, the dummy or nothing; a worker has loaded at most three
\* pointers and calls nothing but push and pop (Deque.h:44-125).
THEOREM TypeCorrect == Spec => []TypeOK
<1>1. IInv => TypeOK
  BY DEF IInv
<1> QED  BY <1>1, Invariant, PTL

LEMMA IInvLinks == IInv => WellLinked
<1> SUFFICES ASSUME IInv PROVE WellLinked
  OBVIOUS
<1> DEFINE q == Contents
<1>1. TypeOK /\ q \in Seq(Node) /\ Shape(Settled, q)
  BY ContentsType DEF IInv
<1>2. \A x, s : Link(x, s) = Settled[<<x, s>>]
  BY Same DEF Link, Settled
<1>3. \A x : Dead(x) <=> IsDead(Settled, x)
  BY <1>2 DEF Dead, IsDead
<1> HIDE DEF q
<1>4. Len(q) \in Nat /\ (Len(q) = 0 <=> q = <<>>)
  BY <1>1, NthFacts DEF Side
<1>5. ASSUME q = <<>>  PROVE Dead(Link(This, "L")) /\ Dead(Link(This, "R"))
  <2>1. Len(q) = 0
    BY <1>4, <1>5
  <2> QED  BY <2>1, <1>1, <1>2, <1>3 DEF Shape, EndsMeet, Side
<1>6. ASSUME q # <<>>
      PROVE  /\ Link(This, "L") = q[1] /\ Link(This, "R") = q[Len(q)]
             /\ Dead(Link(q[1], "L")) /\ Dead(Link(q[Len(q)], "R"))
  <2>1. Len(q) # 0 /\ Len(q) + 1 - 1 = Len(q)
    BY <1>4, <1>6
  <2>2. Nth(q, "L", 1) = q[1] /\ Nth(q, "R", 1) = q[Len(q)]
    BY <2>1 DEF Nth
  <2>3. \A s \in Side : Settled[<<This, s>>] = Nth(q, s, 1) /\ IsDead(Settled, Settled[<<Nth(q, s, 1), s>>])
    BY <2>1, <1>1 DEF Shape, EndsMeet
  <2> QED  BY <2>2, <2>3, <1>2, <1>3 DEF Side
<1>7. ASSUME NEW i \in 1 .. Len(q) - 1  PROVE Link(q[i], "R") = q[i + 1] /\ Link(q[i + 1], "L") = q[i]
  <2>1. Settled[<<Nth(q, "L", i), "R">>] = Nth(q, "L", i + 1)
    BY <1>1 DEF Shape, Chained, Side, Other
  <2>2. Len(q) - i \in 1 .. Len(q) - 1 /\ Len(q) + 1 - (Len(q) - i) = i + 1
        /\ Len(q) + 1 - ((Len(q) - i) + 1) = i
    BY <1>4
  <2>3. Settled[<<Nth(q, "R", Len(q) - i), "L">>] = Nth(q, "R", (Len(q) - i) + 1)
    BY <2>2, <1>1 DEF Shape, Chained, Side, Other
  <2> QED  BY <2>1, <2>2, <2>3, <1>2 DEF Nth
<1> QED  BY <1>1, <1>5, <1>6, <1>7 DEF WellLinked, q

\* Whatever the interleaving of the loads and of the stores of dcas and tcas,
\* the links agree with the contents: the hats point to the ends, neighbours to
\* each other and the ends outwards to dead nodes (Deque.h:44-125).
THEOREM LinksAgree == Spec => []WellLinked
<1> QED  BY IInvLinks, Invariant, PTL

\* A popped node is never linked in again (the self-links of Deque.h:97-99 and
\* 117-119), so a dcas or tcas that compares pointers is not deceived.
THEOREM DeadStayDead == Spec => DeadForGood
<1>1. IInv /\ [Next]_vars => [\A n \in Node : Dead(n) => Dead(n)']_vars
  <2> SUFFICES ASSUME IInv, [Next]_vars  PROVE \A n \in Node : Dead(n) => Dead(n)'
    OBVIOUS
  <2>1. \A x : Dead(x) <=> IsDead(Settled, x)
    BY Same DEF Link, Dead, IsDead, Settled
  <2>2. \A x : Dead(x)' <=> IsDead(Settled', x)
    BY Same DEF Link, Dead, IsDead, Settled
  <2>3. \A n \in Node : IsDead(Settled, n) => IsDead(Settled', n)
    BY NextIInv DEF DeadStay, Pointer
  <2> QED  BY <2>1, <2>2, <2>3
<1> QED  BY <1>1, Invariant, PTL DEF Spec, DeadForGood

-----------------------------------------------------------------------------
(***************************************************************************)
(* Refinement: a push takes effect with its last store, a pop with its     *)
(* first one, or when it finds the deque empty.                            *)
(***************************************************************************)

\* What the callers are going to be given.
AResult == [t \in Thread |-> IF lock = t /\ In(t, "pop") THEN seen[t][1] ELSE result[t]]

\* Outside the lock that is the result the worker has.
LEMMA AResultIs ==
  ASSUME NEW t \in Thread
  PROVE  /\ lock # t => AResult[t] = result[t]
         /\ In(t, "push") => AResult[t] = result[t]
         /\ lock = t /\ In(t, "pop") => AResult[t] = seen[t][1]
BY DEF AResult, In

\* A step of t leaves the other workers' results alone.
LEMMA AResultOthers ==
  ASSUME NEW t \in Thread, lock' = lock \/ (lock \in {t, NoThread} /\ lock' \in {t, NoThread}),
         \A u \in Thread : u # t => call'[u] = call[u] /\ seen'[u] = seen[u] /\ result'[u] = result[u]
  PROVE  \A u \in Thread : u # t => AResult'[u] = AResult[u]
<1> SUFFICES ASSUME NEW u \in Thread, u # t PROVE AResult'[u] = AResult[u]
  OBVIOUS
<1>1. (lock' = u <=> lock = u) /\ (In(u, "pop")' <=> In(u, "pop"))
  BY McasDequeAssumption DEF In
<1> QED  BY <1>1 DEF AResult

\* A change of the result of t alone.
LEMMA AResultSet ==
  ASSUME NEW t \in Thread, NEW x, AResult'[t] = x, \A u \in Thread : u # t => AResult'[u] = AResult[u]
  PROVE  AResult' = [AResult EXCEPT ![t] = x]
BY DEF AResult

LEMMA RefineInit == Init => Abstract!Init
<1> SUFFICES ASSUME Init PROVE Abstract!Init
  OBVIOUS
<1>1. lock = NoThread /\ result = [t \in Thread |-> Pending]
  BY DEF Init, M!InitMCAS
<1>2. AResult = [t \in Thread |-> Pending]
  BY <1>1, McasDequeAssumption DEF AResult
<1>3. PICK k \in 0 .. MaxPrefill : items = [i \in 1 .. k |-> i] /\ left \in Share[k]
  BY DEF Init
<1>4. left \in UNION {Share[i] : i \in 0 .. MaxPrefill}
  BY <1>3
<1> QED  BY <1>2, <1>3, <1>4 DEF Init, Abstract!Init, AResult

LEMMA RefineCall ==
  ASSUME IInv, NEW t \in Thread, NEW m \in Menu, Call(t, m)
  PROVE  Abstract!Next
<1>1. TypeOK /\ CallOK(t) /\ OwnerOK(t) /\ m[1] \in {"push", "pop"} /\ m[2] \in Side
  BY McasDequeAssumption DEF IInv
<1>2. /\ left[t] > 0 /\ call[t] = <<>> /\ UNCHANGED <<seen, result, left, items>>
      /\ lock' = lock /\ \E e \in Node \cup {Null} : call' = [call EXCEPT ![t] = <<m[1], m[2], e>>]
  <2>1. CASE m[1] = "push"
    <3> DEFINE n == CHOOSE k \in Unused : \A l \in Unused : k <= l
    <3>1. Unused # {} /\ lock' = lock /\ call' = [call EXCEPT ![t] = <<"push", m[2], n>>]
      BY <2>1 DEF Call, CallPush
    <3>2. n \in Node
      BY <3>1, Allocated DEF IInv
    <3> HIDE DEF n
    <3> QED  BY <2>1, <3>1, <3>2 DEF Call
  <2>2. CASE m[1] = "pop"
    BY <2>2 DEF Call, CallPop, M!NoStore
  <2> QED  BY <1>1, <2>1, <2>2
<1>3. lock # t
  BY <1>1, <1>2 DEF OwnerOK, In
<1>4. AResult' = AResult
  <2>1. call \in [Thread -> CallType]
    BY <1>1, TypeFacts
  <2>2. \A u \in Thread : u # t => call'[u] = call[u]
    BY <1>2, <2>1
  <2>3. \A u \in Thread : u # t => AResult'[u] = AResult[u]
    BY <1>2, <2>2, AResultOthers
  <2>4. AResult'[t] = AResult[t]
    BY <1>2, <1>3 DEF AResult
  <2> QED  BY <2>3, <2>4 DEF AResult
<1>5. PICK e \in Node \cup {Null} : Abstract!Invoke(t, m, e)
  BY <1>2, <1>4 DEF Abstract!Invoke, AResult
<1> QED  BY <1>5 DEF Abstract!Next

\* A step that changes no result its caller could see.
LEMMA RefineStutter ==
  ASSUME NEW t \in Thread, UNCHANGED <<call, left, items>>, lock' = lock,
         result' = result, In(t, "push") \/ lock # t,
         \A u \in Thread : u # t => seen'[u] = seen[u]
  PROVE  UNCHANGED <<items, call, AResult, left>>
<1>1. \A u \in Thread : u # t => AResult'[u] = AResult[u]
  BY AResultOthers
<1>2. AResult'[t] = AResult[t]
  BY DEF AResult, In
<1> QED  BY <1>1, <1>2 DEF AResult

\* A push that makes its last store.
LEMMA RefinePush ==
  ASSUME NEW t \in Thread, In(t, "push"), PushAdvance(t), UNCHANGED <<call, seen, left>>,
         TypeOK, lock \in {t, NoThread}, lock' \in {t, NoThread}
  PROVE  Abstract!Next \/ UNCHANGED <<items, call, AResult, left>>
<1>1. result \in [Thread -> {Pending, Void, Empty} \cup Node]
  BY TypeFacts
<1>2. CASE lock' = NoThread
  <2>1. /\ result' = [result EXCEPT ![t] = Void]
        /\ items' = Abstract!Pushed(items, call[t][2], call[t][3])
    BY <1>2 DEF PushAdvance, M!Returns, Abstract!Pushed, SideOf, NewNode
  <2>2. \A u \in Thread : u # t => AResult'[u] = AResult[u]
    BY <1>1, <2>1, AResultOthers
  <2>3. AResult'[t] = Void
    BY <1>1, <1>2, <2>1, McasDequeAssumption DEF AResult
  <2>4. AResult' = [AResult EXCEPT ![t] = Void]
    BY <2>2, <2>3, AResultSet
  <2>5. Abstract!Begun(t, "push")
    BY AResultIs DEF Abstract!Begun, In, AResult
  <2>6. Abstract!Push(t)
    BY <2>1, <2>4, <2>5 DEF Abstract!Push, AResult
  <2> QED  BY <2>6 DEF Abstract!Next
<1>3. CASE lock' # NoThread
  <2>1. result' = result /\ items' = items
    BY <1>3 DEF PushAdvance, M!Returns
  <2>2. \A u \in Thread : u # t => AResult'[u] = AResult[u]
    BY <2>1, AResultOthers
  <2>3. AResult'[t] = AResult[t]
    BY <2>1 DEF AResult, In
  <2> QED  BY <2>1, <2>2, <2>3 DEF AResult
<1> QED  BY <1>2, <1>3

LEMMA RefineTcas ==
  ASSUME IInv, NEW t \in Thread, PopTcas(t)
  PROVE  Abstract!Next
<1>1. /\ TypeOK /\ In(t, "pop") /\ UNCHANGED <<call, seen, left>>
      /\ lock' \in {t, NoThread}
      /\ result' = IF lock' = NoThread THEN [result EXCEPT ![t] = seen[t][1]] ELSE result
  BY DEF IInv, PopTcas, PopAdvance, M!Returns, M!Succeed, M!Store, M!StoreAll, M!StoreFirst
<1>2. /\ lock = NoThread /\ items # <<>> /\ seen[t][1] = Abstract!End(items, SideOf(t))
      /\ items' = Abstract!Popped(items, SideOf(t))
  BY PopTcasStep
<1>3. result \in [Thread -> {Pending, Void, Empty} \cup Node]
  BY <1>1, TypeFacts
<1>4. \A u \in Thread : u # t => AResult'[u] = AResult[u]
  BY <1>1, <1>2, <1>3, AResultOthers
<1>5. AResult'[t] = seen[t][1]
  BY <1>1, <1>3, McasDequeAssumption DEF AResult, In
<1>6. AResult' = [AResult EXCEPT ![t] = Abstract!End(items, call[t][2])]
  BY <1>2, <1>4, <1>5, AResultSet DEF SideOf
<1>7. Abstract!Begun(t, "pop")
  BY <1>1, <1>2, AResultIs, McasDequeAssumption DEF Abstract!Begun, In, AResult
<1>8. Abstract!Pop(t)
  BY <1>1, <1>2, <1>6, <1>7 DEF Abstract!Pop, AResult, SideOf
<1> QED  BY <1>8 DEF Abstract!Next

\* The later stores of a pop change nothing its caller sees.
LEMMA RefinePopStores ==
  ASSUME IInv, NEW t \in Thread, PopStores(t)
  PROVE  UNCHANGED <<items, call, AResult, left>>
<1>1. /\ TypeOK /\ In(t, "pop") /\ UNCHANGED <<call, seen, left, items>>
      /\ lock' \in {t, NoThread}
      /\ result' = IF lock' = NoThread THEN [result EXCEPT ![t] = seen[t][1]] ELSE result
  BY PopStoresStep, StoresEffect DEF IInv, PopStores, PopAdvance, M!Returns
<1>2. lock = t /\ result \in [Thread -> {Pending, Void, Empty} \cup Node]
  BY <1>1, PopStoresStep, TypeFacts
<1>3. \A u \in Thread : u # t => AResult'[u] = AResult[u]
  BY <1>1, <1>2, AResultOthers
<1>4. AResult'[t] = AResult[t]
  BY <1>1, <1>2, McasDequeAssumption DEF AResult, In
<1> QED  BY <1>1, <1>3, <1>4 DEF AResult

LEMMA RefinePopEmpty ==
  ASSUME IInv, NEW t \in Thread, PopEmpty(t)
  PROVE  Abstract!Next \/ UNCHANGED <<items, call, AResult, left>>
<1>1. /\ TypeOK /\ In(t, "pop") /\ UNCHANGED <<call, left, items>> /\ lock' = lock
      /\ (result' = [result EXCEPT ![t] = Empty] /\ UNCHANGED seen)
         \/ (seen' = [seen EXCEPT ![t] = <<>>] /\ UNCHANGED result)
  BY DEF IInv, PopEmpty, M!NoStore
<1>2. /\ lock # t
      /\ \/ result' = [result EXCEPT ![t] = Empty] /\ items = <<>>
         \/ result' = result
  BY PopEmptyStep
<1>3. /\ result \in [Thread -> {Pending, Void, Empty} \cup Node] /\ seen \in [Thread -> SeenType]
  BY <1>1, TypeFacts
<1>4. \A u \in Thread : u # t => AResult'[u] = AResult[u]
  BY <1>1, <1>3, AResultOthers
<1>5. AResult[t] = result[t] /\ AResult'[t] = result'[t]
  BY <1>1, <1>2 DEF AResult
<1>6. CASE result' = result
  BY <1>1, <1>4, <1>5, <1>6 DEF AResult
<1>7. CASE result' = [result EXCEPT ![t] = Empty] /\ items = <<>>
  <2>1. AResult'[t] = Empty
    BY <1>3, <1>5, <1>7
  <2>2. AResult' = [AResult EXCEPT ![t] = Empty]
    BY <1>4, <2>1, AResultSet
  <2>3. Abstract!Begun(t, "pop")
    BY <1>1, <1>5 DEF Abstract!Begun, In, AResult
  <2>4. Abstract!PopEmpty(t)
    BY <1>1, <1>7, <2>2, <2>3 DEF Abstract!PopEmpty, AResult
  <2> QED  BY <2>4 DEF Abstract!Next
<1> QED  BY <1>2, <1>6, <1>7

LEMMA RefineReturn ==
  ASSUME IInv, NEW t \in Thread, Return(t)
  PROVE  Abstract!Next
<1>1. /\ TypeOK /\ OwnerOK(t) /\ result[t] # Pending /\ lock' = lock /\ items' = items
      /\ call' = [call EXCEPT ![t] = <<>>] /\ seen' = [seen EXCEPT ![t] = <<>>]
      /\ result' = [result EXCEPT ![t] = Pending] /\ left' = [left EXCEPT ![t] = @ - 1]
  BY DEF IInv, Return, M!NoStore
<1>2. lock # t
  BY <1>1 DEF OwnerOK, In
<1>3. /\ result \in [Thread -> {Pending, Void, Empty} \cup Node] /\ seen \in [Thread -> SeenType]
      /\ call \in [Thread -> CallType]
  BY <1>1, TypeFacts
<1>4. \A u \in Thread : u # t => AResult'[u] = AResult[u]
  BY <1>1, <1>3, AResultOthers
<1>5. AResult[t] = result[t] /\ AResult'[t] = Pending
  BY <1>1, <1>2, <1>3 DEF AResult
<1>6. AResult' = [AResult EXCEPT ![t] = Pending]
  BY <1>4, <1>5, AResultSet
<1>7. Abstract!Return(t)
  BY <1>1, <1>5, <1>6 DEF Abstract!Return, AResult
<1> QED  BY <1>7 DEF Abstract!Next

LEMMA RefineNext == IInv /\ [Next]_vars => [Abstract!Next]_(Abstract!vars)
<1> SUFFICES ASSUME IInv, [Next]_vars
             PROVE  Abstract!Next \/ UNCHANGED <<items, call, AResult, left>>
  BY DEF Abstract!vars, AResult
<1>1. ASSUME NEW t \in Thread, NEW m \in Menu, Call(t, m)  PROVE Abstract!Next
  BY <1>1, RefineCall
<1>2. ASSUME NEW t \in Thread, Load(t)  PROVE UNCHANGED <<items, call, AResult, left>>
  <2>1. seen \in [Thread -> SeenType] /\ OwnerOK(t)
    BY TypeFacts DEF IInv
  <2>2. lock' = lock /\ \A u \in Thread : u # t => seen'[u] = seen[u]
    BY <1>2, <2>1 DEF Load, M!NoStore
  <2> QED  BY <1>2, <2>1, <2>2, RefineStutter DEF Load, OwnerOK
<1>3. ASSUME NEW t \in Thread, PushDcas(t)
      PROVE  Abstract!Next \/ UNCHANGED <<items, call, AResult, left>>
  <2>1. lock = NoThread /\ lock' \in {t, NoThread}
    BY <1>3, PushDcasStep DEF PushDcas, M!Succeed, M!Store, M!StoreAll, M!StoreFirst
  <2> QED  BY <1>3, <2>1, RefinePush DEF PushDcas, IInv
<1>4. ASSUME NEW t \in Thread, PushStores(t)
      PROVE  Abstract!Next \/ UNCHANGED <<items, call, AResult, left>>
  <2>1. lock = t /\ lock' \in {t, NoThread}
    BY <1>4, PushStoresStep, StoresEffect DEF PushStores
  <2> QED  BY <1>4, <2>1, RefinePush DEF PushStores, IInv
<1>5. ASSUME NEW t \in Thread, Retry(t)  PROVE UNCHANGED <<items, call, AResult, left>>
  <2>1. seen \in [Thread -> SeenType]
    BY TypeFacts DEF IInv
  <2>2. lock = NoThread /\ lock' = lock /\ \A u \in Thread : u # t => seen'[u] = seen[u]
    BY <1>5, <2>1 DEF Retry, M!Fail, M!NoStore
  <2> QED  BY <1>5, <2>1, <2>2, RefineStutter, McasDequeAssumption DEF Retry
<1>6. CASE UNCHANGED vars
  BY <1>6 DEF vars, AResult, In
<1>7. ASSUME NEW t \in Thread, Step(t)
      PROVE  Abstract!Next \/ UNCHANGED <<items, call, AResult, left>>
  BY <1>1, <1>2, <1>3, <1>4, <1>5, <1>7, RefineTcas, RefinePopStores, RefinePopEmpty, RefineReturn DEF Step
<1> QED  BY <1>6, <1>7 DEF Next, Terminated

\* The deque is linearizable: every push_front, push_back, pop_front and
\* pop_back takes effect at one instant between its call and its return, a pop
\* returns the element at its end, and -1 only from an empty deque
\* (Deque.h:44-125), whatever the interleaving of the loads and the stores.
THEOREM DequeIsLinearizable == Spec => Linearizable
<1>1. Init /\ []IInv /\ [][Next]_vars => Linearizable
  BY RefineInit, RefineNext, PTL DEF Linearizable, Abstract!Spec
<1> QED  BY <1>1, Invariant, PTL DEF Spec
=============================================================================
