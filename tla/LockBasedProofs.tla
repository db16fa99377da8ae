--------------------------- MODULE LockBasedProofs ---------------------------
(***************************************************************************)
(* Proofs about LockBased, for any workers, calls, elements and number of  *)
(* nodes.  The deque under one mutex, and the queue and the stack made of  *)
(* it, return what they should until a call uses a deleted node, and the   *)
(* stack never does.  The sorted list and the hash map hold what the calls *)
(* put in and did not take out, and answer with it; the search tree stays  *)
(* one, with no value too often, and finds its ends.                       *)
(***************************************************************************)
EXTENDS LockBased, TLAPS, SequenceTheorems, FiniteSetTheorems, WellFoundedInduction

Side == {"front", "back"}
Other(s) == IF s = "front" THEN "back" ELSE "front"

Pointer == {head, tail, Null} \cup D!Node
Mem == [link : [D!Link -> Pointer], data : [D!Node -> Key \cup {0}], freed : SUBSET D!Node]

\* The i-th of the elements q, counted from the side s.
Item(q, s, i) == IF s = "front" THEN q[i] ELSE q[Len(q) + 1 - i]

\* From the side s, the places lo and hi hold the sentinels and those between
\* them the nodes with the elements q.  Neighbours are linked both ways, but
\* the links of the outermost nodes may lead to nodes that have been deleted;
\* closed says that the links away from s end at the sentinel.
Whole(m, q, s, closed, lo, hi, p) ==
  /\ lo < hi /\ hi - lo = Len(q) + 1
  /\ p[lo] = D!Sentinel(s) /\ p[hi] = D!Opposite(s)
  /\ \A i \in lo + 1 .. hi - 1 : /\ p[i] \in D!Node /\ p[i] \notin m.freed
                                 /\ m.data[p[i]] = Item(q, s, i - lo)
  /\ \A i, j \in lo + 1 .. hi - 1 : p[i] = p[j] => i = j
  /\ \A i \in lo .. hi - 2 : m.link[<<p[i], D!Inward(s)>>] = p[i + 1]
  /\ \A i \in lo + 2 .. hi : m.link[<<p[i], D!Outward(s)>>] = p[i - 1]
  /\ m.link[<<p[hi - 1], D!Inward(s)>>] \in {D!Opposite(s)} \cup m.freed
  /\ m.link[<<p[lo + 1], D!Outward(s)>>] \in {D!Sentinel(s)} \cup m.freed
  /\ closed => m.link[<<p[hi - 1], D!Inward(s)>>] = D!Opposite(s)

\* The deque m holds the elements q.
Holds(m, q, s, closed) ==
  /\ m \in Mem /\ q \in Seq(Key)
  /\ \A n \in m.freed : m.data[n] # 0
  /\ \E lo \in Int, hi \in Int, p \in [Int -> Pointer] : Whole(m, q, s, closed, lo, hi, p)

\* The calls that are left, and the nodes that have not been allocated.
Budget(l) == {c \in Thread \X (1 .. Ops) : c[2] <= l[c[1]]}
Unused(data) == {n \in D!Node : data[n] = 0}

IsDeque == chosen \in {"stack", "queue", "deque"}

DequeOK ==
  /\ Holds(mem, items, "front", chosen = "stack")
  /\ last[1] = last[2]
  /\ Cardinality(Budget(left)) <= Cardinality(Unused(mem.data))

-----------------------------------------------------------------------------
(***************************************************************************)
(* The ends and the elements.                                              *)
(***************************************************************************)

LEMMA Sides ==
  ASSUME NEW s \in Side
  PROVE  /\ Other(s) \in Side /\ D!Inward(s) # D!Outward(s)
         /\ D!Inward(Other(s)) = D!Outward(s) /\ D!Outward(Other(s)) = D!Inward(s)
         /\ D!Sentinel(Other(s)) = D!Opposite(s) /\ D!Opposite(Other(s)) = D!Sentinel(s)
BY DEF Side, Other, D!Inward, D!Outward, D!Sentinel, D!Opposite

LEMMA Ends ==
  ASSUME NEW s \in Side
  PROVE  /\ D!Sentinel(s) # D!Opposite(s)
         /\ D!Sentinel(s) \in Pointer \ D!Node /\ D!Opposite(s) \in Pointer \ D!Node
         /\ D!Node \subseteq Pointer
         /\ \A n \in {D!Sentinel(s), D!Opposite(s)} \cup D!Node :
              /\ <<n, D!Inward(s)>> \in D!Link /\ <<n, D!Outward(s)>> \in D!Link
BY LockBasedAssumption
   DEF Side, Pointer, D!Inward, D!Outward, D!Sentinel, D!Opposite, D!Node, D!Link

\* r are the elements q with d put at the side s.
Longer(q, s, d, r) ==
  /\ r \in Seq(Key) /\ Len(r) = Len(q) + 1 /\ Item(r, s, 1) = d
  /\ \A i \in 1 .. Len(q) : Item(r, s, i + 1) = Item(q, s, i)

LEMMA LongerFacts ==
  ASSUME NEW q \in Seq(Key), NEW s \in Side, NEW d \in Key
  PROVE  Longer(q, s, d, IF s = "front" THEN <<d>> \o q ELSE Append(q, d))
<1> DEFINE r == IF s = "front" THEN <<d>> \o q ELSE Append(q, d)
<1> SUFFICES Longer(q, s, d, r)
  OBVIOUS
<1>1. Len(q) \in Nat
  BY LenProperties
<1>2. CASE s = "front"
  <2>1. r = <<d>> \o q /\ <<d>> \in Seq(Key) /\ Len(<<d>>) = 1 /\ <<d>>[1] = d
    BY <1>2
  <2> HIDE DEF r
  <2>2. /\ r \in Seq(Key) /\ Len(r) = Len(q) + 1 /\ r[1] = d
        /\ \A i \in 1 .. Len(q) : r[i + 1] = q[i]
    <3>1. /\ r \in Seq(Key) /\ Len(r) = 1 + Len(q)
          /\ \A i \in 1 .. 1 + Len(q) : r[i] = IF i <= 1 THEN <<d>>[i] ELSE q[i - 1]
      BY <2>1, ConcatProperties
    <3> QED  BY <3>1, <2>1, <1>1
  <2> QED  BY <1>2, <2>2 DEF Longer, Item
<1>3. CASE s = "back"
  <2>1. /\ r \in Seq(Key) /\ Len(r) = Len(q) + 1 /\ r[Len(q) + 1] = d
        /\ \A i \in 1 .. Len(q) : r[i] = q[i]
    BY <1>3, AppendProperties
  <2> HIDE DEF r
  <2>2. Len(r) + 1 - 1 = Len(q) + 1
    BY <2>1, <1>1
  <2>3. \A i \in 1 .. Len(q) : Len(r) + 1 - (i + 1) = Len(q) + 1 - i /\ Len(q) + 1 - i \in 1 .. Len(q)
    <3>1. PICK k \in Nat : k = Len(q) /\ Len(r) = k + 1
      BY <2>1, <1>1
    <3>2. \A i \in 1 .. k : k + 1 + 1 - (i + 1) = k + 1 - i /\ k + 1 - i \in 1 .. k
      OBVIOUS
    <3> QED  BY <3>1, <3>2
  <2> QED  BY <1>3, <2>1, <2>2, <2>3 DEF Longer, Item
<1> QED  BY <1>2, <1>3 DEF Side

\* r are the elements q without the one at the side s.
Shorter(q, s, r) ==
  /\ r \in Seq(Key) /\ Len(r) = Len(q) - 1
  /\ \A i \in 1 .. Len(r) : Item(r, s, i) = Item(q, s, i + 1)

LEMMA ShorterFacts ==
  ASSUME NEW q \in Seq(Key), NEW s \in Side, q # <<>>
  PROVE  Shorter(q, s, IF s = "front" THEN Tail(q) ELSE SubSeq(q, 1, Len(q) - 1))
<1> DEFINE r == IF s = "front" THEN Tail(q) ELSE SubSeq(q, 1, Len(q) - 1)
<1> SUFFICES Shorter(q, s, r)
  OBVIOUS
<1>1. Len(q) \in Nat \ {0} /\ \A i \in 1 .. Len(q) : q[i] \in Key
  BY EmptySeq, ElementOfSeq
<1>2. CASE s = "front"
  <2>1. /\ r \in Seq(Key) /\ Len(r) = Len(q) - 1
        /\ \A i \in 1 .. Len(r) : r[i] = q[i + 1]
    BY <1>2, HeadTailProperties
  <2> HIDE DEF r
  <2> QED  BY <1>2, <2>1 DEF Shorter, Item
<1>3. CASE s = "back"
  <2>1. PICK k : k = Len(q)
    OBVIOUS
  <2>2. k \in Int /\ k - 1 \in Int /\ \A i \in 1 .. k - 1 : q[i] \in Key
    BY <2>1, <1>1
  <2>3. r = SubSeq(q, 1, k - 1)
    BY <1>3, <2>1
  <2> HIDE DEF r
  <2>4. /\ r \in Seq(Key) /\ Len(r) = (IF 1 <= k - 1 THEN k - 1 - 1 + 1 ELSE 0)
        /\ \A i \in 1 .. k - 1 - 1 + 1 : r[i] = q[1 + i - 1]
    BY <2>2, <2>3, SubSeqProperties
  <2>5. Len(r) = k - 1
    BY <2>1, <2>2, <2>4, <1>1
  <2>6. \A i \in 1 .. Len(r) : Len(r) + 1 - i \in 1 .. k - 1 /\ k + 1 - (i + 1) = Len(r) + 1 - i
    BY <2>2, <2>5
  <2>7. \A i \in 1 .. k - 1 : r[i] = q[i]
    <3> TAKE i \in 1 .. k - 1
    <3>1. i \in 1 .. k - 1 - 1 + 1 /\ 1 + i - 1 = i
      BY <2>2
    <3> QED  BY <3>1, <2>4
  <2> QED  BY <1>3, <2>1, <2>4, <2>5, <2>6, <2>7 DEF Shorter, Item
<1> QED  BY <1>2, <1>3 DEF Side

-----------------------------------------------------------------------------
(***************************************************************************)
(* The shape of the deque.                                                 *)
(***************************************************************************)

\* A deque that is open at both ends can be read from either side.
LEMMA Turn ==
  ASSUME NEW m, NEW q, NEW s \in Side, Holds(m, q, s, FALSE)
  PROVE  Holds(m, q, Other(s), FALSE)
<1>1. PICK lo \in Int, hi \in Int, p \in [Int -> Pointer] : Whole(m, q, s, FALSE, lo, hi, p)
  BY DEF Holds
<1>2. PICK k \in Nat : k = Len(q)
  BY LenProperties DEF Holds
<1> DEFINE r == [i \in Int |-> p[-i]]
<1>3. r \in [Int -> Pointer] /\ \A i \in Int : r[i] = p[-i]
  OBVIOUS
<1> HIDE DEF r
<1>4. lo < hi /\ hi - lo = k + 1 /\ -lo - -hi = k + 1 /\ -hi < -lo
  BY <1>1, <1>2 DEF Whole
<1>5. r[-hi] = D!Sentinel(Other(s)) /\ r[-lo] = D!Opposite(Other(s))
  <2>1. - -hi = hi /\ - -lo = lo /\ -hi \in Int /\ -lo \in Int
    OBVIOUS
  <2> QED  BY <2>1, <1>1, <1>3, Sides DEF Whole
<1>6. \A i \in -hi + 1 .. -lo - 1 : /\ r[i] \in D!Node /\ r[i] \notin m.freed
                                    /\ m.data[r[i]] = Item(q, Other(s), i - -hi)
  <2> TAKE i \in -hi + 1 .. -lo - 1
  <2>1. -i \in lo + 1 .. hi - 1 /\ i \in Int
    BY <1>4
  <2>2. k + 1 - (-i - lo) = i - -hi /\ k + 1 - (i - -hi) = -i - lo
    BY <1>4, <2>1
  <2>3. Item(q, Other(s), i - -hi) = Item(q, s, -i - lo)
    BY <2>2, <1>2 DEF Item, Other, Side
  <2>4. r[i] = p[-i]
    BY <2>1, <1>3
  <2> QED  BY <2>1, <2>3, <2>4, <1>1 DEF Whole
<1>7. ASSUME NEW i \in -hi + 1 .. -lo - 1, NEW j \in -hi + 1 .. -lo - 1, r[i] = r[j]
      PROVE  i = j
  <2>1. /\ -i \in lo + 1 .. hi - 1 /\ -j \in lo + 1 .. hi - 1
        /\ i \in Int /\ j \in Int /\ (-i = -j => i = j)
    BY <1>4
  <2>2. p[-i] = p[-j]
    BY <2>1, <1>3, <1>7
  <2> QED  BY <2>1, <2>2, <1>1 DEF Whole
<1>8. \A i \in -hi .. -lo - 2 : m.link[<<r[i], D!Inward(Other(s))>>] = r[i + 1]
  <2> TAKE i \in -hi .. -lo - 2
  <2>1. -i \in lo + 2 .. hi /\ -(i + 1) = -i - 1 /\ i \in Int /\ i + 1 \in Int
    BY <1>4
  <2>2. r[i] = p[-i] /\ r[i + 1] = p[-i - 1]
    BY <2>1, <1>3
  <2> QED  BY <2>1, <2>2, <1>1, Sides DEF Whole
<1>9. \A i \in -hi + 2 .. -lo : m.link[<<r[i], D!Outward(Other(s))>>] = r[i - 1]
  <2> TAKE i \in -hi + 2 .. -lo
  <2>1. -i \in lo .. hi - 2 /\ -(i - 1) = -i + 1 /\ i \in Int /\ i - 1 \in Int
    BY <1>4
  <2>2. r[i] = p[-i] /\ r[i - 1] = p[-i + 1]
    BY <2>1, <1>3
  <2> QED  BY <2>1, <2>2, <1>1, Sides DEF Whole
<1>10. r[-lo - 1] = p[lo + 1] /\ r[-hi + 1] = p[hi - 1]
  <2>1. -(-lo - 1) = lo + 1 /\ -(-hi + 1) = hi - 1 /\ -lo - 1 \in Int /\ -hi + 1 \in Int
    OBVIOUS
  <2> QED  BY <2>1, <1>3
<1>11. /\ m.link[<<r[-lo - 1], D!Inward(Other(s))>>] \in {D!Opposite(Other(s))} \cup m.freed
       /\ m.link[<<r[-hi + 1], D!Outward(Other(s))>>] \in {D!Sentinel(Other(s))} \cup m.freed
  BY <1>1, <1>10, Sides DEF Whole
<1>12. Whole(m, q, Other(s), FALSE, -hi, -lo, r)
  BY <1>2, <1>4, <1>5, <1>6, <1>7, <1>8, <1>9, <1>11 DEF Whole
<1>13. -hi \in Int /\ -lo \in Int
  OBVIOUS
<1>14. \E x \in Int, y \in Int, z \in [Int -> Pointer] : Whole(m, q, Other(s), FALSE, x, y, z)
  BY <1>3, <1>12, <1>13
<1> QED  BY <1>14 DEF Holds

\* What the sentinel at the side s leads to: the element there, or else the
\* other sentinel or a deleted node.
LEMMA First ==
  ASSUME NEW m \in Mem, NEW q \in Seq(Key), NEW s \in Side, NEW closed \in BOOLEAN,
         NEW lo \in Int, NEW hi \in Int, NEW p, Whole(m, q, s, closed, lo, hi, p),
         NEW o, o = m.link[<<D!Sentinel(s), D!Inward(s)>>]
  PROVE  /\ closed => o \notin m.freed
         /\ Len(q) = 0 => hi = lo + 1 /\ (o \notin m.freed => o = D!Opposite(s))
         /\ Len(q) # 0 => /\ lo + 1 \in lo + 1 .. hi - 1 /\ lo \in lo .. hi - 2
                          /\ o = p[lo + 1] /\ o \in D!Node /\ o \notin m.freed
                          /\ m.data[o] = Item(q, s, 1)
<1>1. PICK k \in Nat : k = Len(q)
  BY LenProperties
<1>2. lo < hi /\ hi - lo = k + 1 /\ p[lo] = D!Sentinel(s) /\ m.freed \subseteq D!Node
  BY <1>1 DEF Whole, Mem
<1>3. CASE k = 0
  <2>1. hi = lo + 1 /\ hi - 1 = lo
    BY <1>2, <1>3
  <2>2. o \in {D!Opposite(s)} \cup m.freed /\ (closed => o = D!Opposite(s))
    BY <2>1, <1>2 DEF Whole
  <2> QED  BY <2>1, <2>2, <1>1, <1>2, <1>3, Ends
<1>4. CASE k # 0
  <2>1. lo + 1 \in lo + 1 .. hi - 1 /\ lo \in lo .. hi - 2 /\ (lo + 1) - lo = 1
    BY <1>2, <1>4
  <2>2. o = p[lo + 1]
    BY <2>1, <1>2 DEF Whole
  <2>3. p[lo + 1] \in D!Node /\ p[lo + 1] \notin m.freed /\ m.data[p[lo + 1]] = Item(q, s, 1)
    BY <2>1 DEF Whole
  <2> QED  BY <2>1, <2>2, <2>3, <1>1, <1>4
<1> QED  BY <1>3, <1>4

\* What the assignments of a push at s make of m.
Pushes(m, w, s, o, n, d) ==
  /\ w.data = [m.data EXCEPT ![n] = d] /\ w.freed = m.freed
  /\ w.link = [m.link EXCEPT ![<<n, D!Inward(s)>>] = o, ![<<n, D!Outward(s)>>] = D!Sentinel(s),
                             ![<<o, D!Outward(s)>>] = n, ![<<D!Sentinel(s), D!Inward(s)>>] = n]
  /\ w = [link |-> w.link, data |-> w.data, freed |-> w.freed]

\* A push at s whose old end has not been deleted adds its element.
LEMMA PushWhole ==
  ASSUME NEW m \in Mem, NEW q \in Seq(Key), NEW s \in Side, NEW closed \in BOOLEAN,
         \A x \in m.freed : m.data[x] # 0,
         NEW lo \in Int, NEW hi \in Int, NEW p \in [Int -> Pointer], Whole(m, q, s, closed, lo, hi, p),
         NEW e, e = D!Sentinel(s), NEW o, o = m.link[<<e, D!Inward(s)>>], o \notin m.freed,
         NEW n \in D!Node, m.data[n] = 0, NEW d \in Key, NEW r, Longer(q, s, d, r),
         NEW w, Pushes(m, w, s, o, n, d)
  PROVE  Holds(w, r, s, closed)
<1> DEFINE f == D!Inward(s)
           b == D!Outward(s)
<1>1. PICK k \in Nat : k = Len(q)
  BY LenProperties
<1>2. /\ lo < hi /\ hi - lo = k + 1 /\ p[lo] = e /\ p[hi] = D!Opposite(s)
      /\ k = 0 => hi = lo + 1 /\ o = D!Opposite(s)
      /\ k # 0 => /\ lo + 1 \in lo + 1 .. hi - 1 /\ lo \in lo .. hi - 2
                  /\ o = p[lo + 1] /\ o \in D!Node /\ m.data[o] = Item(q, s, 1)
  <2>1. lo < hi /\ hi - lo = k + 1 /\ p[lo] = e /\ p[hi] = D!Opposite(s)
    BY <1>1 DEF Whole
  <2>2. /\ Len(q) = 0 => hi = lo + 1 /\ (o \notin m.freed => o = D!Opposite(s))
        /\ Len(q) # 0 => /\ lo + 1 \in lo + 1 .. hi - 1 /\ lo \in lo .. hi - 2
                         /\ o = p[lo + 1] /\ o \in D!Node /\ o \notin m.freed
                         /\ m.data[o] = Item(q, s, 1)
    BY First
  <2> QED  BY <2>1, <2>2, <1>1
<1>3. o = p[lo + 1]
  BY <1>2
<1>4. \A i \in lo + 1 .. hi - 1 : /\ p[i] \in D!Node /\ p[i] \notin m.freed /\ p[i] # n /\ p[i] # e
                                  /\ m.data[p[i]] = Item(q, s, i - lo)
  <2> TAKE i \in lo + 1 .. hi - 1
  <2>1. p[i] \in D!Node /\ p[i] \notin m.freed /\ m.data[p[i]] = Item(q, s, i - lo)
    BY DEF Whole
  <2>2. i - lo \in 1 .. Len(q) /\ Len(q) + 1 - (i - lo) \in 1 .. Len(q)
    BY <1>1, <1>2
  <2>3. Item(q, s, i - lo) \in Key
    BY <2>2, ElementOfSeq DEF Item
  <2> QED  BY <2>1, <2>3, Ends, LockBasedAssumption
<1>5. /\ e \in Pointer \ D!Node /\ o # e /\ o # n /\ n # e /\ f # b
      /\ <<n, f>> \in D!Link /\ <<n, b>> \in D!Link /\ <<e, f>> \in D!Link /\ <<o, b>> \in D!Link
      /\ n \in Pointer /\ o \in Pointer /\ d # 0
  <2>1. o = D!Opposite(s) \/ (o \in D!Node /\ o # n)
    BY <1>2, <1>4
  <2>2. o # D!Sentinel(s) /\ o # n /\ <<o, b>> \in D!Link /\ o \in Pointer
    BY <2>1, Ends
  <2> QED  BY <2>2, Ends, Sides, LockBasedAssumption
<1>6. /\ m.link \in [D!Link -> Pointer] /\ m.data \in [D!Node -> Key \cup {0}] /\ m.freed \subseteq D!Node
  BY DEF Mem
<1> HIDE DEF f, b
<1>7. /\ w.data = [m.data EXCEPT ![n] = d] /\ w.freed = m.freed
      /\ w.link = [m.link EXCEPT ![<<n, f>>] = o, ![<<n, b>>] = e, ![<<o, b>>] = n, ![<<e, f>>] = n]
      /\ w = [link |-> w.link, data |-> w.data, freed |-> w.freed]
  BY DEF Pushes, f, b
<1>8. /\ w.link[<<n, f>>] = o /\ w.link[<<n, b>>] = e /\ w.link[<<o, b>>] = n /\ w.link[<<e, f>>] = n
      /\ \A a \in D!Link : a \notin {<<n, f>>, <<n, b>>, <<o, b>>, <<e, f>>} => w.link[a] = m.link[a]
  BY <1>5, <1>6, <1>7
<1>9. w \in Mem
  <2>1. w.link = [a \in D!Link |-> w.link[a]]
    BY <1>6, <1>7
  <2>2. \A a \in D!Link : w.link[a] \in Pointer
    <3> TAKE a \in D!Link
    <3>1. m.link[a] \in Pointer
      BY <1>6
    <3>2. n \in Pointer /\ o \in Pointer /\ e \in Pointer
      BY <1>5
    <3> QED  BY <3>1, <3>2, <1>8
  <2>3. w.link \in [D!Link -> Pointer]
    BY <2>1, <2>2
  <2>4. w.data \in [D!Node -> Key \cup {0}]
    BY <1>6, <1>7
  <2>5. w.freed \subseteq D!Node /\ w = [link |-> w.link, data |-> w.data, freed |-> w.freed]
    BY <1>6, <1>7
  <2> QED  BY <2>3, <2>4, <2>5 DEF Mem
<1>10. w.data[n] = d /\ \A x \in D!Node : x # n => w.data[x] = m.data[x]
  BY <1>6, <1>7
<1> DEFINE g == [p EXCEPT ![lo] = n, ![lo - 1] = e]
<1>11. /\ lo - 1 \in Int /\ lo - 1 < lo
       /\ g \in [Int -> Pointer] /\ g[lo - 1] = e /\ g[lo] = n
       /\ \A i \in Int : i # lo /\ i # lo - 1 => g[i] = p[i]
  <2>1. lo - 1 \in Int /\ lo - 1 < lo /\ lo - 1 # lo
    OBVIOUS
  <2> QED  BY <2>1, <1>5
<1> HIDE DEF g
<1>12. /\ r \in Seq(Key) /\ Len(r) = k + 1 /\ Item(r, s, 1) = d
       /\ \A i \in 1 .. k : Item(r, s, i + 1) = Item(q, s, i)
  BY <1>1 DEF Longer
<1>13. g[lo - 1] = D!Sentinel(s) /\ g[hi] = D!Opposite(s) /\ lo - 1 < hi /\ hi - (lo - 1) = Len(r) + 1
  BY <1>2, <1>11, <1>12
<1>14. \A i \in lo .. hi - 1 : i = lo \/ (i \in lo + 1 .. hi - 1 /\ g[i] = p[i])
  BY <1>11
<1>15. \A i \in (lo - 1) + 1 .. hi - 1 : /\ g[i] \in D!Node /\ g[i] \notin w.freed
                                         /\ w.data[g[i]] = Item(r, s, i - (lo - 1))
  <2> TAKE i \in (lo - 1) + 1 .. hi - 1
  <2>1. i \in lo .. hi - 1
    OBVIOUS
  <2>2. CASE i = lo
    <3>1. i - (lo - 1) = 1
      BY <2>2
    <3>2. n \notin m.freed
      OBVIOUS
    <3> QED  BY <2>2, <3>1, <3>2, <1>7, <1>10, <1>11, <1>12
  <2>3. CASE i # lo
    <3>1. i \in lo + 1 .. hi - 1 /\ g[i] = p[i]
      BY <2>1, <2>3, <1>14
    <3>2. i - lo \in 1 .. k /\ i - (lo - 1) = (i - lo) + 1
      BY <3>1, <1>2
    <3>3. p[i] \in D!Node /\ p[i] \notin m.freed /\ p[i] # n /\ m.data[p[i]] = Item(q, s, i - lo)
      BY <3>1, <1>4
    <3>4. Item(r, s, i - (lo - 1)) = Item(q, s, i - lo)
      BY <3>2, <1>12
    <3> QED  BY <3>1, <3>3, <3>4, <1>7, <1>10
  <2> QED  BY <2>2, <2>3
<1>16. ASSUME NEW i \in (lo - 1) + 1 .. hi - 1, NEW j \in (lo - 1) + 1 .. hi - 1, g[i] = g[j]
       PROVE  i = j
  <2>1. i \in lo .. hi - 1 /\ j \in lo .. hi - 1
    OBVIOUS
  <2>2. \A x, y \in lo + 1 .. hi - 1 : p[x] = p[y] => x = y
    BY DEF Whole
  <2> QED  BY <2>1, <2>2, <1>4, <1>11, <1>14, <1>16
<1>17. \A i \in lo - 1 .. hi - 2 : w.link[<<g[i], f>>] = g[i + 1]
  <2> TAKE i \in lo - 1 .. hi - 2
  <2>1. CASE i = lo - 1
    BY <2>1, <1>8, <1>11
  <2>2. CASE i = lo
    <3>1. g[lo + 1] = p[lo + 1] /\ g[lo] = n
      BY <1>11
    <3>2. w.link[<<n, f>>] = o
      BY <1>8
    <3> QED  BY <2>2, <3>1, <3>2, <1>3
  <2>3. CASE i # lo /\ i # lo - 1
    <3>1. i \in lo + 1 .. hi - 1 /\ i \in lo .. hi - 2 /\ g[i] = p[i] /\ g[i + 1] = p[i + 1]
      BY <2>3, <1>11
    <3>2. p[i] \in D!Node /\ p[i] # n /\ p[i] # e
      BY <3>1, <1>4
    <3>3. m.link[<<p[i], f>>] = p[i + 1]
      BY <3>1 DEF Whole, f
    <3>4. <<p[i], f>> \in D!Link /\ <<p[i], f>> \notin {<<n, f>>, <<n, b>>, <<o, b>>, <<e, f>>}
      BY <3>2, <1>5, Ends DEF f
    <3> QED  BY <3>1, <3>3, <3>4, <1>8
  <2> QED  BY <2>1, <2>2, <2>3
<1>18. \A i \in (lo - 1) + 2 .. hi : w.link[<<g[i], b>>] = g[i - 1]
  <2> TAKE i \in (lo - 1) + 2 .. hi
  <2>1. CASE i = lo + 1
    <3>1. g[i] = p[lo + 1] /\ i - 1 = lo
      BY <2>1, <1>11
    <3> QED  BY <3>1, <1>3, <1>8, <1>11
  <2>2. CASE i # lo + 1
    <3>1. i \in lo + 2 .. hi /\ g[i] = p[i] /\ g[i - 1] = p[i - 1]
      BY <2>2, <1>11
    <3>2. p[i] # n /\ p[i] # e /\ p[i] # o /\ <<p[i], b>> \in D!Link
      <4>1. k # 0 /\ o \in D!Node
        BY <3>1, <1>2
      <4>2. CASE i = hi
        BY <4>1, <4>2, <1>2, Ends DEF b
      <4>3. CASE i # hi
        <5>1. i \in lo + 1 .. hi - 1 /\ lo + 1 \in lo + 1 .. hi - 1 /\ i # lo + 1
          BY <3>1, <4>3, <2>2
        <5>2. p[i] # p[lo + 1]
          BY <5>1 DEF Whole
        <5> QED  BY <5>1, <5>2, <1>3, <1>4, Ends DEF b
      <4> QED  BY <4>2, <4>3
    <3>3. m.link[<<p[i], b>>] = p[i - 1]
      BY <3>1 DEF Whole, b
    <3>4. <<p[i], b>> \notin {<<n, f>>, <<n, b>>, <<o, b>>, <<e, f>>}
      BY <3>2, <1>5
    <3> QED  BY <3>1, <3>2, <3>3, <3>4, <1>8
  <2> QED  BY <2>1, <2>2
<1>19. /\ w.link[<<g[hi - 1], f>>] \in {D!Opposite(s)} \cup w.freed
       /\ closed => w.link[<<g[hi - 1], f>>] = D!Opposite(s)
  <2>1. CASE k = 0
    <3>1. hi - 1 = lo
      BY <2>1, <1>2
    <3> QED  BY <2>1, <3>1, <1>2, <1>8, <1>11
  <2>2. CASE k # 0
    <3>1. hi - 1 \in lo + 1 .. hi - 1 /\ g[hi - 1] = p[hi - 1]
      <4>1. hi - 1 \in lo + 1 .. hi - 1 /\ hi - 1 \in Int /\ hi - 1 # lo /\ hi - 1 # lo - 1
        BY <2>2, <1>2
      <4> QED  BY <4>1, <1>11
    <3>2. p[hi - 1] \in D!Node /\ p[hi - 1] # n /\ p[hi - 1] # e
      BY <3>1, <1>4
    <3>3. <<p[hi - 1], f>> \in D!Link /\ <<p[hi - 1], f>> \notin {<<n, f>>, <<n, b>>, <<o, b>>, <<e, f>>}
      BY <3>2, <1>5, Ends DEF f
    <3>4. /\ m.link[<<p[hi - 1], f>>] \in {D!Opposite(s)} \cup m.freed
          /\ closed => m.link[<<p[hi - 1], f>>] = D!Opposite(s)
      BY DEF Whole, f
    <3> QED  BY <3>1, <3>3, <3>4, <1>7, <1>8
  <2> QED  BY <2>1, <2>2
<1>20. w.link[<<g[(lo - 1) + 1], b>>] \in {D!Sentinel(s)} \cup w.freed
  <2>1. (lo - 1) + 1 = lo
    OBVIOUS
  <2> QED  BY <2>1, <1>8, <1>11
<1>21. Whole(w, r, s, closed, lo - 1, hi, g)
  BY <1>13, <1>15, <1>16, <1>17, <1>18, <1>19, <1>20 DEF Whole, f, b
<1>22. \A x \in w.freed : w.data[x] # 0
  BY <1>5, <1>6, <1>7, <1>10
<1> QED  BY <1>9, <1>11, <1>12, <1>21, <1>22 DEF Holds

\* What the assignments of a pop of n at s make of m.
Pops(m, w, s, n) ==
  /\ w.data = m.data /\ w.freed = m.freed \cup {n}
  /\ w.link = [m.link EXCEPT ![<<D!Sentinel(s), D!Inward(s)>>] = m.link[<<n, D!Inward(s)>>]]
  /\ w = [link |-> w.link, data |-> w.data, freed |-> w.freed]

\* A pop at s whose node has not been deleted takes its element.
LEMMA PopWhole ==
  ASSUME NEW m \in Mem, NEW q \in Seq(Key), NEW s \in Side, NEW closed \in BOOLEAN,
         \A x \in m.freed : m.data[x] # 0,
         NEW lo \in Int, NEW hi \in Int, NEW p \in [Int -> Pointer], Whole(m, q, s, closed, lo, hi, p),
         NEW e, e = D!Sentinel(s), NEW n, n = m.link[<<e, D!Inward(s)>>], Len(q) # 0,
         NEW r, Shorter(q, s, r), NEW w, Pops(m, w, s, n)
  PROVE  Holds(w, r, s, closed)
<1> DEFINE f == D!Inward(s)
           b == D!Outward(s)
<1>1. PICK k \in Nat : k = Len(q) /\ k # 0
  BY LenProperties
<1>2. /\ lo < hi /\ hi - lo = k + 1 /\ p[lo] = e /\ p[hi] = D!Opposite(s)
      /\ lo + 1 \in lo + 1 .. hi - 1 /\ n = p[lo + 1] /\ n \in D!Node /\ n \notin m.freed
      /\ m.data[n] = Item(q, s, 1)
  <2>1. lo < hi /\ hi - lo = k + 1 /\ p[lo] = e /\ p[hi] = D!Opposite(s)
    BY <1>1 DEF Whole
  <2>2. /\ lo + 1 \in lo + 1 .. hi - 1 /\ n = p[lo + 1] /\ n \in D!Node /\ n \notin m.freed
        /\ m.data[n] = Item(q, s, 1)
    BY First
  <2> QED  BY <2>1, <2>2
<1>3. \A i \in lo + 1 .. hi - 1 : /\ p[i] \in D!Node /\ p[i] \notin m.freed /\ p[i] # e
                                  /\ m.data[p[i]] = Item(q, s, i - lo)
  <2> TAKE i \in lo + 1 .. hi - 1
  <2>1. p[i] \in D!Node /\ p[i] \notin m.freed /\ m.data[p[i]] = Item(q, s, i - lo)
    BY DEF Whole
  <2> QED  BY <2>1, Ends
<1>4. \A i, j \in lo + 1 .. hi - 1 : p[i] = p[j] => i = j
  BY DEF Whole
<1>5. m.data[n] # 0
  <2>1. 1 \in 1 .. Len(q) /\ Len(q) + 1 - 1 \in 1 .. Len(q)
    BY <1>1
  <2>2. Item(q, s, 1) \in Key
    BY <2>1, ElementOfSeq DEF Item
  <2> QED  BY <2>2, <1>2, LockBasedAssumption
<1>6. /\ e \in Pointer \ D!Node /\ n # e /\ n # D!Opposite(s) /\ f # b
      /\ <<n, f>> \in D!Link /\ <<e, f>> \in D!Link
      /\ D!Opposite(s) \notin D!Node /\ D!Opposite(s) # e
  BY <1>2, Ends, Sides
<1>7. /\ m.link \in [D!Link -> Pointer] /\ m.data \in [D!Node -> Key \cup {0}] /\ m.freed \subseteq D!Node
  BY DEF Mem
<1> HIDE DEF f, b
<1>8. /\ w.data = m.data /\ w.freed = m.freed \cup {n}
      /\ w.link = [m.link EXCEPT ![<<e, f>>] = m.link[<<n, f>>]]
      /\ w = [link |-> w.link, data |-> w.data, freed |-> w.freed]
  BY DEF Pops, f, b
<1>9. w.link[<<e, f>>] = m.link[<<n, f>>] /\ \A a \in D!Link : a # <<e, f>> => w.link[a] = m.link[a]
  BY <1>6, <1>7, <1>8
<1>10. w \in Mem
  <2>1. w.link \in [D!Link -> Pointer]
    BY <1>6, <1>7, <1>8
  <2>2. w.data \in [D!Node -> Key \cup {0}] /\ w.freed \subseteq D!Node
    BY <1>2, <1>7, <1>8
  <2>3. w = [link |-> w.link, data |-> w.data, freed |-> w.freed]
    BY <1>8
  <2> QED  BY <2>1, <2>2, <2>3 DEF Mem
<1> DEFINE g == [p EXCEPT ![lo + 1] = e]
<1>11. /\ lo + 1 \in Int /\ g \in [Int -> Pointer] /\ g[lo + 1] = e
       /\ \A i \in Int : i # lo + 1 => g[i] = p[i]
  BY <1>6
<1> HIDE DEF g
<1>12. /\ r \in Seq(Key) /\ Len(r) = k - 1
       /\ \A i \in 1 .. k - 1 : Item(r, s, i) = Item(q, s, i + 1)
  BY <1>1 DEF Shorter
<1>13. g[lo + 1] = D!Sentinel(s) /\ g[hi] = D!Opposite(s) /\ lo + 1 < hi /\ hi - (lo + 1) = Len(r) + 1
  <2>1. lo + 1 < hi /\ hi # lo + 1 /\ hi - (lo + 1) = (k - 1) + 1
    BY <1>1, <1>2
  <2> QED  BY <2>1, <1>2, <1>11, <1>12
<1>14. \A i \in lo + 2 .. hi - 1 : /\ i \in lo + 1 .. hi - 1 /\ g[i] = p[i]
                                   /\ p[i] \in D!Node /\ p[i] # e /\ p[i] # n
  <2> TAKE i \in lo + 2 .. hi - 1
  <2>1. i \in lo + 1 .. hi - 1 /\ i # lo + 1 /\ i \in Int
    OBVIOUS
  <2> QED  BY <2>1, <1>2, <1>3, <1>4, <1>11
<1>15. \A i \in (lo + 1) + 1 .. hi - 1 : /\ g[i] \in D!Node /\ g[i] \notin w.freed
                                         /\ w.data[g[i]] = Item(r, s, i - (lo + 1))
  <2> TAKE i \in (lo + 1) + 1 .. hi - 1
  <2>1. i \in lo + 2 .. hi - 1
    OBVIOUS
  <2>2. i - (lo + 1) \in 1 .. k - 1 /\ (i - (lo + 1)) + 1 = i - lo
    BY <2>1, <1>2
  <2>3. Item(r, s, i - (lo + 1)) = Item(q, s, i - lo)
    BY <2>2, <1>12
  <2>4. i \in lo + 1 .. hi - 1 /\ g[i] = p[i] /\ p[i] \in D!Node /\ p[i] # n
    BY <2>1, <1>14
  <2> QED  BY <2>3, <2>4, <1>3, <1>8
<1>16. ASSUME NEW i \in (lo + 1) + 1 .. hi - 1, NEW j \in (lo + 1) + 1 .. hi - 1, g[i] = g[j]
       PROVE  i = j
  <2>1. i \in lo + 2 .. hi - 1 /\ j \in lo + 2 .. hi - 1
    OBVIOUS
  <2> QED  BY <2>1, <1>4, <1>14, <1>16
<1>17. \A i \in lo + 1 .. hi - 2 : w.link[<<g[i], f>>] = g[i + 1]
  <2> TAKE i \in lo + 1 .. hi - 2
  <2>1. i \in lo .. hi - 2 /\ i + 1 \in lo + 2 .. hi - 1 /\ i \in Int
    OBVIOUS
  <2>2. m.link[<<p[i], f>>] = p[i + 1] /\ g[i + 1] = p[i + 1]
    BY <2>1, <1>14 DEF Whole, f
  <2>3. CASE i = lo + 1
    BY <2>2, <2>3, <1>2, <1>9, <1>11
  <2>4. CASE i # lo + 1
    <3>1. i \in lo + 2 .. hi - 1
      BY <2>4
    <3>2. g[i] = p[i] /\ p[i] \in D!Node /\ p[i] # e
      BY <3>1, <1>14
    <3>3. <<p[i], f>> \in D!Link /\ <<p[i], f>> # <<e, f>>
      BY <3>2, Ends DEF f
    <3> QED  BY <3>2, <3>3, <2>2, <1>9
  <2> QED  BY <2>3, <2>4
<1>18. \A i \in lo + 2 .. hi : /\ m.link[<<p[i], b>>] = p[i - 1] /\ w.link[<<p[i], b>>] = p[i - 1]
                               /\ g[i] = p[i]
  <2> TAKE i \in lo + 2 .. hi
  <2>1. p[i] = D!Opposite(s) \/ p[i] \in D!Node
    <3>1. i = hi \/ i \in lo + 2 .. hi - 1
      OBVIOUS
    <3> QED  BY <3>1, <1>2, <1>14
  <2>2. <<p[i], b>> \in D!Link
    BY <2>1, Ends DEF b
  <2>3. m.link[<<p[i], b>>] = p[i - 1]
    BY DEF Whole, b
  <2>4. g[i] = p[i]
    <3>1. i \in Int /\ i # lo + 1
      OBVIOUS
    <3> QED  BY <3>1, <1>11
  <2>5. <<p[i], b>> # <<e, f>>
    BY <1>6
  <2> QED  BY <2>2, <2>3, <2>4, <2>5, <1>9
<1>19. \A i \in (lo + 1) + 2 .. hi : w.link[<<g[i], b>>] = g[i - 1]
  <2> TAKE i \in (lo + 1) + 2 .. hi
  <2>1. i \in lo + 2 .. hi /\ i - 1 \in lo + 2 .. hi
    OBVIOUS
  <2> QED  BY <2>1, <1>18
<1>20. /\ w.link[<<g[hi - 1], f>>] \in {D!Opposite(s)} \cup w.freed
       /\ closed => w.link[<<g[hi - 1], f>>] = D!Opposite(s)
  <2>1. /\ m.link[<<p[hi - 1], f>>] \in {D!Opposite(s)} \cup m.freed
        /\ closed => m.link[<<p[hi - 1], f>>] = D!Opposite(s)
    BY DEF Whole, f
  <2>2. CASE k = 1
    <3>1. hi - 1 = lo + 1
      BY <2>2, <1>2
    <3> QED  BY <3>1, <2>1, <1>2, <1>8, <1>9, <1>11
  <2>3. CASE k # 1
    <3>1. hi - 1 \in lo + 2 .. hi - 1
      BY <2>3, <1>1, <1>2
    <3>2. g[hi - 1] = p[hi - 1] /\ p[hi - 1] \in D!Node /\ p[hi - 1] # e
      BY <3>1, <1>14
    <3>3. <<p[hi - 1], f>> \in D!Link /\ <<p[hi - 1], f>> # <<e, f>>
      BY <3>2, Ends DEF f
    <3> QED  BY <3>2, <3>3, <2>1, <1>8, <1>9
  <2> QED  BY <2>2, <2>3
<1>21. w.link[<<g[(lo + 1) + 1], b>>] \in {D!Sentinel(s)} \cup w.freed
  <2>1. lo + 2 \in lo + 2 .. hi /\ (lo + 1) + 1 = lo + 2 /\ (lo + 2) - 1 = lo + 1
    BY <1>1, <1>2
  <2>2. w.link[<<g[lo + 2], b>>] = n
    BY <2>1, <1>2, <1>18
  <2> QED  BY <2>1, <2>2, <1>8
<1>22. Whole(w, r, s, closed, lo + 1, hi, g)
  BY <1>13, <1>15, <1>16, <1>17, <1>19, <1>20, <1>21 DEF Whole, f, b
<1>23. \A x \in w.freed : w.data[x] # 0
  BY <1>5, <1>8
<1> QED  BY <1>10, <1>11, <1>12, <1>22, <1>23 DEF Holds

-----------------------------------------------------------------------------
(***************************************************************************)
(* Room for the nodes.                                                     *)
(***************************************************************************)

LEMMA Room ==
  /\ IsFiniteSet(Thread \X (1 .. Ops)) /\ Cardinality(Thread \X (1 .. Ops)) \in Nat
  /\ IsFiniteSet(D!Node) /\ Cardinality(D!Node) = MaxNodes /\ MaxNodes \in Nat
<1>1. IsFiniteSet(1 .. Ops) /\ IsFiniteSet(Thread)
  BY LockBasedAssumption, FS_Interval
<1>2. IsFiniteSet(1 .. MaxNodes) /\ Cardinality(1 .. MaxNodes) = MaxNodes /\ MaxNodes \in Nat
  <2>1. /\ 1 \in Int /\ MaxNodes \in Int /\ MaxNodes \in Nat
        /\ ~(1 > MaxNodes) /\ MaxNodes - 1 + 1 = MaxNodes
    BY LockBasedAssumption
  <2> QED  BY <2>1, FS_Interval
<1>3. IsFiniteSet(Thread \X (1 .. Ops))
  BY <1>1, FS_Product
<1> QED  BY <1>2, <1>3, FS_CardinalityType DEF D!Node

\* A worker that still has a call to make finds a node for it.
LEMMA HasRoom ==
  ASSUME NEW l \in [Thread -> 0 .. Ops], NEW t \in Thread, l[t] > 0,
         NEW m, Cardinality(Budget(l)) <= Cardinality(Unused(m))
  PROVE  Unused(m) # {}
<1>1. <<t, l[t]>> \in Budget(l)
  BY LockBasedAssumption DEF Budget
<1>2. IsFiniteSet(Budget(l)) /\ Cardinality(Budget(l)) \in Nat
  BY Room, FS_Subset, FS_CardinalityType DEF Budget
<1>3. Cardinality(Budget(l)) # 0
  BY <1>1, <1>2, FS_EmptySet
<1>4. Cardinality({}) = 0
  BY FS_EmptySet
<1> QED  BY <1>2, <1>3, <1>4

\* A call takes one node at most.
LEMMA RoomStays ==
  ASSUME NEW l \in [Thread -> 0 .. Ops], NEW t \in Thread, l[t] > 0,
         NEW k, k = [l EXCEPT ![t] = @ - 1],
         NEW m, Cardinality(Budget(l)) <= Cardinality(Unused(m)),
         NEW w, NEW n, Unused(m) \ {n} \subseteq Unused(w)
  PROVE  Cardinality(Budget(k)) <= Cardinality(Unused(w))
<1>1. /\ IsFiniteSet(Budget(l)) /\ Cardinality(Budget(l)) \in Nat
      /\ IsFiniteSet(Unused(m)) /\ Cardinality(Unused(m)) \in Nat
      /\ IsFiniteSet(Unused(w)) /\ Cardinality(Unused(w)) \in Nat
  BY Room, FS_Subset, FS_CardinalityType DEF Budget, Unused
<1>2. <<t, l[t]>> \in Budget(l) /\ Budget(k) = Budget(l) \ {<<t, l[t]>>}
  <2>1. /\ l[t] \in 1 .. Ops /\ k[t] = l[t] - 1
        /\ \A u \in Thread : l[u] \in 0 .. Ops /\ (u # t => k[u] = l[u])
    BY LockBasedAssumption
  <2>2. <<t, l[t]>> \in Budget(l)
    BY <2>1 DEF Budget
  <2>3. \A u \in Thread, i \in 1 .. Ops : i <= k[u] <=> i <= l[u] /\ <<u, i>> # <<t, l[t]>>
    <3> TAKE u \in Thread, i \in 1 .. Ops
    <3>1. CASE u = t
      <4>1. i <= l[t] - 1 <=> i <= l[t] /\ i # l[t]
        BY <2>1
      <4> QED  BY <3>1, <4>1, <2>1
    <3>2. CASE u # t
      BY <3>2, <2>1
    <3> QED  BY <3>1, <3>2
  <2>4. /\ \A c \in Budget(k) : c \in Budget(l) \ {<<t, l[t]>>}
        /\ \A c \in Budget(l) \ {<<t, l[t]>>} : c \in Budget(k)
    BY <2>3 DEF Budget
  <2> QED  BY <2>2, <2>4
<1>3. Cardinality(Budget(k)) = Cardinality(Budget(l)) - 1
  <2>1. PICK c : c = <<t, l[t]>>
    OBVIOUS
  <2>2. c \in Budget(l) /\ Budget(k) = Budget(l) \ {c}
    BY <2>1, <1>2
  <2>3. Cardinality(Budget(l) \ {c}) = IF c \in Budget(l) THEN Cardinality(Budget(l)) - 1 ELSE Cardinality(Budget(l))
    BY <1>1, FS_RemoveElement
  <2> QED  BY <2>2, <2>3
<1>4. /\ IsFiniteSet(Unused(m) \ {n}) /\ Cardinality(Unused(m) \ {n}) \in Nat
      /\ Cardinality(Unused(m) \ {n}) >= Cardinality(Unused(m)) - 1
  <2>1. /\ IsFiniteSet(Unused(m) \ {n})
        /\ Cardinality(Unused(m) \ {n})
             = IF n \in Unused(m) THEN Cardinality(Unused(m)) - 1 ELSE Cardinality(Unused(m))
    BY <1>1, FS_RemoveElement
  <2>2. Cardinality(Unused(m) \ {n}) \in Nat
    BY <2>1, FS_CardinalityType
  <2> QED  BY <1>1, <2>1, <2>2
<1>5. Cardinality(Unused(m) \ {n}) <= Cardinality(Unused(w))
  BY <1>1, FS_Subset
<1> QED  BY <1>1, <1>3, <1>4, <1>5

LEMMA FreshFacts ==
  ASSUME Unused(mem.data) # {}
  PROVE  D!Fresh \in D!Node /\ mem.data[D!Fresh] = 0
<1>1. Unused(mem.data) \subseteq Nat
  BY DEF Unused, D!Node
<1>2. PICK n \in Unused(mem.data) : \A i \in Unused(mem.data) : ~ (<<i, n>> \in OpToRel(<, Nat))
  BY <1>1, NatLessThanWellFounded, WFMin
<1>3. \A i \in Unused(mem.data) : n <= i
  <2> TAKE i \in Unused(mem.data)
  <2>1. i \in Nat /\ n \in Nat
    BY <1>1
  <2>2. ~ (<<i, n>> \in OpToRel(<, Nat))
    BY <1>2
  <2>3. ~ (i < n)
    BY <2>1, <2>2 DEF OpToRel
  <2> QED  BY <2>1, <2>3
<1>4. n \in D!Node /\ mem.data[n] = 0 /\ \A i \in D!Node : mem.data[i] = 0 => n <= i
  BY <1>3 DEF Unused
<1> QED  BY <1>4 DEF D!Fresh

-----------------------------------------------------------------------------
(***************************************************************************)
(* The calls of the deque.                                                 *)
(***************************************************************************)

\* What a call at the side s ensures.
CallEffect(s, closed) ==
  /\ undefined' \in BOOLEAN /\ (closed => ~undefined')
  /\ ~undefined' => /\ Holds(mem', items', s, closed)
                    /\ last'[1] = last'[2]
                    /\ \E n : Unused(mem.data) \ {n} \subseteq Unused(mem'.data)

LEMMA PushStep ==
  ASSUME NEW s \in Side, NEW closed \in BOOLEAN, Holds(mem, items, s, closed),
         Unused(mem.data) # {}, NEW d \in Key, D!Push(s, d)
  PROVE  CallEffect(s, closed)
<1>1. mem \in Mem /\ items \in Seq(Key) /\ \A x \in mem.freed : mem.data[x] # 0
  BY DEF Holds
<1>2. PICK lo \in Int, hi \in Int, p \in [Int -> Pointer] : Whole(mem, items, s, closed, lo, hi, p)
  BY DEF Holds
<1>3. PICK e : e = D!Sentinel(s)
  OBVIOUS
<1>4. PICK o : o = mem.link[<<e, D!Inward(s)>>]
  OBVIOUS
<1>5. PICK n : n = D!Fresh
  OBVIOUS
<1>6. n \in D!Node /\ mem.data[n] = 0
  BY <1>5, FreshFacts
<1>7. /\ mem' = [mem EXCEPT !.data[n] = d, !.link[<<n, D!Inward(s)>>] = o, !.link[<<n, D!Outward(s)>>] = e,
                            !.link[<<o, D!Outward(s)>>] = n, !.link[<<e, D!Inward(s)>>] = n]
      /\ undefined' = (o \in mem.freed)
      /\ items' = IF s = "front" THEN <<d>> \o items ELSE Append(items, d)
      /\ last' = <<0, 0>>
  BY <1>3, <1>4, <1>5 DEF D!Push
<1>8. Longer(items, s, d, items')
  BY <1>1, <1>7, LongerFacts
<1>9. /\ mem.link \in [D!Link -> Pointer] /\ mem.data \in [D!Node -> Key \cup {0}]
      /\ mem = [link |-> mem.link, data |-> mem.data, freed |-> mem.freed]
  BY <1>1 DEF Mem
<1>10. Pushes(mem, mem', s, o, n, d)
  BY <1>3, <1>7, <1>9 DEF Pushes
<1>11. undefined' \in BOOLEAN /\ (closed => ~undefined')
  <2>1. undefined' = (o \in mem.freed)
    BY <1>7
  <2>2. undefined' \in BOOLEAN
    BY <2>1
  <2>3. ASSUME closed  PROVE ~undefined'
    <3>1. /\ closed => o \notin mem.freed
          /\ Len(items) = 0 => hi = lo + 1 /\ (o \notin mem.freed => o = D!Opposite(s))
          /\ Len(items) # 0 => /\ lo + 1 \in lo + 1 .. hi - 1 /\ lo \in lo .. hi - 2
                               /\ o = p[lo + 1] /\ o \in D!Node /\ o \notin mem.freed
                               /\ mem.data[o] = Item(items, s, 1)
      BY <1>1, <1>2, <1>3, <1>4, First
    <3>2. o \notin mem.freed
      BY <3>1, <2>3
    <3> QED  BY <3>2, <2>1
  <2> QED  BY <2>2, <2>3
<1>12. ~undefined' => Holds(mem', items', s, closed)
  <2>1. undefined' = (o \in mem.freed)
    BY <1>7
  <2>2. o \notin mem.freed => Holds(mem', items', s, closed)
    BY <1>1, <1>2, <1>3, <1>4, <1>6, <1>8, <1>10, PushWhole
  <2> QED  BY <2>1, <2>2
<1>13. last'[1] = last'[2]
  BY <1>7
<1>14. Unused(mem.data) \ {n} \subseteq Unused(mem'.data)
  <2>1. mem'.data = [mem.data EXCEPT ![n] = d]
    BY <1>10 DEF Pushes
  <2> QED  BY <2>1, <1>9 DEF Unused
<1> QED  BY <1>11, <1>12, <1>13, <1>14 DEF CallEffect

LEMMA PopStep ==
  ASSUME NEW s \in Side, NEW closed \in BOOLEAN, Holds(mem, items, s, closed),
         undefined = FALSE, D!Pop(s)
  PROVE  CallEffect(s, closed)
<1>1. mem \in Mem /\ items \in Seq(Key) /\ \A x \in mem.freed : mem.data[x] # 0
  BY DEF Holds
<1>2. PICK lo \in Int, hi \in Int, p \in [Int -> Pointer] : Whole(mem, items, s, closed, lo, hi, p)
  BY DEF Holds
<1>3. PICK e : e = D!Sentinel(s)
  OBVIOUS
<1>4. PICK n : n = mem.link[<<e, D!Inward(s)>>]
  OBVIOUS
<1>5. /\ closed => n \notin mem.freed
      /\ Len(items) = 0 => (n \notin mem.freed => n = D!Opposite(s))
      /\ Len(items) # 0 => /\ n \in D!Node /\ n \notin mem.freed
                           /\ mem.data[n] = Item(items, s, 1)
  BY <1>1, <1>2, <1>3, <1>4, First
<1>6. items' = D!Remaining(s)
  BY DEF D!Pop
<1>7. Len(items) \in Nat /\ (Len(items) # 0 <=> items # <<>>)
  BY <1>1, EmptySeq, LenProperties
<1>8. CASE n = D!Opposite(s)
  <2>1. last' = <<-1, D!Due(s)>> /\ mem' = mem /\ undefined' = undefined
    BY <1>3, <1>4, <1>8 DEF D!Pop
  <2>2. items = <<>>
    BY <1>5, <1>7, <1>8, Ends
  <2>3. items' = items /\ D!Due(s) = -1
    BY <2>2, <1>6 DEF D!Remaining, D!Due
  <2>4. last'[1] = last'[2]
    BY <2>1, <2>3
  <2> QED  BY <2>1, <2>3, <2>4 DEF CallEffect
<1>9. CASE n # D!Opposite(s)
  <2>1. /\ last' = <<mem.data[n], D!Due(s)>> /\ undefined' = (n \in mem.freed)
        /\ mem' = [mem EXCEPT !.link[<<e, D!Inward(s)>>] = mem.link[<<n, D!Inward(s)>>],
                              !.freed = @ \cup {n}]
    BY <1>3, <1>4, <1>9 DEF D!Pop
  <2>2. undefined' \in BOOLEAN /\ (closed => ~undefined')
    <3>1. undefined' = (n \in mem.freed)
      BY <2>1
    <3>2. undefined' \in BOOLEAN
      BY <3>1
    <3>3. ASSUME closed  PROVE ~undefined'
      <4>1. n \notin mem.freed
        BY <3>3, <1>5
      <4> QED  BY <3>1, <4>1
    <3> QED  BY <3>2, <3>3
  <2>3. ASSUME ~undefined'
        PROVE  /\ Holds(mem', items', s, closed)
               /\ last'[1] = last'[2]
               /\ \E x : Unused(mem.data) \ {x} \subseteq Unused(mem'.data)
    <3>1. Len(items) # 0 /\ items # <<>>
      BY <2>1, <2>3, <1>5, <1>7, <1>9
    <3>2. Shorter(items, s, items')
      <4>1. items' = IF s = "front" THEN Tail(items) ELSE SubSeq(items, 1, Len(items) - 1)
        BY <3>1, <1>6 DEF D!Remaining
      <4> QED  BY <3>1, <4>1, <1>1, ShorterFacts
    <3>3. /\ mem.link \in [D!Link -> Pointer]
          /\ mem = [link |-> mem.link, data |-> mem.data, freed |-> mem.freed]
      BY <1>1 DEF Mem
    <3>4. Pops(mem, mem', s, n)
      BY <2>1, <3>3, <1>3 DEF Pops
    <3>5. Holds(mem', items', s, closed)
      BY <3>1, <3>2, <3>4, <1>1, <1>2, <1>3, <1>4, PopWhole
    <3>6. D!Due(s) = Item(items, s, 1)
      <4>1. Len(items) + 1 - 1 = Len(items)
        BY <1>7
      <4> QED  BY <3>1, <4>1 DEF D!Due, Item
    <3>7. last'[1] = last'[2]
      BY <2>1, <3>1, <3>6, <1>5
    <3>8. Unused(mem'.data) = Unused(mem.data)
      BY <3>4 DEF Pops, Unused
    <3> QED  BY <3>5, <3>7, <3>8
  <2> QED  BY <2>2, <2>3 DEF CallEffect
<1> QED  BY <1>8, <1>9

-----------------------------------------------------------------------------
(***************************************************************************)
(* Walks: a step that is taken a number of times, from a place.            *)
(***************************************************************************)

\* Every set of naturals that is not empty has a least one.
LEMMA LeastOf ==
  ASSUME NEW S \in SUBSET Nat, S # {}
  PROVE  \E n \in S : \A k \in S : n <= k
<1>1. PICK n \in S : \A i \in S : ~ (<<i, n>> \in OpToRel(<, Nat))
  BY NatLessThanWellFounded, WFMin
<1>2. ASSUME NEW i \in S  PROVE n <= i
  <2>1. i \in Nat /\ n \in Nat /\ ~ (<<i, n>> \in OpToRel(<, Nat))
    BY <1>1
  <2>2. ~ (i < n)
    BY <2>1 DEF OpToRel
  <2>3. i \in Nat /\ n \in Nat
    OBVIOUS
  <2> QED  BY <2>2, <2>3
<1> QED  BY <1>2

\* Induction up to k, for a set.
LEMMA UpTo ==
  ASSUME NEW k \in Nat, NEW T, 0 \in T, \A i \in 0 .. k : i < k /\ i \in T => i + 1 \in T
  PROVE  0 .. k \subseteq T
<1> SUFFICES ASSUME (0 .. k) \ T # {}  PROVE FALSE
  OBVIOUS
<1>1. PICK n \in (0 .. k) \ T : \A i \in (0 .. k) \ T : n <= i
  <2> DEFINE S == (0 .. k) \ T
  <2>1. S \in SUBSET Nat /\ S # {}
    OBVIOUS
  <2> HIDE DEF S
  <2>2. \E n \in S : \A i \in S : n <= i
    BY <2>1, LeastOf
  <2> QED  BY <2>2 DEF S
<1>2. n \in 1 .. k
  BY <1>1
<1>3. n - 1 \in 0 .. k /\ n - 1 < k /\ n - 1 + 1 = n /\ ~ (n <= n - 1)
  BY <1>2
<1>4. n - 1 \in T
  BY <1>1, <1>3
<1> QED  BY <1>1, <1>3, <1>4

\* f goes k steps from a.
IsWalk(f, step, a, k) == f = [i \in 0 .. k |-> IF i = 0 THEN a ELSE step[f[i - 1]]]
Walk(step, a, k) == CHOOSE f : IsWalk(f, step, a, k)

LEMMA WalkIs ==
  ASSUME NEW k \in Nat, NEW step, NEW a
  PROVE  /\ Walk(step, a, k)[0] = a
         /\ \A i \in 1 .. k : Walk(step, a, k)[i] = step[Walk(step, a, k)[i - 1]]
<1>0. PICK f : f = Walk(step, a, k)
  OBVIOUS
<1> DEFINE T == {j \in 0 .. k : \E g : g[0] = a /\ \A i \in 1 .. j : g[i] = step[g[i - 1]]}
<1>1. 0 \in T
  <2>1. PICK g : g = [i \in 0 .. 0 |-> a]
    OBVIOUS
  <2>2. g[0] = a /\ \A i \in 1 .. 0 : FALSE
    BY <2>1
  <2> QED  BY <2>2
<1>2. ASSUME NEW j \in 0 .. k, j < k, j \in T  PROVE j + 1 \in T
  <2>1. PICK g : g[0] = a /\ \A i \in 1 .. j : g[i] = step[g[i - 1]]
    BY <1>2
  <2>2. PICK h : h = [i \in 0 .. j + 1 |-> IF i = j + 1 THEN step[g[j]] ELSE g[i]]
    OBVIOUS
  <2>3. h[0] = a
    BY <1>2, <2>1, <2>2
  <2>4. ASSUME NEW i \in 1 .. j + 1  PROVE h[i] = step[h[i - 1]]
    <3>1. i \in 0 .. j + 1 /\ i - 1 \in 0 .. j + 1 /\ i - 1 # j + 1
      BY <1>2, <2>4
    <3>2. h[i - 1] = g[i - 1]
      BY <3>1, <2>2
    <3>3. CASE i = j + 1
      <4>1. i - 1 = j
        BY <1>2, <3>3
      <4> QED  BY <3>1, <3>2, <3>3, <4>1, <2>2
    <3>4. CASE i # j + 1
      <4>1. i \in 1 .. j
        BY <1>2, <2>4, <3>4
      <4> QED  BY <3>1, <3>2, <3>4, <4>1, <2>1, <2>2
    <3> QED  BY <3>3, <3>4
  <2>5. j + 1 \in 0 .. k
    BY <1>2
  <2> QED  BY <2>3, <2>4, <2>5
<1>3. k \in T
  <2> HIDE DEF T
  <2> QED  BY <1>1, <1>2, UpTo
<1>4. PICK g : g[0] = a /\ \A i \in 1 .. k : g[i] = step[g[i - 1]]
  BY <1>3
<1>5. PICK h : h = [i \in 0 .. k |-> g[i]]
  OBVIOUS
<1>6. IsWalk(h, step, a, k)
  <2>1. ASSUME NEW i \in 0 .. k  PROVE h[i] = IF i = 0 THEN a ELSE step[h[i - 1]]
    <3>1. CASE i = 0
      BY <3>1, <1>4, <1>5
    <3>2. CASE i # 0
      <4>1. i \in 1 .. k /\ i - 1 \in 0 .. k
        BY <3>2
      <4> QED  BY <4>1, <3>2, <1>4, <1>5
    <3> QED  BY <3>1, <3>2
  <2> QED  BY <2>1, <1>5 DEF IsWalk
<1>7. IsWalk(f, step, a, k)
  BY <1>0, <1>6 DEF Walk
<1>8. f = [i \in 0 .. k |-> IF i = 0 THEN a ELSE step[f[i - 1]]]
  BY <1>7 DEF IsWalk
<1>9. 0 \in 0 .. k /\ \A i \in 1 .. k : i \in 0 .. k /\ i # 0
  OBVIOUS
<1> QED  BY <1>0, <1>8, <1>9

\* A walk stays in a set that its steps stay in.
LEMMA WalkStays ==
  ASSUME NEW k \in Nat, NEW step, NEW S, NEW a \in S, \A x \in S : step[x] \in S
  PROVE  \A i \in 0 .. k : Walk(step, a, k)[i] \in S
<1>0. PICK f : f = Walk(step, a, k)
  OBVIOUS
<1>1. f[0] = a /\ \A i \in 1 .. k : f[i] = step[f[i - 1]]
  BY <1>0, WalkIs
<1> DEFINE T == {i \in 0 .. k : f[i] \in S}
<1>2. 0 \in T
  BY <1>1
<1>3. ASSUME NEW i \in 0 .. k, i < k, i \in T  PROVE i + 1 \in T
  <2>1. i + 1 \in 1 .. k /\ i + 1 \in 0 .. k /\ i + 1 - 1 = i
    BY <1>3
  <2>2. f[i + 1] = step[f[i]]
    BY <1>1, <2>1
  <2> QED  BY <1>3, <2>1, <2>2
<1> HIDE DEF T
<1>4. 0 .. k \subseteq T
  BY <1>2, <1>3, UpTo
<1> QED  BY <1>0, <1>4 DEF T

\* R is a strict order of S, and a step that is not the last goes up.
Climbs(step, S, R) ==
  /\ \A x \in S : step[x] \in S /\ (step[x] = x \/ <<x, step[x]>> \in R)
  /\ \A x \in S : <<x, x>> \notin R
  /\ \A x, y, z \in S : <<x, y>> \in R /\ <<y, z>> \in R => <<x, z>> \in R

\* A walk that climbs has come to its end after as many steps as there are
\* other places.
LEMMA WalkEnds ==
  ASSUME NEW k \in Nat, NEW step, NEW S, NEW R, NEW a \in S, Climbs(step, S, R),
         IsFiniteSet(S), Cardinality(S) <= k + 1
  PROVE  LET f == Walk(step, a, k)  IN  f[k] \in S /\ step[f[k]] = f[k]
<1>0. PICK f : f = Walk(step, a, k)
  OBVIOUS
<1>1. f[0] = a /\ \A i \in 1 .. k : f[i] = step[f[i - 1]]
  BY <1>0, WalkIs
<1>2. \A i \in 0 .. k : f[i] \in S
  BY <1>0, WalkStays DEF Climbs
<1> SUFFICES ASSUME step[f[k]] # f[k]  PROVE FALSE
  BY <1>0, <1>2
<1>3. ASSUME NEW i \in 0 .. k  PROVE step[f[i]] # f[i]
  <2> SUFFICES ASSUME step[f[i]] = f[i]  PROVE FALSE
    OBVIOUS
  <2> DEFINE T == {j \in 0 .. k : j < i \/ f[j] = f[i]}
  <2>1. 0 \in T
    BY <1>3
  <2>2. ASSUME NEW j \in 0 .. k, j < k, j \in T  PROVE j + 1 \in T
    <3>1. j + 1 \in 1 .. k /\ j + 1 \in 0 .. k /\ j + 1 - 1 = j
      BY <2>2
    <3>2. f[j + 1] = step[f[j]]
      BY <1>1, <3>1
    <3>3. CASE j + 1 < i
      BY <3>1, <3>3
    <3>4. CASE j + 1 = i
      BY <3>1, <3>4
    <3>5. CASE ~ (j + 1 < i) /\ j + 1 # i
      <4>1. ~ (j < i)
        BY <3>5, <2>2
      <4> QED  BY <4>1, <2>2, <3>1, <3>2
    <3> QED  BY <3>3, <3>4, <3>5
  <2> HIDE DEF T
  <2>3. k \in T
    BY <2>1, <2>2, UpTo
  <2>4. k < i \/ f[k] = f[i]
    BY <2>3 DEF T
  <2>5. f[k] = f[i]
    BY <2>4
  <2> QED  BY <2>5
\* What the walk has left behind, so far.
<1> DEFINE Left(i) == {x \in S : <<x, f[i]>> \in R}
           T == {i \in 0 .. k : IsFiniteSet(Left(i)) /\ i <= Cardinality(Left(i))}
<1>4. \A i \in 0 .. k : IsFiniteSet(Left(i)) /\ Cardinality(Left(i)) \in Nat
  BY FS_Subset, FS_CardinalityType
<1>5. 0 \in T
  BY <1>4
<1>6. ASSUME NEW i \in 0 .. k, i < k, i \in T  PROVE i + 1 \in T
  <2>1. i + 1 \in 1 .. k /\ i + 1 \in 0 .. k /\ i + 1 - 1 = i
    BY <1>6
  <2>2. f[i + 1] = step[f[i]] /\ f[i + 1] # f[i]
    BY <1>1, <1>3, <2>1
  <2>3. <<f[i], f[i + 1]>> \in R /\ <<f[i], f[i]>> \notin R /\ f[i] \in S /\ f[i + 1] \in S
    BY <1>2, <2>1, <2>2 DEF Climbs
  <2>4. Left(i) \cup {f[i]} \subseteq Left(i + 1) /\ f[i] \notin Left(i)
    BY <2>3 DEF Climbs
  <2>5. Cardinality(Left(i) \cup {f[i]}) = Cardinality(Left(i)) + 1 /\ IsFiniteSet(Left(i) \cup {f[i]})
    BY <1>4, <2>4, FS_AddElement
  <2>6. Cardinality(Left(i) \cup {f[i]}) <= Cardinality(Left(i + 1))
    BY <1>4, <2>1, <2>4, FS_Subset
  <2>7. i <= Cardinality(Left(i)) /\ Cardinality(Left(i)) \in Nat /\ Cardinality(Left(i + 1)) \in Nat
    BY <1>4, <1>6, <2>1
  <2>8. i + 1 <= Cardinality(Left(i + 1))
    <3> HIDE DEF Left
    <3> QED  BY <2>5, <2>6, <2>7
  <2> QED  BY <1>4, <2>1, <2>8
<1>7. k \in T
  <2> HIDE DEF T
  <2> QED  BY <1>5, <1>6, UpTo
<1>8. k <= Cardinality(Left(k)) /\ k \in 0 .. k
  BY <1>7
<1>9. <<f[k], step[f[k]]>> \in R /\ <<f[k], f[k]>> \notin R /\ f[k] \in S /\ step[f[k]] \in S
  BY <1>2, <1>8 DEF Climbs
<1> DEFINE U == Left(k) \cup {f[k]}
<1>10. f[k] \notin Left(k) /\ step[f[k]] \notin U /\ U \subseteq S
  BY <1>9 DEF Climbs
<1>11. IsFiniteSet(U) /\ Cardinality(U) = Cardinality(Left(k)) + 1
  BY <1>4, <1>8, <1>10, FS_AddElement
<1>12. IsFiniteSet(U \cup {step[f[k]]}) /\ Cardinality(U \cup {step[f[k]]}) = Cardinality(U) + 1
  BY <1>10, <1>11, FS_AddElement
<1>13. Cardinality(U \cup {step[f[k]]}) <= Cardinality(S)
  BY <1>9, <1>10, FS_Subset
<1>14. Cardinality(Left(k)) \in Nat /\ Cardinality(S) \in Nat
  BY <1>4, <1>8, FS_CardinalityType
<1> HIDE DEF U, Left
<1> QED  BY <1>8, <1>11, <1>12, <1>13, <1>14

\* A walk that climbs comes to every place that none of its steps jumps over.
LEMMA WalkMeets ==
  ASSUME NEW k \in Nat, NEW step, NEW S, NEW R, NEW a \in S, Climbs(step, S, R),
         IsFiniteSet(S), Cardinality(S) <= k + 1,
         NEW z \in S, a = z \/ <<a, z>> \in R,
         \A x \in S : <<x, z>> \in R => step[x] # x /\ (step[x] = z \/ <<step[x], z>> \in R)
  PROVE  \E i \in 0 .. k : Walk(step, a, k)[i] = z
<1>0. PICK f : f = Walk(step, a, k)
  OBVIOUS
<1> SUFFICES ASSUME \A i \in 0 .. k : f[i] # z  PROVE FALSE
  BY <1>0
<1>1. f[0] = a /\ \A i \in 1 .. k : f[i] = step[f[i - 1]]
  BY <1>0, WalkIs
<1>2. \A i \in 0 .. k : f[i] \in S
  BY <1>0, WalkStays DEF Climbs
<1> DEFINE T == {i \in 0 .. k : <<f[i], z>> \in R}
<1>3. 0 \in T
  BY <1>1
<1>4. ASSUME NEW i \in 0 .. k, i < k, i \in T  PROVE i + 1 \in T
  <2>1. i + 1 \in 1 .. k /\ i + 1 \in 0 .. k /\ i + 1 - 1 = i
    BY <1>4
  <2>2. f[i + 1] = step[f[i]]
    BY <1>1, <2>1
  <2> QED  BY <1>2, <1>4, <2>1, <2>2
<1>5. k \in T
  <2> HIDE DEF T
  <2> QED  BY <1>3, <1>4, UpTo
<1>6. step[f[k]] = f[k] /\ f[k] \in S
  BY <1>0, WalkEnds
<1>7. <<f[k], z>> \in R
  BY <1>5
<1> QED  BY <1>6, <1>7

-----------------------------------------------------------------------------
(***************************************************************************)
(* Doubly linked nodes between two sentinels, in some order.               *)
(***************************************************************************)

\* The set of pairs R orders S.
Order(R, S) ==
  /\ \A x \in S : <<x, x>> \notin R
  /\ \A x, y, z \in S : <<x, y>> \in R /\ <<y, z>> \in R => <<x, z>> \in R
  /\ \A x, y \in S : x = y \/ <<x, y>> \in R \/ <<y, x>> \in R

\* The links next and prev join the nodes N, in the order R, between the
\* sentinels h and t.
Joins(R, next, prev, h, t, N) ==
  /\ h # t /\ h \notin N /\ t \notin N
  /\ Order(R, {h, t} \cup N)
  /\ <<h, t>> \in R /\ \A x \in N : <<h, x>> \in R /\ <<x, t>> \in R
  /\ \A x \in {h} \cup N : next[x] \in N \cup {t} /\ <<x, next[x]>> \in R /\ prev[next[x]] = x
  /\ \A x \in N \cup {t} : prev[x] \in {h} \cup N /\ next[prev[x]] = x
  /\ \A x \in {h} \cup N, z \in N : <<x, z>> \in R => z = next[x] \/ <<next[x], z>> \in R

\* A walk along the links to the end meets the nodes and the sentinels.
LEMMA JoinWalk ==
  ASSUME NEW R, NEW next, NEW prev, NEW h, NEW t, NEW N, Joins(R, next, prev, h, t, N),
         NEW k \in Nat, IsFiniteSet(N), Cardinality(N) <= k,
         NEW step, \A x \in {h} \cup N : step[x] = next[x], step[t] = t
  PROVE  {Walk(step, h, k + 1)[i] : i \in 0 .. k + 1} = {h, t} \cup N
<1>1. PICK S : S = {h, t} \cup N
  OBVIOUS
<1>2. IsFiniteSet(S) /\ Cardinality(S) <= k + 1 + 1
  <2>1. /\ IsFiniteSet(N \cup {h}) /\ Cardinality(N \cup {h}) = Cardinality(N) + 1
        /\ t \notin N \cup {h}
    BY FS_AddElement DEF Joins
  <2>2. IsFiniteSet((N \cup {h}) \cup {t}) /\ Cardinality((N \cup {h}) \cup {t}) = Cardinality(N \cup {h}) + 1
    BY <2>1, FS_AddElement
  <2>3. S = (N \cup {h}) \cup {t}
    BY <1>1
  <2>4. Cardinality(N) \in Nat
    BY FS_CardinalityType
  <2> QED  BY <2>1, <2>2, <2>3, <2>4
<1>3. Climbs(step, S, R)
  BY <1>1 DEF Climbs, Joins, Order
<1>4. k + 1 \in Nat /\ h \in S
  BY <1>1
<1>5. \A i \in 0 .. k + 1 : Walk(step, h, k + 1)[i] \in S
  BY <1>3, <1>4, WalkStays DEF Climbs
<1>6. ASSUME NEW z \in S  PROVE \E i \in 0 .. k + 1 : Walk(step, h, k + 1)[i] = z
  <2>1. h = z \/ <<h, z>> \in R
    BY <1>1 DEF Joins
  <2>2. ASSUME NEW x \in S, <<x, z>> \in R
        PROVE  step[x] # x /\ (step[x] = z \/ <<step[x], z>> \in R)
    <3>1. x # t
      <4> SUFFICES ASSUME x = t  PROVE FALSE
        OBVIOUS
      <4>1. z = t \/ <<z, t>> \in R
        BY <1>1 DEF Joins
      <4> QED  BY <1>1, <2>2, <4>1 DEF Joins, Order
    <3>2. x \in {h} \cup N /\ step[x] = next[x] /\ <<x, next[x]>> \in R /\ next[x] \in N \cup {t}
      BY <1>1, <3>1 DEF Joins
    <3>3. next[x] # x
      BY <1>1, <3>2 DEF Joins, Order
    <3>4. next[x] = z \/ <<next[x], z>> \in R
      <4>1. CASE z \in N
        BY <2>2, <3>2, <4>1 DEF Joins
      <4>2. CASE z = t
        BY <3>2, <4>2 DEF Joins
      <4>3. CASE z = h
        <5>1. x = h \/ <<h, x>> \in R
          BY <3>2 DEF Joins
        <5> QED  BY <1>1, <2>2, <4>3, <5>1 DEF Joins, Order
      <4> QED  BY <1>1, <4>1, <4>2, <4>3
    <3> QED  BY <3>2, <3>3, <3>4
  <2> QED  BY <1>2, <1>3, <1>4, <2>1, <2>2, WalkMeets
<1>7. /\ \A y \in {Walk(step, h, k + 1)[i] : i \in 0 .. k + 1} : y \in S
      /\ \A y \in S : y \in {Walk(step, h, k + 1)[i] : i \in 0 .. k + 1}
  BY <1>5, <1>6
<1> QED  BY <1>1, <1>7

\* A walk that stops before the first node in a set comes to the one before it.
LEMMA JoinParent ==
  ASSUME NEW R, NEW next, NEW prev, NEW h, NEW t, NEW N, Joins(R, next, prev, h, t, N),
         NEW k \in Nat, IsFiniteSet(N), Cardinality(N) <= k,
         NEW stop, NEW step, \A x \in {h} \cup N : step[x] = IF next[x] = t \/ next[x] \in stop THEN x ELSE next[x]
  PROVE  LET p == Walk(step, h, k)[k]
         IN  /\ p \in {h} \cup N /\ (next[p] = t \/ next[p] \in stop)
             /\ \A z \in N : z = p \/ <<z, p>> \in R => z \notin stop
<1>1. PICK S : S = {x \in {h} \cup N : \A z \in N : z = x \/ <<z, x>> \in R => z \notin stop}
  OBVIOUS
<1>2. IsFiniteSet(S) /\ Cardinality(S) <= k + 1
  <2>1. /\ IsFiniteSet(N \cup {h}) /\ Cardinality(N \cup {h}) = Cardinality(N) + 1
    BY FS_AddElement DEF Joins
  <2>2. S \subseteq N \cup {h}
    BY <1>1
  <2>3. IsFiniteSet(S) /\ Cardinality(S) <= Cardinality(N \cup {h})
    BY <2>1, <2>2, FS_Subset
  <2>4. Cardinality(N) \in Nat /\ Cardinality(S) \in Nat
    BY <2>3, FS_CardinalityType
  <2> QED  BY <2>1, <2>3, <2>4
<1>3. h \in S
  <2>1. ASSUME NEW z \in N  PROVE z # h /\ <<z, h>> \notin R
    BY DEF Joins, Order
  <2> QED  BY <1>1, <2>1
<1>4. ASSUME NEW x \in S, step[x] # x
      PROVE  step[x] = next[x] /\ step[x] \in S /\ <<x, step[x]>> \in R
  <2>1. PICK y : y = next[x]
    OBVIOUS
  <2>2. x \in {h} \cup N /\ step[x] = y /\ y # t /\ y \notin stop /\ y \in N /\ <<x, y>> \in R
    BY <1>1, <1>4, <2>1 DEF Joins
  <2>3. ASSUME NEW z \in N, <<z, y>> \in R  PROVE z \notin stop
    <3>1. z = x \/ <<z, x>> \in R \/ <<x, z>> \in R
      BY <2>2 DEF Joins, Order
    <3>2. CASE <<x, z>> \in R
      <4>1. z = y \/ <<y, z>> \in R
        BY <2>1, <2>2, <3>2 DEF Joins
      <4>2. z = y
        BY <2>2, <2>3, <4>1 DEF Joins, Order
      <4> QED  BY <2>2, <4>2
    <3>3. CASE z = x \/ <<z, x>> \in R
      BY <1>1, <3>3
    <3> QED  BY <3>1, <3>2, <3>3
  <2> QED  BY <1>1, <2>1, <2>2, <2>3
<1>5. Climbs(step, S, R)
  <2>1. S \subseteq {h, t} \cup N
    BY <1>1
  <2> QED  BY <1>4, <2>1 DEF Climbs, Joins, Order
<1>6. PICK p : p = Walk(step, h, k)[k]
  OBVIOUS
<1>7. p \in S /\ step[p] = p
  BY <1>2, <1>3, <1>5, <1>6, WalkEnds
<1>8. p \in {h} \cup N /\ next[p] # p
  <2>1. p \in {h} \cup N
    BY <1>1, <1>7
  <2> QED  BY <2>1 DEF Joins, Order
<1>9. next[p] = t \/ next[p] \in stop
  BY <1>7, <1>8
<1>10. \A z \in N : z = p \/ <<z, p>> \in R => z \notin stop
  BY <1>1, <1>7
<1> QED  BY <1>6, <1>8, <1>9, <1>10

\* A node is put behind p.
LEMMA JoinInsert ==
  ASSUME NEW R, NEW next, NEW prev, NEW h, NEW t, NEW N, Joins(R, next, prev, h, t, N),
         NEW p \in {h} \cup N, NEW c, c = next[p], NEW n, n \notin N \cup {h, t}, NEW next2, NEW prev2,
         next2[n] = c, prev2[n] = p, next2[p] = n, prev2[c] = n,
         \A x \in {h} \cup N : x # p => next2[x] = next[x],
         \A x \in N \cup {t} : x # c => prev2[x] = prev[x]
  PROVE  \E R2 : /\ Joins(R2, next2, prev2, h, t, N \cup {n})
                 /\ \A x, y \in N : <<x, y>> \in R2 => <<x, y>> \in R
                 /\ \A x \in N : <<x, n>> \in R2 => x = p \/ <<x, p>> \in R
                 /\ \A x \in N : <<n, x>> \in R2 => x = c \/ <<c, x>> \in R
<1>1. PICK S : S = {h, t} \cup N
  OBVIOUS
<1>2. /\ Order(R, S) /\ p \in S /\ c \in S /\ n \notin S /\ h \in S /\ t \in S /\ N \subseteq S
      /\ c \in N \cup {t} /\ <<p, c>> \in R /\ p # t /\ h # c /\ prev[c] = p
  BY <1>1 DEF Joins, Order
<1> DEFINE before(x) == x = p \/ <<x, p>> \in R
           R2 == {r \in (S \cup {n}) \X (S \cup {n}) :
                    \/ r[1] # n /\ r[2] # n /\ r \in R
                    \/ r[1] # n /\ r[2] = n /\ before(r[1])
                    \/ r[1] = n /\ r[2] # n /\ ~before(r[2])}
<1>3. \A x, y \in S \cup {n} :
        <<x, y>> \in R2 <=> \/ x # n /\ y # n /\ <<x, y>> \in R
                            \/ x # n /\ y = n /\ before(x)
                            \/ x = n /\ y # n /\ ~before(y)
  OBVIOUS
<1>4. \A x \in S : ~before(x) => x = c \/ <<c, x>> \in R
  <2> SUFFICES ASSUME NEW x \in S, ~before(x)  PROVE x = c \/ <<c, x>> \in R
    OBVIOUS
  <2>1. <<p, x>> \in R
    BY <1>2 DEF Order
  <2>2. CASE x \in N
    BY <2>1, <2>2 DEF Joins
  <2>3. CASE x = t
    BY <1>2, <2>3 DEF Joins
  <2>4. CASE x = h
    <3>1. p = h \/ <<h, p>> \in R
      BY DEF Joins
    <3> QED  BY <1>2, <2>1, <2>4, <3>1 DEF Order
  <2> QED  BY <1>1, <2>2, <2>3, <2>4
<1>5. ~before(c) /\ ~before(t) /\ before(h) /\ before(p)
  <2>1. ~before(c)
    BY <1>2 DEF Order
  <2>2. <<p, t>> \in R
    BY DEF Joins
  <2>3. ~before(t)
    BY <1>2, <2>2 DEF Order
  <2>4. before(h)
    BY DEF Joins
  <2> QED  BY <2>1, <2>3, <2>4
<1>6. \A x, y \in S : <<x, y>> \in R /\ before(y) => before(x)
  BY <1>2 DEF Order
<1> HIDE DEF before
<1>7. Order(R2, S \cup {n})
  <2> HIDE DEF R2
  <2>1. \A x \in S \cup {n} : <<x, x>> \notin R2
    BY <1>2, <1>3 DEF Order
  <2>2. ASSUME NEW x \in S \cup {n}, NEW y \in S \cup {n}, x # y  PROVE <<x, y>> \in R2 \/ <<y, x>> \in R2
    <3>1. CASE x = n \/ y = n
      <4>1. (x \in S \/ y \in S) /\ (x = n \/ y = n)
        BY <2>2, <3>1
      <4> QED  BY <1>2, <1>3, <2>2, <4>1
    <3>2. CASE x # n /\ y # n
      <4>1. <<x, y>> \in R \/ <<y, x>> \in R
        BY <1>2, <2>2, <3>2 DEF Order
      <4> QED  BY <1>3, <3>2, <4>1
    <3> QED  BY <3>1, <3>2
  <2>3. ASSUME NEW x \in S \cup {n}, NEW y \in S \cup {n}, NEW z \in S \cup {n}, <<x, y>> \in R2, <<y, z>> \in R2
        PROVE  <<x, z>> \in R2
    <3>1. \A u, v \in S : ~before(u) /\ before(v) => <<v, u>> \in R
      <4> SUFFICES ASSUME NEW u \in S, NEW v \in S, ~before(u), before(v)  PROVE <<v, u>> \in R
        OBVIOUS
      <4>1. u # v /\ <<u, v>> \notin R
        BY <1>6
      <4> QED  BY <1>2, <4>1 DEF Order
    <3>2. CASE x = n
      BY <1>2, <1>3, <1>6, <2>3, <3>2
    <3>3. CASE y = n
      BY <1>2, <1>3, <2>3, <3>1, <3>3
    <3>4. CASE z = n
      BY <1>2, <1>3, <1>6, <2>3, <3>4
    <3>5. CASE x # n /\ y # n /\ z # n
      BY <1>2, <1>3, <2>3, <3>5 DEF Order
    <3> QED  BY <3>2, <3>3, <3>4, <3>5
  <2> QED  BY <2>1, <2>2, <2>3 DEF Order
<1>8. S \cup {n} = {h, t} \cup (N \cup {n})
  BY <1>1
<1>9. h # t /\ h \notin N \cup {n} /\ t \notin N \cup {n}
  BY DEF Joins
<1>10. <<h, t>> \in R2 /\ \A x \in N \cup {n} : <<h, x>> \in R2 /\ <<x, t>> \in R2
  <2> HIDE DEF R2
  <2>1. <<h, t>> \in R /\ \A x \in N : <<h, x>> \in R /\ <<x, t>> \in R
    BY DEF Joins
  <2> QED  BY <1>2, <1>3, <1>5, <2>1
<1>11. ASSUME NEW x \in {h} \cup (N \cup {n})
       PROVE  next2[x] \in (N \cup {n}) \cup {t} /\ <<x, next2[x]>> \in R2 /\ prev2[next2[x]] = x
  <2> HIDE DEF R2
  <2>1. CASE x = n
    BY <1>2, <1>3, <1>5, <2>1
  <2>2. CASE x = p
    BY <1>2, <1>3, <1>5, <2>2
  <2>3. CASE x # n /\ x # p
    <3>1. x \in {h} \cup N /\ next2[x] = next[x]
      BY <2>3
    <3>2. next[x] \in N \cup {t} /\ <<x, next[x]>> \in R /\ prev[next[x]] = x
      BY <3>1 DEF Joins
    <3>3. next[x] # c
      BY <1>2, <2>3, <3>2
    <3> QED  BY <1>2, <1>3, <3>1, <3>2, <3>3
  <2> QED  BY <2>1, <2>2, <2>3
<1>12. ASSUME NEW x \in (N \cup {n}) \cup {t}
       PROVE  prev2[x] \in {h} \cup (N \cup {n}) /\ next2[prev2[x]] = x
  <2>1. CASE x = n
    BY <2>1
  <2>2. CASE x = c
    BY <2>2
  <2>3. CASE x # n /\ x # c
    <3>1. x \in N \cup {t} /\ prev2[x] = prev[x] /\ prev[x] \in {h} \cup N /\ next[prev[x]] = x
      BY <2>3 DEF Joins
    <3>2. prev[x] # p
      BY <2>3, <3>1
    <3> QED  BY <3>1, <3>2
  <2> QED  BY <2>1, <2>2, <2>3
<1>13. ASSUME NEW x \in {h} \cup (N \cup {n}), NEW z \in N \cup {n}, <<x, z>> \in R2
       PROVE  z = next2[x] \/ <<next2[x], z>> \in R2
  <2> HIDE DEF R2
  <2>1. CASE x = n
    <3>1. z \in S /\ ~before(z)
      BY <1>2, <1>3, <1>13, <2>1
    <3>2. z = c \/ <<c, z>> \in R
      BY <1>4, <3>1
    <3> QED  BY <1>2, <1>3, <2>1, <3>1, <3>2
  <2>2. CASE x = p
    <3>1. CASE z = n
      BY <2>2, <3>1
    <3>2. CASE z # n
      <4>1. z \in S /\ <<p, z>> \in R
        BY <1>2, <1>3, <1>13, <2>2, <3>2
      <4>2. ~before(z)
        BY <1>2, <4>1 DEF Order, before
      <4> QED  BY <1>3, <2>2, <4>1, <4>2, <3>2
    <3> QED  BY <3>1, <3>2
  <2>3. CASE x # n /\ x # p
    <3>1. x \in {h} \cup N /\ next2[x] = next[x] /\ next[x] \in N \cup {t}
      BY <2>3 DEF Joins
    <3>2. CASE z = n
      <4>1. before(x)
        BY <1>2, <1>3, <1>13, <2>3, <3>1, <3>2
      <4>2. <<x, p>> \in R
        BY <2>3, <4>1 DEF before
      <4>3. p \in N
        <5>1. p # h
          BY <3>1, <4>2 DEF Joins, Order
        <5> QED  BY <5>1
      <4>4. p = next[x] \/ <<next[x], p>> \in R
        BY <3>1, <4>2, <4>3 DEF Joins
      <4>5. before(next[x])
        BY <4>4 DEF before
      <4> QED  BY <1>2, <1>3, <3>1, <3>2, <4>5
    <3>3. CASE z # n
      <4>1. z \in N /\ <<x, z>> \in R
        BY <1>2, <1>3, <1>13, <2>3, <3>1, <3>3
      <4>2. z = next[x] \/ <<next[x], z>> \in R
        BY <3>1, <4>1 DEF Joins
      <4> QED  BY <1>2, <1>3, <3>1, <3>3, <4>1, <4>2
    <3> QED  BY <3>2, <3>3
  <2> QED  BY <2>1, <2>2, <2>3
<1>14. Joins(R2, next2, prev2, h, t, N \cup {n})
  <2> HIDE DEF R2
  <2> QED  BY <1>7, <1>8, <1>9, <1>10, <1>11, <1>12, <1>13 DEF Joins
<1>15. /\ \A x, y \in N : <<x, y>> \in R2 => <<x, y>> \in R
       /\ \A x \in N : <<x, n>> \in R2 => x = p \/ <<x, p>> \in R
       /\ \A x \in N : <<n, x>> \in R2 => x = c \/ <<c, x>> \in R
  <2> HIDE DEF R2
  <2> QED  BY <1>2, <1>3, <1>4 DEF before
<1> HIDE DEF R2
<1> QED  BY <1>14, <1>15

\* A node is taken out.
LEMMA JoinRemove ==
  ASSUME NEW R, NEW next, NEW prev, NEW h, NEW t, NEW N, Joins(R, next, prev, h, t, N),
         NEW c \in N, NEW p, p = prev[c], NEW d, d = next[c], NEW next2, NEW prev2,
         next2[p] = d, prev2[d] = p,
         \A x \in {h} \cup N : x # p => next2[x] = next[x],
         \A x \in N \cup {t} : x # d => prev2[x] = prev[x]
  PROVE  Joins(R, next2, prev2, h, t, N \ {c})
<1>1. /\ p \in {h} \cup N /\ next[p] = c /\ d \in N \cup {t} /\ prev[d] = c
      /\ <<p, c>> \in R /\ <<c, d>> \in R
  BY DEF Joins
<1>2. /\ Order(R, {h, t} \cup N) /\ h # t /\ h \notin N /\ t \notin N
      /\ p # c /\ d # c /\ <<p, d>> \in R /\ p # d
  BY <1>1 DEF Joins, Order
<1>3. Order(R, {h, t} \cup (N \ {c}))
  BY <1>2 DEF Order
<1>4. <<h, t>> \in R /\ \A x \in N \ {c} : <<h, x>> \in R /\ <<x, t>> \in R
  BY DEF Joins
<1>5. ASSUME NEW x \in {h} \cup (N \ {c})
      PROVE  next2[x] \in (N \ {c}) \cup {t} /\ <<x, next2[x]>> \in R /\ prev2[next2[x]] = x
  <2>1. CASE x = p
    BY <1>1, <1>2, <2>1
  <2>2. CASE x # p
    <3>1. /\ next2[x] = next[x] /\ next[x] \in N \cup {t} /\ <<x, next[x]>> \in R /\ prev[next[x]] = x
      BY <2>2 DEF Joins
    <3>2. next[x] # c /\ next[x] # d
      BY <1>1, <1>2, <2>2, <3>1
    <3> QED  BY <3>1, <3>2
  <2> QED  BY <2>1, <2>2
<1>6. ASSUME NEW x \in (N \ {c}) \cup {t}
      PROVE  prev2[x] \in {h} \cup (N \ {c}) /\ next2[prev2[x]] = x
  <2>1. CASE x = d
    BY <1>1, <1>2, <2>1
  <2>2. CASE x # d
    <3>1. x \in N \cup {t} /\ x # c
      BY <1>2
    <3>2. prev2[x] = prev[x] /\ prev[x] \in {h} \cup N /\ next[prev[x]] = x
      BY <2>2, <3>1 DEF Joins
    <3>3. prev[x] # p /\ prev[x] # c
      BY <1>1, <2>2, <3>1, <3>2
    <3> QED  BY <3>2, <3>3
  <2> QED  BY <2>1, <2>2
<1>7. ASSUME NEW x \in {h} \cup (N \ {c}), NEW z \in N \ {c}, <<x, z>> \in R
      PROVE  z = next2[x] \/ <<next2[x], z>> \in R
  <2>1. z = next[x] \/ <<next[x], z>> \in R
    BY <1>7 DEF Joins
  <2>2. CASE x # p
    BY <2>1, <2>2
  <2>3. CASE x = p
    <3>1. <<c, z>> \in R
      BY <1>1, <2>1, <2>3
    <3>2. z = d \/ <<d, z>> \in R
      BY <3>1 DEF Joins
    <3> QED  BY <2>3, <3>2
  <2> QED  BY <2>2, <2>3
<1> QED  BY <1>2, <1>3, <1>4, <1>5, <1>6, <1>7 DEF Joins

\* At first there is no node.
LEMMA JoinNothing ==
  ASSUME NEW next, NEW prev, NEW h, NEW t, h # t, next[h] = t, prev[t] = h
  PROVE  Joins({<<h, t>>}, next, prev, h, t, {})
<1>1. {h, t} \cup {} = {h, t} /\ {h} \cup {} = {h} /\ {} \cup {t} = {t}
  OBVIOUS
<1>2. Order({<<h, t>>}, {h, t})
  BY DEF Order
<1> QED  BY <1>1, <1>2 DEF Joins

\* Only the links of the nodes and of the sentinels matter.
LEMMA JoinSame ==
  ASSUME NEW R, NEW next, NEW prev, NEW h, NEW t, NEW N, Joins(R, next, prev, h, t, N), NEW next2, NEW prev2,
         \A x \in {h} \cup N : next2[x] = next[x], \A x \in N \cup {t} : prev2[x] = prev[x]
  PROVE  Joins(R, next2, prev2, h, t, N)
<1>1. ASSUME NEW x \in {h} \cup N
      PROVE  next2[x] \in N \cup {t} /\ <<x, next2[x]>> \in R /\ prev2[next2[x]] = x
  BY DEF Joins
<1>2. ASSUME NEW x \in N \cup {t}
      PROVE  prev2[x] \in {h} \cup N /\ next2[prev2[x]] = x
  BY DEF Joins
<1>3. \A x \in {h} \cup N, z \in N : <<x, z>> \in R => z = next2[x] \/ <<next2[x], z>> \in R
  BY DEF Joins
<1> QED  BY <1>1, <1>2, <1>3 DEF Joins

-----------------------------------------------------------------------------
(***************************************************************************)
(* The sorted list.                                                        *)
(***************************************************************************)

\* The address of a new node: the first that has not been used.
LEMMA FirstUnused ==
  ASSUME NEW data, Unused(data) # {}
  PROVE  LET n == CHOOSE x \in D!Node : data[x] = 0 /\ \A i \in D!Node : data[i] = 0 => x <= i
         IN  n \in D!Node /\ data[n] = 0
<1>1. PICK x \in Unused(data) : \A i \in Unused(data) : x <= i
  <2>1. Unused(data) \in SUBSET Nat
    BY DEF Unused, D!Node
  <2> QED  BY <2>1, LeastOf
<1>2. x \in D!Node /\ data[x] = 0 /\ \A i \in D!Node : data[i] = 0 => x <= i
  BY <1>1 DEF Unused
<1> QED  BY <1>2

ListPlace == {head, tail} \cup L!Node
ListMem == [next : [ListPlace -> ListPlace \cup {Null}], prev : [ListPlace -> ListPlace \cup {Null}],
            data : [L!Node -> Key \cup {0}]]

\* The list consists of the nodes N, which are what the calls should have left,
\* in the order of their data.
IsList(m, N, it) ==
  /\ m \in ListMem /\ it \in [Key -> Nat]
  /\ N \subseteq L!Node /\ \A n \in N : m.data[n] # 0
  /\ \E R : /\ Joins(R, m.next, m.prev, head, tail, N)
            /\ \A x, y \in N : <<x, y>> \in R => m.data[x] <= m.data[y]
  /\ \A k \in Key : it[k] = Cardinality({n \in N : m.data[n] = k})

ListInv ==
  /\ \E N : IsList(mem, N, items)
  /\ last[1] = last[2]

LEMMA Places ==
  /\ head # tail /\ head \notin L!Node /\ tail \notin L!Node /\ L!Node = D!Node
  /\ MaxNodes \in Nat \ {0} /\ Key \subseteq Nat \ {0}
  /\ \A N \in SUBSET L!Node : IsFiniteSet(N) /\ Cardinality(N) \in Nat /\ Cardinality(N) <= MaxNodes
<1>1. L!Node = D!Node
  BY DEF D!Node, L!Node
<1>2. \A N \in SUBSET L!Node : IsFiniteSet(N) /\ Cardinality(N) \in Nat /\ Cardinality(N) <= MaxNodes
  BY <1>1, Room, FS_Subset, FS_CardinalityType
<1> QED  BY <1>1, <1>2, LockBasedAssumption DEF L!Node

LEMMA ListCounts == \A S : L!Cardinality(S) = Cardinality(S)
BY Zenon DEF Cardinality, L!Cardinality

\* The walk of insert and remove.
LEMMA ListParent ==
  ASSUME NEW N, NEW R, Joins(R, mem.next, mem.prev, head, tail, N), N \subseteq L!Node, mem \in ListMem,
         \A x, y \in N : <<x, y>> \in R => mem.data[x] <= mem.data[y],
         NEW k \in Key
  PROVE  LET p == L!Parent(k)
         IN  /\ p \in {head} \cup N /\ mem.next[p] \in N \cup {tail}
             /\ mem.next[p] # tail => mem.data[mem.next[p]] >= k
             /\ \A z \in N : z = p \/ <<z, p>> \in R => mem.data[z] < k
             /\ \A z \in N : ~ (z = p \/ <<z, p>> \in R) => mem.data[z] >= k
<1>1. PICK step : step = [n \in {head} \cup L!Node |->
                            IF mem.next[n] = tail \/ mem.data[mem.next[n]] >= k THEN n ELSE mem.next[n]]
  OBVIOUS
<1>2. PICK stop : stop = {x \in N : mem.data[x] >= k}
  OBVIOUS
<1>3. PICK p : p = Walk(step, head, MaxNodes)[MaxNodes]
  OBVIOUS
<1>4. p = L!Parent(k)
  BY <1>1, <1>3 DEF L!Parent, Walk, IsWalk
<1>5. \A x \in {head} \cup N : step[x] = IF mem.next[x] = tail \/ mem.next[x] \in stop THEN x ELSE mem.next[x]
  <2>1. \A x \in {head} \cup N : mem.next[x] \in N \cup {tail}
    BY DEF Joins
  <2>2. {head} \cup N \subseteq {head} \cup L!Node
    OBVIOUS
  <2> QED  BY <1>1, <1>2, <2>1, <2>2
<1>6. IsFiniteSet(N) /\ Cardinality(N) <= MaxNodes /\ MaxNodes \in Nat
  BY Places
<1>7. /\ p \in {head} \cup N /\ (mem.next[p] = tail \/ mem.next[p] \in stop)
      /\ \A z \in N : z = p \/ <<z, p>> \in R => z \notin stop
  BY <1>3, <1>5, <1>6, JoinParent
<1>8. \A x \in N : mem.data[x] \in Nat
  <2>1. mem.data \in [L!Node -> Key \cup {0}] /\ Key \cup {0} \subseteq Nat
    BY Places DEF ListMem
  <2> QED  BY <2>1
<1>9. \A z \in N : z = p \/ <<z, p>> \in R => mem.data[z] < k
  <2>1. k \in Nat
    BY Places
  <2> QED  BY <1>2, <1>7, <1>8, <2>1
<1>10. ASSUME NEW z \in N, ~ (z = p \/ <<z, p>> \in R)  PROVE mem.data[z] >= k
  <2>1. <<p, z>> \in R
    BY <1>7, <1>10 DEF Joins, Order
  <2>2. PICK c : c = mem.next[p]
    OBVIOUS
  <2>3. z = c \/ <<c, z>> \in R
    BY <1>7, <2>1, <2>2 DEF Joins
  <2>4. c \in N /\ mem.data[c] >= k
    <3>1. c # tail
      <4> SUFFICES ASSUME c = tail  PROVE FALSE
        OBVIOUS
      <4>1. z # tail /\ <<z, tail>> \in R
        BY DEF Joins
      <4> QED  BY <2>3, <4>1 DEF Joins, Order
    <3> QED  BY <1>2, <1>7, <2>2, <3>1
  <2>5. mem.data[c] <= mem.data[z] /\ mem.data[c] \in Nat /\ mem.data[z] \in Nat /\ k \in Nat
    BY <1>8, <2>3, <2>4, Places
  <2> QED  BY <2>4, <2>5
<1>11. mem.next[p] \in N \cup {tail} /\ (mem.next[p] # tail => mem.data[mem.next[p]] >= k)
  BY <1>2, <1>7
<1> QED  BY <1>4, <1>7, <1>9, <1>10, <1>11

LEMMA InsertList ==
  ASSUME ListInv, Unused(mem.data) # {}, NEW k \in Key, L!Insert(k)
  PROVE  ListInv' /\ \E n : Unused(mem.data) \ {n} \subseteq Unused(mem'.data)
<1>1. PICK N : IsList(mem, N, items)
  BY DEF ListInv
<1>2. PICK R : /\ Joins(R, mem.next, mem.prev, head, tail, N)
               /\ \A x, y \in N : <<x, y>> \in R => mem.data[x] <= mem.data[y]
  BY <1>1 DEF IsList
<1>3. /\ mem \in ListMem /\ items \in [Key -> Nat] /\ N \subseteq L!Node /\ \A x \in N : mem.data[x] # 0
      /\ \A i \in Key : items[i] = Cardinality({x \in N : mem.data[x] = i})
  BY <1>1 DEF IsList
<1>4. PICK p, c, n : p = L!Parent(k) /\ c = mem.next[p] /\ n = L!Fresh
  OBVIOUS
<1>5. n \in L!Node /\ mem.data[n] = 0
  <2>1. PICK data : data = mem.data
    OBVIOUS
  <2>2. n = CHOOSE x \in D!Node : data[x] = 0 /\ \A i \in D!Node : data[i] = 0 => x <= i
    BY <1>4, <2>1, Places DEF L!Fresh
  <2>3. n \in D!Node /\ data[n] = 0
    BY <2>1, <2>2, FirstUnused
  <2> QED  BY <2>1, <2>3, Places
<1>6. /\ p \in {head} \cup N /\ c \in N \cup {tail} /\ (c # tail => mem.data[c] >= k)
      /\ \A z \in N : z = p \/ <<z, p>> \in R => mem.data[z] < k
      /\ \A z \in N : ~ (z = p \/ <<z, p>> \in R) => mem.data[z] >= k
  BY <1>2, <1>3, <1>4, ListParent
<1>7. n \notin N \cup {head, tail} /\ n # p /\ n # c
  BY <1>3, <1>5, <1>6, Places
<1>8. PICK next2, prev2, data2 :
        /\ next2 = [[mem.next EXCEPT ![n] = c] EXCEPT ![p] = n]
        /\ prev2 = [[mem.prev EXCEPT ![n] = p] EXCEPT ![c] = n]
        /\ data2 = [mem.data EXCEPT ![n] = k]
  OBVIOUS
<1>9. /\ mem'.next = next2 /\ mem'.prev = prev2 /\ mem'.data = data2
      /\ mem' = [next |-> next2, prev |-> prev2, data |-> data2]
      /\ items' = [items EXCEPT ![k] = @ + 1] /\ last' = <<0, 0>>
  <2>1. mem' = [mem EXCEPT !.data[n] = k, !.next[n] = c, !.prev[n] = p, !.next[p] = n, !.prev[c] = n]
    BY <1>4 DEF L!Insert
  <2>2. mem = [next |-> mem.next, prev |-> mem.prev, data |-> mem.data]
    BY <1>3 DEF ListMem
  <2>3. mem' = [next |-> next2, prev |-> prev2, data |-> data2]
    BY <1>8, <2>1, <2>2
  <2>4. items' = [items EXCEPT ![k] = @ + 1] /\ last' = <<0, 0>>
    BY DEF L!Insert
  <2> QED  BY <2>3, <2>4
<1>10. {head, tail} \cup N \cup {n} \subseteq ListPlace /\ p \in ListPlace /\ c \in ListPlace
  BY <1>3, <1>5, <1>6 DEF ListPlace
<1>11. /\ next2[n] = c /\ next2[p] = n /\ \A x \in ListPlace : x # p /\ x # n => next2[x] = mem.next[x]
       /\ prev2[n] = p /\ prev2[c] = n /\ \A x \in ListPlace : x # c /\ x # n => prev2[x] = mem.prev[x]
       /\ data2[n] = k /\ \A x \in L!Node : x # n => data2[x] = mem.data[x]
  <2>1. mem.next \in [ListPlace -> ListPlace \cup {Null}] /\ mem.prev \in [ListPlace -> ListPlace \cup {Null}]
        /\ mem.data \in [L!Node -> Key \cup {0}]
    BY <1>3 DEF ListMem
  <2> QED  BY <1>5, <1>7, <1>8, <1>10, <2>1
<1>12. mem' \in ListMem
  <2>1. mem.next \in [ListPlace -> ListPlace \cup {Null}] /\ mem.prev \in [ListPlace -> ListPlace \cup {Null}]
        /\ mem.data \in [L!Node -> Key \cup {0}]
    BY <1>3 DEF ListMem
  <2>2. next2 \in [ListPlace -> ListPlace \cup {Null}] /\ prev2 \in [ListPlace -> ListPlace \cup {Null}]
    BY <1>8, <1>10, <2>1
  <2>3. data2 \in [L!Node -> Key \cup {0}]
    BY <1>8, <2>1
  <2> QED  BY <1>9, <2>2, <2>3 DEF ListMem
<1>13. PICK R2 : /\ Joins(R2, next2, prev2, head, tail, N \cup {n})
                 /\ \A x, y \in N : <<x, y>> \in R2 => <<x, y>> \in R
                 /\ \A x \in N : <<x, n>> \in R2 => x = p \/ <<x, p>> \in R
                 /\ \A x \in N : <<n, x>> \in R2 => x = c \/ <<c, x>> \in R
  <2>1. \A x \in {head} \cup N : x # p => next2[x] = mem.next[x]
    BY <1>7, <1>10, <1>11
  <2>2. \A x \in N \cup {tail} : x # c => prev2[x] = mem.prev[x]
    BY <1>7, <1>10, <1>11
  <2>3. PICK nx, pv : nx = mem.next /\ pv = mem.prev
    OBVIOUS
  <2>4. Joins(R, nx, pv, head, tail, N) /\ c = nx[p]
    BY <1>2, <1>4, <2>3
  <2>5. next2[n] = c /\ prev2[n] = p /\ next2[p] = n /\ prev2[c] = n
    BY <1>11
  <2>6. /\ \A x \in {head} \cup N : x # p => next2[x] = nx[x]
        /\ \A x \in N \cup {tail} : x # c => prev2[x] = pv[x]
    BY <2>1, <2>2, <2>3
  <2>7. p \in {head} \cup N /\ n \notin N \cup {head, tail}
    BY <1>6, <1>7
  <2> QED  BY <2>4, <2>5, <2>6, <2>7, JoinInsert
<1>14. ASSUME NEW x \in N \cup {n}, NEW y \in N \cup {n}, <<x, y>> \in R2
       PROVE  data2[x] <= data2[y]
  <2>1. /\ k \in Nat /\ data2[n] = k
        /\ \A z \in N : data2[z] = mem.data[z] /\ mem.data[z] \in Nat
    BY <1>3, <1>7, <1>11, Places DEF ListMem
  <2>2. CASE x \in N /\ y \in N
    BY <1>2, <1>13, <1>14, <2>1, <2>2
  <2>3. CASE x \in N /\ y = n
    <3>1. mem.data[x] < k
      BY <1>6, <1>13, <1>14, <2>3
    <3> QED  BY <2>1, <2>3, <3>1
  <2>4. CASE x = n /\ y \in N
    <3>1. c \in N /\ mem.data[c] >= k
      <4>1. c # tail
        <5>1. y # tail /\ <<y, tail>> \in R
          BY <1>2, <2>4 DEF Joins
        <5>2. y = c \/ <<c, y>> \in R
          BY <1>13, <1>14, <2>4
        <5> QED  BY <1>2, <2>4, <5>1, <5>2 DEF Joins, Order
      <4> QED  BY <1>6, <4>1
    <3>2. mem.data[c] <= mem.data[y]
      <4>1. y = c \/ <<c, y>> \in R
        BY <1>13, <1>14, <2>4
      <4>2. mem.data[c] \in Nat /\ mem.data[c] <= mem.data[c]
        BY <2>1, <3>1
      <4> QED  BY <1>2, <2>4, <3>1, <4>1, <4>2
    <3> QED  BY <2>1, <2>4, <3>1, <3>2
  <2>5. CASE x = n /\ y = n
    BY <2>1, <2>5
  <2> QED  BY <2>2, <2>3, <2>4, <2>5
<1>15. items' \in [Key -> Nat] /\ \A i \in Key : items'[i] = Cardinality({x \in N \cup {n} : data2[x] = i})
  <2>1. items' \in [Key -> Nat]
    BY <1>3, <1>9
  <2>2. ASSUME NEW i \in Key  PROVE items'[i] = Cardinality({x \in N \cup {n} : data2[x] = i})
    <3>1. PICK W : W = {x \in N : mem.data[x] = i}
      OBVIOUS
    <3>2. IsFiniteSet(W) /\ Cardinality(W) = items[i] /\ n \notin W
      BY <1>3, <1>7, <3>1, Places
    <3>3. CASE i = k
      <4>1. {x \in N \cup {n} : data2[x] = i} = W \cup {n}
        BY <1>3, <1>7, <1>11, <3>1, <3>3
      <4>2. Cardinality(W \cup {n}) = Cardinality(W) + 1
        BY <3>2, FS_AddElement
      <4> QED  BY <1>3, <1>9, <3>2, <3>3, <4>1, <4>2
    <3>4. CASE i # k
      <4>1. {x \in N \cup {n} : data2[x] = i} = W
        BY <1>3, <1>7, <1>11, <3>1, <3>4
      <4> QED  BY <1>3, <1>9, <3>2, <3>4, <4>1
    <3> QED  BY <3>3, <3>4
  <2> QED  BY <2>1, <2>2
<1>16. N \cup {n} \subseteq L!Node /\ \A x \in N \cup {n} : data2[x] # 0
  <2>1. k # 0
    BY Places
  <2> QED  BY <1>3, <1>5, <1>7, <1>11, <2>1
<1>17. IsList(mem', N \cup {n}, items')
  BY <1>9, <1>12, <1>13, <1>14, <1>15, <1>16 DEF IsList
<1>18. Unused(mem.data) \ {n} \subseteq Unused(data2)
  BY <1>11, Places DEF Unused
<1>19. last'[1] = last'[2]
  BY <1>9
<1> QED  BY <1>9, <1>17, <1>18, <1>19 DEF ListInv

LEMMA RemoveList ==
  ASSUME ListInv, NEW k \in Key, L!Remove(k)
  PROVE  ListInv' /\ mem'.data = mem.data
<1>1. PICK N : IsList(mem, N, items)
  BY DEF ListInv
<1>2. PICK R : /\ Joins(R, mem.next, mem.prev, head, tail, N)
               /\ \A x, y \in N : <<x, y>> \in R => mem.data[x] <= mem.data[y]
  BY <1>1 DEF IsList
<1>3. /\ mem \in ListMem /\ items \in [Key -> Nat] /\ N \subseteq L!Node /\ \A x \in N : mem.data[x] # 0
      /\ \A i \in Key : items[i] = Cardinality({x \in N : mem.data[x] = i})
  BY <1>1 DEF IsList
<1>4. PICK q, c : q = L!Parent(k) /\ c = mem.next[q]
  OBVIOUS
<1>5. /\ q \in {head} \cup N /\ c \in N \cup {tail} /\ (c # tail => mem.data[c] >= k)
      /\ \A z \in N : z = q \/ <<z, q>> \in R => mem.data[z] < k
  BY <1>2, <1>3, <1>4, ListParent
<1>6. /\ items' = [items EXCEPT ![k] = IF @ = 0 THEN 0 ELSE @ - 1] /\ last' = <<0, 0>>
  BY DEF L!Remove
<1>7. last'[1] = last'[2]
  BY <1>6
<1>8. CASE ~(c # tail /\ mem.data[c] = k)
  <2>1. mem' = mem
    BY <1>4, <1>8 DEF L!Remove
  <2>2. \A z \in N : mem.data[z] # k
    <3> SUFFICES ASSUME NEW z \in N, mem.data[z] = k  PROVE FALSE
      OBVIOUS
    <3>1. k \in Nat /\ \A x \in N : mem.data[x] \in Nat
      BY <1>3, Places DEF ListMem
    <3>2. z # q /\ <<z, q>> \notin R
      BY <1>5, <3>1
    <3>3. <<q, z>> \in R
      BY <1>2, <1>5, <3>2 DEF Joins, Order
    <3>4. z = c \/ <<c, z>> \in R
      BY <1>2, <1>4, <1>5, <3>3 DEF Joins
    <3>5. c \in N
      <4>1. z # tail /\ <<z, tail>> \in R
        BY <1>2 DEF Joins
      <4> QED  BY <1>2, <1>5, <3>4, <4>1 DEF Joins, Order
    <3>6. c # tail /\ mem.data[c] >= k
      BY <1>2, <1>5, <3>5 DEF Joins
    <3>7. mem.data[c] <= mem.data[z]
      BY <1>2, <3>1, <3>4, <3>5
    <3> QED  BY <1>8, <3>1, <3>5, <3>6, <3>7
  <2>3. items[k] = 0
    <3>1. {x \in N : mem.data[x] = k} = {}
      BY <2>2
    <3> QED  BY <1>3, <3>1, FS_EmptySet
  <2>4. items' = items
    BY <1>3, <1>6, <2>3
  <2> QED  BY <1>1, <1>7, <2>1, <2>4 DEF ListInv
<1>9. CASE c # tail /\ mem.data[c] = k
  <2>1. PICK p, d : p = mem.prev[c] /\ d = mem.next[c]
    OBVIOUS
  <2>2. PICK next2, prev2 : next2 = [mem.next EXCEPT ![p] = d] /\ prev2 = [mem.prev EXCEPT ![d] = p]
    OBVIOUS
  <2>3. c \in N /\ p \in {head} \cup N /\ d \in N \cup {tail}
    BY <1>2, <1>5, <1>9, <2>1 DEF Joins
  <2>4. /\ mem'.next = next2 /\ mem'.prev = prev2 /\ mem'.data = mem.data
        /\ mem' = [next |-> next2, prev |-> prev2, data |-> mem.data]
    <3>1. mem' = [mem EXCEPT !.prev[mem.next[c]] = mem.prev[c], !.next[mem.prev[c]] = mem.next[c]]
      BY <1>4, <1>9 DEF L!Remove
    <3>2. mem' = [mem EXCEPT !.prev[d] = p, !.next[p] = d]
      BY <2>1, <3>1
    <3>3. mem = [next |-> mem.next, prev |-> mem.prev, data |-> mem.data]
      BY <1>3 DEF ListMem
    <3>4. mem' = [next |-> next2, prev |-> prev2, data |-> mem.data]
      BY <2>2, <3>2, <3>3
    <3> QED  BY <3>4
  <2>5. {head, tail} \cup N \subseteq ListPlace
    BY <1>3 DEF ListPlace
  <2>6. mem.next \in [ListPlace -> ListPlace \cup {Null}] /\ mem.prev \in [ListPlace -> ListPlace \cup {Null}]
        /\ mem.data \in [L!Node -> Key \cup {0}]
    BY <1>3 DEF ListMem
  <2>7. /\ next2[p] = d /\ \A x \in {head} \cup N : x # p => next2[x] = mem.next[x]
        /\ prev2[d] = p /\ \A x \in N \cup {tail} : x # d => prev2[x] = mem.prev[x]
    BY <2>2, <2>3, <2>5, <2>6
  <2>8. mem' \in ListMem
    <3>1. next2 \in [ListPlace -> ListPlace \cup {Null}] /\ prev2 \in [ListPlace -> ListPlace \cup {Null}]
      BY <2>2, <2>3, <2>5, <2>6
    <3> QED  BY <2>4, <2>6, <3>1 DEF ListMem
  <2>9. Joins(R, next2, prev2, head, tail, N \ {c})
    BY <1>2, <2>1, <2>3, <2>7, JoinRemove
  <2>10. items' \in [Key -> Nat] /\ \A i \in Key : items'[i] = Cardinality({x \in N \ {c} : mem.data[x] = i})
    <3>1. \A i \in Key : items'[i] = IF i = k THEN (IF items[k] = 0 THEN 0 ELSE items[k] - 1) ELSE items[i]
      BY <1>3, <1>6
    <3>2. items' \in [Key -> Nat]
      BY <1>3, <1>6
    <3>3. ASSUME NEW i \in Key  PROVE items'[i] = Cardinality({x \in N \ {c} : mem.data[x] = i})
      <4>1. PICK W : W = {x \in N : mem.data[x] = i}
        OBVIOUS
      <4>2. IsFiniteSet(W) /\ Cardinality(W) = items[i] /\ Cardinality(W) \in Nat
        BY <1>3, <4>1, Places
      <4>3. CASE i = k
        <5>1. {x \in N \ {c} : mem.data[x] = i} = W \ {c} /\ c \in W
          BY <1>9, <2>3, <4>1, <4>3
        <5>2. Cardinality(W \ {c}) = Cardinality(W) - 1
          BY <4>2, <5>1, FS_RemoveElement
        <5>3. Cardinality(W) # 0
          BY <4>2, <5>1, FS_EmptySet
        <5> QED  BY <3>1, <4>2, <4>3, <5>1, <5>2, <5>3
      <4>4. CASE i # k
        <5>1. {x \in N \ {c} : mem.data[x] = i} = W
          BY <1>9, <4>1, <4>4
        <5> QED  BY <3>1, <4>2, <4>4, <5>1
      <4> QED  BY <4>3, <4>4
    <3> QED  BY <3>2, <3>3
  <2>11. IsList(mem', N \ {c}, items')
    <3>1. N \ {c} \subseteq L!Node /\ \A x \in N \ {c} : mem.data[x] # 0
      BY <1>3
    <3>2. \A x, y \in N \ {c} : <<x, y>> \in R => mem.data[x] <= mem.data[y]
      BY <1>2
    <3> QED  BY <2>4, <2>8, <2>9, <2>10, <3>1, <3>2 DEF IsList
  <2> QED  BY <1>7, <2>4, <2>11 DEF ListInv
<1> QED  BY <1>8, <1>9

\* The walk of count.
LEMMA ListChain ==
  ASSUME NEW N, NEW R, Joins(R, mem.next, mem.prev, head, tail, N), N \subseteq L!Node
  PROVE  L!Chain = {head, tail} \cup N
<1>1. PICK step : step = [n \in {head, tail} \cup L!Node |-> IF n = tail THEN tail ELSE mem.next[n]]
  OBVIOUS
<1>2. PICK f : f = Walk(step, head, MaxNodes + 1)
  OBVIOUS
<1>3. L!Chain = {f[i] : i \in 0 .. MaxNodes + 1}
  BY <1>1, <1>2 DEF L!Chain, Walk, IsWalk
<1>4. (\A x \in {head} \cup N : step[x] = mem.next[x]) /\ step[tail] = tail
  <2>1. tail \notin {head} \cup N /\ {head, tail} \cup N \subseteq {head, tail} \cup L!Node
    BY DEF Joins
  <2> QED  BY <1>1, <2>1
<1>5. IsFiniteSet(N) /\ Cardinality(N) <= MaxNodes /\ MaxNodes \in Nat
  BY Places
<1>6. {Walk(step, head, MaxNodes + 1)[i] : i \in 0 .. MaxNodes + 1} = {head, tail} \cup N
  BY <1>4, <1>5, JoinWalk
<1> QED  BY <1>2, <1>3, <1>6

LEMMA CountList ==
  ASSUME ListInv, NEW k \in Key, L!Count(k)
  PROVE  ListInv' /\ mem'.data = mem.data
<1>1. PICK N : IsList(mem, N, items)
  BY DEF ListInv
<1>2. PICK R : Joins(R, mem.next, mem.prev, head, tail, N)
  BY <1>1 DEF IsList
<1>3. L!Chain = {head, tail} \cup N
  BY <1>1, <1>2, ListChain DEF IsList
<1>4. L!Matching(k) = {n \in N : mem.data[n] = k}
  BY <1>2, <1>3 DEF L!Matching, Joins
<1>5. mem' = mem /\ items' = items
  BY DEF L!Count
<1>6. last'[1] = Cardinality(L!Matching(k)) /\ last'[2] = items[k]
  <2>1. last' = <<L!Cardinality(L!Matching(k)), items[k]>>
    BY DEF L!Count
  <2>2. L!Cardinality(L!Matching(k)) = Cardinality(L!Matching(k))
    BY ListCounts
  <2> QED  BY <2>1, <2>2
<1>7. last'[1] = last'[2]
  BY <1>1, <1>4, <1>6 DEF IsList
<1> QED  BY <1>1, <1>5, <1>7 DEF ListInv

LEMMA ListRight ==
  ASSUME ListInv
  PROVE  L!ListIsRight
<1>1. PICK N : IsList(mem, N, items)
  BY DEF ListInv
<1>2. PICK R : /\ Joins(R, mem.next, mem.prev, head, tail, N)
               /\ \A x, y \in N : <<x, y>> \in R => mem.data[x] <= mem.data[y]
  BY <1>1 DEF IsList
<1>3. L!Chain = {head, tail} \cup N /\ head \notin N /\ tail \notin N
  BY <1>1, <1>2, ListChain DEF IsList, Joins
<1>4. \A n \in L!Chain \ {tail} : mem.prev[mem.next[n]] = n
  BY <1>2, <1>3 DEF Joins
<1>5. \A n \in L!Chain \ {head, tail} : mem.next[n] # tail => mem.data[n] <= mem.data[mem.next[n]]
  BY <1>2, <1>3 DEF Joins
<1>6. ASSUME NEW k \in Key  PROVE items[k] = L!Cardinality(L!Matching(k))
  <2>1. L!Matching(k) = {n \in N : mem.data[n] = k}
    BY <1>3 DEF L!Matching
  <2> QED  BY <1>1, <2>1, ListCounts DEF IsList
<1>7. last[1] = last[2]
  BY DEF ListInv
<1> QED  BY <1>3, <1>4, <1>5, <1>6, <1>7 DEF L!ListIsRight

LEMMA InitList ==
  ASSUME L!Init
  PROVE  ListInv /\ Unused(mem.data) = D!Node
<1>1. /\ mem.next = [n \in {head, tail} \cup L!Node |-> IF n = head THEN tail ELSE Null]
      /\ mem.prev = [n \in {head, tail} \cup L!Node |-> IF n = tail THEN head ELSE Null]
      /\ mem.data = [n \in L!Node |-> 0]
      /\ mem = [next |-> mem.next, prev |-> mem.prev, data |-> mem.data]
      /\ items = [k \in Key |-> 0] /\ last = <<0, 0>>
  BY DEF L!Init
<1>2. mem \in ListMem
  BY <1>1 DEF ListMem, ListPlace
<1>3. Joins({<<head, tail>>}, mem.next, mem.prev, head, tail, {})
  <2>1. head # tail /\ mem.next[head] = tail /\ mem.prev[tail] = head
    BY <1>1, Places
  <2> QED  BY <2>1, JoinNothing
<1>4. \A k \in Key : items[k] = Cardinality({n \in {} : mem.data[n] = k})
  <2>1. Cardinality({}) = 0
    BY FS_EmptySet
  <2>2. \A k \in Key : {n \in {} : mem.data[n] = k} = {}
    OBVIOUS
  <2> QED  BY <1>1, <2>1, <2>2
<1>5. IsList(mem, {}, items)
  <2>1. items \in [Key -> Nat]
    BY <1>1
  <2> QED  BY <1>2, <1>3, <1>4, <2>1 DEF IsList
<1>6. Unused(mem.data) = D!Node
  BY <1>1, Places DEF Unused
<1> QED  BY <1>1, <1>5, <1>6 DEF ListInv

-----------------------------------------------------------------------------
(***************************************************************************)
(* The hash map.                                                           *)
(***************************************************************************)

MapPlace == H!Sentinel \cup H!Node
MapMem == [next : [MapPlace -> MapPlace \cup {0}], prev : [MapPlace -> MapPlace \cup {0}],
           key : [H!Node -> Key \cup {0}], value : [H!Node -> Value \cup {0}]]

\* The nodes of N whose keys belong to bucket b.
In(m, N, b) == {n \in N : H!Index(m.key[n]) = b}

\* The map consists of the nodes N, which are what the calls should have left.
IsMap(m, N, it) ==
  /\ m \in MapMem /\ it \in [Key -> Value \cup {H!Absent}]
  /\ N \subseteq H!Node
  /\ \A n \in N : m.key[n] # 0 /\ it[m.key[n]] = m.value[n] /\ m.value[n] \in Value
  /\ \A n, i \in N : m.key[n] = m.key[i] => n = i
  /\ \A k \in Key : it[k] # H!Absent => \E n \in N : m.key[n] = k
  /\ \A b \in H!Bucket : \E R : Joins(R, m.next, m.prev, H!HeadOf(b), H!TailOf(b), In(m, N, b))

MapInv ==
  /\ \E N : IsMap(mem, N, items)
  /\ last[1] = last[2]

LEMMA MapPlaces ==
  /\ H!Node = D!Node /\ H!Node \subseteq Nat \ {0} /\ H!nullptr = 0
  /\ MaxNodes \in Nat \ {0} /\ Key \subseteq Nat \ {0} /\ Value \subseteq Nat /\ H!Absent \notin Value
  /\ \A k \in Key : H!Index(k) \in H!Bucket
  /\ \A b \in H!Bucket : /\ H!HeadOf(b) \in H!Sentinel /\ H!TailOf(b) \in H!Sentinel
                         /\ H!HeadOf(b) \notin H!Node /\ H!TailOf(b) \notin H!Node
                         /\ H!HeadOf(b) # 0 /\ H!TailOf(b) # 0
  /\ \A b, d \in H!Bucket : /\ H!HeadOf(b) # H!TailOf(d)
                            /\ b # d => H!HeadOf(b) # H!HeadOf(d) /\ H!TailOf(b) # H!TailOf(d)
  /\ \A N \in SUBSET H!Node : IsFiniteSet(N) /\ Cardinality(N) \in Nat /\ Cardinality(N) <= MaxNodes
<1>1. TableSize \in Nat \ {0} /\ Key \subseteq Nat \ {0} /\ Value \subseteq Nat /\ MaxNodes \in Nat \ {0}
  BY LockBasedAssumption
<1>2. H!Node = D!Node /\ H!Node \subseteq Nat \ {0} /\ H!nullptr = 0
  BY <1>1 DEF H!Node, D!Node, H!nullptr
<1>3. H!Absent \notin Value
  BY <1>1 DEF H!Absent
<1>4. \A k \in Key : H!Index(k) \in H!Bucket
  BY <1>1 DEF H!Index, H!Bucket
<1>5. \A b \in H!Bucket : b \in Nat
  BY <1>1 DEF H!Bucket
<1>6. ASSUME NEW b \in H!Bucket
      PROVE  /\ H!HeadOf(b) \in H!Sentinel /\ H!TailOf(b) \in H!Sentinel
             /\ H!HeadOf(b) \notin H!Node /\ H!TailOf(b) \notin H!Node
             /\ H!HeadOf(b) # 0 /\ H!TailOf(b) # 0
  <2>1. H!HeadOf(b) \in H!Sentinel /\ H!TailOf(b) \in H!Sentinel
    BY DEF H!Sentinel
  <2>2. H!HeadOf(b) < 0 /\ H!TailOf(b) < 0
    BY <1>5 DEF H!HeadOf, H!TailOf
  <2>3. \A n \in H!Node : n > 0
    BY <1>2
  <2>4. H!HeadOf(b) \in Int /\ H!TailOf(b) \in Int
    BY <1>5 DEF H!HeadOf, H!TailOf
  <2> QED  BY <2>1, <2>2, <2>3, <2>4
<1>7. ASSUME NEW b \in H!Bucket, NEW d \in H!Bucket
      PROVE  /\ H!HeadOf(b) # H!TailOf(d)
             /\ b # d => H!HeadOf(b) # H!HeadOf(d) /\ H!TailOf(b) # H!TailOf(d)
  <2>1. b \in Nat /\ d \in Nat
    BY <1>5
  <2> QED  BY <2>1 DEF H!HeadOf, H!TailOf
<1>8. \A N \in SUBSET H!Node : IsFiniteSet(N) /\ Cardinality(N) \in Nat /\ Cardinality(N) <= MaxNodes
  BY <1>2, Room, FS_Subset, FS_CardinalityType
<1> QED  BY <1>1, <1>2, <1>3, <1>4, <1>6, <1>7, <1>8

\* Which places are in a bucket, and that no place is in two.
LEMMA BucketPlaces ==
  ASSUME NEW m \in MapMem, NEW N \in SUBSET H!Node, NEW b \in H!Bucket
  PROVE  /\ {H!HeadOf(b), H!TailOf(b)} \cup In(m, N, b) \subseteq MapPlace
         /\ In(m, N, b) \subseteq H!Node /\ In(m, N, b) \subseteq N
         /\ IsFiniteSet(In(m, N, b)) /\ Cardinality(In(m, N, b)) <= MaxNodes
         /\ \A d \in H!Bucket : d # b =>
              ({H!HeadOf(b), H!TailOf(b)} \cup In(m, N, b)) \cap ({H!HeadOf(d), H!TailOf(d)} \cup In(m, N, d)) = {}
<1>1. In(m, N, b) \subseteq H!Node /\ In(m, N, b) \subseteq N
  BY DEF In
<1>2. {H!HeadOf(b), H!TailOf(b)} \cup In(m, N, b) \subseteq MapPlace
  BY <1>1, MapPlaces DEF MapPlace
<1>3. IsFiniteSet(In(m, N, b)) /\ Cardinality(In(m, N, b)) <= MaxNodes
  BY <1>1, MapPlaces
<1>4. ASSUME NEW d \in H!Bucket, d # b
      PROVE  ({H!HeadOf(b), H!TailOf(b)} \cup In(m, N, b)) \cap ({H!HeadOf(d), H!TailOf(d)} \cup In(m, N, d)) = {}
  <2>1. In(m, N, b) \cap In(m, N, d) = {} /\ In(m, N, d) \subseteq H!Node
    BY <1>4 DEF In
  <2>2. /\ H!HeadOf(b) # H!TailOf(d) /\ H!HeadOf(d) # H!TailOf(b)
        /\ H!HeadOf(b) # H!HeadOf(d) /\ H!TailOf(b) # H!TailOf(d)
        /\ H!HeadOf(b) \notin H!Node /\ H!TailOf(b) \notin H!Node
        /\ H!HeadOf(d) \notin H!Node /\ H!TailOf(d) \notin H!Node
    BY <1>4, MapPlaces
  <2> QED  BY <1>1, <2>1, <2>2
<1> QED  BY <1>1, <1>2, <1>3, <1>4

\* The walk of the operations ends before the node with the key, if there is
\* one, and else before the tail.
LEMMA MapFinds ==
  ASSUME NEW N, IsMap(mem, N, items), NEW k \in Key, NEW R,
         Joins(R, mem.next, mem.prev, H!HeadOf(H!Index(k)), H!TailOf(H!Index(k)), In(mem, N, H!Index(k)))
  PROVE  /\ H!Parent(k) \in {H!HeadOf(H!Index(k))} \cup In(mem, N, H!Index(k))
         /\ H!Found(k) = mem.next[H!Parent(k)]
         /\ H!Found(k) \in {H!TailOf(H!Index(k))} \cup In(mem, N, H!Index(k))
         /\ H!IsThere(k) <=> H!Found(k) \in N
         /\ H!IsThere(k) => mem.key[H!Found(k)] = k /\ mem.value[H!Found(k)] = items[k]
         /\ ~H!IsThere(k) => \A n \in N : mem.key[n] # k
         /\ H!IsThere(k) <=> items[k] # H!Absent
<1>1. PICK b, h, t, S : b = H!Index(k) /\ h = H!HeadOf(b) /\ t = H!TailOf(b) /\ S = In(mem, N, b)
  OBVIOUS
<1>2. b \in H!Bucket /\ mem \in MapMem /\ N \subseteq H!Node
  BY <1>1, MapPlaces DEF IsMap
<1>3. /\ {h, t} \cup S \subseteq MapPlace /\ S \subseteq N
      /\ IsFiniteSet(S) /\ Cardinality(S) <= MaxNodes /\ h \notin H!Node /\ t \notin H!Node
  BY <1>1, <1>2, BucketPlaces, MapPlaces
<1>4. Joins(R, mem.next, mem.prev, h, t, S)
  BY <1>1
<1>5. PICK step : step = [n \in MapPlace |-> IF mem.next[n] = t \/ mem.key[mem.next[n]] = k THEN n ELSE mem.next[n]]
  OBVIOUS
<1>6. PICK stop : stop = {x \in S : mem.key[x] = k}
  OBVIOUS
<1>7. PICK p, c : p = Walk(step, h, MaxNodes)[MaxNodes] /\ c = mem.next[p]
  OBVIOUS
<1>8. p = H!Parent(k) /\ c = H!Found(k)
  BY <1>1, <1>5, <1>7 DEF H!Parent, H!Found, Walk, IsWalk, MapPlace
<1>9. \A x \in {h} \cup S : step[x] = IF mem.next[x] = t \/ mem.next[x] \in stop THEN x ELSE mem.next[x]
  <2>1. \A x \in {h} \cup S : mem.next[x] \in S \cup {t}
    BY <1>4 DEF Joins
  <2> QED  BY <1>3, <1>5, <1>6, <2>1
<1>10. MaxNodes \in Nat
  BY MapPlaces
<1>11. /\ p \in {h} \cup S /\ (c = t \/ c \in stop)
       /\ \A z \in S : z = p \/ <<z, p>> \in R => z \notin stop
  BY <1>3, <1>4, <1>7, <1>9, <1>10, JoinParent
<1>12. c \in {t} \cup S
  BY <1>6, <1>11
<1>13. H!IsThere(k) <=> c # t
  BY <1>1, <1>8 DEF H!IsThere
<1>14. c = t => \A n \in N : mem.key[n] # k
  <2> SUFFICES ASSUME c = t, NEW n \in N, mem.key[n] = k  PROVE FALSE
    OBVIOUS
  <2>1. n \in S /\ n \in stop
    BY <1>1, <1>6 DEF In
  <2>2. <<p, n>> \in R
    BY <1>4, <1>11, <2>1 DEF Joins, Order
  <2>3. n = t \/ <<t, n>> \in R
    BY <1>4, <1>7, <1>11, <2>1, <2>2 DEF Joins
  <2>4. <<n, t>> \in R /\ n # t
    BY <1>4, <2>1 DEF Joins
  <2> QED  BY <1>4, <2>1, <2>3, <2>4 DEF Joins, Order
<1>15. c # t => c \in N /\ mem.key[c] = k /\ mem.value[c] = items[k] /\ items[k] # H!Absent
  <2> SUFFICES ASSUME c # t  PROVE c \in N /\ mem.key[c] = k /\ mem.value[c] = items[k] /\ items[k] # H!Absent
    OBVIOUS
  <2>1. c \in N /\ mem.key[c] = k
    BY <1>3, <1>6, <1>11
  <2> QED  BY <2>1, MapPlaces DEF IsMap
<1>16. c = t => c \notin N /\ items[k] = H!Absent
  <2>1. c = t => c \notin N
    BY <1>2, <1>3
  <2> QED  BY <1>14, <2>1 DEF IsMap
<1> QED  BY <1>1, <1>7, <1>8, <1>11, <1>12, <1>13, <1>14, <1>15, <1>16

LEMMA AssignMap ==
  ASSUME MapInv, NEW k \in Key, NEW v \in Value, H!InsertOrAssign(k, v), H!IsThere(k)
  PROVE  MapInv' /\ mem'.key = mem.key
<1>1. PICK N : IsMap(mem, N, items)
  BY DEF MapInv
<1>2. PICK R : Joins(R, mem.next, mem.prev, H!HeadOf(H!Index(k)), H!TailOf(H!Index(k)), In(mem, N, H!Index(k)))
  BY <1>1, MapPlaces DEF IsMap
<1>3. PICK c, value : c = H!Found(k) /\ value = [mem.value EXCEPT ![c] = v]
  OBVIOUS
<1>4. c \in N /\ mem.key[c] = k
  BY <1>1, <1>2, <1>3, MapFinds
<1>5. /\ mem \in MapMem /\ items \in [Key -> Value \cup {H!Absent}] /\ N \subseteq H!Node
      /\ mem = [next |-> mem.next, prev |-> mem.prev, key |-> mem.key, value |-> mem.value]
  BY <1>1 DEF IsMap, MapMem
<1>6. /\ mem' = [next |-> mem.next, prev |-> mem.prev, key |-> mem.key, value |-> value]
      /\ items' = [items EXCEPT ![k] = v] /\ last' = <<0, 0>>
  <2>1. mem' = [mem EXCEPT !.value[c] = v]
    BY <1>3 DEF H!InsertOrAssign
  <2>2. items' = [items EXCEPT ![k] = v] /\ last' = <<0, 0>>
    BY DEF H!InsertOrAssign
  <2> QED  BY <1>3, <1>5, <2>1, <2>2
<1>7. mem.value \in [H!Node -> Value \cup {0}]
  BY <1>5 DEF MapMem
<1>8. /\ value \in [H!Node -> Value \cup {0}] /\ value[c] = v
      /\ \A n \in N : n # c => value[n] = mem.value[n]
  BY <1>3, <1>4, <1>5, <1>7
<1>9. mem' \in MapMem /\ items' \in [Key -> Value \cup {H!Absent}]
  BY <1>5, <1>6, <1>8 DEF MapMem
<1>10. \A n \in N : mem.key[n] # 0 /\ items'[mem.key[n]] = value[n] /\ value[n] \in Value
  <2> TAKE n \in N
  <2>1. /\ mem.key[n] # 0 /\ mem.key[n] \in Key /\ items[mem.key[n]] = mem.value[n] /\ mem.value[n] \in Value
        /\ mem.key[n] = mem.key[c] => n = c
    BY <1>1, <1>4 DEF IsMap, MapMem
  <2> QED  BY <1>4, <1>5, <1>6, <1>8, <2>1
<1>11. \A j \in Key : items'[j] # H!Absent => \E n \in N : mem.key[n] = j
  BY <1>1, <1>4, <1>5, <1>6 DEF IsMap
<1>12. ASSUME NEW b \in H!Bucket
       PROVE  \E Q : Joins(Q, mem'.next, mem'.prev, H!HeadOf(b), H!TailOf(b), In(mem', N, b))
  <2>1. In(mem', N, b) = In(mem, N, b) /\ mem'.next = mem.next /\ mem'.prev = mem.prev
    BY <1>6 DEF In
  <2> QED  BY <1>1, <2>1 DEF IsMap
<1>13. mem'.key = mem.key /\ mem'.value = value
  BY <1>6
<1>14. \A n, i \in N : mem.key[n] = mem.key[i] => n = i
  BY <1>1 DEF IsMap
<1>15. IsMap(mem', N, items')
  BY <1>5, <1>9, <1>10, <1>11, <1>12, <1>13, <1>14 DEF IsMap
<1> QED  BY <1>6, <1>13, <1>15 DEF MapInv

LEMMA InsertMap ==
  ASSUME MapInv, Unused(mem.key) # {}, NEW k \in Key, NEW v \in Value, H!InsertOrAssign(k, v), ~H!IsThere(k)
  PROVE  MapInv' /\ \E n : Unused(mem.key) \ {n} \subseteq Unused(mem'.key)
<1>1. PICK N : IsMap(mem, N, items)
  BY DEF MapInv
<1>2. PICK b, h, t, S : b = H!Index(k) /\ h = H!HeadOf(b) /\ t = H!TailOf(b) /\ S = In(mem, N, b)
  OBVIOUS
<1>3. b \in H!Bucket
  BY <1>2, MapPlaces
<1>4. PICK R : Joins(R, mem.next, mem.prev, h, t, S)
  BY <1>1, <1>2, <1>3 DEF IsMap
<1>5. PICK p, c, n : p = H!Parent(k) /\ c = H!Found(k) /\ n = H!Fresh
  OBVIOUS
<1>6. n \in H!Node /\ mem.key[n] = 0
  <2>1. PICK key : key = mem.key
    OBVIOUS
  <2>2. n = CHOOSE x \in D!Node : key[x] = 0 /\ \A i \in D!Node : key[i] = 0 => x <= i
    BY <1>5, <2>1, MapPlaces DEF H!Fresh
  <2>3. n \in D!Node /\ key[n] = 0
    BY <2>1, <2>2, FirstUnused
  <2> QED  BY <2>1, <2>3, MapPlaces
<1>7. /\ p \in {h} \cup S /\ c = mem.next[p] /\ c \in {t} \cup S /\ \A x \in N : mem.key[x] # k
  BY <1>1, <1>2, <1>4, <1>5, MapFinds
<1>8. /\ mem \in MapMem /\ items \in [Key -> Value \cup {H!Absent}] /\ N \subseteq H!Node
      /\ mem = [next |-> mem.next, prev |-> mem.prev, key |-> mem.key, value |-> mem.value]
      /\ mem.next \in [MapPlace -> MapPlace \cup {0}] /\ mem.prev \in [MapPlace -> MapPlace \cup {0}]
      /\ mem.key \in [H!Node -> Key \cup {0}] /\ mem.value \in [H!Node -> Value \cup {0}]
      /\ \A x \in N : mem.key[x] # 0 /\ mem.key[x] \in Key
  BY <1>1 DEF IsMap, MapMem
<1>9. /\ {h, t} \cup S \subseteq MapPlace /\ S \subseteq N
      /\ h \notin H!Node /\ t \notin H!Node /\ H!Node \subseteq MapPlace
  BY <1>2, <1>3, <1>8, BucketPlaces, MapPlaces DEF MapPlace
<1>10. n \notin N /\ n \notin S \cup {h, t} /\ n # p /\ n # c
  BY <1>6, <1>7, <1>8, <1>9
<1>11. PICK next2, prev2, key2, value2 :
         /\ next2 = [[mem.next EXCEPT ![n] = c] EXCEPT ![p] = n]
         /\ prev2 = [[mem.prev EXCEPT ![n] = p] EXCEPT ![c] = n]
         /\ key2 = [mem.key EXCEPT ![n] = k]
         /\ value2 = [mem.value EXCEPT ![n] = v]
  OBVIOUS
<1>12. /\ mem' = [next |-> next2, prev |-> prev2, key |-> key2, value |-> value2]
       /\ mem'.next = next2 /\ mem'.prev = prev2 /\ mem'.key = key2 /\ mem'.value = value2
       /\ items' = [items EXCEPT ![k] = v] /\ last' = <<0, 0>>
  <2>1. mem' = [mem EXCEPT !.key[n] = k, !.value[n] = v, !.next[n] = c, !.prev[n] = p, !.next[p] = n, !.prev[c] = n]
    BY <1>5 DEF H!InsertOrAssign
  <2>2. items' = [items EXCEPT ![k] = v] /\ last' = <<0, 0>>
    BY DEF H!InsertOrAssign
  <2>3. mem' = [next |-> next2, prev |-> prev2, key |-> key2, value |-> value2]
    BY <1>8, <1>11, <2>1
  <2> QED  BY <2>2, <2>3
<1>13. /\ next2[n] = c /\ next2[p] = n /\ \A x \in MapPlace : x # p /\ x # n => next2[x] = mem.next[x]
       /\ prev2[n] = p /\ prev2[c] = n /\ \A x \in MapPlace : x # c /\ x # n => prev2[x] = mem.prev[x]
       /\ key2[n] = k /\ \A x \in H!Node : x # n => key2[x] = mem.key[x]
       /\ value2[n] = v /\ \A x \in H!Node : x # n => value2[x] = mem.value[x]
  BY <1>6, <1>7, <1>8, <1>9, <1>10, <1>11
<1>14. mem' \in MapMem
  <2>1. next2 \in [MapPlace -> MapPlace \cup {0}] /\ prev2 \in [MapPlace -> MapPlace \cup {0}]
    BY <1>6, <1>7, <1>8, <1>9, <1>11
  <2>2. key2 \in [H!Node -> Key \cup {0}] /\ value2 \in [H!Node -> Value \cup {0}]
    BY <1>8, <1>11
  <2> QED  BY <1>12, <2>1, <2>2 DEF MapMem
<1>15. In(mem', N \cup {n}, b) = S \cup {n}
       /\ \A d \in H!Bucket : d # b => In(mem', N \cup {n}, d) = In(mem, N, d)
  <2>1. \A x \in N : mem'.key[x] = mem.key[x]
    BY <1>8, <1>10, <1>12, <1>13
  <2>2. mem'.key[n] = k
    BY <1>12, <1>13
  <2> QED  BY <1>2, <1>10, <2>1, <2>2 DEF In
<1>16. \E Q : Joins(Q, next2, prev2, h, t, S \cup {n})
  <2>1. PICK nx, pv : nx = mem.next /\ pv = mem.prev
    OBVIOUS
  <2>2. Joins(R, nx, pv, h, t, S) /\ c = nx[p]
    BY <1>4, <1>7, <2>1
  <2>3. /\ \A x \in {h} \cup S : x # p => next2[x] = nx[x]
        /\ \A x \in S \cup {t} : x # c => prev2[x] = pv[x]
    BY <1>9, <1>10, <1>13, <2>1
  <2>4. next2[n] = c /\ prev2[n] = p /\ next2[p] = n /\ prev2[c] = n
    BY <1>13
  <2> QED  BY <1>7, <1>10, <2>2, <2>3, <2>4, JoinInsert
<1>17. ASSUME NEW d \in H!Bucket, d # b
       PROVE  \E Q : Joins(Q, next2, prev2, H!HeadOf(d), H!TailOf(d), In(mem, N, d))
  <2>1. PICK i, j, U : i = H!HeadOf(d) /\ j = H!TailOf(d) /\ U = In(mem, N, d)
    OBVIOUS
  <2>2. PICK Q : Joins(Q, mem.next, mem.prev, i, j, U)
    BY <1>1, <2>1 DEF IsMap
  <2>3. ({h, t} \cup S) \cap ({i, j} \cup U) = {} /\ {i, j} \cup U \subseteq MapPlace /\ n \notin {i, j} \cup U
    <3>1. U \subseteq N /\ i \notin H!Node /\ j \notin H!Node
      BY <1>8, <2>1, BucketPlaces, MapPlaces
    <3> QED  BY <1>2, <1>3, <1>6, <1>8, <1>10, <1>17, <2>1, <3>1, BucketPlaces
  <2>4. /\ \A x \in {i} \cup U : next2[x] = mem.next[x]
        /\ \A x \in U \cup {j} : prev2[x] = mem.prev[x]
    BY <1>7, <1>13, <2>3
  <2>5. PICK nx, pv : nx = mem.next /\ pv = mem.prev
    OBVIOUS
  <2>6. Joins(Q, next2, prev2, i, j, U)
    BY <2>2, <2>4, <2>5, JoinSame
  <2> QED  BY <2>1, <2>6
<1>18. \A d \in H!Bucket : \E Q : Joins(Q, next2, prev2, H!HeadOf(d), H!TailOf(d), In(mem', N \cup {n}, d))
  <2> TAKE d \in H!Bucket
  <2>1. CASE d = b
    BY <1>2, <1>15, <1>16, <2>1
  <2>2. CASE d # b
    BY <1>15, <1>17, <2>2
  <2> QED  BY <2>1, <2>2
<1>19. /\ \A x \in N \cup {n} : key2[x] # 0 /\ items'[key2[x]] = value2[x] /\ value2[x] \in Value
       /\ \A x, y \in N \cup {n} : key2[x] = key2[y] => x = y
       /\ \A j \in Key : items'[j] # H!Absent => \E x \in N \cup {n} : key2[x] = j
  <2>1. /\ \A x \in N : key2[x] = mem.key[x] /\ value2[x] = mem.value[x] /\ x # n
        /\ key2[n] = k /\ value2[n] = v /\ k # 0
    BY <1>8, <1>10, <1>13, MapPlaces
  <2>2. items'[k] = v /\ \A j \in Key : j # k => items'[j] = items[j]
    BY <1>8, <1>12
  <2>3. /\ \A x \in N : items[mem.key[x]] = mem.value[x] /\ mem.value[x] \in Value
        /\ \A x, y \in N : mem.key[x] = mem.key[y] => x = y
        /\ \A j \in Key : items[j] # H!Absent => \E x \in N : mem.key[x] = j
    BY <1>1 DEF IsMap
  <2>4. \A x \in N \cup {n} : key2[x] # 0 /\ items'[key2[x]] = value2[x] /\ value2[x] \in Value
    BY <1>7, <1>8, <2>1, <2>2, <2>3
  <2>5. \A x, y \in N \cup {n} : key2[x] = key2[y] => x = y
    BY <1>7, <2>1, <2>3
  <2>6. \A j \in Key : items'[j] # H!Absent => \E x \in N \cup {n} : key2[x] = j
    BY <2>1, <2>2, <2>3
  <2> QED  BY <2>4, <2>5, <2>6
<1>20. IsMap(mem', N \cup {n}, items')
  <2>1. items' \in [Key -> Value \cup {H!Absent}]
    BY <1>8, <1>12
  <2>2. N \cup {n} \subseteq H!Node
    BY <1>6, <1>8
  <2> QED  BY <1>12, <1>14, <1>18, <1>19, <2>1, <2>2 DEF IsMap
<1>21. Unused(mem.key) \ {n} \subseteq Unused(mem'.key)
  BY <1>12, <1>13, MapPlaces DEF Unused
<1> QED  BY <1>12, <1>20, <1>21 DEF MapInv

LEMMA RemoveMap ==
  ASSUME MapInv, NEW k \in Key, H!Remove(k)
  PROVE  MapInv' /\ mem'.key = mem.key
<1>1. PICK N : IsMap(mem, N, items)
  BY DEF MapInv
<1>2. PICK b, h, t, S : b = H!Index(k) /\ h = H!HeadOf(b) /\ t = H!TailOf(b) /\ S = In(mem, N, b)
  OBVIOUS
<1>3. b \in H!Bucket
  BY <1>2, MapPlaces
<1>4. PICK R : Joins(R, mem.next, mem.prev, h, t, S)
  BY <1>1, <1>2, <1>3 DEF IsMap
<1>5. /\ mem \in MapMem /\ items \in [Key -> Value \cup {H!Absent}] /\ N \subseteq H!Node
      /\ mem = [next |-> mem.next, prev |-> mem.prev, key |-> mem.key, value |-> mem.value]
      /\ mem.next \in [MapPlace -> MapPlace \cup {0}] /\ mem.prev \in [MapPlace -> MapPlace \cup {0}]
      /\ mem.key \in [H!Node -> Key \cup {0}] /\ mem.value \in [H!Node -> Value \cup {0}]
      /\ \A x \in N : mem.key[x] # 0 /\ mem.key[x] \in Key
  BY <1>1 DEF IsMap, MapMem
<1>6. items' = [items EXCEPT ![k] = H!Absent] /\ last' = <<0, 0>>
  BY DEF H!Remove
<1>7. CASE ~H!IsThere(k)
  <2>1. mem' = mem
    BY <1>7 DEF H!Remove
  <2>2. items[k] = H!Absent
    BY <1>1, <1>2, <1>4, <1>7, MapFinds
  <2>3. items' = items
    BY <1>5, <1>6, <2>2
  <2> QED  BY <1>1, <1>6, <2>1, <2>3 DEF MapInv
<1>8. CASE H!IsThere(k)
  <2>1. PICK c : c = H!Found(k)
    OBVIOUS
  <2>2. c \in N /\ c \in S /\ mem.key[c] = k
    <3>1. c \in N /\ mem.key[c] = k
      BY <1>1, <1>2, <1>4, <1>8, <2>1, MapFinds
    <3> QED  BY <1>2, <3>1 DEF In
  <2>3. PICK p, d : p = mem.prev[c] /\ d = mem.next[c]
    OBVIOUS
  <2>4. p \in {h} \cup S /\ d \in S \cup {t}
    BY <1>4, <2>2, <2>3 DEF Joins
  <2>5. PICK next2, prev2 : next2 = [mem.next EXCEPT ![p] = d] /\ prev2 = [mem.prev EXCEPT ![d] = p]
    OBVIOUS
  <2>6. /\ mem' = [next |-> next2, prev |-> prev2, key |-> mem.key, value |-> mem.value]
        /\ mem'.next = next2 /\ mem'.prev = prev2 /\ mem'.key = mem.key /\ mem'.value = mem.value
    <3>1. mem' = [mem EXCEPT !.prev[d] = p, !.next[p] = d]
      BY <1>8, <2>1, <2>3 DEF H!Remove
    <3>2. mem' = [next |-> next2, prev |-> prev2, key |-> mem.key, value |-> mem.value]
      BY <1>5, <2>5, <3>1
    <3> QED  BY <3>2
  <2>7. {h, t} \cup S \subseteq MapPlace
    BY <1>2, <1>3, <1>5, BucketPlaces
  <2>8. /\ next2[p] = d /\ \A x \in MapPlace : x # p => next2[x] = mem.next[x]
        /\ prev2[d] = p /\ \A x \in MapPlace : x # d => prev2[x] = mem.prev[x]
    BY <1>5, <2>4, <2>5, <2>7
  <2>9. mem' \in MapMem
    <3>1. next2 \in [MapPlace -> MapPlace \cup {0}] /\ prev2 \in [MapPlace -> MapPlace \cup {0}]
      BY <1>5, <2>4, <2>5, <2>7
    <3> QED  BY <1>5, <2>6, <3>1 DEF MapMem
  <2>10. In(mem', N \ {c}, b) = S \ {c} /\ \A e \in H!Bucket : e # b => In(mem', N \ {c}, e) = In(mem, N, e)
    <3>1. mem'.key = mem.key /\ H!Index(mem.key[c]) = b
      BY <1>2, <2>2, <2>6
    <3> QED  BY <1>2, <3>1 DEF In
  <2>11. Joins(R, next2, prev2, h, t, S \ {c})
    <3>1. PICK nx, pv : nx = mem.next /\ pv = mem.prev
      OBVIOUS
    <3>2. Joins(R, nx, pv, h, t, S) /\ p = pv[c] /\ d = nx[c]
      BY <1>4, <2>3, <3>1
    <3>3. /\ \A x \in {h} \cup S : x # p => next2[x] = nx[x]
          /\ \A x \in S \cup {t} : x # d => prev2[x] = pv[x]
      BY <2>7, <2>8, <3>1
    <3>4. next2[p] = d /\ prev2[d] = p
      BY <2>8
    <3> QED  BY <2>2, <3>2, <3>3, <3>4, JoinRemove
  <2>12. ASSUME NEW e \in H!Bucket, e # b
         PROVE  \E Q : Joins(Q, next2, prev2, H!HeadOf(e), H!TailOf(e), In(mem, N, e))
    <3>1. PICK i, j, U : i = H!HeadOf(e) /\ j = H!TailOf(e) /\ U = In(mem, N, e)
      OBVIOUS
    <3>2. PICK Q : Joins(Q, mem.next, mem.prev, i, j, U)
      BY <1>1, <3>1 DEF IsMap
    <3>3. ({h, t} \cup S) \cap ({i, j} \cup U) = {} /\ {i, j} \cup U \subseteq MapPlace
      BY <1>2, <1>3, <1>5, <2>12, <3>1, BucketPlaces
    <3>4. /\ \A x \in {i} \cup U : next2[x] = mem.next[x]
          /\ \A x \in U \cup {j} : prev2[x] = mem.prev[x]
      BY <2>4, <2>8, <3>3
    <3>5. PICK nx, pv : nx = mem.next /\ pv = mem.prev
      OBVIOUS
    <3>6. Joins(Q, next2, prev2, i, j, U)
      BY <3>2, <3>4, <3>5, JoinSame
    <3> QED  BY <3>1, <3>6
  <2>13. \A e \in H!Bucket : \E Q : Joins(Q, next2, prev2, H!HeadOf(e), H!TailOf(e), In(mem', N \ {c}, e))
    <3> TAKE e \in H!Bucket
    <3>1. CASE e = b
      BY <1>2, <2>10, <2>11, <3>1
    <3>2. CASE e # b
      BY <2>10, <2>12, <3>2
    <3> QED  BY <3>1, <3>2
  <2>14. /\ \A x \in N \ {c} : mem.key[x] # 0 /\ items'[mem.key[x]] = mem.value[x] /\ mem.value[x] \in Value
         /\ \A x, y \in N \ {c} : mem.key[x] = mem.key[y] => x = y
         /\ \A j \in Key : items'[j] # H!Absent => \E x \in N \ {c} : mem.key[x] = j
    <3>1. items'[k] = H!Absent /\ \A j \in Key : j # k => items'[j] = items[j]
      BY <1>5, <1>6
    <3>2. /\ \A x \in N : items[mem.key[x]] = mem.value[x] /\ mem.value[x] \in Value
          /\ \A x, y \in N : mem.key[x] = mem.key[y] => x = y
          /\ \A j \in Key : items[j] # H!Absent => \E x \in N : mem.key[x] = j
      BY <1>1 DEF IsMap
    <3>3. \A x \in N \ {c} : mem.key[x] # k
      BY <2>2, <3>2
    <3> QED  BY <1>5, <2>2, <3>1, <3>2, <3>3
  <2>15. IsMap(mem', N \ {c}, items')
    <3>1. items' \in [Key -> Value \cup {H!Absent}] /\ N \ {c} \subseteq H!Node
      BY <1>5, <1>6
    <3> QED  BY <2>6, <2>9, <2>13, <2>14, <3>1 DEF IsMap
  <2> QED  BY <1>6, <2>6, <2>15 DEF MapInv
<1> QED  BY <1>7, <1>8

LEMMA AnswerMap ==
  ASSUME MapInv, NEW k \in Key, H!Contains(k) \/ H!Find(k)
  PROVE  MapInv' /\ mem'.key = mem.key
<1>1. PICK N : IsMap(mem, N, items)
  BY DEF MapInv
<1>2. PICK R : Joins(R, mem.next, mem.prev, H!HeadOf(H!Index(k)), H!TailOf(H!Index(k)), In(mem, N, H!Index(k)))
  BY <1>1, MapPlaces DEF IsMap
<1>3. mem' = mem /\ items' = items
  BY DEF H!Contains, H!Find
<1>4. /\ H!IsThere(k) <=> items[k] # H!Absent
      /\ H!IsThere(k) => mem.value[H!Found(k)] = items[k]
  BY <1>1, <1>2, MapFinds
<1>5. H!IsThere(k) = (items[k] # H!Absent)
  BY <1>4 DEF H!IsThere
<1>6. last'[1] = last'[2]
  <2>1. CASE H!Contains(k)
    BY <1>5, <2>1 DEF H!Contains
  <2>2. CASE H!Find(k)
    <3>1. last'[1] = (IF H!IsThere(k) THEN mem.value[H!Found(k)] ELSE -1) /\ last'[2] = items[k]
      BY <2>2 DEF H!Find
    <3> QED  BY <1>4, <3>1 DEF H!Absent
  <2> QED  BY <2>1, <2>2
<1> QED  BY <1>1, <1>3, <1>6 DEF MapInv

LEMMA MapRight ==
  ASSUME MapInv
  PROVE  H!MapIsRight
<1>1. PICK N : IsMap(mem, N, items)
  BY DEF MapInv
<1>2. ASSUME NEW b \in H!Bucket, NEW between, between = H!Chain(b) \ {H!HeadOf(b), H!TailOf(b)}
      PROVE  /\ H!TailOf(b) \in H!Chain(b)
             /\ \A n \in H!Chain(b) \ {H!TailOf(b)} : mem.prev[mem.next[n]] = n
             /\ \A n \in between : H!Index(mem.key[n]) = b /\ items[mem.key[n]] = mem.value[n]
             /\ \A m, n \in between : mem.key[m] = mem.key[n] => m = n
             /\ \A k \in Key : H!Index(k) = b /\ items[k] # H!Absent => \E n \in between : mem.key[n] = k
  <2>1. PICK h, t, S : h = H!HeadOf(b) /\ t = H!TailOf(b) /\ S = In(mem, N, b)
    OBVIOUS
  <2>2. PICK R : Joins(R, mem.next, mem.prev, h, t, S)
    BY <1>1, <2>1 DEF IsMap
  <2>3. /\ {h, t} \cup S \subseteq MapPlace /\ S \subseteq N
        /\ IsFiniteSet(S) /\ Cardinality(S) <= MaxNodes /\ MaxNodes \in Nat
    BY <1>1, <2>1, BucketPlaces, MapPlaces DEF IsMap
  <2>4. PICK step : step = [n \in MapPlace |-> IF n = t THEN n ELSE mem.next[n]]
    OBVIOUS
  <2>5. PICK f : f = Walk(step, h, MaxNodes + 1)
    OBVIOUS
  <2>6. H!Chain(b) = {f[i] : i \in 0 .. MaxNodes + 1}
    BY <2>1, <2>4, <2>5 DEF H!Chain, Walk, IsWalk, MapPlace
  <2>7. (\A x \in {h} \cup S : step[x] = mem.next[x]) /\ step[t] = t
    <3>1. t \notin {h} \cup S
      BY <2>2 DEF Joins
    <3> QED  BY <2>3, <2>4, <3>1
  <2>8. {Walk(step, h, MaxNodes + 1)[i] : i \in 0 .. MaxNodes + 1} = {h, t} \cup S
    BY <2>2, <2>3, <2>7, JoinWalk
  <2>9. H!Chain(b) = {h, t} \cup S
    BY <2>5, <2>6, <2>8
  <2>10. between = S
    BY <1>2, <2>1, <2>2, <2>9 DEF Joins
  <2>11. \A n \in H!Chain(b) \ {t} : mem.prev[mem.next[n]] = n
    BY <2>2, <2>9 DEF Joins
  <2>12. \A n \in S : n \in N /\ H!Index(mem.key[n]) = b
    BY <2>1 DEF In
  <2>13. \A k \in Key : H!Index(k) = b /\ items[k] # H!Absent => \E n \in S : mem.key[n] = k
    BY <1>1, <2>1 DEF IsMap, In
  <2>14. /\ \A n \in S : items[mem.key[n]] = mem.value[n]
         /\ \A m, n \in S : mem.key[m] = mem.key[n] => m = n
    BY <1>1, <2>12 DEF IsMap
  <2> QED  BY <2>1, <2>9, <2>10, <2>11, <2>12, <2>13, <2>14
<1>3. last[1] = last[2]
  BY DEF MapInv
<1> QED  BY <1>2, <1>3 DEF H!MapIsRight

LEMMA InitMap ==
  ASSUME H!Init
  PROVE  MapInv /\ Unused(mem.key) = D!Node
<1>1. /\ mem.next = [n \in MapPlace |-> IF \E b \in H!Bucket : n = H!HeadOf(b) THEN n - 1 ELSE 0]
      /\ mem.prev = [n \in MapPlace |-> IF \E b \in H!Bucket : n = H!TailOf(b) THEN n + 1 ELSE 0]
      /\ mem.key = [n \in H!Node |-> 0] /\ mem.value = [n \in H!Node |-> 0]
      /\ mem = [next |-> mem.next, prev |-> mem.prev, key |-> mem.key, value |-> mem.value]
      /\ items = [k \in Key |-> H!Absent] /\ last = <<0, 0>>
  BY DEF H!Init, H!nullptr, MapPlace
<1>2. ASSUME NEW b \in H!Bucket
      PROVE  /\ H!HeadOf(b) - 1 = H!TailOf(b) /\ H!TailOf(b) + 1 = H!HeadOf(b)
             /\ H!HeadOf(b) \in MapPlace /\ H!TailOf(b) \in MapPlace
  <2>1. b \in Int
    BY LockBasedAssumption DEF H!Bucket
  <2> QED  BY <2>1, MapPlaces DEF H!HeadOf, H!TailOf, MapPlace
<1>3. mem \in MapMem
  <2>1. mem.next \in [MapPlace -> MapPlace \cup {0}] /\ mem.prev \in [MapPlace -> MapPlace \cup {0}]
    BY <1>1, <1>2
  <2>2. mem.key \in [H!Node -> Key \cup {0}] /\ mem.value \in [H!Node -> Value \cup {0}]
    BY <1>1
  <2> QED  BY <1>1, <2>1, <2>2 DEF MapMem
<1>4. ASSUME NEW b \in H!Bucket
      PROVE  \E R : Joins(R, mem.next, mem.prev, H!HeadOf(b), H!TailOf(b), In(mem, {}, b))
  <2>1. PICK h, t : h = H!HeadOf(b) /\ t = H!TailOf(b)
    OBVIOUS
  <2>2. h # t /\ mem.next[h] = t /\ mem.prev[t] = h
    BY <1>1, <1>2, <2>1, MapPlaces
  <2>3. In(mem, {}, b) = {}
    BY DEF In
  <2>4. Joins({<<h, t>>}, mem.next, mem.prev, h, t, {})
    BY <2>2, JoinNothing
  <2> QED  BY <2>1, <2>3, <2>4
<1>5. IsMap(mem, {}, items)
  <2>1. items \in [Key -> Value \cup {H!Absent}] /\ \A k \in Key : items[k] = H!Absent
    BY <1>1
  <2> QED  BY <1>3, <1>4, <2>1 DEF IsMap
<1>6. Unused(mem.key) = D!Node
  BY <1>1, MapPlaces DEF Unused
<1> QED  BY <1>1, <1>5, <1>6 DEF MapInv

-----------------------------------------------------------------------------
(***************************************************************************)
(* The search tree.                                                        *)
(***************************************************************************)

TreeMem == [root : B!Node \cup {0}, left : [B!Node -> B!Node \cup {0}], right : [B!Node -> B!Node \cup {0}],
            value : [B!Node -> Key \cup {0}]]

\* The tree is a root with at most two leaves, since an insert assigns the
\* child link at every level of its descent.
Nodes(m) == {n \in B!Node : m.root # 0 /\ n \in {m.root, m.left[m.root], m.right[m.root]}}
Leaf(m, n) == m.left[n] = 0 /\ m.right[n] = 0

IsTree(m) ==
  /\ m \in TreeMem
  /\ \A n \in Nodes(m) : m.value[n] # 0
  /\ \A n \in B!Node : m.value[n] = 0 => Leaf(m, n)
  /\ m.root # 0 =>
       LET l == m.left[m.root]  r == m.right[m.root]
       IN  /\ l # 0 => Leaf(m, l) /\ m.value[l] < m.value[m.root]
           /\ r # 0 => Leaf(m, r) /\ m.value[r] >= m.value[m.root]

\* No value is in the tree more often than it should be, and v no more than x
\* times more often.
With(m, k) == {n \in Nodes(m) : m.value[n] = k}
Count(m, k) == Cardinality(With(m, k))
Bounded(m, it, v, x) ==
  /\ it \in [Key -> Nat]
  /\ \A k \in Key : k # v => Count(m, k) <= it[k]
  /\ v \in Key => Count(m, v) <= it[v] + x

TreeCall == [op : {"insert", "remove"}, value : Key, curr : B!Node, prev : B!Node \cup {0},
             type : {"LEFT", "RIGHT"}, node : B!Node \cup {0}]

\* An insert is at the root and has still to link its node, or at a node it has
\* just taken out.
Inserts(m, it, h) ==
  /\ h.op = "insert" /\ m.value[h.curr] # 0
  /\ \/ /\ h.curr = m.root /\ h.node \in B!Node \ Nodes(m) /\ m.value[h.node] = h.value
        /\ Leaf(m, h.node) /\ Bounded(m, it, h.value, -1)
     \/ h.curr \notin Nodes(m) /\ Leaf(m, h.curr) /\ h.node \in B!Node /\ Bounded(m, it, h.value, 0)

\* A remove is at the root or at the leaf that its walk has led to.
Removes(m, it, h) ==
  /\ h.op = "remove" /\ h.curr \in Nodes(m) /\ Bounded(m, it, h.value, 1)
  /\ h.curr # m.root => /\ h.prev = m.root /\ B!Child(m, m.root, h.type) = h.curr
                        /\ (m.value[h.curr] # h.value => Bounded(m, it, h.value, 0))

TreeInv ==
  /\ IsTree(mem)
  /\ last[1] = last[2]
  /\ \/ holder = B!Free /\ Bounded(mem, items, 0, 0)
     \/ holder \in TreeCall /\ (Inserts(mem, items, holder) \/ Removes(mem, items, holder))

LEMMA TreePlaces ==
  /\ B!Node = D!Node /\ B!Node \subseteq Nat \ {0} /\ B!nullptr = 0
  /\ MaxNodes \in Nat \ {0} /\ Key \subseteq Nat \ {0}
  /\ \A N \in SUBSET B!Node : IsFiniteSet(N) /\ Cardinality(N) \in Nat
  /\ \A h \in TreeCall : h # B!Free
<1>1. B!Node = D!Node
  BY DEF D!Node, B!Node
<1>2. \A N \in SUBSET B!Node : IsFiniteSet(N) /\ Cardinality(N) \in Nat
  BY <1>1, Room, FS_Subset, FS_CardinalityType
<1>3. ASSUME NEW h \in TreeCall  PROVE h # B!Free
  <2>1. "op" \in DOMAIN h
    BY DEF TreeCall
  <2>2. DOMAIN B!Free = {}
    BY DEF B!Free
  <2> QED  BY <2>1, <2>2
<1> QED  BY <1>1, <1>2, <1>3, LockBasedAssumption DEF B!Node, B!nullptr

LEMMA SameCardinality == \A S : B!Cardinality(S) = Cardinality(S)
BY Zenon DEF Cardinality, B!Cardinality

\* What the tree is made of.
LEMMA TreeFacts ==
  ASSUME NEW m, IsTree(m)
  PROVE  /\ m.root \in B!Node \cup {0} /\ m.left \in [B!Node -> B!Node \cup {0}]
         /\ m.right \in [B!Node -> B!Node \cup {0}] /\ m.value \in [B!Node -> Key \cup {0}]
         /\ \A n \in B!Node : m.value[n] \in Nat /\ (m.value[n] # 0 => m.value[n] \in Key)
         /\ m.root # 0 => m.root \in Nodes(m)
         /\ \A n \in Nodes(m) : n \in B!Node /\ m.root # 0 /\ (n # m.root => Leaf(m, n))
         /\ m.root # 0 /\ m.left[m.root] # 0 =>
              /\ m.left[m.root] # m.root /\ m.left[m.root] # m.right[m.root]
         /\ m.root # 0 /\ m.right[m.root] # 0 => m.right[m.root] # m.root
<1>1. /\ m.root \in B!Node \cup {0} /\ m.left \in [B!Node -> B!Node \cup {0}]
      /\ m.right \in [B!Node -> B!Node \cup {0}] /\ m.value \in [B!Node -> Key \cup {0}]
  BY DEF IsTree, TreeMem
<1>2. \A n \in B!Node : m.value[n] \in Nat /\ (m.value[n] # 0 => m.value[n] \in Key)
  <2>1. \A n \in B!Node : m.value[n] \in Key \cup {0}
    BY <1>1
  <2>2. Key \cup {0} \subseteq Nat
    BY TreePlaces
  <2> QED  BY <2>1, <2>2
<1>3. ASSUME m.root # 0
      PROVE  /\ m.root \in B!Node /\ m.left[m.root] \in B!Node \cup {0} /\ m.right[m.root] \in B!Node \cup {0}
             /\ m.left[m.root] # 0 => Leaf(m, m.left[m.root]) /\ m.value[m.left[m.root]] < m.value[m.root]
             /\ m.right[m.root] # 0 => Leaf(m, m.right[m.root]) /\ m.value[m.right[m.root]] >= m.value[m.root]
  BY <1>1, <1>3 DEF IsTree
<1>4. ASSUME m.root # 0, m.left[m.root] # 0
      PROVE  m.left[m.root] # m.root /\ m.left[m.root] # m.right[m.root]
  <2>1. m.left[m.root] # m.root
    BY <1>3, <1>4 DEF Leaf
  <2>2. ASSUME m.left[m.root] = m.right[m.root]  PROVE FALSE
    <3>1. PICK x, y : x = m.value[m.left[m.root]] /\ y = m.value[m.root]
      OBVIOUS
    <3>2. x < y /\ x >= y /\ x \in Nat /\ y \in Nat
      BY <1>2, <1>3, <1>4, <2>2, <3>1
    <3> QED  BY <3>2
  <2> QED  BY <2>1, <2>2
<1>5. m.root # 0 /\ m.right[m.root] # 0 => m.right[m.root] # m.root
  BY <1>3 DEF Leaf
<1>6. \A n \in Nodes(m) : n \in B!Node /\ m.root # 0 /\ (n # m.root => Leaf(m, n))
  <2>1. ASSUME NEW n \in Nodes(m)
        PROVE  n \in B!Node /\ n # 0 /\ m.root # 0 /\ n \in {m.root, m.left[m.root], m.right[m.root]}
    BY TreePlaces DEF Nodes
  <2> QED  BY <1>3, <2>1
<1> QED  BY <1>1, <1>2, <1>3, <1>4, <1>5, <1>6 DEF Nodes

\* A tree that is not empty: its root and its leaves.
LEMMA RootIs ==
  ASSUME NEW m, IsTree(m), m.root # 0
  PROVE  \E r \in B!Node : \E a, b \in B!Node \cup {0} :
           /\ r = m.root /\ a = m.left[r] /\ b = m.right[r] /\ r # 0 /\ 0 \notin B!Node
           /\ Nodes(m) = {r, a, b} \ {0}
           /\ a # 0 => Leaf(m, a) /\ m.value[a] < m.value[r] /\ a # r /\ a # b
           /\ b # 0 => Leaf(m, b) /\ m.value[b] >= m.value[r] /\ b # r
<1>1. 0 \notin B!Node
  BY TreePlaces
<1>2. PICK r : r = m.root
  OBVIOUS
<1>3. r \in B!Node
  BY <1>2, TreeFacts
<1>4. PICK a, b : a = m.left[r] /\ b = m.right[r]
  OBVIOUS
<1>5. a \in B!Node \cup {0} /\ b \in B!Node \cup {0}
  BY <1>3, <1>4, TreeFacts
<1>6. /\ a # 0 => Leaf(m, a) /\ m.value[a] < m.value[r]
      /\ b # 0 => Leaf(m, b) /\ m.value[b] >= m.value[r]
  BY <1>2, <1>4 DEF IsTree
<1>7. (a # 0 => a # r /\ a # b) /\ (b # 0 => b # r)
  BY <1>2, <1>4, TreeFacts
<1>8. Nodes(m) = {r, a, b} \ {0}
  BY <1>1, <1>2, <1>3, <1>4, <1>5 DEF Nodes
<1>9. r # 0
  BY <1>2
<1> QED  BY <1>1, <1>2, <1>3, <1>4, <1>5, <1>6, <1>7, <1>8, <1>9

\* A count follows the set that is counted.
LEMMA Counts ==
  ASSUME NEW m, NEW w, NEW k, NEW j
  PROVE  /\ Count(m, k) \in Nat
         /\ With(w, j) \subseteq With(m, k) => Count(w, j) <= Count(m, k)
         /\ \A c \in With(m, k) : With(w, j) \subseteq With(m, k) \ {c} => Count(w, j) <= Count(m, k) - 1
         /\ \A c : With(w, j) \subseteq With(m, k) \cup {c} => Count(w, j) <= Count(m, k) + 1
         /\ With(m, k) = {} => Count(m, k) = 0
<1>1. PICK S, T : S = With(m, k) /\ T = With(w, j)
  OBVIOUS
<1>2. S \subseteq B!Node /\ T \subseteq B!Node
  BY <1>1 DEF With, Nodes
<1>3. IsFiniteSet(S) /\ IsFiniteSet(T) /\ Cardinality(S) \in Nat /\ Cardinality(T) \in Nat
  BY <1>2, TreePlaces
<1>4. T \subseteq S => Cardinality(T) <= Cardinality(S)
  BY <1>3, FS_Subset
<1>5. ASSUME NEW c \in S, T \subseteq S \ {c}  PROVE Cardinality(T) <= Cardinality(S) - 1
  <2>1. IsFiniteSet(S \ {c}) /\ Cardinality(S \ {c}) = Cardinality(S) - 1
    BY <1>3, FS_RemoveElement
  <2>2. Cardinality(T) <= Cardinality(S \ {c})
    BY <1>5, <2>1, FS_Subset
  <2> QED  BY <2>1, <2>2
<1>6. ASSUME NEW c, T \subseteq S \cup {c}  PROVE Cardinality(T) <= Cardinality(S) + 1
  <2>1. IsFiniteSet(S \cup {c}) /\ Cardinality(S \cup {c}) <= Cardinality(S) + 1 /\ Cardinality(S \cup {c}) \in Nat
    BY <1>3, FS_AddElement
  <2>2. Cardinality(T) <= Cardinality(S \cup {c})
    BY <1>6, <2>1, FS_Subset
  <2> QED  BY <1>3, <2>1, <2>2
<1>7. S = {} => Cardinality(S) = 0
  BY FS_EmptySet
<1> QED  BY <1>1, <1>3, <1>4, <1>5, <1>6, <1>7 DEF Count

\* The bounds: with room for one more; for a tree with no more of any value;
\* for one with one less of v; for one without v.
LEMMA Bounds ==
  ASSUME NEW m, NEW w, NEW it, NEW v \in Key, NEW x \in Int, Bounded(m, it, v, x)
  PROVE  /\ it \in [Key -> Nat]
         /\ \A y \in Int : x <= y => Bounded(m, it, v, y)
         /\ x <= 0 => Bounded(m, it, 0, 0)
         /\ With(m, v) = {} => Bounded(m, it, v, 0) /\ Bounded(m, it, 0, 0)
         /\ (\A k \in Key : With(w, k) \subseteq With(m, k)) => Bounded(w, it, v, x)
         /\ \A c \in With(m, v) : (\A k \in Key : With(w, k) \subseteq With(m, k) \ {c}) => Bounded(w, it, v, x - 1)
         /\ \A c : With(w, v) \subseteq With(m, v) \cup {c} /\ (\A k \in Key \ {v} : With(w, k) \subseteq With(m, k))
                     => Bounded(w, it, v, x + 1)
<1>1. /\ it \in [Key -> Nat] /\ Count(m, v) <= it[v] + x /\ 0 \notin Key /\ it[v] \in Nat
      /\ \A k \in Key : (k # v => Count(m, k) <= it[k]) /\ it[k] \in Nat
  BY TreePlaces DEF Bounded
<1>2. \A k \in Key : Count(m, k) \in Nat /\ Count(w, k) \in Nat
  BY Counts
<1>3. ASSUME NEW y \in Int, x <= y  PROVE Bounded(m, it, v, y)
  <2>1. Count(m, v) <= it[v] + y
    BY <1>1, <1>2, <1>3
  <2> QED  BY <1>1, <2>1 DEF Bounded
<1>4. ASSUME x <= 0 \/ With(m, v) = {}  PROVE Bounded(m, it, v, 0) /\ Bounded(m, it, 0, 0)
  <2>1. Count(m, v) <= it[v] /\ it[v] + 0 = it[v]
    BY <1>1, <1>2, <1>4, Counts
  <2> QED  BY <1>1, <2>1 DEF Bounded
<1>5. ASSUME \A k \in Key : With(w, k) \subseteq With(m, k)  PROVE Bounded(w, it, v, x)
  <2>1. \A k \in Key : Count(w, k) <= Count(m, k)
    BY <1>5, Counts
  <2>2. Count(w, v) <= it[v] + x /\ \A k \in Key : k # v => Count(w, k) <= it[k]
    BY <1>1, <1>2, <2>1
  <2> QED  BY <1>1, <2>2 DEF Bounded
<1>6. ASSUME NEW c \in With(m, v), \A k \in Key : With(w, k) \subseteq With(m, k) \ {c}
      PROVE  Bounded(w, it, v, x - 1)
  <2>1. \A k \in Key : Count(w, k) <= Count(m, k)
    BY <1>6, Counts
  <2>2. Count(w, v) <= Count(m, v) - 1
    BY <1>6, Counts
  <2>3. Count(w, v) <= it[v] + (x - 1) /\ \A k \in Key : k # v => Count(w, k) <= it[k]
    BY <1>1, <1>2, <2>1, <2>2
  <2> QED  BY <1>1, <2>3 DEF Bounded
<1>7. ASSUME NEW c, With(w, v) \subseteq With(m, v) \cup {c}, \A k \in Key \ {v} : With(w, k) \subseteq With(m, k)
      PROVE  Bounded(w, it, v, x + 1)
  <2>1. \A k \in Key \ {v} : Count(w, k) <= Count(m, k)
    BY <1>7, Counts
  <2>2. Count(w, v) <= Count(m, v) + 1
    BY <1>7, Counts
  <2>3. Count(w, v) <= it[v] + (x + 1) /\ \A k \in Key : k # v => Count(w, k) <= it[k]
    BY <1>1, <1>2, <2>1, <2>2
  <2> QED  BY <1>1, <2>3 DEF Bounded
<1> QED  BY <1>1, <1>3, <1>4, <1>5, <1>6, <1>7

\* The places T and those that their links lead to.
To(m, T) == (T \cup {m.left[n] : n \in T} \cup {m.right[n] : n \in T}) \ {0}

\* What the links lead to from n is S, which they do not leave.
LEMMA BelowIs ==
  ASSUME NEW n, NEW a \in SUBSET B!Node, a = {n} \ {0}, NEW S \in SUBSET B!Node, To(mem, a) = S, To(mem, S) = S
  PROVE  B!Below(n) = S
<1>1. PICK step : step = [T \in SUBSET B!Node |->
                            (T \cup {mem.left[m] : m \in T} \cup {mem.right[m] : m \in T}) \ {0}]
  OBVIOUS
<1>3. step[a] = S /\ step[S] = S
  BY <1>1 DEF To
<1>4. B!Below(n) = Walk(step, a, MaxNodes)[MaxNodes]
  BY <1>1, TreePlaces DEF B!Below, Walk, IsWalk
<1>5. \A x \in {a, S} : step[x] \in {a, S}
  BY <1>3
<1>6. MaxNodes \in 1 .. MaxNodes /\ MaxNodes - 1 \in 0 .. MaxNodes /\ MaxNodes \in Nat
  BY TreePlaces
<1>7. \A i \in 0 .. MaxNodes : Walk(step, a, MaxNodes)[i] \in {a, S}
  BY <1>5, <1>6, WalkStays
<1>8. Walk(step, a, MaxNodes)[MaxNodes] = step[Walk(step, a, MaxNodes)[MaxNodes - 1]]
  BY <1>6, WalkIs
<1>9. Walk(step, a, MaxNodes)[MaxNodes - 1] \in {a, S}
  BY <1>6, <1>7
<1> QED  BY <1>3, <1>4, <1>8, <1>9

\* From the root the links lead to the nodes, from a leaf nowhere.
LEMMA Reached ==
  ASSUME IsTree(mem)
  PROVE  /\ B!Below(mem.root) = Nodes(mem)
         /\ B!Below(0) = {}
         /\ \A n \in B!Node : Leaf(mem, n) => B!Below(n) = {n}
<1>0. 0 \notin B!Node
  BY TreePlaces
<1>1. B!Below(0) = {}
  <2>1. To(mem, {}) = {} /\ {} \in SUBSET B!Node /\ {} = {0} \ {0}
    BY DEF To
  <2> QED  BY <2>1, BelowIs
<1>2. ASSUME NEW n \in B!Node, Leaf(mem, n)  PROVE B!Below(n) = {n}
  <2>1. n # 0 /\ mem.left[n] = 0 /\ mem.right[n] = 0
    BY <1>0, <1>2 DEF Leaf
  <2>2. To(mem, {n}) = {n} /\ {n} \in SUBSET B!Node /\ {n} = {n} \ {0}
    BY <2>1 DEF To
  <2> QED  BY <2>2, BelowIs
<1>3. ASSUME mem.root = 0  PROVE B!Below(mem.root) = Nodes(mem)
  <2>1. Nodes(mem) = {}
    BY <1>3 DEF Nodes
  <2> QED  BY <1>1, <1>3, <2>1
<1>4. ASSUME mem.root # 0  PROVE B!Below(mem.root) = Nodes(mem)
  <2>1. PICK r \in B!Node : \E a, b \in B!Node \cup {0} :
           /\ r = mem.root /\ a = mem.left[r] /\ b = mem.right[r] /\ r # 0
           /\ Nodes(mem) = {r, a, b} \ {0} /\ (a # 0 => Leaf(mem, a)) /\ (b # 0 => Leaf(mem, b))
    BY <1>4, RootIs
  <2>2. PICK a, b \in B!Node \cup {0} :
           /\ r = mem.root /\ a = mem.left[r] /\ b = mem.right[r] /\ r # 0
           /\ Nodes(mem) = {r, a, b} \ {0} /\ (a # 0 => Leaf(mem, a)) /\ (b # 0 => Leaf(mem, b))
    BY <2>1
  <2>3. PICK S : S = {r, a, b} \ {0}
    OBVIOUS
  <2>4. To(mem, {r}) = S
    BY <2>2, <2>3 DEF To
  <2>5. To(mem, S) = S
    <3>1. \A m \in S : mem.left[m] \in S \cup {0} /\ mem.right[m] \in S \cup {0}
      BY <2>2, <2>3 DEF Leaf
    <3>2. 0 \notin S
      BY <2>3
    <3> QED  BY <3>1, <3>2 DEF To
  <2>6. {r} = {r} \ {0} /\ {r} \in SUBSET B!Node /\ S \in SUBSET B!Node
    BY <2>2, <2>3
  <2>7. B!Below(r) = S
    BY <2>4, <2>5, <2>6, BelowIs
  <2> QED  BY <2>2, <2>3, <2>7
<1> QED  BY <1>1, <1>2, <1>3, <1>4

\* A path that ends at d, after at most one step.
LEMMA PathIs ==
  ASSUME NEW n \in B!Node, NEW d \in B!Node, NEW first, NEW second,
         LET to(x) == IF first[x] # 0 THEN first[x] ELSE IF second[x] # 0 THEN second[x] ELSE x
         IN  to(n) = d /\ to(d) = d
  PROVE  B!Path(n, first, second) = {mem.value[n], mem.value[d]}
<1>1. PICK step : step = [m \in B!Node |-> IF first[m] # 0 THEN first[m] ELSE IF second[m] # 0 THEN second[m] ELSE m]
  OBVIOUS
<1>2. step[n] = d /\ step[d] = d
  BY <1>1
<1>3. PICK f : f = Walk(step, n, MaxNodes)
  OBVIOUS
<1>4. B!Path(n, first, second) = {mem.value[f[i]] : i \in 0 .. MaxNodes}
  BY <1>1, <1>3, TreePlaces DEF B!Path, Walk, IsWalk
<1>5. \A x \in {n, d} : step[x] \in {n, d}
  BY <1>2
<1>6. MaxNodes \in Nat /\ 0 \in 0 .. MaxNodes /\ 1 \in 1 .. MaxNodes /\ 1 \in 0 .. MaxNodes
  BY TreePlaces
<1>7. \A i \in 0 .. MaxNodes : f[i] \in {n, d}
  BY <1>3, <1>5, <1>6, WalkStays
<1>8. f[0] = n /\ f[1] = step[f[1 - 1]]
  BY <1>3, <1>6, WalkIs
<1>9. f[1] = d
  BY <1>2, <1>8
<1> QED  BY <1>4, <1>6, <1>7, <1>8, <1>9

\* The least and the greatest of a set.
LEMMA EndsOf ==
  ASSUME NEW S \in SUBSET Int, NEW x \in S
  PROVE  /\ (\A y \in S : x <= y) => B!Min(S) = x
         /\ (\A y \in S : x >= y) => B!Max(S) = x
<1>1. ASSUME \A y \in S : x <= y  PROVE B!Min(S) = x
  <2>1. \A z \in S : (\A y \in S : z <= y) => z = x
    BY <1>1
  <2> QED  BY <1>1, <2>1 DEF B!Min
<1>2. ASSUME \A y \in S : x >= y  PROVE B!Max(S) = x
  <2>1. \A z \in S : (\A y \in S : z >= y) => z = x
    BY <1>2
  <2> QED  BY <1>2, <2>1 DEF B!Max
<1> QED  BY <1>1, <1>2

\* The ends of the tree are at the root or at a leaf.
LEMMA PathsFind ==
  ASSUME IsTree(mem), mem.root # 0
  PROVE  /\ B!Min(B!MinPath(mem.root)) = B!Least
         /\ B!Max(B!MaxPath(mem.root)) = B!Greatest
         /\ \A n \in B!Node : Leaf(mem, n) => B!Min(B!MinPath(n)) = mem.value[n]
<1>1. PICK r \in B!Node : \E a, b \in B!Node \cup {0} :
         /\ r = mem.root /\ a = mem.left[r] /\ b = mem.right[r] /\ r # 0 /\ 0 \notin B!Node
         /\ Nodes(mem) = {r, a, b} \ {0}
         /\ a # 0 => Leaf(mem, a) /\ mem.value[a] < mem.value[r]
         /\ b # 0 => Leaf(mem, b) /\ mem.value[b] >= mem.value[r]
  BY RootIs
<1>2. PICK a, b \in B!Node \cup {0} :
         /\ r = mem.root /\ a = mem.left[r] /\ b = mem.right[r] /\ r # 0 /\ 0 \notin B!Node
         /\ Nodes(mem) = {r, a, b} \ {0}
         /\ a # 0 => Leaf(mem, a) /\ mem.value[a] < mem.value[r]
         /\ b # 0 => Leaf(mem, b) /\ mem.value[b] >= mem.value[r]
  BY <1>1
<1>3. /\ a # 0 => mem.left[a] = 0 /\ mem.right[a] = 0
      /\ b # 0 => mem.left[b] = 0 /\ mem.right[b] = 0
  BY <1>2 DEF Leaf
<1>4. Nodes(mem) = {r, a, b} \ {0}
  BY <1>2
<1>5. /\ \A n \in B!Node : mem.value[n] \in Nat
      /\ \A n \in Nodes(mem) : mem.value[n] \in Key /\ mem.value[n] \in Int
  BY TreeFacts DEF IsTree
<1>6. \A k \in Key : SentinelMin < k /\ k < SentinelMax /\ k \in Int
  BY LockBasedAssumption
<1>7. SentinelMin \in Int /\ SentinelMax \in Int
  BY LockBasedAssumption
<1>8. PICK V : V = {mem.value[n] : n \in Nodes(mem)}
  OBVIOUS
<1>9. V = {mem.value[n] : n \in {r, a, b} \ {0}} /\ V \subseteq Key
  BY <1>4, <1>5, <1>8
<1>10. B!Below(mem.root) = Nodes(mem)
  BY Reached
<1>11. B!Least = B!Min(V \cup {SentinelMax}) /\ B!Greatest = B!Max(V \cup {SentinelMin})
  BY <1>8, <1>10 DEF B!Least, B!Greatest
<1>12. B!Min(B!MinPath(r)) = B!Least
  <2>1. PICK d : d = IF a # 0 THEN a ELSE IF b # 0 THEN b ELSE r
    OBVIOUS
  <2>2. PICK x : x = IF a # 0 THEN mem.value[a] ELSE mem.value[r]
    OBVIOUS
  <2>3. B!MinPath(r) = {mem.value[r], mem.value[d]}
    <3>1. d \in B!Node
      BY <1>2, <2>1
    <3>2. /\ (IF mem.left[r] # 0 THEN mem.left[r] ELSE IF mem.right[r] # 0 THEN mem.right[r] ELSE r) = d
          /\ (IF mem.left[d] # 0 THEN mem.left[d] ELSE IF mem.right[d] # 0 THEN mem.right[d] ELSE d) = d
      BY <1>2, <1>3, <2>1
    <3> QED  BY <1>2, <3>1, <3>2, PathIs DEF B!MinPath
  <2>4. /\ mem.value[r] \in V /\ mem.value[d] \in V /\ x \in {mem.value[r], mem.value[d]}
        /\ \A y \in V : x <= y
    <3>1. mem.value[r] \in V /\ mem.value[d] \in V /\ x \in {mem.value[r], mem.value[d]}
      BY <1>2, <1>9, <2>1, <2>2
    <3>2. mem.value[r] \in Nat /\ (a # 0 => mem.value[a] \in Nat) /\ (b # 0 => mem.value[b] \in Nat)
      BY <1>2, <1>5
    <3>3. \A y \in V : y = mem.value[r] \/ (a # 0 /\ y = mem.value[a]) \/ (b # 0 /\ y = mem.value[b])
      BY <1>9
    <3>4. ASSUME NEW y \in V  PROVE x <= y
      BY <1>2, <2>2, <3>2, <3>3
    <3> QED  BY <3>1, <3>4
  <2>5. \A k \in V : k \in Int /\ k <= SentinelMax
    BY <1>6, <1>7, <1>9
  <2>6. x \in V
    BY <2>4
  <2>7. B!Min(V \cup {SentinelMax}) = x
    <3>1. V \cup {SentinelMax} \in SUBSET Int /\ x \in V \cup {SentinelMax}
      BY <1>7, <2>5, <2>6
    <3>2. \A y \in V \cup {SentinelMax} : x <= y
      BY <2>4, <2>5, <2>6
    <3> QED  BY <3>1, <3>2, EndsOf
  <2>8. B!Min({mem.value[r], mem.value[d]}) = x
    <3>1. {mem.value[r], mem.value[d]} \in SUBSET Int
      BY <2>4, <2>5
    <3> QED  BY <2>4, <3>1, EndsOf
  <2> QED  BY <1>11, <2>3, <2>7, <2>8
<1>13. B!Max(B!MaxPath(r)) = B!Greatest
  <2>1. PICK d : d = IF b # 0 THEN b ELSE IF a # 0 THEN a ELSE r
    OBVIOUS
  <2>2. PICK x : x = IF b # 0 THEN mem.value[b] ELSE mem.value[r]
    OBVIOUS
  <2>3. B!MaxPath(r) = {mem.value[r], mem.value[d]}
    <3>1. d \in B!Node
      BY <1>2, <2>1
    <3>2. /\ (IF mem.right[r] # 0 THEN mem.right[r] ELSE IF mem.left[r] # 0 THEN mem.left[r] ELSE r) = d
          /\ (IF mem.right[d] # 0 THEN mem.right[d] ELSE IF mem.left[d] # 0 THEN mem.left[d] ELSE d) = d
      BY <1>2, <1>3, <2>1
    <3> QED  BY <1>2, <3>1, <3>2, PathIs DEF B!MaxPath
  <2>4. /\ mem.value[r] \in V /\ mem.value[d] \in V /\ x \in {mem.value[r], mem.value[d]}
        /\ \A y \in V : x >= y
    <3>1. mem.value[r] \in V /\ mem.value[d] \in V /\ x \in {mem.value[r], mem.value[d]}
      BY <1>2, <1>9, <2>1, <2>2
    <3>2. mem.value[r] \in Nat /\ (a # 0 => mem.value[a] \in Nat) /\ (b # 0 => mem.value[b] \in Nat)
      BY <1>2, <1>5
    <3>3. \A y \in V : y = mem.value[r] \/ (a # 0 /\ y = mem.value[a]) \/ (b # 0 /\ y = mem.value[b])
      BY <1>9
    <3>4. ASSUME NEW y \in V  PROVE x >= y
      BY <1>2, <2>2, <3>2, <3>3
    <3> QED  BY <3>1, <3>4
  <2>5. \A k \in V : k \in Int /\ k >= SentinelMin
    BY <1>6, <1>7, <1>9
  <2>6. x \in V
    BY <2>4
  <2>7. B!Max(V \cup {SentinelMin}) = x
    <3>1. V \cup {SentinelMin} \in SUBSET Int /\ x \in V \cup {SentinelMin}
      BY <1>7, <2>5, <2>6
    <3>2. \A y \in V \cup {SentinelMin} : x >= y
      BY <2>4, <2>5, <2>6
    <3> QED  BY <3>1, <3>2, EndsOf
  <2>8. B!Max({mem.value[r], mem.value[d]}) = x
    <3>1. {mem.value[r], mem.value[d]} \in SUBSET Int
      BY <2>4, <2>5
    <3> QED  BY <2>4, <3>1, EndsOf
  <2> QED  BY <1>11, <2>3, <2>7, <2>8
<1>14. ASSUME NEW n \in B!Node, Leaf(mem, n)  PROVE B!Min(B!MinPath(n)) = mem.value[n]
  <2>1. B!MinPath(n) = {mem.value[n], mem.value[n]}
    BY <1>14, PathIs DEF B!MinPath, Leaf
  <2>2. PICK x : x = mem.value[n]
    OBVIOUS
  <2>3. x \in Int /\ x <= x
    BY <1>5, <2>2
  <2>4. B!Min({x}) = x
    BY <2>3, EndsOf
  <2> QED  BY <2>1, <2>2, <2>4
<1> QED  BY <1>2, <1>12, <1>13, <1>14

LEMMA TreeRight == TreeInv => B!TreeIsRight
<1> SUFFICES ASSUME TreeInv, holder = B!Free  PROVE B!TreeIsRight
  BY DEF B!TreeIsRight
<1>1. IsTree(mem) /\ last[1] = last[2] /\ Bounded(mem, items, 0, 0)
  BY TreePlaces DEF TreeInv
<1>2. /\ B!Below(mem.root) = Nodes(mem) /\ B!Below(0) = {}
      /\ \A n \in B!Node : Leaf(mem, n) => B!Below(n) = {n}
  BY <1>1, Reached
<1>3. ASSUME NEW n \in Nodes(mem)
      PROVE  /\ \A l \in B!Below(mem.left[n]) : mem.value[l] < mem.value[n]
             /\ \A r \in B!Below(mem.right[n]) : mem.value[r] >= mem.value[n]
  <2>1. n \in B!Node /\ mem.root # 0 /\ (n # mem.root => Leaf(mem, n))
    BY <1>1, TreeFacts
  <2>2. CASE n # mem.root
    <3>1. B!Below(mem.left[n]) = {} /\ B!Below(mem.right[n]) = {}
      BY <1>2, <2>1, <2>2 DEF Leaf
    <3> QED  BY <3>1
  <2>3. CASE n = mem.root
    <3>1. PICK a, b \in B!Node \cup {0} :
            /\ a = mem.left[n] /\ b = mem.right[n]
            /\ a # 0 => Leaf(mem, a) /\ mem.value[a] < mem.value[n]
            /\ b # 0 => Leaf(mem, b) /\ mem.value[b] >= mem.value[n]
      BY <1>1, <2>1, <2>3, RootIs
    <3>2. /\ B!Below(a) = IF a = 0 THEN {} ELSE {a}
          /\ B!Below(b) = IF b = 0 THEN {} ELSE {b}
      BY <1>2, <3>1
    <3>3. \A l \in B!Below(a) : l = a /\ a # 0
      BY <3>2
    <3>4. \A r \in B!Below(b) : r = b /\ b # 0
      BY <3>2
    <3> QED  BY <3>1, <3>3, <3>4
  <2> QED  BY <2>2, <2>3
<1>4. ASSUME NEW k \in Key  PROVE B!Holds(k) <= items[k]
  <2>1. B!Holds(k) = Count(mem, k)
    BY <1>2, SameCardinality DEF B!Holds, Count, With
  <2>2. Count(mem, k) <= items[k]
    BY <1>1, TreePlaces DEF Bounded
  <2> QED  BY <2>1, <2>2
<1>5. \A n \in B!Below(mem.root) :
        /\ \A l \in B!Below(mem.left[n]) : mem.value[l] < mem.value[n]
        /\ \A r \in B!Below(mem.right[n]) : mem.value[r] >= mem.value[n]
  BY <1>2, <1>3
<1> QED  BY <1>1, <1>4, <1>5 DEF B!TreeIsRight

LEMMA InitTree ==
  ASSUME B!Init
  PROVE  TreeInv /\ Unused(mem.value) = D!Node
<1>1. /\ mem = [root |-> 0, left |-> [n \in B!Node |-> 0], right |-> [n \in B!Node |-> 0],
                value |-> [n \in B!Node |-> 0]]
      /\ items = [k \in Key |-> 0] /\ last = <<0, 0>> /\ holder = B!Free
  BY TreePlaces DEF B!Init
<1>2. mem.root = 0 /\ mem \in TreeMem /\ \A n \in B!Node : mem.left[n] = 0 /\ mem.right[n] = 0 /\ mem.value[n] = 0
  BY <1>1 DEF TreeMem
<1>3. Nodes(mem) = {}
  BY <1>2 DEF Nodes
<1>4. IsTree(mem)
  BY <1>2, <1>3 DEF IsTree, Leaf
<1>5. Bounded(mem, items, 0, 0)
  <2>1. \A k \in Key : Count(mem, k) = 0 /\ items[k] = 0 /\ k # 0
    <3>1. \A k \in Key : With(mem, k) = {}
      BY <1>3 DEF With
    <3> QED  BY <1>1, <3>1, Counts, TreePlaces
  <2>2. items \in [Key -> Nat]
    BY <1>1
  <2> QED  BY <2>1, <2>2, TreePlaces DEF Bounded
<1>6. Unused(mem.value) = D!Node
  BY <1>2, TreePlaces DEF Unused
<1> QED  BY <1>1, <1>4, <1>5, <1>6 DEF TreeInv

\* The calls that only look.
LEMMA EndsTree ==
  ASSUME TreeInv, B!GetMin \/ B!GetMax
  PROVE  TreeInv' /\ mem'.value = mem.value
<1>1. /\ mem' = mem /\ items' = items /\ holder' = holder /\ holder = B!Free
      /\ \/ last' = <<IF mem.root = 0 THEN SentinelMax ELSE B!Min(B!MinPath(mem.root)), B!Least>>
         \/ last' = <<IF mem.root = 0 THEN SentinelMin ELSE B!Max(B!MaxPath(mem.root)), B!Greatest>>
  BY TreePlaces DEF B!GetMin, B!GetMax
<1>2. IsTree(mem) /\ Bounded(mem, items, 0, 0)
  BY <1>1, TreePlaces DEF TreeInv
<1>3. ASSUME mem.root = 0  PROVE B!Least = SentinelMax /\ B!Greatest = SentinelMin
  <2>1. B!Below(mem.root) = {}
    BY <1>2, <1>3, Reached
  <2>2. B!Least = B!Min({SentinelMax}) /\ B!Greatest = B!Max({SentinelMin})
    BY <2>1 DEF B!Least, B!Greatest
  <2>3. SentinelMax \in Int /\ SentinelMin \in Int
    BY LockBasedAssumption
  <2>4. B!Min({SentinelMax}) = SentinelMax /\ B!Max({SentinelMin}) = SentinelMin
    BY <2>3, EndsOf
  <2> QED  BY <2>2, <2>4
<1>4. last'[1] = last'[2]
  BY <1>1, <1>2, <1>3, PathsFind
<1> QED  BY <1>1, <1>2, <1>4 DEF TreeInv

\* A remove begins at the root.
LEMMA RemoveTree ==
  ASSUME TreeInv, NEW k \in Key, B!Remove(k)
  PROVE  TreeInv' /\ mem'.value = mem.value
<1>1. /\ holder = B!Free /\ mem' = mem /\ last' = <<0, 0>>
      /\ items' = [items EXCEPT ![k] = IF @ = 0 THEN 0 ELSE @ - 1]
      /\ holder' = IF mem.root = 0 THEN B!Free
                   ELSE [op |-> "remove", value |-> k, curr |-> mem.root, prev |-> 0, type |-> "LEFT", node |-> 0]
  BY TreePlaces DEF B!Remove
<1>2. IsTree(mem) /\ Bounded(mem, items, 0, 0)
  BY <1>1, TreePlaces DEF TreeInv
<1>3. /\ items \in [Key -> Nat] /\ \A i \in Key : Count(mem, i) <= items[i] /\ Count(mem, i) \in Nat
  BY <1>2, Counts, TreePlaces DEF Bounded
<1>4. /\ items' \in [Key -> Nat] /\ items[k] <= items'[k] + 1 /\ \A i \in Key : i # k => items'[i] = items[i]
  <2>1. items[k] \in Nat
    BY <1>3
  <2>2. (IF items[k] = 0 THEN 0 ELSE items[k] - 1) \in Nat
    BY <2>1
  <2>3. items' \in [Key -> Nat] /\ items'[k] = (IF items[k] = 0 THEN 0 ELSE items[k] - 1)
        /\ \A i \in Key : i # k => items'[i] = items[i]
    BY <1>1, <1>3, <2>2
  <2> QED  BY <2>1, <2>3
<1>5. Bounded(mem, items', k, 1)
  <2>1. /\ Count(mem, k) <= items'[k] + 1
        /\ \A i \in Key : i # k => Count(mem, i) <= items'[i]
    BY <1>3, <1>4
  <2> QED  BY <1>4, <2>1 DEF Bounded
<1>6. CASE mem.root = 0
  <2>1. Bounded(mem, items', 0, 0)
    <3>1. With(mem, k) = {}
      BY <1>6 DEF With, Nodes
    <3>2. PICK it : it = items'
      OBVIOUS
    <3>3. Bounded(mem, it, k, 1)
      BY <1>5, <3>2
    <3>4. 1 \in Int /\ Bounded(mem, it, 0, 0)
      BY <3>1, <3>3, Bounds
    <3> QED  BY <3>2, <3>4
  <2> QED  BY <1>1, <1>2, <1>6, <2>1 DEF TreeInv
<1>7. CASE mem.root # 0
  <2>1. PICK h : h = [op |-> "remove", value |-> k, curr |-> mem.root, prev |-> 0, type |-> "LEFT", node |-> 0]
    OBVIOUS
  <2>2. mem.root \in B!Node /\ mem.root \in Nodes(mem)
    BY <1>2, <1>7, TreeFacts
  <2>3. h \in TreeCall /\ h.op = "remove" /\ h.value = k /\ h.curr = mem.root
    BY <2>1, <2>2 DEF TreeCall
  <2>4. Removes(mem, items', h)
    BY <1>5, <2>2, <2>3 DEF Removes
  <2>5. holder' = h
    BY <1>1, <1>7, <2>1
  <2>6. IsTree(mem') /\ Removes(mem', items', holder') /\ holder' \in TreeCall /\ last'[1] = last'[2]
    BY <1>1, <1>2, <2>3, <2>4, <2>5
  <2> QED  BY <1>1, <2>6 DEF TreeInv
<1> QED  BY <1>1, <1>6, <1>7

\* A root and leaves that are in order are a tree.
LEMMA RootMakes ==
  ASSUME NEW w \in TreeMem, NEW r \in B!Node, NEW a, NEW b, r = w.root, a = w.left[r], b = w.right[r],
         w.value[r] # 0, \A n \in B!Node : w.value[n] = 0 => Leaf(w, n),
         a # 0 => Leaf(w, a) /\ w.value[a] # 0 /\ w.value[a] < w.value[r],
         b # 0 => Leaf(w, b) /\ w.value[b] # 0 /\ w.value[b] >= w.value[r]
  PROVE  IsTree(w) /\ Nodes(w) = {r, a, b} \ {0}
<1>1. a \in B!Node \cup {0} /\ b \in B!Node \cup {0} /\ r # 0 /\ 0 \notin B!Node
  BY TreePlaces DEF TreeMem
<1>2. Nodes(w) = {r, a, b} \ {0}
  BY <1>1 DEF Nodes
<1>3. \A n \in Nodes(w) : w.value[n] # 0
  BY <1>2
<1> QED  BY <1>2, <1>3 DEF IsTree

\* The walk of a call moves on.
Moved(h, c, d, type) == [h EXCEPT !.prev = c, !.curr = d, !.type = type]

\* A child is replaced.
LEMMA ChildIs ==
  ASSUME NEW m \in TreeMem, NEW n \in B!Node, NEW type, NEW c \in B!Node \cup {0}
  PROVE  LET w == B!WithChild(m, n, type, c)
         IN  /\ w \in TreeMem /\ w.root = m.root /\ w.value = m.value
             /\ type = "LEFT" => w.left = [m.left EXCEPT ![n] = c] /\ w.right = m.right
             /\ type # "LEFT" => w.right = [m.right EXCEPT ![n] = c] /\ w.left = m.left
<1>1. CASE type = "LEFT"
  <2>1. PICK w : w = [m EXCEPT !.left[n] = c]
    OBVIOUS
  <2>2. w \in TreeMem /\ w.root = m.root /\ w.value = m.value /\ w.left = [m.left EXCEPT ![n] = c] /\ w.right = m.right
    BY <2>1 DEF TreeMem
  <2>3. B!WithChild(m, n, type, c) = w
    BY <1>1, <2>1 DEF B!WithChild
  <2> QED  BY <1>1, <2>2, <2>3
<1>2. CASE type # "LEFT"
  <2>1. PICK w : w = [m EXCEPT !.right[n] = c]
    OBVIOUS
  <2>2. w \in TreeMem /\ w.root = m.root /\ w.value = m.value /\ w.right = [m.right EXCEPT ![n] = c] /\ w.left = m.left
    BY <2>1 DEF TreeMem
  <2>3. B!WithChild(m, n, type, c) = w
    BY <1>2, <2>1 DEF B!WithChild
  <2> QED  BY <1>2, <2>2, <2>3
<1> QED  BY <1>1, <1>2

\* An insert begins.
LEMMA InsertTree ==
  ASSUME TreeInv, Unused(mem.value) # {}, NEW k \in Key, B!Insert(k)
  PROVE  TreeInv' /\ \E n : Unused(mem.value) \ {n} \subseteq Unused(mem'.value)
<1>1. PICK n : n = B!Fresh
  OBVIOUS
<1>2. n \in B!Node /\ mem.value[n] = 0
  <2>1. PICK value : value = mem.value
    OBVIOUS
  <2>2. n = CHOOSE x \in D!Node : value[x] = 0 /\ \A i \in D!Node : value[i] = 0 => x <= i
    BY <1>1, <2>1, TreePlaces DEF B!Fresh
  <2>3. n \in D!Node /\ value[n] = 0
    BY <2>1, <2>2, FirstUnused
  <2> QED  BY <2>1, <2>3, TreePlaces
<1>3. PICK it : it = items'
  OBVIOUS
<1>4. PICK w : w = mem'
  OBVIOUS
<1>5. /\ holder = B!Free /\ last' = <<0, 0>> /\ it = [items EXCEPT ![k] = @ + 1]
      /\ \/ mem.root = 0 /\ w = [mem EXCEPT !.value[n] = k, !.root = n] /\ holder' = holder
         \/ /\ mem.root # 0 /\ w = [mem EXCEPT !.value[n] = k]
            /\ holder' = [op |-> "insert", value |-> k, curr |-> mem.root, prev |-> 0, type |-> "LEFT", node |-> n]
  BY <1>1, <1>3, <1>4, TreePlaces DEF B!Insert
<1>6. IsTree(mem) /\ Bounded(mem, items, 0, 0) /\ mem \in TreeMem
  BY <1>5, TreePlaces DEF TreeInv, IsTree
<1>7. /\ w \in TreeMem /\ w.left = mem.left /\ w.right = mem.right /\ w.value = [mem.value EXCEPT ![n] = k]
      /\ w.root = IF mem.root = 0 THEN n ELSE mem.root
  BY <1>2, <1>5, <1>6 DEF TreeMem
<1>8. /\ k # 0 /\ w.value[n] = k /\ (\A i \in B!Node : i # n => w.value[i] = mem.value[i])
      /\ Leaf(mem, n) /\ n \notin Nodes(mem) /\ n # 0
      /\ \A i \in B!Node : Leaf(w, i) <=> Leaf(mem, i)
  <2>1. k # 0 /\ n # 0
    BY <1>2, TreePlaces
  <2>2. w.value[n] = k /\ \A i \in B!Node : i # n => w.value[i] = mem.value[i]
    BY <1>2, <1>6, <1>7 DEF TreeMem
  <2>3. Leaf(mem, n) /\ n \notin Nodes(mem)
    BY <1>2, <1>6 DEF IsTree
  <2> QED  BY <1>7, <2>1, <2>2, <2>3 DEF Leaf
<1>9. \A i \in B!Node : w.value[i] = 0 => Leaf(w, i)
  BY <1>6, <1>8 DEF IsTree
<1>10. Bounded(mem, it, k, -1)
  <2>1. items \in [Key -> Nat] /\ \A i \in Key : Count(mem, i) <= items[i] /\ Count(mem, i) \in Nat
    BY <1>6, Counts, TreePlaces DEF Bounded
  <2>2. it \in [Key -> Nat] /\ it[k] = items[k] + 1 /\ \A i \in Key : i # k => it[i] = items[i]
    BY <1>5, <2>1
  <2>3. items[k] = it[k] + -1
    BY <2>1, <2>2
  <2> QED  BY <2>1, <2>2, <2>3 DEF Bounded
<1>11. \E x : Unused(mem.value) \ {x} \subseteq Unused(w.value)
  <2>1. Unused(mem.value) \ {n} \subseteq Unused(w.value)
    BY <1>8, TreePlaces DEF Unused
  <2> QED  BY <2>1
<1>12. ASSUME mem.root = 0  PROVE TreeInv'
  <2>1. IsTree(w) /\ Nodes(w) = {n}
    <3>1. w.root = n /\ w.left[n] = 0 /\ w.right[n] = 0
      BY <1>7, <1>8, <1>12 DEF Leaf
    <3>2. IsTree(w) /\ Nodes(w) = {n, 0, 0} \ {0}
      BY <1>2, <1>7, <1>8, <1>9, <3>1, RootMakes
    <3> QED  BY <1>8, <3>2
  <2>2. /\ With(w, k) \subseteq With(mem, k) \cup {n}
        /\ \A i \in Key \ {k} : With(w, i) \subseteq With(mem, i)
    BY <1>8, <2>1 DEF With
  <2>3. Bounded(w, it, k, 0)
    <3>1. -1 \in Int /\ -1 + 1 = 0
      OBVIOUS
    <3>2. Bounded(w, it, k, -1 + 1)
      BY <1>10, <2>2, <3>1, Bounds
    <3> QED  BY <3>1, <3>2
  <2>4. Bounded(w, it, 0, 0)
    <3>1. 0 \in Int /\ 0 <= 0
      OBVIOUS
    <3> QED  BY <2>3, <3>1, Bounds
  <2>5. IsTree(mem') /\ Bounded(mem', items', 0, 0) /\ last'[1] = last'[2] /\ holder' = B!Free
    BY <1>3, <1>4, <1>5, <1>12, <2>1, <2>4
  <2> QED  BY <2>5 DEF TreeInv
<1>13. ASSUME mem.root # 0  PROVE TreeInv'
  <2>1. PICK r \in B!Node : \E a, b \in B!Node \cup {0} :
           /\ r = mem.root /\ a = mem.left[r] /\ b = mem.right[r] /\ r # 0
           /\ Nodes(mem) = {r, a, b} \ {0}
           /\ a # 0 => Leaf(mem, a) /\ mem.value[a] < mem.value[r]
           /\ b # 0 => Leaf(mem, b) /\ mem.value[b] >= mem.value[r]
    BY <1>6, <1>13, RootIs
  <2>2. PICK a, b \in B!Node \cup {0} :
           /\ r = mem.root /\ a = mem.left[r] /\ b = mem.right[r] /\ r # 0
           /\ Nodes(mem) = {r, a, b} \ {0}
           /\ a # 0 => Leaf(mem, a) /\ mem.value[a] < mem.value[r]
           /\ b # 0 => Leaf(mem, b) /\ mem.value[b] >= mem.value[r]
    BY <2>1
  <2>3. /\ \A i \in Nodes(mem) : w.value[i] = mem.value[i] /\ mem.value[i] # 0
        /\ r \in Nodes(mem) /\ (a # 0 => a \in Nodes(mem)) /\ (b # 0 => b \in Nodes(mem))
    <3>1. \A i \in Nodes(mem) : i \in B!Node /\ i # n /\ mem.value[i] # 0
      BY <1>6, <1>8, TreeFacts DEF IsTree
    <3> QED  BY <1>8, <2>2, <3>1
  <2>4. r = w.root /\ a = w.left[r] /\ b = w.right[r]
    BY <1>7, <1>13, <2>2
  <2>5. /\ a # 0 => Leaf(w, a) /\ w.value[a] # 0 /\ w.value[a] < w.value[r]
        /\ b # 0 => Leaf(w, b) /\ w.value[b] # 0 /\ w.value[b] >= w.value[r]
    BY <1>8, <2>2, <2>3
  <2>6. IsTree(w) /\ Nodes(w) = Nodes(mem)
    <3>1. w \in TreeMem /\ w.value[r] # 0
      BY <1>7, <2>3
    <3>2. IsTree(w) /\ Nodes(w) = {r, a, b} \ {0}
      BY <1>9, <2>4, <2>5, <3>1, RootMakes
    <3> QED  BY <2>2, <3>2
  <2>7. Bounded(w, it, k, -1)
    <3>1. \A i \in Key : With(w, i) \subseteq With(mem, i)
      BY <2>3, <2>6 DEF With
    <3>2. -1 \in Int
      OBVIOUS
    <3> QED  BY <1>10, <3>1, <3>2, Bounds
  <2>8. PICK h : h = [op |-> "insert", value |-> k, curr |-> r, prev |-> 0, type |-> "LEFT", node |-> n]
    OBVIOUS
  <2>9. h \in TreeCall /\ h.op = "insert" /\ h.value = k /\ h.curr = r /\ h.node = n
    BY <1>2, <2>8 DEF TreeCall
  <2>10. Inserts(w, it, h)
    <3>1. w.value[r] # 0 /\ n \in B!Node \ Nodes(w) /\ w.value[n] = k /\ Leaf(w, n)
      BY <1>2, <1>8, <2>3, <2>6
    <3> QED  BY <2>4, <2>7, <2>9, <3>1 DEF Inserts
  <2>11. /\ IsTree(mem') /\ holder' \in TreeCall /\ Inserts(mem', items', holder') /\ last'[1] = last'[2]
    BY <1>3, <1>4, <1>5, <1>13, <2>2, <2>6, <2>8, <2>9, <2>10
  <2> QED  BY <2>11 DEF TreeInv
<1> QED  BY <1>4, <1>11, <1>12, <1>13

\* One step of the loop of an insert: at the root it replaces a child by its
\* node, below it links its node to a node that is no longer in the tree.
LEMMA LoopTree ==
  ASSUME TreeInv, B!InsertLoop
  PROVE  TreeInv' /\ mem'.value = mem.value
<1>1. PICK h, m, it : h = holder /\ m = mem /\ it = items
  OBVIOUS
<1>2. h \in TreeCall /\ h.op = "insert" /\ IsTree(m) /\ m \in TreeMem /\ Inserts(m, it, h)
  BY <1>1 DEF TreeInv, B!InsertLoop, Removes, IsTree
<1>3. PICK c, v, n, type : c = h.curr /\ v = h.value /\ n = h.node /\ type = B!Branch(m, c, v)
  OBVIOUS
<1>4. PICK d : d = B!Child(m, c, type)
  OBVIOUS
<1>5. PICK w : w = B!WithChild(m, c, type, n)
  OBVIOUS
<1>6. /\ mem' = w /\ items' = it /\ last' = last
      /\ holder' = IF d = 0 THEN B!Free ELSE Moved(h, c, d, type)
  BY <1>1, <1>3, <1>4, <1>5, TreePlaces DEF B!InsertLoop, Moved
<1>7. /\ c \in B!Node /\ v \in Key /\ n \in B!Node /\ type \in {"LEFT", "RIGHT"} /\ d \in B!Node \cup {0}
      /\ m.value[c] # 0 /\ 0 \notin B!Node
  <2>1. c \in B!Node /\ v \in Key /\ type \in {"LEFT", "RIGHT"}
    BY <1>2, <1>3 DEF TreeCall, B!Branch
  <2>2. n \in B!Node /\ m.value[c] # 0
    BY <1>2, <1>3 DEF Inserts
  <2> QED  BY <1>2, <1>4, <2>1, <2>2, TreePlaces DEF TreeMem, B!Child
<1>8. /\ w \in TreeMem /\ w.root = m.root /\ w.value = m.value
      /\ type = "LEFT" => w.left = [m.left EXCEPT ![c] = n] /\ w.right = m.right
      /\ type # "LEFT" => w.right = [m.right EXCEPT ![c] = n] /\ w.left = m.left
  BY <1>2, <1>5, <1>7, ChildIs
<1>9. \A i \in B!Node : i # c => w.left[i] = m.left[i] /\ w.right[i] = m.right[i]
  BY <1>2, <1>7, <1>8 DEF TreeMem
<1>10. \A i \in B!Node : (i # c /\ Leaf(m, i) => Leaf(w, i)) /\ (w.value[i] = 0 => Leaf(w, i))
  BY <1>2, <1>7, <1>8, <1>9 DEF Leaf, IsTree
<1>11. CASE c = m.root /\ n \in B!Node \ Nodes(m) /\ m.value[n] = v /\ Leaf(m, n) /\ Bounded(m, it, v, -1)
  <2>1. PICK a \in B!Node \cup {0} : \E b \in B!Node \cup {0} :
           /\ a = m.left[c] /\ b = m.right[c] /\ c # 0 /\ Nodes(m) = {c, a, b} \ {0}
           /\ a # 0 => Leaf(m, a) /\ m.value[a] < m.value[c] /\ a # c /\ a # b
           /\ b # 0 => Leaf(m, b) /\ m.value[b] >= m.value[c] /\ b # c
    BY <1>2, <1>7, <1>11, RootIs
  <2>2. PICK b \in B!Node \cup {0} :
           /\ a = m.left[c] /\ b = m.right[c] /\ c # 0 /\ Nodes(m) = {c, a, b} \ {0}
           /\ a # 0 => Leaf(m, a) /\ m.value[a] < m.value[c] /\ a # c /\ a # b
           /\ b # 0 => Leaf(m, b) /\ m.value[b] >= m.value[c] /\ b # c
    BY <2>1
  <2>3. n \notin {c, a, b} /\ n # 0 /\ v # 0 /\ (a # 0 => m.value[a] # 0) /\ (b # 0 => m.value[b] # 0)
    <3>1. n # 0 /\ v # 0
      BY <1>7, TreePlaces
    <3>2. n \notin {c, a, b}
      BY <1>11, <2>2, <3>1
    <3>3. (a # 0 => a \in Nodes(m)) /\ (b # 0 => b \in Nodes(m))
      BY <2>2
    <3> QED  BY <1>2, <3>1, <3>2, <3>3 DEF IsTree
  <2>4. PICK y, z : y = (IF type = "LEFT" THEN n ELSE a) /\ z = (IF type = "LEFT" THEN b ELSE n)
    OBVIOUS
  <2>5. y = w.left[c] /\ z = w.right[c] /\ d = (IF type = "LEFT" THEN a ELSE b)
    BY <1>2, <1>4, <1>7, <1>8, <2>2, <2>4 DEF TreeMem, B!Child
  <2>6. /\ type = "LEFT" => m.value[n] < m.value[c]
        /\ type # "LEFT" => m.value[n] >= m.value[c]
    <3>1. type = IF v < m.value[c] THEN "LEFT" ELSE "RIGHT"
      BY <1>3 DEF B!Branch
    <3>2. v \in Nat /\ m.value[c] \in Nat
      BY <1>2, <1>7, TreeFacts, TreePlaces
    <3> QED  BY <1>11, <3>1, <3>2
  <2>7. /\ y # 0 => Leaf(w, y) /\ w.value[y] # 0 /\ w.value[y] < w.value[c]
        /\ z # 0 => Leaf(w, z) /\ w.value[z] # 0 /\ w.value[z] >= w.value[c]
    <3>1. /\ Leaf(w, n) /\ (a # 0 => Leaf(w, a)) /\ (b # 0 => Leaf(w, b))
      BY <1>7, <1>10, <1>11, <2>2, <2>3
    <3>2. w.value = m.value /\ m.value[n] # 0
      BY <1>8, <1>11, <2>3
    <3>3. CASE type = "LEFT"
      BY <2>2, <2>3, <2>4, <2>6, <3>1, <3>2, <3>3
    <3>4. CASE type # "LEFT"
      BY <2>2, <2>3, <2>4, <2>6, <3>1, <3>2, <3>4
    <3> QED  BY <3>3, <3>4
  <2>8. IsTree(w) /\ Nodes(w) = {c, y, z} \ {0}
    <3>1. c = w.root /\ w.value[c] # 0 /\ w \in TreeMem
      BY <1>7, <1>8, <1>11
    <3>2. \A i \in B!Node : w.value[i] = 0 => Leaf(w, i)
      BY <1>10
    <3> QED  BY <1>7, <2>5, <2>7, <3>1, <3>2, RootMakes
  <2>9. Bounded(w, it, v, 0)
    <3>1. \A x \in Nodes(w) : x \in Nodes(m) \/ x = n
      BY <2>2, <2>4, <2>8
    <3>2. With(w, v) \subseteq With(m, v) \cup {n}
      BY <1>8, <3>1 DEF With
    <3>3. \A k \in Key \ {v} : With(w, k) \subseteq With(m, k)
      BY <1>8, <1>11, <3>1 DEF With
    <3>4. -1 \in Int /\ -1 + 1 = 0
      OBVIOUS
    <3>5. Bounded(w, it, v, -1 + 1)
      BY <1>7, <1>11, <3>2, <3>3, <3>4, Bounds
    <3> QED  BY <3>4, <3>5
  <2>10. CASE d = 0
    <3>1. 0 \in Int /\ 0 <= 0
      OBVIOUS
    <3>2. Bounded(w, it, 0, 0)
      BY <1>7, <2>9, <3>1, Bounds
    <3>3. IsTree(mem') /\ Bounded(mem', items', 0, 0) /\ last'[1] = last'[2] /\ holder' = B!Free
      BY <1>6, <2>8, <2>10, <3>2 DEF TreeInv
    <3> QED  BY <1>1, <1>6, <1>8, <3>3 DEF TreeInv
  <2>11. CASE d # 0
    <3>1. PICK g : g = Moved(h, c, d, type)
      OBVIOUS
    <3>2. g \in TreeCall /\ g.op = "insert" /\ g.value = v /\ g.node = n /\ g.curr = d
      <4>1. h \in TreeCall /\ c \in B!Node /\ d \in B!Node /\ type \in {"LEFT", "RIGHT"}
        BY <1>2, <1>7, <2>11
      <4>2. /\ g \in TreeCall
            /\ g.op = h.op /\ g.value = h.value /\ g.node = h.node /\ g.curr = d
        BY <3>1, <4>1 DEF TreeCall, Moved
      <4> QED  BY <1>2, <1>3, <4>2
    <3>3. d \notin {c, y, z} /\ Leaf(m, d) /\ m.value[d] # 0
      BY <2>2, <2>3, <2>4, <2>5, <2>11
    <3>4. Leaf(w, d) /\ w.value[d] # 0 /\ d \notin Nodes(w)
      BY <1>7, <1>8, <1>10, <2>8, <2>11, <3>3
    <3>5. Inserts(w, it, g)
      BY <1>7, <2>9, <3>2, <3>4 DEF Inserts
    <3>6. IsTree(mem') /\ holder' \in TreeCall /\ Inserts(mem', items', holder') /\ last'[1] = last'[2]
      BY <1>6, <2>8, <2>11, <3>1, <3>2, <3>5 DEF TreeInv
    <3> QED  BY <1>1, <1>6, <1>8, <3>6 DEF TreeInv
  <2> QED  BY <2>10, <2>11
<1>12. CASE c \notin Nodes(m) /\ Leaf(m, c) /\ Bounded(m, it, v, 0)
  <2>1. d = 0
    BY <1>4, <1>12 DEF Leaf, B!Child
  <2>2. IsTree(w) /\ Nodes(w) = Nodes(m)
    <3>1. CASE m.root = 0
      <4>1. Nodes(w) = {} /\ Nodes(m) = {}
        BY <1>8, <3>1 DEF Nodes
      <4> QED  BY <1>8, <1>10, <3>1, <4>1 DEF IsTree
    <3>2. CASE m.root # 0
      <4>1. PICK r \in B!Node : \E a, b \in B!Node \cup {0} :
               /\ r = m.root /\ a = m.left[r] /\ b = m.right[r] /\ r # 0 /\ Nodes(m) = {r, a, b} \ {0}
               /\ a # 0 => Leaf(m, a) /\ m.value[a] < m.value[r]
               /\ b # 0 => Leaf(m, b) /\ m.value[b] >= m.value[r]
        BY <1>2, <3>2, RootIs
      <4>2. PICK a, b \in B!Node \cup {0} :
               /\ r = m.root /\ a = m.left[r] /\ b = m.right[r] /\ r # 0 /\ Nodes(m) = {r, a, b} \ {0}
               /\ a # 0 => Leaf(m, a) /\ m.value[a] < m.value[r]
               /\ b # 0 => Leaf(m, b) /\ m.value[b] >= m.value[r]
        BY <4>1
      <4>3. /\ r \in Nodes(m) /\ (a # 0 => a \in Nodes(m)) /\ (b # 0 => b \in Nodes(m))
            /\ c # r /\ (a # 0 => c # a) /\ (b # 0 => c # b)
        BY <1>12, <4>2
      <4>4. w.value[r] # 0 /\ (a # 0 => w.value[a] # 0) /\ (b # 0 => w.value[b] # 0)
        BY <1>2, <1>8, <4>3 DEF IsTree
      <4>5. r = w.root /\ a = w.left[r] /\ b = w.right[r] /\ w \in TreeMem
        BY <1>8, <1>9, <4>2, <4>3
      <4>6. /\ a # 0 => Leaf(w, a) /\ w.value[a] # 0 /\ w.value[a] < w.value[r]
            /\ b # 0 => Leaf(w, b) /\ w.value[b] # 0 /\ w.value[b] >= w.value[r]
        BY <1>8, <1>10, <4>2, <4>3, <4>4
      <4>7. \A i \in B!Node : w.value[i] = 0 => Leaf(w, i)
        BY <1>10
      <4>8. IsTree(w) /\ Nodes(w) = {r, a, b} \ {0}
        BY <4>4, <4>5, <4>6, <4>7, RootMakes
      <4> QED  BY <4>2, <4>8
    <3> QED  BY <3>1, <3>2
  <2>3. Bounded(w, it, 0, 0)
    <3>1. \A k \in Key : With(w, k) \subseteq With(m, k)
      BY <1>8, <2>2 DEF With
    <3>2. 0 \in Int /\ 0 <= 0
      OBVIOUS
    <3>3. Bounded(w, it, v, 0)
      BY <1>7, <1>12, <3>1, <3>2, Bounds
    <3> QED  BY <1>7, <3>2, <3>3, Bounds
  <2>4. IsTree(mem') /\ Bounded(mem', items', 0, 0) /\ last'[1] = last'[2] /\ holder' = B!Free
    BY <1>6, <2>1, <2>2, <2>3 DEF TreeInv
  <2> QED  BY <1>1, <1>6, <1>8, <2>4 DEF TreeInv
<1> QED  BY <1>2, <1>3, <1>11, <1>12 DEF Inserts

\* A remove at a node with another value goes on below it, on the only side
\* where its value can be.
LEMMA PassTree ==
  ASSUME TreeInv, B!Pass
  PROVE  TreeInv' /\ mem'.value = mem.value
<1>1. PICK h, m, it : h = holder /\ m = mem /\ it = items
  OBVIOUS
<1>2. h \in TreeCall /\ h.op = "remove" /\ IsTree(m) /\ m \in TreeMem /\ Removes(m, it, h)
  BY <1>1 DEF TreeInv, B!Pass, B!Removing, Inserts, IsTree
<1>3. PICK c, v, type : c = h.curr /\ v = h.value /\ type = B!Branch(m, c, v)
  OBVIOUS
<1>4. PICK d : d = B!Child(m, c, type)
  OBVIOUS
<1>5. /\ mem' = m /\ items' = it /\ last' = last /\ m.value[c] # v
      /\ holder' = IF d = 0 THEN B!Free ELSE Moved(h, c, d, type)
  BY <1>1, <1>3, <1>4, TreePlaces DEF B!Pass, B!Matches, B!Descend, Moved
<1>6. /\ c \in B!Node /\ c \in Nodes(m) /\ v \in Key /\ type \in {"LEFT", "RIGHT"} /\ d \in B!Node \cup {0}
      /\ Bounded(m, it, v, 1) /\ m.root # 0 /\ (c # m.root => Leaf(m, c) /\ Bounded(m, it, v, 0))
  <2>1. c \in B!Node /\ v \in Key /\ type \in {"LEFT", "RIGHT"}
    BY <1>2, <1>3 DEF TreeCall, B!Branch
  <2>2. c \in Nodes(m) /\ Bounded(m, it, v, 1) /\ (c # m.root => Bounded(m, it, v, 0))
    BY <1>2, <1>3, <1>5 DEF Removes
  <2>3. m.root # 0 /\ (c # m.root => Leaf(m, c))
    BY <1>2, <2>2, TreeFacts
  <2> QED  BY <1>2, <1>4, <2>1, <2>2, <2>3 DEF TreeMem, B!Child
<1>7. 0 \in Int /\ 0 <= 0 /\ 1 \in Int
  OBVIOUS
<1>8. ASSUME Bounded(m, it, 0, 0), d = 0  PROVE TreeInv'
  <2>1. IsTree(mem') /\ Bounded(mem', items', 0, 0) /\ last'[1] = last'[2] /\ holder' = B!Free
    BY <1>2, <1>5, <1>8 DEF TreeInv
  <2> QED  BY <2>1 DEF TreeInv
<1>9. CASE c # m.root
  <2>1. Bounded(m, it, 0, 0)
    BY <1>6, <1>7, <1>9, Bounds
  <2>2. d = 0
    BY <1>4, <1>6, <1>9 DEF Leaf, B!Child
  <2> QED  BY <1>1, <1>5, <1>8, <2>1, <2>2
<1>10. CASE c = m.root
  <2>1. PICK a, b \in B!Node \cup {0} :
           /\ a = m.left[c] /\ b = m.right[c] /\ c # 0 /\ Nodes(m) = {c, a, b} \ {0}
           /\ a # 0 => Leaf(m, a) /\ m.value[a] < m.value[c] /\ a # c /\ a # b
           /\ b # 0 => Leaf(m, b) /\ m.value[b] >= m.value[c] /\ b # c
    BY <1>2, <1>6, <1>10, RootIs
  <2>2. With(m, v) \subseteq {d} \ {0} /\ (d # 0 => d \in Nodes(m) /\ d # c)
    <3>1. d = IF type = "LEFT" THEN a ELSE b
      BY <1>4, <2>1 DEF B!Child
    <3>2. type = IF v < m.value[c] THEN "LEFT" ELSE "RIGHT"
      BY <1>3 DEF B!Branch
    <3>3. v \in Nat /\ m.value[c] \in Nat /\ (a # 0 => m.value[a] \in Nat) /\ (b # 0 => m.value[b] \in Nat)
      BY <1>2, <1>6, TreeFacts, TreePlaces
    <3>4. ASSUME NEW x \in Nodes(m), m.value[x] = v  PROVE x = d /\ x # 0
      <4>1. x # 0 /\ (x = a \/ x = b)
        BY <1>5, <2>1, <3>4
      <4> QED  BY <2>1, <3>1, <3>2, <3>3, <3>4, <4>1
    <3> QED  BY <2>1, <3>1, <3>4 DEF With
  <2>3. ASSUME NEW x, With(m, v) \subseteq {x}, m.value[x] # v  PROVE With(m, v) = {}
    BY <2>3 DEF With
  <2>4. CASE d = 0
    <3>1. With(m, v) = {}
      BY <2>2, <2>4
    <3>2. Bounded(m, it, 0, 0)
      BY <1>6, <1>7, <3>1, Bounds
    <3> QED  BY <1>1, <1>5, <1>8, <2>4, <3>2
  <2>5. CASE d # 0
    <3>1. PICK g : g = Moved(h, c, d, type)
      OBVIOUS
    <3>2. g \in TreeCall /\ g.op = "remove" /\ g.value = v /\ g.curr = d /\ g.prev = c /\ g.type = type
      <4>1. h \in TreeCall /\ c \in B!Node /\ d \in B!Node /\ type \in {"LEFT", "RIGHT"}
        BY <1>2, <1>6, <2>5
      <4>2. /\ g \in TreeCall
            /\ g.op = h.op /\ g.value = h.value /\ g.prev = c /\ g.curr = d /\ g.type = type
        BY <3>1, <4>1 DEF TreeCall, Moved
      <4> QED  BY <1>2, <1>3, <4>2
    <3>3. ASSUME m.value[d] # v  PROVE Bounded(m, it, v, 0)
      <4>1. With(m, v) = {}
        BY <2>2, <2>3, <3>3
      <4> QED  BY <1>6, <1>7, <4>1, Bounds
    <3>4. Removes(m, it, g)
      BY <1>4, <1>6, <1>10, <2>2, <2>5, <3>2, <3>3 DEF Removes
    <3>5. IsTree(mem') /\ holder' \in TreeCall /\ Removes(mem', items', holder') /\ last'[1] = last'[2]
      BY <1>2, <1>5, <2>5, <3>1, <3>2, <3>4 DEF TreeInv
    <3> QED  BY <1>1, <1>5, <3>5 DEF TreeInv
  <2> QED  BY <2>4, <2>5
<1> QED  BY <1>9, <1>10

\* A remove takes out a node with at most one child.
LEMMA UnlinkTree ==
  ASSUME TreeInv, B!Unlink
  PROVE  TreeInv' /\ mem'.value = mem.value
<1>1. PICK h, m, it : h = holder /\ m = mem /\ it = items
  OBVIOUS
<1>2. h \in TreeCall /\ h.op = "remove" /\ IsTree(m) /\ m \in TreeMem /\ Removes(m, it, h)
  BY <1>1 DEF TreeInv, B!Unlink, B!Removing, Inserts, IsTree
<1>3. PICK c, v : c = h.curr /\ v = h.value
  OBVIOUS
<1>4. PICK only : only = IF m.left[c] # 0 THEN m.left[c] ELSE m.right[c]
  OBVIOUS
<1>5. PICK w : w = mem'
  OBVIOUS
<1>6. PICK type : type = B!Branch(w, c, v)
  OBVIOUS
<1>7. PICK d : d = B!Child(w, c, type)
  OBVIOUS
<1>8. /\ items' = it /\ last' = last /\ m.value[c] = v /\ (m.left[c] = 0 \/ m.right[c] = 0)
      /\ w = IF c = m.root \/ h.prev = 0 THEN [m EXCEPT !.root = only] ELSE B!WithChild(m, h.prev, h.type, only)
  BY <1>1, <1>3, <1>4, <1>5, TreePlaces DEF B!Unlink, B!Matches, B!TwoChildren
<1>9. holder' = IF d = 0 THEN B!Free ELSE Moved(h, c, d, type)
  BY <1>1, <1>3, <1>5, <1>6, <1>7, TreePlaces DEF B!Unlink, B!Descend, Moved
<1>10. /\ c \in B!Node /\ c \in Nodes(m) /\ v \in Key /\ only \in B!Node \cup {0} /\ m.root # 0
       /\ Bounded(m, it, v, 1) /\ c \in With(m, v) /\ m.root \in B!Node
  <2>1. c \in B!Node /\ v \in Key /\ c \in Nodes(m) /\ Bounded(m, it, v, 1)
    BY <1>2, <1>3 DEF TreeCall, Removes
  <2> QED  BY <1>2, <1>4, <1>8, <2>1, TreeFacts DEF TreeMem, With
<1>11. 0 \in Int /\ 0 <= 0 /\ 1 \in Int /\ 0 <= 1 /\ 1 - 1 = 0
  OBVIOUS
<1>12. ASSUME w.value = m.value, Nodes(w) \subseteq Nodes(m) \ {c}  PROVE Bounded(w, it, v, 0) /\ Bounded(w, it, 0, 0)
  <2>1. \A k \in Key : With(w, k) \subseteq With(m, k) \ {c}
    BY <1>12 DEF With
  <2>2. Bounded(w, it, v, 1 - 1)
    BY <1>10, <1>11, <2>1, Bounds
  <2>3. Bounded(w, it, v, 0)
    BY <1>11, <2>2
  <2> QED  BY <1>10, <1>11, <2>3, Bounds
<1>13. ASSUME w.value = m.value  PROVE type = "RIGHT"
  <2>1. m.value[c] \in Nat
    BY <1>2, <1>10, TreeFacts
  <2>2. ~ (v < w.value[c])
    BY <1>8, <1>13, <2>1
  <2> QED  BY <1>6, <2>2 DEF B!Branch
<1>14. ASSUME IsTree(w), w.value = m.value, Bounded(w, it, 0, 0), d = 0  PROVE TreeInv' /\ mem'.value = mem.value
  <2>1. IsTree(mem') /\ Bounded(mem', items', 0, 0) /\ last'[1] = last'[2] /\ holder' = B!Free
    BY <1>5, <1>8, <1>9, <1>14 DEF TreeInv
  <2> QED  BY <1>1, <1>5, <1>14, <2>1 DEF TreeInv
<1>15. PICK r \in B!Node : \E a, b \in B!Node \cup {0} :
         /\ r = m.root /\ a = m.left[r] /\ b = m.right[r] /\ r # 0 /\ Nodes(m) = {r, a, b} \ {0}
         /\ a # 0 => Leaf(m, a) /\ m.value[a] < m.value[r] /\ a # r /\ a # b
         /\ b # 0 => Leaf(m, b) /\ m.value[b] >= m.value[r] /\ b # r
  BY <1>2, <1>10, RootIs
<1>16. PICK a, b \in B!Node \cup {0} :
         /\ r = m.root /\ a = m.left[r] /\ b = m.right[r] /\ r # 0 /\ Nodes(m) = {r, a, b} \ {0}
         /\ a # 0 => Leaf(m, a) /\ m.value[a] < m.value[r] /\ a # r /\ a # b
         /\ b # 0 => Leaf(m, b) /\ m.value[b] >= m.value[r] /\ b # r
  BY <1>15
<1>17. /\ r \in Nodes(m) /\ (a # 0 => a \in Nodes(m)) /\ (b # 0 => b \in Nodes(m))
       /\ m.value[r] # 0 /\ (a # 0 => m.value[a] # 0) /\ (b # 0 => m.value[b] # 0)
  <2>1. r \in Nodes(m) /\ (a # 0 => a \in Nodes(m)) /\ (b # 0 => b \in Nodes(m))
    BY <1>16
  <2> QED  BY <1>2, <2>1 DEF IsTree
<1>18. CASE c = r
  <2>1. w = [m EXCEPT !.root = only]
    BY <1>8, <1>16, <1>18
  <2>2. w \in TreeMem /\ w.root = only /\ w.left = m.left /\ w.right = m.right /\ w.value = m.value
    BY <1>2, <1>10, <2>1 DEF TreeMem
  <2>3. only = (IF a # 0 THEN a ELSE b) /\ (a = 0 \/ b = 0)
    BY <1>4, <1>8, <1>16, <1>18
  <2>4. \A n \in B!Node : w.value[n] = 0 => Leaf(w, n)
    BY <1>2, <2>2 DEF IsTree, Leaf
  <2>5. IsTree(w) /\ Nodes(w) = {only} \ {0}
    <3>1. CASE only = 0
      <4>1. Nodes(w) = {}
        BY <2>2, <3>1 DEF Nodes
      <4> QED  BY <2>2, <2>4, <3>1, <4>1 DEF IsTree
    <3>2. CASE only # 0
      <4>1. only \in B!Node /\ w.left[only] = 0 /\ w.right[only] = 0 /\ w.value[only] # 0
        BY <1>10, <1>16, <1>17, <2>2, <2>3, <3>2 DEF Leaf
      <4>2. IsTree(w) /\ Nodes(w) = {only, 0, 0} \ {0}
        BY <2>2, <2>4, <4>1, RootMakes
      <4> QED  BY <4>2
    <3> QED  BY <3>1, <3>2
  <2>6. Nodes(w) \subseteq Nodes(m) \ {c}
    BY <1>16, <1>17, <1>18, <2>3, <2>5
  <2>7. Bounded(w, it, v, 0) /\ Bounded(w, it, 0, 0)
    BY <1>12, <2>2, <2>6
  <2>8. d = b /\ type = "RIGHT"
    BY <1>7, <1>13, <1>16, <1>18, <2>2 DEF B!Child
  <2>9. CASE d = 0
    BY <1>14, <2>2, <2>5, <2>7, <2>9
  <2>10. CASE d # 0
    <3>1. only = d
      BY <2>3, <2>8, <2>10
    <3>2. PICK g : g = Moved(h, c, d, type)
      OBVIOUS
    <3>3. g \in TreeCall /\ g.op = "remove" /\ g.value = v /\ g.curr = d
      <4>1. h \in TreeCall /\ c \in B!Node /\ d \in B!Node /\ type \in {"LEFT", "RIGHT"}
        BY <1>2, <1>10, <1>16, <2>8, <2>10
      <4>2. /\ g \in TreeCall
            /\ g.op = h.op /\ g.value = h.value /\ g.curr = d
        BY <3>2, <4>1 DEF TreeCall, Moved
      <4> QED  BY <1>2, <1>3, <4>2
    <3>4. Bounded(w, it, v, 1)
      BY <1>10, <1>11, <2>7, Bounds
    <3>5. Removes(w, it, g)
      BY <2>2, <2>5, <2>10, <3>1, <3>3, <3>4 DEF Removes
    <3>6. IsTree(mem') /\ holder' \in TreeCall /\ Removes(mem', items', holder') /\ last'[1] = last'[2]
      BY <1>5, <1>8, <1>9, <2>5, <2>10, <3>2, <3>3, <3>5 DEF TreeInv
    <3> QED  BY <1>1, <1>5, <2>2, <3>6 DEF TreeInv
  <2> QED  BY <2>9, <2>10
<1>19. CASE c # r
  <2>1. /\ Leaf(m, c) /\ c \in {a, b} /\ c # 0 /\ only = 0
        /\ h.prev = r /\ h.type \in {"LEFT", "RIGHT"} /\ B!Child(m, r, h.type) = c
    <3>1. h.prev = r /\ h.type \in {"LEFT", "RIGHT"} /\ B!Child(m, r, h.type) = c
      BY <1>2, <1>3, <1>16, <1>19 DEF Removes, TreeCall
    <3>2. Leaf(m, c) /\ c \in {a, b} /\ c # 0
      BY <1>10, <1>16, <1>19
    <3> QED  BY <1>4, <3>1, <3>2 DEF Leaf
  <2>2. PICK s : s = h.type
    OBVIOUS
  <2>3. w = B!WithChild(m, r, s, 0)
    BY <1>8, <1>16, <1>19, <2>1, <2>2
  <2>4. /\ w \in TreeMem /\ w.root = m.root /\ w.value = m.value
        /\ s = "LEFT" => w.left = [m.left EXCEPT ![r] = 0] /\ w.right = m.right
        /\ s # "LEFT" => w.right = [m.right EXCEPT ![r] = 0] /\ w.left = m.left
    BY <1>2, <2>3, ChildIs
  <2>5. PICK y, z : y = (IF s = "LEFT" THEN 0 ELSE a) /\ z = (IF s = "LEFT" THEN b ELSE 0)
    OBVIOUS
  <2>6. /\ y = w.left[r] /\ z = w.right[r] /\ c = (IF s = "LEFT" THEN a ELSE b)
        /\ \A i \in B!Node : i # r => w.left[i] = m.left[i] /\ w.right[i] = m.right[i]
    BY <1>2, <1>16, <2>1, <2>2, <2>4, <2>5 DEF TreeMem, B!Child
  <2>7. \A i \in B!Node : w.value[i] = 0 => Leaf(w, i)
    BY <1>2, <1>17, <2>4, <2>6 DEF IsTree, Leaf
  <2>8. /\ y # 0 => Leaf(w, y) /\ w.value[y] # 0 /\ w.value[y] < w.value[r]
        /\ z # 0 => Leaf(w, z) /\ w.value[z] # 0 /\ w.value[z] >= w.value[r]
    BY <1>16, <1>17, <2>4, <2>5, <2>6 DEF Leaf
  <2>9. IsTree(w) /\ Nodes(w) = {r, y, z} \ {0}
    <3>1. r = w.root /\ w.value[r] # 0
      BY <1>16, <1>17, <2>4
    <3> QED  BY <2>4, <2>6, <2>7, <2>8, <3>1, RootMakes
  <2>10. Nodes(w) \subseteq Nodes(m) \ {c}
    BY <1>16, <1>19, <2>1, <2>5, <2>6, <2>9
  <2>11. Bounded(w, it, 0, 0)
    BY <1>12, <2>4, <2>10
  <2>12. d = 0
    <3>1. w.right[c] = 0
      BY <1>10, <1>19, <2>1, <2>6 DEF Leaf
    <3> QED  BY <1>7, <1>13, <2>4, <3>1 DEF B!Child
  <2> QED  BY <1>14, <2>4, <2>9, <2>11, <2>12
<1> QED  BY <1>18, <1>19

\* A remove at a node with two children, the root, gives it the value of the
\* right one and goes on to remove that.
LEMMA ReplaceTree ==
  ASSUME TreeInv, B!ReplaceValue
  PROVE  TreeInv' /\ Unused(mem'.value) = Unused(mem.value)
<1>1. PICK h, m, it : h = holder /\ m = mem /\ it = items
  OBVIOUS
<1>2. h \in TreeCall /\ h.op = "remove" /\ IsTree(m) /\ m \in TreeMem /\ Removes(m, it, h)
  BY <1>1 DEF TreeInv, B!ReplaceValue, B!Removing, Inserts, IsTree
<1>3. PICK c, v : c = h.curr /\ v = h.value
  OBVIOUS
<1>4. PICK a, b : a = m.left[c] /\ b = m.right[c]
  OBVIOUS
<1>5. PICK u : u = B!Min(B!MinPath(mem.right[holder.curr]))
  OBVIOUS
<1>6. PICK w : w = [m EXCEPT !.value[c] = u]
  OBVIOUS
<1>7. PICK g : g = [h EXCEPT !.value = u, !.prev = c, !.curr = b, !.type = "RIGHT"]
  OBVIOUS
<1>8. /\ items' = it /\ last' = last /\ m.value[c] = v /\ a # 0 /\ b # 0
      /\ mem' = w /\ holder' = g
  BY <1>1, <1>3, <1>4, <1>5, <1>6, <1>7, TreePlaces DEF B!ReplaceValue, B!Matches, B!TwoChildren
<1>9. c \in B!Node /\ v \in Key /\ c \in Nodes(m) /\ Bounded(m, it, v, 1)
  BY <1>2, <1>3 DEF TreeCall, Removes
<1>10. c = m.root /\ m.root # 0
  BY <1>2, <1>4, <1>8, <1>9, TreeFacts DEF Leaf
<1>11. /\ a \in B!Node /\ b \in B!Node /\ Nodes(m) = {c, a, b} \ {0} /\ c # 0 /\ 0 \notin B!Node
       /\ Leaf(m, a) /\ m.value[a] < m.value[c] /\ a # c /\ a # b
       /\ Leaf(m, b) /\ m.value[b] >= m.value[c] /\ b # c
  BY <1>2, <1>4, <1>8, <1>10, RootIs
<1>12. u = m.value[b]
  BY <1>1, <1>2, <1>3, <1>4, <1>5, <1>10, <1>11, PathsFind
<1>13. /\ u \in Key /\ u \in Nat /\ v \in Nat /\ m.value[a] \in Nat /\ m.value[a] # 0 /\ u # 0
  <2>1. a \in Nodes(m) /\ b \in Nodes(m)
    BY <1>11
  <2>2. m.value[a] # 0 /\ m.value[b] # 0
    BY <1>2, <2>1 DEF IsTree
  <2> QED  BY <1>2, <1>9, <1>11, <1>12, <2>2, TreeFacts, TreePlaces
<1>14. /\ w \in TreeMem /\ w.root = m.root /\ w.left = m.left /\ w.right = m.right
       /\ w.value[c] = u /\ \A i \in B!Node : i # c => w.value[i] = m.value[i]
  BY <1>2, <1>6, <1>9, <1>13 DEF TreeMem
<1>15. IsTree(w) /\ Nodes(w) = {c, a, b} \ {0}
  <2>1. \A i \in B!Node : w.value[i] = 0 => Leaf(w, i)
    BY <1>2, <1>13, <1>14 DEF IsTree, Leaf
  <2>2. c = w.root /\ a = w.left[c] /\ b = w.right[c] /\ w.value[c] # 0
    BY <1>4, <1>10, <1>13, <1>14
  <2>3. Leaf(w, a) /\ w.value[a] # 0 /\ w.value[a] < w.value[c]
    <3>1. Leaf(w, a) /\ w.value[a] = m.value[a] /\ w.value[c] = m.value[b] /\ m.value[c] = v
      BY <1>8, <1>11, <1>12, <1>14 DEF Leaf
    <3> QED  BY <1>11, <1>12, <1>13, <3>1
  <2>4. Leaf(w, b) /\ w.value[b] # 0 /\ w.value[b] >= w.value[c]
    <3>1. Leaf(w, b) /\ w.value[b] = u /\ w.value[c] = u /\ u >= u
      BY <1>11, <1>12, <1>13, <1>14 DEF Leaf
    <3> QED  BY <1>13, <3>1
  <2> QED  BY <1>9, <1>14, <2>1, <2>2, <2>3, <2>4, RootMakes
<1>16. Bounded(w, it, u, 1)
  <2>1. Nodes(w) = Nodes(m) /\ \A i \in Nodes(m) : i # c => w.value[i] = m.value[i]
    BY <1>11, <1>14, <1>15
  <2>2. With(w, u) \subseteq With(m, u) \cup {c} /\ \A k \in Key \ {u} : With(w, k) \subseteq With(m, k) \ {c}
    BY <1>14, <2>1 DEF With
  <2>3. /\ it \in [Key -> Nat] /\ \A k \in Key : it[k] \in Nat /\ Count(m, k) \in Nat /\ Count(w, k) \in Nat
        /\ \A k \in Key : k # v => Count(m, k) <= it[k]
        /\ Count(m, v) <= it[v] + 1
    BY <1>9, Counts DEF Bounded
  <2>4. \A k \in Key \ {u} : Count(w, k) <= it[k]
    <3>1. ASSUME NEW k \in Key \ {u}, k # v  PROVE Count(w, k) <= it[k]
      <4>1. Count(w, k) <= Count(m, k)
        BY <2>2, <3>1, Counts
      <4> QED  BY <2>3, <3>1, <4>1
    <3>2. ASSUME v # u  PROVE Count(w, v) <= it[v]
      <4>1. c \in With(m, v)
        BY <1>8, <1>9 DEF With
      <4>2. Count(w, v) <= Count(m, v) - 1
        BY <1>9, <2>2, <3>2, <4>1, Counts
      <4> QED  BY <1>9, <2>3, <4>2
    <3> QED  BY <3>1, <3>2
  <2>5. Count(w, u) <= it[u] + 1
    <3>1. CASE u = v
      <4>1. c \in With(m, v)
        BY <1>8, <1>9 DEF With
      <4>2. With(w, u) \subseteq With(m, v)
        BY <2>2, <3>1, <4>1
      <4>3. Count(w, u) <= Count(m, v)
        BY <4>2, Counts
      <4> QED  BY <1>9, <1>13, <2>3, <3>1, <4>3
    <3>2. CASE u # v
      <4>1. Count(w, u) <= Count(m, u) + 1
        BY <2>2, Counts
      <4> QED  BY <1>13, <2>3, <3>2, <4>1
    <3> QED  BY <3>1, <3>2
  <2> QED  BY <2>3, <2>4, <2>5 DEF Bounded
<1>17. g \in TreeCall /\ g.op = "remove" /\ g.value = u /\ g.prev = c /\ g.curr = b /\ g.type = "RIGHT"
  BY <1>2, <1>7, <1>9, <1>11, <1>13 DEF TreeCall
<1>18. Removes(w, it, g)
  <2>1. b \in Nodes(w) /\ c = w.root /\ B!Child(w, c, "RIGHT") = b /\ w.value[b] = u
    BY <1>4, <1>10, <1>11, <1>12, <1>14, <1>15 DEF B!Child
  <2> QED  BY <1>16, <1>17, <2>1 DEF Removes
<1>19. IsTree(mem') /\ holder' \in TreeCall /\ Removes(mem', items', holder') /\ last'[1] = last'[2]
  BY <1>8, <1>15, <1>17, <1>18 DEF TreeInv
<1>20. Unused(w.value) = Unused(m.value)
  <2>1. \A i \in B!Node : w.value[i] = 0 <=> m.value[i] = 0
    BY <1>2, <1>9, <1>13, <1>14 DEF IsTree
  <2> QED  BY <2>1, TreePlaces DEF Unused
<1> QED  BY <1>1, <1>8, <1>19, <1>20 DEF TreeInv

-----------------------------------------------------------------------------
(***************************************************************************)
(* The workers.                                                            *)
(***************************************************************************)

\* A node is left, of those without an element, for every call that is left.
Enough(data) == Cardinality(Budget(left)) <= Cardinality(Unused(data))

IInv ==
  /\ left \in [Thread -> 0 .. Ops] /\ undefined \in BOOLEAN
  /\ IsDeque => (undefined => chosen # "stack") /\ (~undefined => DequeOK)
  /\ chosen = "sorted-list" => ListInv /\ Enough(mem.data)
  /\ chosen = "hashmap" => MapInv /\ Enough(mem.key)
  /\ chosen = "bst" => TreeInv /\ Enough(mem.value)

\* The algorithms are not the same.
LEMMA OneStructure ==
  /\ IsDeque => chosen \notin {"mwobject", "sorted-list", "hashmap", "bst"}
  /\ chosen = "sorted-list" => ~IsDeque /\ chosen \notin {"mwobject", "hashmap", "bst"}
  /\ chosen = "hashmap" => ~IsDeque /\ chosen \notin {"mwobject", "sorted-list", "bst"}
  /\ chosen = "bst" => ~IsDeque /\ chosen \notin {"mwobject", "sorted-list", "hashmap"}
BY DEF IsDeque

\* At first there are enough nodes.
LEMMA EnoughAtFirst ==
  ASSUME left = [t \in Thread |-> Ops], NEW data, Unused(data) = D!Node
  PROVE  Enough(data)
<1>1. \A c \in Thread \X (1 .. Ops) : c[2] <= left[c[1]]
  BY LockBasedAssumption
<1>2. Budget(left) = Thread \X (1 .. Ops)
  BY <1>1 DEF Budget
<1> QED  BY <1>2, Room, LockBasedAssumption DEF Enough

LEMMA InitIInv == Init => IInv
<1> SUFFICES ASSUME Init  PROVE IInv
  OBVIOUS
<1>1. left = [t \in Thread |-> Ops] /\ undefined = FALSE
  BY DEF Init
<1>2. left \in [Thread -> 0 .. Ops]
  BY <1>1, LockBasedAssumption
<1>3. ASSUME IsDeque  PROVE DequeOK
  <2>1. D!Init
    BY <1>3 DEF Init, IsDeque
  <2>2. /\ mem.link = [a \in D!Link |-> CASE a = <<head, "next">> -> tail
                                          [] a = <<tail, "prev">> -> head
                                          [] OTHER -> Null]
        /\ mem.data = [n \in D!Node |-> 0] /\ mem.freed = {}
        /\ mem = [link |-> mem.link, data |-> mem.data, freed |-> mem.freed]
        /\ items = <<>> /\ last = <<0, 0>>
    BY <2>1 DEF D!Init
  <2>3. mem \in Mem
    <3>1. head \in Pointer /\ tail \in Pointer /\ Null \in Pointer
      BY DEF Pointer
    <3>2. mem.link \in [D!Link -> Pointer]
      BY <3>1, <2>2
    <3>3. mem.data \in [D!Node -> Key \cup {0}] /\ mem.freed \subseteq D!Node
      BY <2>2
    <3> QED  BY <3>2, <3>3, <2>2 DEF Mem
  <2>4. mem.link[<<head, "next">>] = tail /\ mem.link[<<tail, "prev">>] = head
    <3>1. <<head, "next">> \in D!Link /\ <<tail, "prev">> \in D!Link
      BY DEF D!Link
    <3>2. <<head, "next">> # <<tail, "prev">>
      BY LockBasedAssumption
    <3> QED  BY <3>1, <3>2, <2>2
  <2>5. items \in Seq(Key) /\ Len(items) = 0
    BY <2>2, EmptySeq
  <2> DEFINE p == [i \in Int |-> IF i <= 0 THEN head ELSE tail]
  <2>6. p \in [Int -> Pointer] /\ p[0] = head /\ p[1] = tail
    BY DEF Pointer
  <2> HIDE DEF p
  <2>7. 0 \in Int /\ 1 \in Int /\ 1 - 1 = 0 /\ 0 + 1 = 1 /\ 0 < 1 /\ 1 - 0 = 0 + 1
    OBVIOUS
  <2>8. /\ \A i \in 0 + 1 .. 1 - 1 : FALSE
        /\ \A i \in 0 .. 1 - 2 : FALSE
        /\ \A i \in 0 + 2 .. 1 : FALSE
    OBVIOUS
  <2>9. /\ D!Sentinel("front") = head /\ D!Opposite("front") = tail
        /\ D!Inward("front") = "next" /\ D!Outward("front") = "prev"
    BY DEF D!Sentinel, D!Opposite, D!Inward, D!Outward
  <2>10. Whole(mem, items, "front", chosen = "stack", 0, 1, p)
    BY <2>4, <2>5, <2>6, <2>7, <2>8, <2>9 DEF Whole
  <2>11. Holds(mem, items, "front", chosen = "stack")
    BY <2>2, <2>3, <2>5, <2>6, <2>7, <2>10 DEF Holds
  <2>12. Unused(mem.data) = D!Node
    BY <2>2 DEF Unused
  <2>13. Enough(mem.data)
    BY <2>12, <1>1, EnoughAtFirst
  <2> QED  BY <2>2, <2>11, <2>13 DEF DequeOK, Enough
<1>4. ASSUME chosen = "sorted-list"  PROVE ListInv /\ Enough(mem.data)
  <2>1. L!Init
    BY <1>4 DEF Init
  <2> QED  BY <2>1, <1>1, InitList, EnoughAtFirst
<1>5. ASSUME chosen = "hashmap"  PROVE MapInv /\ Enough(mem.key)
  <2>1. H!Init
    BY <1>5 DEF Init
  <2> QED  BY <2>1, <1>1, InitMap, EnoughAtFirst
<1>6. ASSUME chosen = "bst"  PROVE TreeInv /\ Enough(mem.value)
  <2>1. B!Init
    BY <1>6 DEF Init
  <2> QED  BY <2>1, <1>1, InitTree, EnoughAtFirst
<1> QED  BY <1>1, <1>2, <1>3, <1>4, <1>5, <1>6 DEF IInv

\* A call of the driver of the stack, the queue or the deque.
LEMMA DequeCall ==
  ASSUME IInv, IsDeque, NEW t \in Thread, Call(t)
  PROVE  undefined' \in BOOLEAN /\ (undefined' => chosen # "stack") /\ (~undefined' => DequeOK')
<1>1. /\ undefined = FALSE /\ left[t] > 0 /\ left \in [Thread -> 0 .. Ops]
      /\ left' = [left EXCEPT ![t] = @ - 1] /\ chosen' = chosen
      /\ UseStack \/ UseQueue \/ UseDeque
  BY DEF IInv, IsDeque, Call, UpdateObject, UseSortedList, UseHashMap, UseBST
<1>2. DequeOK
  BY <1>1 DEF IInv
<1>3. Unused(mem.data) # {}
  BY <1>1, <1>2, HasRoom DEF DequeOK
<1>4. "front" \in Side /\ "back" \in Side /\ Other("front") = "back" /\ Other("back") = "front"
  BY DEF Side, Other
<1>5. ASSUME NEW s \in Side, NEW closed \in BOOLEAN, Holds(mem, items, s, closed),
             (\E d \in Key : D!Push(s, d)) \/ D!Pop(s)
      PROVE  CallEffect(s, closed)
  BY <1>1, <1>3, <1>5, PushStep, PopStep
<1>6. CallEffect("front", chosen = "stack")
  <2>1. CASE chosen = "stack"
    <3>1. Holds(mem, items, "front", TRUE)
      BY <1>2, <2>1 DEF DequeOK
    <3>2. (\E d \in Key : D!Push("front", d)) \/ D!Pop("front")
      BY <1>1, <2>1 DEF UseStack, UseQueue, UseDeque
    <3>3. CallEffect("front", TRUE)
      BY <3>1, <3>2, <1>4, <1>5
    <3> QED  BY <3>3, <2>1
  <2>2. CASE chosen # "stack"
    <3>1. Holds(mem, items, "front", FALSE)
      BY <1>2, <2>2 DEF DequeOK
    <3>2. Holds(mem, items, "back", FALSE)
      BY <3>1, <1>4, Turn
    <3>3. PICK s \in Side : (\E d \in Key : D!Push(s, d)) \/ D!Pop(s)
      BY <1>1, <2>2 DEF UseStack, UseQueue, UseDeque, Side
    <3>4. CallEffect(s, FALSE)
      BY <3>1, <3>2, <3>3, <1>5 DEF Side
    <3>5. s = "front" \/ s = "back"
      BY DEF Side
    <3>6. \A m, q : Holds(m, q, s, FALSE) => Holds(m, q, "front", FALSE)
      BY <3>5, <1>4, Turn
    <3>7. CallEffect("front", FALSE)
      BY <3>4, <3>6 DEF CallEffect
    <3> QED  BY <3>7, <2>2
  <2> QED  BY <2>1, <2>2
<1>7. undefined' \in BOOLEAN /\ (undefined' => chosen # "stack")
  BY <1>6 DEF CallEffect
<1>8. ASSUME ~undefined'  PROVE DequeOK'
  <2>1. /\ Holds(mem', items', "front", chosen = "stack")
        /\ last'[1] = last'[2]
        /\ \E n : Unused(mem.data) \ {n} \subseteq Unused(mem'.data)
    BY <1>6, <1>8 DEF CallEffect
  <2>2. Cardinality(Budget(left)) <= Cardinality(Unused(mem.data))
    BY <1>2 DEF DequeOK
  <2>3. Cardinality(Budget(left')) <= Cardinality(Unused(mem'.data))
    <3>1. PICK n : Unused(mem.data) \ {n} \subseteq Unused(mem'.data)
      BY <2>1
    <3>2. PICK k : k = left' /\ k = [left EXCEPT ![t] = @ - 1]
      BY <1>1
    <3>3. Cardinality(Budget(k)) <= Cardinality(Unused(mem'.data))
      BY <3>1, <3>2, <2>2, <1>1, RoomStays
    <3> QED  BY <3>2, <3>3
  <2>4. Holds(mem', items', "front", chosen' = "stack")
    BY <2>1, <1>1
  <2> QED  BY <2>1, <2>3, <2>4 DEF DequeOK, Holds, Budget, Unused
<1> QED  BY <1>7, <1>8

\* What a call takes of the calls that are left and of the nodes.
LEMMA CallSpends ==
  ASSUME IInv, NEW t \in Thread, Call(t), NEW data, Enough(data)
  PROVE  /\ Unused(data) # {}
         /\ \A w, n : Unused(data) \ {n} \subseteq Unused(w) => Cardinality(Budget(left')) <= Cardinality(Unused(w))
<1>1. left[t] > 0 /\ left \in [Thread -> 0 .. Ops] /\ left' = [left EXCEPT ![t] = @ - 1]
  BY DEF IInv, Call
<1>2. Cardinality(Budget(left)) <= Cardinality(Unused(data))
  BY DEF Enough
<1>3. Unused(data) # {}
  BY <1>1, <1>2, HasRoom
<1>4. PICK k : k = left' /\ k = [left EXCEPT ![t] = @ - 1]
  BY <1>1
<1>5. ASSUME NEW w, NEW n, Unused(data) \ {n} \subseteq Unused(w)
      PROVE  Cardinality(Budget(k)) <= Cardinality(Unused(w))
  BY <1>1, <1>2, <1>4, <1>5, RoomStays
<1> QED  BY <1>3, <1>4, <1>5

\* A call of the driver of the sorted list.
LEMMA CallOfList ==
  ASSUME IInv, chosen = "sorted-list", NEW t \in Thread, Call(t)
  PROVE  ListInv' /\ Enough(mem.data)'
<1>1. ListInv /\ Enough(mem.data)
  BY DEF IInv
<1>2. PICK k \in Key : L!Insert(k) \/ L!Remove(k) \/ L!Count(k)
  BY OneStructure DEF Call, IsDeque, UpdateObject, UseSortedList, UseHashMap, UseBST, UseStack, UseQueue, UseDeque
<1>3. /\ Unused(mem.data) # {}
      /\ \A w, n : Unused(mem.data) \ {n} \subseteq Unused(w) => Cardinality(Budget(left')) <= Cardinality(Unused(w))
  BY <1>1, CallSpends
<1>4. ListInv' /\ \E n : Unused(mem.data) \ {n} \subseteq Unused(mem'.data)
  <2>1. ASSUME mem'.data = mem.data  PROVE Unused(mem.data) \ {0} \subseteq Unused(mem'.data)
    BY <2>1
  <2> QED  BY <1>1, <1>2, <1>3, <2>1, InsertList, RemoveList, CountList
<1>5. Cardinality(Budget(left')) <= Cardinality(Unused(mem'.data))
  BY <1>3, <1>4
<1> QED  BY <1>4, <1>5 DEF Enough, Budget, Unused

\* A call of the driver of the hash map.
LEMMA CallOfMap ==
  ASSUME IInv, chosen = "hashmap", NEW t \in Thread, Call(t)
  PROVE  MapInv' /\ Enough(mem.key)'
<1>1. MapInv /\ Enough(mem.key)
  BY DEF IInv
<1>2. PICK k \in Key : (\E v \in Value : H!InsertOrAssign(k, v)) \/ H!Contains(k) \/ H!Remove(k) \/ H!Find(k)
  BY OneStructure DEF Call, IsDeque, UpdateObject, UseSortedList, UseHashMap, UseBST, UseStack, UseQueue, UseDeque
<1>3. /\ Unused(mem.key) # {}
      /\ \A w, n : Unused(mem.key) \ {n} \subseteq Unused(w) => Cardinality(Budget(left')) <= Cardinality(Unused(w))
  BY <1>1, CallSpends
<1>4. MapInv' /\ \E n : Unused(mem.key) \ {n} \subseteq Unused(mem'.key)
  <2>1. ASSUME mem'.key = mem.key  PROVE Unused(mem.key) \ {0} \subseteq Unused(mem'.key)
    BY <2>1
  <2>2. ASSUME NEW v \in Value, H!InsertOrAssign(k, v)
        PROVE  MapInv' /\ \E n : Unused(mem.key) \ {n} \subseteq Unused(mem'.key)
    BY <1>1, <1>3, <2>1, <2>2, AssignMap, InsertMap
  <2> QED  BY <1>1, <1>2, <1>3, <2>1, <2>2, RemoveMap, AnswerMap
<1>5. Cardinality(Budget(left')) <= Cardinality(Unused(mem'.key))
  BY <1>3, <1>4
<1> QED  BY <1>4, <1>5 DEF Enough, Budget, Unused

\* A call of the driver of the search tree begins.
LEMMA CallOfTree ==
  ASSUME IInv, chosen = "bst", NEW t \in Thread, Call(t)
  PROVE  TreeInv' /\ Enough(mem.value)'
<1>1. TreeInv /\ Enough(mem.value)
  BY DEF IInv
<1>2. (\E k \in Key : B!Insert(k) \/ B!Remove(k)) \/ B!GetMin \/ B!GetMax
  BY OneStructure DEF Call, IsDeque, UpdateObject, UseSortedList, UseHashMap, UseBST, UseStack, UseQueue, UseDeque
<1>3. /\ Unused(mem.value) # {}
      /\ \A w, n : Unused(mem.value) \ {n} \subseteq Unused(w) => Cardinality(Budget(left')) <= Cardinality(Unused(w))
  BY <1>1, CallSpends
<1>4. TreeInv' /\ \E n : Unused(mem.value) \ {n} \subseteq Unused(mem'.value)
  <2>1. ASSUME mem'.value = mem.value  PROVE Unused(mem.value) \ {0} \subseteq Unused(mem'.value)
    BY <2>1
  <2> QED  BY <1>1, <1>2, <1>3, <2>1, InsertTree, RemoveTree, EndsTree
<1>5. Cardinality(Budget(left')) <= Cardinality(Unused(mem'.value))
  BY <1>3, <1>4
<1> QED  BY <1>4, <1>5 DEF Enough, Budget, Unused

\* The call of the search tree that holds the lock goes on.
LEMMA TreeContinues ==
  ASSUME IInv, Continue
  PROVE  TreeInv' /\ Enough(mem.value)'
<1>1. chosen = "bst" /\ B!Continue /\ left' = left
  BY DEF Continue
<1>2. TreeInv /\ Enough(mem.value)
  BY <1>1 DEF IInv
<1>3. TreeInv' /\ Unused(mem'.value) = Unused(mem.value)
  <2>1. ASSUME mem'.value = mem.value  PROVE Unused(mem'.value) = Unused(mem.value)
    BY <2>1
  <2> QED  BY <1>1, <1>2, <2>1, LoopTree, PassTree, UnlinkTree, ReplaceTree DEF B!Continue
<1>4. Cardinality(Budget(left')) <= Cardinality(Unused(mem'.value))
  BY <1>1, <1>2, <1>3 DEF Enough
<1> QED  BY <1>3, <1>4 DEF Enough, Budget, Unused

LEMMA NextIInv == IInv /\ [Next]_vars => IInv'
<1> SUFFICES ASSUME IInv, [Next]_vars  PROVE IInv'
  OBVIOUS
<1>1. ASSUME NEW t \in Thread, Call(t)  PROVE IInv'
  <2>1. /\ left[t] > 0 /\ left \in [Thread -> 0 .. Ops] /\ left' = [left EXCEPT ![t] = @ - 1]
        /\ chosen' = chosen /\ undefined = FALSE
    BY <1>1 DEF IInv, Call
  <2>2. left' \in [Thread -> 0 .. Ops]
    <3>1. left[t] \in 0 .. Ops /\ left[t] - 1 \in 0 .. Ops
      BY <2>1, LockBasedAssumption
    <3> QED  BY <3>1, <2>1
  <2>3. IsDeque' <=> IsDeque
    BY <2>1 DEF IsDeque
  <2>4. undefined' \in BOOLEAN /\ (IsDeque => (undefined' => chosen # "stack") /\ (~undefined' => DequeOK'))
    <3>1. CASE IsDeque
      BY <3>1, <1>1, DequeCall
    <3>2. CASE ~IsDeque
      BY <3>2, <2>1, <1>1 DEF Call, IsDeque, UseStack, UseQueue, UseDeque
    <3> QED  BY <3>1, <3>2
  <2>5. /\ chosen = "sorted-list" => ListInv' /\ Enough(mem.data)'
        /\ chosen = "hashmap" => MapInv' /\ Enough(mem.key)'
        /\ chosen = "bst" => TreeInv' /\ Enough(mem.value)'
    BY <1>1, CallOfList, CallOfMap, CallOfTree
  <2> QED  BY <2>1, <2>2, <2>3, <2>4, <2>5 DEF IInv
<1>2. CASE Continue
  <2>1. chosen' = chosen /\ left' = left /\ undefined' = undefined /\ chosen = "bst"
    BY <1>2 DEF Continue
  <2>2. ~IsDeque' /\ chosen' # "sorted-list" /\ chosen' # "hashmap"
    BY <2>1 DEF IsDeque
  <2>3. left' \in [Thread -> 0 .. Ops] /\ undefined' \in BOOLEAN
    BY <2>1 DEF IInv
  <2>4. TreeInv' /\ Enough(mem.value)'
    BY <1>2, TreeContinues
  <2> QED  BY <2>2, <2>3, <2>4 DEF IInv
<1>3. CASE UNCHANGED vars
  <2>1. /\ chosen' = chosen /\ left' = left /\ mem' = mem /\ items' = items /\ last' = last
        /\ undefined' = undefined /\ holder' = holder
    BY <1>3 DEF vars
  <2>2. IsDeque' <=> IsDeque
    BY <2>1 DEF IsDeque
  <2>3. DequeOK' <=> DequeOK
    BY <2>1 DEF DequeOK
  <2>4. ListInv' <=> ListInv
    BY <2>1 DEF ListInv
  <2>5. MapInv' <=> MapInv
    BY <2>1 DEF MapInv
  <2>6. TreeInv' <=> TreeInv
    BY <2>1 DEF TreeInv
  <2>7. /\ Enough(mem.data)' <=> Enough(mem.data)
        /\ Enough(mem.key)' <=> Enough(mem.key)
        /\ Enough(mem.value)' <=> Enough(mem.value)
    BY <2>1 DEF Enough
  <2> QED  BY <2>1, <2>2, <2>3, <2>4, <2>5, <2>6, <2>7 DEF IInv
<1> QED  BY <1>1, <1>2, <1>3 DEF Next, Terminated

-----------------------------------------------------------------------------

\* In every reachable state: the links of the structures, and what the calls
\* have returned.
THEOREM Invariant == Spec => []IInv
<1> QED  BY InitIInv, NextIInv, PTL DEF Spec

\* Every pop of the lock-based stack, queue or deque returns the element at its
\* end, or -1 when there is none, until a call uses a node that was deleted
\* (lockbased/Deque.h:41-105).
THEOREM PopsReturnTheEnds == Spec => []PopsAreRight
<1>1. IInv => PopsAreRight
  BY DEF IInv, IsDeque, DequeOK, PopsAreRight, D!PopsAreRight
<1> QED  BY <1>1, Invariant, PTL

\* The stack never uses a node that was deleted, for any number of workers,
\* calls and nodes: it only follows links away from the head.
THEOREM StackNeverFollowsDeleted == Spec => []StackIsSafe
<1>1. IInv => StackIsSafe
  BY DEF IInv, IsDeque, StackIsSafe, D!NoUseAfterFree
<1> QED  BY <1>1, Invariant, PTL

\* The sorted list leads from its head to its tail, with mirrored links, holds
\* what was inserted and not removed, in order, and counts it
\* (lockbased/SortedList.h:41-99).
THEOREM SortedListIsRight == Spec => []ListIsRight
<1>1. IInv => ListIsRight
  BY ListRight DEF IInv, ListIsRight
<1> QED  BY <1>1, Invariant, PTL

\* The hash map holds every key the calls left in it once, in its bucket, with
\* its last value, and no other, with mirrored links, and answers with it
\* (lockbased/HashMap.h:52-134).
THEOREM HashMapIsRight == Spec => []MapIsRight
<1>1. IInv => MapIsRight
  BY MapRight DEF IInv, MapIsRight
<1> QED  BY <1>1, Invariant, PTL

\* Whenever bst_lock is free the tree is a search tree, holds no value more
\* often than it was inserted and not removed, and get_min and get_max have
\* found its ends (lockbased/BinarySearchTree.h:34-162).
THEOREM SearchTreeIsRight == Spec => []TreeIsRight
<1>1. IInv => TreeIsRight
  BY TreeRight DEF IInv, TreeIsRight
<1> QED  BY <1>1, Invariant, PTL

\* The list, the map and the tree agree with the history of their calls
\* (lockbased/SortedList.h, HashMap.h and BinarySearchTree.h).
THEOREM ContentsStayRight == Spec => []ContentsAreRight
<1>1. ListIsRight /\ MapIsRight /\ TreeIsRight => ContentsAreRight
  BY DEF ContentsAreRight
<1> QED  BY <1>1, SortedListIsRight, HashMapIsRight, SearchTreeIsRight, PTL
=============================================================================
