------------------------ MODULE LockArraySwapProofs -------------------------
(***************************************************************************)
(* Proofs about LockArraySwap, for any set of workers and any number of    *)
(* swaps and rows: the workers never wait for each other in a circle,      *)
(* every swap is made at one instant, and no element is lost.              *)
(***************************************************************************)
EXTENDS LockArraySwap, TLAPS, WellFoundedInduction

\* The rows whose mutex a worker holds at its statement of swap.
Holds(t, i) ==
  \/ pc[t] \in {"lock_b", "store_a", "store_b", "unlock_a"} /\ i = call[t][1]
  \/ pc[t] \in {"store_a", "store_b", "unlock_a", "unlock_b"} /\ i = call[t][2]

\* A mutex is held by the worker that is between its lock and its unlock.
MutexesHeld == \A t \in Thread, i \in Row : owner[i] = t <=> Holds(t, i)

\* The arguments of a call, and the rows between the two stores.
Calls == \A t \in Thread :
  /\ pc[t] = "idle" <=> call[t] = <<>>
  /\ pc[t] # "idle" => left[t] > 0
  /\ pc[t] \notin {"idle", "return"} => call[t][1] < call[t][2]
  /\ pc[t] = "store_b" => temp[t] \in Row /\ rows[call[t][1]] = rows[call[t][2]]

\* Every element is in one row.
IsPermutation(r) ==
  /\ \A i \in Row : \E j \in Row : r[j] = i
  /\ \A i, j \in Row : r[i] = r[j] => i = j

IInv == TypeOK /\ Calls /\ MutexesHeld /\ IsPermutation(Settled)

-----------------------------------------------------------------------------
\* Settled, as a function of the variables it looks at.
SettledOf(r, p, c, v) ==
  [i \in Row |->
     IF \E t \in Thread : p[t] = "store_b" /\ c[t][1] = i
       THEN v[CHOOSE t \in Thread : p[t] = "store_b" /\ c[t][1] = i]
       ELSE r[i]]

LEMMA SettledAt ==
  ASSUME NEW r, NEW p, NEW c, NEW v,
         \A t, u \in Thread : p[t] = "store_b" /\ p[u] = "store_b" /\ c[t][1] = c[u][1] => t = u,
         NEW m \in [Row -> Row],
         \A t \in Thread : p[t] = "store_b" => m[c[t][1]] = v[t],
         \A i \in Row : (\A t \in Thread : p[t] = "store_b" => c[t][1] # i) => m[i] = r[i]
  PROVE  SettledOf(r, p, c, v) = m
<1> SUFFICES ASSUME NEW i \in Row  PROVE SettledOf(r, p, c, v)[i] = m[i]
  BY DEF SettledOf
<1>1. CASE \E t \in Thread : p[t] = "store_b" /\ c[t][1] = i
  <2>1. PICK t \in Thread : p[t] = "store_b" /\ c[t][1] = i
    BY <1>1
  <2>2. (CHOOSE u \in Thread : p[u] = "store_b" /\ c[u][1] = i) = t
    BY <2>1
  <2>3. SettledOf(r, p, c, v)[i] = v[t]
    BY <1>1, <2>2 DEF SettledOf
  <2> QED  BY <2>1, <2>3
<1>2. CASE ~ \E t \in Thread : p[t] = "store_b" /\ c[t][1] = i
  BY <1>2 DEF SettledOf
<1> QED  BY <1>1, <1>2

\* The memory that Settled stands for is well typed, and what it holds.
LEMMA SettledFacts ==
  ASSUME IInv
  PROVE  /\ Settled \in [Row -> Row]
         /\ \A t \in Thread : pc[t] = "store_b" => Settled[call[t][1]] = temp[t]
         /\ \A i \in Row : (\A t \in Thread : pc[t] = "store_b" => call[t][1] # i) => Settled[i] = rows[i]
<1>1. ASSUME NEW t \in Thread, pc[t] = "store_b", NEW u \in Thread, pc[u] = "store_b", call[t][1] = call[u][1]
      PROVE  t = u
  <2>1. call[t] \in Row \X Row
    BY <1>1 DEF IInv, TypeOK, Calls
  <2>2. owner[call[t][1]] = t /\ owner[call[t][1]] = u
    BY <1>1, <2>1 DEF IInv, MutexesHeld, Holds
  <2> QED  BY <2>2
<1>2. ASSUME NEW t \in Thread, pc[t] = "store_b"  PROVE Settled[call[t][1]] = temp[t]
  <2>1. call[t][1] \in Row
    BY <1>2 DEF IInv, TypeOK, Calls
  <2>2. (CHOOSE u \in Thread : pc[u] = "store_b" /\ call[u][1] = call[t][1]) = t
    BY <1>1, <1>2
  <2> QED  BY <1>2, <2>1, <2>2 DEF Settled
<1>3. \A i \in Row : (\A t \in Thread : pc[t] = "store_b" => call[t][1] # i) => Settled[i] = rows[i]
  BY DEF Settled
<1>4. ASSUME NEW i \in Row  PROVE Settled[i] \in Row
  <2>1. CASE \A t \in Thread : pc[t] = "store_b" => call[t][1] # i
    BY <1>3, <2>1 DEF IInv, TypeOK
  <2>2. CASE ~ \A t \in Thread : pc[t] = "store_b" => call[t][1] # i
    BY <1>2, <2>2 DEF IInv, Calls
  <2> QED  BY <2>1, <2>2
<1>5. Settled = [i \in Row |-> Settled[i]]
  BY DEF Settled
<1> QED  BY <1>2, <1>3, <1>4, <1>5

\* Two workers do not hold one mutex.
LEMMA Exclusive ==
  ASSUME IInv, NEW t \in Thread, NEW u \in Thread, NEW i \in Row, Holds(t, i), Holds(u, i)
  PROVE  t = u
BY DEF IInv, MutexesHeld

\* Settled does not depend on workers that are elsewhere.
LEMMA SettledSame ==
  ASSUME IInv, rows' = rows,
         \A t \in Thread : pc'[t] = "store_b" <=> pc[t] = "store_b",
         \A t \in Thread : pc[t] = "store_b" => call'[t] = call[t] /\ temp'[t] = temp[t]
  PROVE  Settled' = Settled
<1>1. Settled' = SettledOf(rows', pc', call', temp')
  BY DEF Settled, SettledOf
<1>2. \A t, u \in Thread :
        pc'[t] = "store_b" /\ pc'[u] = "store_b" /\ call'[t][1] = call'[u][1] => t = u
  <2> SUFFICES ASSUME NEW t \in Thread, NEW u \in Thread,
                      pc[t] = "store_b", pc[u] = "store_b", call[t][1] = call[u][1]
               PROVE  t = u
    OBVIOUS
  <2>1. call[t][1] \in Row
    BY DEF IInv, TypeOK, Calls
  <2> QED  BY <2>1, Exclusive DEF Holds
<1>3. \A t \in Thread : pc'[t] = "store_b" => Settled[call'[t][1]] = temp'[t]
  BY SettledFacts
<1>4. \A i \in Row : (\A t \in Thread : pc'[t] = "store_b" => call'[t][1] # i) => Settled[i] = rows'[i]
  BY SettledFacts
<1> HIDE DEF IInv
<1> QED  BY <1>1, <1>2, <1>3, <1>4, SettledFacts, SettledAt

-----------------------------------------------------------------------------
LEMMA SwappedPermutation ==
  ASSUME NEW m \in [Row -> Row], IsPermutation(m), NEW i \in Row, NEW j \in Row
  PROVE  IsPermutation(Abstract!Swapped(m, i, j))
<1> DEFINE r == Abstract!Swapped(m, i, j)
           at == [k \in Row |-> IF k = i THEN j ELSE IF k = j THEN i ELSE k]
<1>1. \A k \in Row : at[k] \in Row /\ at[at[k]] = k /\ r[k] = m[at[k]]
  BY DEF Abstract!Swapped
<1> HIDE DEF r, at
<1>2. ASSUME NEW e \in Row  PROVE \E k \in Row : r[k] = e
  <2>1. PICK k \in Row : m[k] = e
    BY DEF IsPermutation
  <2>2. at[k] \in Row /\ r[at[k]] = m[k]
    BY <1>1
  <2> QED  BY <2>1, <2>2
<1>3. ASSUME NEW k \in Row, NEW l \in Row, r[k] = r[l]  PROVE k = l
  <2>1. at[k] = at[l]
    BY <1>1, <1>3 DEF IsPermutation
  <2> QED  BY <1>1, <2>1
<1>4. IsPermutation(r)
  BY <1>2, <1>3 DEF IsPermutation
<1> QED  BY <1>4 DEF r

-----------------------------------------------------------------------------
\* The first store leaves the array as it is, half-made swaps aside.
LEMMA StoreAStep ==
  ASSUME IInv, NEW t \in Thread, StoreA(t)
  PROVE  Settled' = Settled
<1> DEFINE a == call[t][1]
           b == call[t][2]
<1>1. /\ pc[t] = "store_a" /\ call' = call
      /\ temp' = [temp EXCEPT ![t] = rows[a]]
      /\ rows' = [rows EXCEPT ![a] = rows[b]]
      /\ pc' = [pc EXCEPT ![t] = "store_b"]
  BY DEF StoreA
<1>2. a \in Row /\ b \in Row
  BY <1>1 DEF IInv, TypeOK, Calls
<1>3. /\ pc'[t] = "store_b" /\ temp'[t] = rows[a]
      /\ \A u \in Thread : u # t => pc'[u] = pc[u] /\ temp'[u] = temp[u]
      /\ \A i \in Row : i # a => rows'[i] = rows[i]
  BY <1>1, <1>2 DEF IInv, TypeOK
<1>4. ASSUME NEW u \in Thread, u # t, pc[u] = "store_b"  PROVE call[u][1] # a
  <2>1. Holds(t, a)
    BY <1>1 DEF Holds
  <2>2. Holds(u, call[u][1])
    BY <1>4 DEF Holds
  <2> HIDE DEF a
  <2> QED  BY <1>2, <1>4, <2>1, <2>2, Exclusive
<1>5. Settled' = SettledOf(rows', pc', call', temp')
  BY DEF Settled, SettledOf
<1>6. \A u, v \in Thread :
        pc'[u] = "store_b" /\ pc'[v] = "store_b" /\ call'[u][1] = call'[v][1] => u = v
  <2> SUFFICES ASSUME NEW u \in Thread, NEW v \in Thread, u # v,
                      pc'[u] = "store_b", pc'[v] = "store_b", call[u][1] = call[v][1]
               PROVE  FALSE
    BY <1>1
  <2>1. CASE u = t
    BY <2>1, <1>3, <1>4
  <2>2. CASE v = t
    BY <2>2, <1>3, <1>4
  <2>3. CASE u # t /\ v # t
    <3>1. pc[u] = "store_b" /\ pc[v] = "store_b"
      BY <2>3, <1>3
    <3>2. call[u][1] \in Row /\ Holds(u, call[u][1]) /\ Holds(v, call[u][1])
      BY <3>1 DEF IInv, TypeOK, Calls, Holds
    <3> QED  BY <3>2, Exclusive
  <2> QED  BY <2>1, <2>2, <2>3
<1>7. \A u \in Thread : pc[u] # "store_b" \/ u # t
  BY <1>1
<1>8. Settled[a] = rows[a]
  BY <1>1, <1>2, <1>4, SettledFacts
<1>9. \A u \in Thread : pc'[u] = "store_b" => Settled[call'[u][1]] = temp'[u]
  BY <1>1, <1>3, <1>8, SettledFacts
<1>10. \A i \in Row : (\A u \in Thread : pc'[u] = "store_b" => call'[u][1] # i) => Settled[i] = rows'[i]
  BY <1>1, <1>3, SettledFacts
<1> HIDE DEF IInv
<1> QED  BY <1>5, <1>6, <1>9, <1>10, SettledFacts, SettledAt

\* The second store exchanges the rows.
LEMMA StoreBStep ==
  ASSUME IInv, NEW t \in Thread, StoreB(t)
  PROVE  /\ call[t] # <<>> /\ call[t][1] \in Row /\ call[t][2] \in Row
         /\ Settled' = Abstract!Swapped(Settled, call[t][1], call[t][2])
<1> DEFINE a == call[t][1]
           b == call[t][2]
           m == Abstract!Swapped(Settled, a, b)
<1>1. /\ pc[t] = "store_b" /\ call' = call
      /\ temp' = [temp EXCEPT ![t] = 0]
      /\ rows' = [rows EXCEPT ![b] = temp[t]]
      /\ pc' = [pc EXCEPT ![t] = "unlock_a"]
  BY DEF StoreB
<1>2. call[t] # <<>> /\ a \in Row /\ b \in Row /\ a # b /\ rows[a] = rows[b]
  <2>1. call[t] # <<>> /\ a \in Row /\ b \in Row
    BY <1>1 DEF IInv, TypeOK, Calls
  <2>2. a < b /\ rows[a] = rows[b]
    BY <1>1 DEF IInv, Calls
  <2>3. a # b
    BY <2>1, <2>2 DEF Row
  <2> QED  BY <2>1, <2>2, <2>3
<1>3. /\ pc'[t] # "store_b"
      /\ \A u \in Thread : u # t => pc'[u] = pc[u] /\ temp'[u] = temp[u]
      /\ rows'[b] = temp[t]
      /\ \A i \in Row : i # b => rows'[i] = rows[i]
  BY <1>1, <1>2 DEF IInv, TypeOK
<1>4. ASSUME NEW u \in Thread, u # t, pc[u] = "store_b"  PROVE call[u][1] # a /\ call[u][1] # b
  <2>1. Holds(t, a) /\ Holds(t, b)
    BY <1>1 DEF Holds
  <2>2. Holds(u, call[u][1])
    BY <1>4 DEF Holds
  <2> HIDE DEF a, b
  <2> QED  BY <1>2, <1>4, <2>1, <2>2, Exclusive
<1>5. Settled' = SettledOf(rows', pc', call', temp')
  BY DEF Settled, SettledOf
<1>6. Settled \in [Row -> Row] /\ Settled[a] = temp[t] /\ Settled[b] = rows[b]
  BY <1>1, <1>2, <1>4, SettledFacts
<1>7. /\ m \in [Row -> Row] /\ m[a] = rows[b] /\ m[b] = temp[t]
      /\ \A i \in Row : i # a /\ i # b => m[i] = Settled[i]
  BY <1>2, <1>6 DEF Abstract!Swapped
<1> HIDE DEF m
<1>8. \A u, v \in Thread :
        pc'[u] = "store_b" /\ pc'[v] = "store_b" /\ call'[u][1] = call'[v][1] => u = v
  <2> SUFFICES ASSUME NEW u \in Thread, NEW v \in Thread,
                      pc'[u] = "store_b", pc'[v] = "store_b", call[u][1] = call[v][1]
               PROVE  u = v
    BY <1>1
  <2>1. pc[u] = "store_b" /\ pc[v] = "store_b"
    BY <1>3
  <2>2. call[u][1] \in Row /\ Holds(u, call[u][1]) /\ Holds(v, call[u][1])
    BY <2>1 DEF IInv, TypeOK, Calls, Holds
  <2> QED  BY <2>2, Exclusive
<1>9. ASSUME NEW u \in Thread, pc'[u] = "store_b"  PROVE m[call'[u][1]] = temp'[u]
  <2>1. u # t /\ pc[u] = "store_b" /\ temp'[u] = temp[u] /\ call'[u] = call[u]
    BY <1>1, <1>3, <1>9
  <2>2. call[u][1] \in Row /\ call[u][1] # a /\ call[u][1] # b
    BY <1>4, <2>1 DEF IInv, TypeOK, Calls
  <2> QED  BY <1>7, <2>1, <2>2, SettledFacts
<1>10. ASSUME NEW i \in Row, \A u \in Thread : pc'[u] = "store_b" => call'[u][1] # i
       PROVE  m[i] = rows'[i]
  <2>1. CASE i = a
    BY <2>1, <1>2, <1>3, <1>7
  <2>2. CASE i = b
    BY <2>2, <1>3, <1>7
  <2>3. CASE i # a /\ i # b
    <3>1. \A u \in Thread : pc[u] = "store_b" => call[u][1] # i
      BY <2>3, <1>1, <1>3, <1>10
    <3>2. Settled[i] = rows[i]
      BY <3>1, SettledFacts
    <3> QED  BY <2>3, <3>2, <1>3, <1>7
  <2> QED  BY <2>1, <2>2, <2>3
<1>11. Settled' = m
  BY <1>5, <1>7, <1>8, <1>9, <1>10, SettledAt
<1> QED  BY <1>2, <1>11 DEF m

-----------------------------------------------------------------------------
LEMMA InitIInv == Init => IInv
<1> SUFFICES ASSUME Init PROVE IInv
  OBVIOUS
<1>1. TypeOK
  BY LockArraySwapAssumption DEF Init, TypeOK
<1>2. Calls
  BY DEF Init, Calls
<1>3. MutexesHeld
  BY LockArraySwapAssumption DEF Init, MutexesHeld, Holds
<1>4. Settled = [i \in Row |-> i]
  BY DEF Init, Settled
<1>5. IsPermutation(Settled)
  BY <1>4 DEF IsPermutation
<1> QED  BY <1>1, <1>2, <1>3, <1>5 DEF IInv

\* What the argument of a worker inside swap is.
LEMMA CallFacts ==
  ASSUME IInv, NEW t \in Thread, pc[t] # "idle"
  PROVE  /\ call[t] # <<>> /\ call[t] \in Row \X Row
         /\ call[t][1] \in Row /\ call[t][2] \in Row
         /\ pc[t] # "return" => call[t][1] # call[t][2]
<1>1. call[t] # <<>> /\ call[t] \in Row \X Row
  BY DEF IInv, TypeOK, Calls
<1>2. pc[t] # "return" => call[t][1] < call[t][2]
  BY DEF IInv, Calls
<1> QED  BY <1>1, <1>2 DEF Row

LEMMA NextIInv == IInv /\ [Next]_vars => IInv'
<1> SUFFICES ASSUME IInv, [Next]_vars PROVE IInv'
  OBVIOUS
<1> USE DEF IInv
<1>1. ASSUME NEW t \in Thread, NEW i \in Row, NEW j \in Row, Call(t, i, j)  PROVE IInv'
  <2>1. /\ pc[t] = "idle" /\ left[t] > 0
        /\ call' = [call EXCEPT ![t] = Ordered(i, j)]
        /\ pc' = [pc EXCEPT ![t] = IF i = j THEN "return" ELSE "lock_a"]
        /\ UNCHANGED <<rows, owner, temp, left>>
    BY <1>1 DEF Call
  <2>2. /\ Ordered(i, j) \in Row \X Row /\ Ordered(i, j) # <<>>
        /\ i # j => Ordered(i, j)[1] < Ordered(i, j)[2]
    BY DEF Ordered, Row
  <2>3. /\ call'[t] = Ordered(i, j) /\ pc'[t] \in {"return", "lock_a"}
        /\ pc'[t] = "lock_a" => i # j
        /\ \A u \in Thread : u # t => call'[u] = call[u] /\ pc'[u] = pc[u]
    BY <2>1 DEF TypeOK
  <2>4. TypeOK'
    BY <2>1, <2>2 DEF TypeOK
  <2>5. Calls'
    BY <2>1, <2>2, <2>3 DEF Calls
  <2>6. MutexesHeld'
    BY <2>1, <2>3 DEF MutexesHeld, Holds
  <2>7. Settled' = Settled
    BY <2>1, <2>3, SettledSame
  <2> QED  BY <2>4, <2>5, <2>6, <2>7 DEF IsPermutation
<1>2. ASSUME NEW t \in Thread, NEW k \in {1, 2}, Lock(t, k)  PROVE IInv'
  <2>1. /\ pc[t] = IF k = 1 THEN "lock_a" ELSE "lock_b"
        /\ owner[call[t][k]] = NoThread
        /\ owner' = [owner EXCEPT ![call[t][k]] = t]
        /\ pc' = [pc EXCEPT ![t] = IF k = 1 THEN "lock_b" ELSE "store_a"]
        /\ UNCHANGED <<rows, call, temp, left>>
    BY <1>2 DEF Lock
  <2>2. call[t] \in Row \X Row /\ call[t][k] \in Row /\ call[t][1] # call[t][2]
    BY <2>1, CallFacts
  <2>3. /\ pc'[t] = IF k = 1 THEN "lock_b" ELSE "store_a"
        /\ \A u \in Thread : u # t => pc'[u] = pc[u]
        /\ owner'[call[t][k]] = t
        /\ \A i \in Row : i # call[t][k] => owner'[i] = owner[i]
    BY <2>1, <2>2 DEF TypeOK
  <2>4. TypeOK'
    BY <2>1, <2>2 DEF TypeOK
  <2>5. Calls'
    BY <2>1, <2>3 DEF Calls
  <2>6. MutexesHeld'
    <3> SUFFICES ASSUME NEW u \in Thread, NEW i \in Row  PROVE owner'[i] = u <=> Holds(u, i)'
      BY DEF MutexesHeld
    <3>1. CASE u # t
      <4>1. Holds(u, i)' <=> Holds(u, i)
        BY <2>1, <2>3, <3>1 DEF Holds
      <4>2. ~ Holds(u, call[t][k])
        BY <2>1, <2>2, LockArraySwapAssumption DEF MutexesHeld
      <4> QED  BY <2>3, <3>1, <4>1, <4>2 DEF MutexesHeld
    <3>2. CASE u = t
      <4>1. Holds(t, i)' <=> Holds(t, i) \/ i = call[t][k]
        BY <2>1, <2>3 DEF Holds
      <4> QED  BY <2>3, <3>2, <4>1 DEF MutexesHeld
    <3> QED  BY <3>1, <3>2
  <2>7. Settled' = Settled
    BY <2>1, <2>3, SettledSame
  <2> QED  BY <2>4, <2>5, <2>6, <2>7 DEF IsPermutation
<1>3. ASSUME NEW t \in Thread, NEW k \in {1, 2}, Unlock(t, k)  PROVE IInv'
  <2>1. /\ pc[t] = IF k = 1 THEN "unlock_a" ELSE "unlock_b"
        /\ owner' = [owner EXCEPT ![call[t][k]] = NoThread]
        /\ pc' = [pc EXCEPT ![t] = IF k = 1 THEN "unlock_b" ELSE "return"]
        /\ UNCHANGED <<rows, call, temp, left>>
    BY <1>3 DEF Unlock
  <2>2. call[t] \in Row \X Row /\ call[t][k] \in Row /\ call[t][1] # call[t][2]
    BY <2>1, CallFacts
  <2>3. /\ pc'[t] = IF k = 1 THEN "unlock_b" ELSE "return"
        /\ \A u \in Thread : u # t => pc'[u] = pc[u]
        /\ owner'[call[t][k]] = NoThread
        /\ \A i \in Row : i # call[t][k] => owner'[i] = owner[i]
    BY <2>1, <2>2 DEF TypeOK
  <2>4. TypeOK'
    BY <2>1, <2>2 DEF TypeOK
  <2>5. Calls'
    BY <2>1, <2>3 DEF Calls
  <2>6. MutexesHeld'
    <3> SUFFICES ASSUME NEW u \in Thread, NEW i \in Row  PROVE owner'[i] = u <=> Holds(u, i)'
      BY DEF MutexesHeld
    <3>1. CASE u # t
      <4>1. Holds(u, i)' <=> Holds(u, i)
        BY <2>1, <2>3, <3>1 DEF Holds
      <4>2. Holds(t, call[t][k])
        BY <2>1 DEF Holds
      <4>3. ~ Holds(u, call[t][k])
        BY <2>2, <3>1, <4>2, Exclusive
      <4> QED  BY <2>3, <3>1, <4>1, <4>3, LockArraySwapAssumption DEF MutexesHeld
    <3>2. CASE u = t
      <4>1. Holds(t, i)' <=> Holds(t, i) /\ i # call[t][k]
        BY <2>1, <2>2, <2>3 DEF Holds
      <4> QED  BY <2>3, <3>2, <4>1, LockArraySwapAssumption DEF MutexesHeld
    <3> QED  BY <3>1, <3>2
  <2>7. Settled' = Settled
    BY <2>1, <2>3, SettledSame
  <2> QED  BY <2>4, <2>5, <2>6, <2>7 DEF IsPermutation
<1>4. ASSUME NEW t \in Thread, StoreA(t)  PROVE IInv'
  <2>1. /\ pc[t] = "store_a"
        /\ temp' = [temp EXCEPT ![t] = rows[call[t][1]]]
        /\ rows' = [rows EXCEPT ![call[t][1]] = rows[call[t][2]]]
        /\ pc' = [pc EXCEPT ![t] = "store_b"]
        /\ UNCHANGED <<owner, call, left>>
    BY <1>4 DEF StoreA
  <2>2. call[t] \in Row \X Row /\ call[t][1] \in Row /\ call[t][2] \in Row /\ call[t][1] # call[t][2]
    BY <2>1, CallFacts
  <2>3. /\ pc'[t] = "store_b" /\ temp'[t] = rows[call[t][1]]
        /\ \A u \in Thread : u # t => pc'[u] = pc[u] /\ temp'[u] = temp[u]
        /\ rows'[call[t][1]] = rows[call[t][2]]
        /\ \A i \in Row : i # call[t][1] => rows'[i] = rows[i]
    BY <2>1, <2>2 DEF TypeOK
  <2>4. TypeOK'
    BY <2>1, <2>2 DEF TypeOK
  <2>5. Calls'
    <3> SUFFICES ASSUME NEW u \in Thread
                 PROVE  /\ pc'[u] = "idle" <=> call'[u] = <<>>
                        /\ pc'[u] # "idle" => left'[u] > 0
                        /\ pc'[u] \notin {"idle", "return"} => call'[u][1] < call'[u][2]
                        /\ pc'[u] = "store_b" => temp'[u] \in Row /\ rows'[call'[u][1]] = rows'[call'[u][2]]
      BY DEF Calls
    <3>1. CASE u = t
      <4>1. rows[call[t][1]] \in Row
        BY <2>2 DEF TypeOK
      <4> QED  BY <2>1, <2>2, <2>3, <3>1, <4>1 DEF Calls
    <3>2. CASE u # t
      <4>1. ASSUME pc[u] = "store_b"  PROVE rows'[call[u][1]] = rows'[call[u][2]]
        <5>1. call[u][1] \in Row /\ call[u][2] \in Row
          BY <4>1, CallFacts
        <5>2. Holds(u, call[u][1]) /\ Holds(u, call[u][2]) /\ Holds(t, call[t][1])
          BY <2>1, <4>1 DEF Holds
        <5>3. call[u][1] # call[t][1] /\ call[u][2] # call[t][1]
          BY <2>2, <3>2, <5>1, <5>2, Exclusive
        <5> QED  BY <2>3, <4>1, <5>1, <5>3 DEF Calls
      <4> QED  BY <2>1, <2>3, <3>2, <4>1 DEF Calls
    <3> QED  BY <3>1, <3>2
  <2>6. MutexesHeld'
    BY <2>1, <2>3 DEF MutexesHeld, Holds
  <2>7. Settled' = Settled
    BY <1>4, StoreAStep
  <2> QED  BY <2>4, <2>5, <2>6, <2>7 DEF IsPermutation
<1>5. ASSUME NEW t \in Thread, StoreB(t)  PROVE IInv'
  <2>1. /\ pc[t] = "store_b"
        /\ temp' = [temp EXCEPT ![t] = 0]
        /\ rows' = [rows EXCEPT ![call[t][2]] = temp[t]]
        /\ pc' = [pc EXCEPT ![t] = "unlock_a"]
        /\ UNCHANGED <<owner, call, left>>
    BY <1>5 DEF StoreB
  <2>2. call[t] \in Row \X Row /\ call[t][1] \in Row /\ call[t][2] \in Row /\ temp[t] \in Row
    BY <2>1, CallFacts DEF Calls
  <2>3. /\ pc'[t] = "unlock_a"
        /\ \A u \in Thread : u # t => pc'[u] = pc[u] /\ temp'[u] = temp[u]
        /\ \A i \in Row : i # call[t][2] => rows'[i] = rows[i]
    BY <2>1, <2>2 DEF TypeOK
  <2>4. TypeOK'
    BY <2>1, <2>2 DEF TypeOK
  <2>5. Calls'
    <3> SUFFICES ASSUME NEW u \in Thread
                 PROVE  /\ pc'[u] = "idle" <=> call'[u] = <<>>
                        /\ pc'[u] # "idle" => left'[u] > 0
                        /\ pc'[u] \notin {"idle", "return"} => call'[u][1] < call'[u][2]
                        /\ pc'[u] = "store_b" => temp'[u] \in Row /\ rows'[call'[u][1]] = rows'[call'[u][2]]
      BY DEF Calls
    <3>1. CASE u = t
      BY <2>1, <2>2, <2>3, <3>1 DEF Calls
    <3>2. CASE u # t
      <4>1. ASSUME pc[u] = "store_b"  PROVE rows'[call[u][1]] = rows'[call[u][2]]
        <5>1. call[u][1] \in Row /\ call[u][2] \in Row
          BY <4>1, CallFacts
        <5>2. Holds(u, call[u][1]) /\ Holds(u, call[u][2]) /\ Holds(t, call[t][2])
          BY <2>1, <4>1 DEF Holds
        <5>3. call[u][1] # call[t][2] /\ call[u][2] # call[t][2]
          BY <2>2, <3>2, <5>1, <5>2, Exclusive
        <5> QED  BY <2>3, <4>1, <5>1, <5>3 DEF Calls
      <4> QED  BY <2>1, <2>3, <3>2, <4>1 DEF Calls
    <3> QED  BY <3>1, <3>2
  <2>6. MutexesHeld'
    BY <2>1, <2>3 DEF MutexesHeld, Holds
  <2>7. Settled' = Abstract!Swapped(Settled, call[t][1], call[t][2])
    BY <1>5, StoreBStep
  <2>8. IsPermutation(Abstract!Swapped(Settled, call[t][1], call[t][2]))
    BY <2>2, SettledFacts, SwappedPermutation
  <2> QED  BY <2>4, <2>5, <2>6, <2>7, <2>8 DEF IsPermutation
<1>6. ASSUME NEW t \in Thread, Return(t)  PROVE IInv'
  <2>1. /\ pc[t] = "return"
        /\ pc' = [pc EXCEPT ![t] = "idle"]
        /\ call' = [call EXCEPT ![t] = <<>>]
        /\ left' = [left EXCEPT ![t] = @ - 1]
        /\ UNCHANGED <<rows, owner, temp>>
    BY <1>6 DEF Return
  <2>2. /\ pc'[t] = "idle" /\ call'[t] = <<>>
        /\ \A u \in Thread : u # t => pc'[u] = pc[u] /\ call'[u] = call[u] /\ left'[u] = left[u]
    BY <2>1 DEF TypeOK
  <2>3. left[t] - 1 \in 0 .. Ops
    BY <2>1, LockArraySwapAssumption DEF TypeOK, Calls
  <2>4. TypeOK'
    BY <2>1, <2>3 DEF TypeOK
  <2>5. Calls'
    BY <2>1, <2>2 DEF Calls
  <2>6. MutexesHeld'
    BY <2>1, <2>2 DEF MutexesHeld, Holds
  <2>7. Settled' = Settled
    BY <2>1, <2>2, SettledSame
  <2> QED  BY <2>4, <2>5, <2>6, <2>7 DEF IsPermutation
<1>7. CASE UNCHANGED vars
  <2>1. UNCHANGED <<rows, owner, pc, call, temp, left>>
    BY <1>7 DEF vars
  <2>2. Settled' = Settled
    BY <2>1, SettledSame
  <2>3. TypeOK' /\ Calls' /\ MutexesHeld'
    BY <2>1 DEF TypeOK, Calls, MutexesHeld, Holds
  <2> QED  BY <2>2, <2>3 DEF IsPermutation
<1> QED  BY <1>1, <1>2, <1>3, <1>4, <1>5, <1>6, <1>7 DEF Next, Step, Terminated

\* What the properties rest on, in every reachable state.
THEOREM Invariant == Spec => []IInv
<1> QED  BY InitIInv, NextIInv, PTL DEF Spec

\* The array holds elements, the mutexes workers, and temp an element
\* (array_swap.h:61-88).
THEOREM TypeCorrect == Spec => []TypeOK
<1> QED  BY Invariant, PTL DEF IInv

\* When every worker is done no element is in two rows: what datum_free
\* relies on (array_swap.h:44-49).
THEOREM NoElementLost == Spec => []PermutationWhenDone
<1>1. IInv => PermutationWhenDone
  <2> SUFFICES ASSUME IInv, Done, NEW i \in Row, NEW j \in Row, rows[i] = rows[j]
               PROVE  i = j
    BY DEF PermutationWhenDone
  <2>1. \A k \in Row : Settled[k] = rows[k]
    BY SettledFacts DEF Done
  <2> QED  BY <2>1 DEF IInv, IsPermutation
<1> QED  BY <1>1, Invariant, PTL

-----------------------------------------------------------------------------
(***************************************************************************)
(* No circular wait: a worker that waits for another one of a circle waits *)
(* for a lower row than that one, and there is a highest row.              *)
(***************************************************************************)
LEMMA Highest ==
  ASSUME NEW R \in SUBSET Row, R # {}
  PROVE  \E m \in R : \A k \in R : k <= m
<1> DEFINE T == {NumRows - r : r \in R}
<1>1. T \in SUBSET Nat /\ T # {}
  <2>1. \A r \in R : r \in Nat /\ NumRows - r \in Nat
    BY LockArraySwapAssumption DEF Row
  <2> QED  BY <2>1
<1> HIDE DEF T
<1>2. PICK x \in T : \A y \in T : ~ (<<y, x>> \in OpToRel(<, Nat))
  BY <1>1, NatLessThanWellFounded, WFMin
<1>3. \A y \in T : ~ (y < x)
  BY <1>1, <1>2 DEF OpToRel
<1>4. PICK m \in R : x = NumRows - m
  BY DEF T
<1>5. ASSUME NEW k \in R  PROVE k <= m
  <2>1. NumRows - k \in T
    BY DEF T
  <2>2. ~ (NumRows - k < NumRows - m)
    BY <1>3, <1>4, <2>1
  <2>3. k \in Nat /\ m \in Nat /\ NumRows \in Nat
    BY LockArraySwapAssumption DEF Row
  <2> QED  BY <2>2, <2>3
<1> QED  BY <1>5

\* The row a worker waits for.
Wanted(t) == IF pc[t] = "lock_a" THEN call[t][1] ELSE call[t][2]

LEMMA WaitsUpwards ==
  ASSUME IInv, NEW t \in Thread, NEW u \in Thread, Waits(t, u), pc[u] \in {"lock_a", "lock_b"}
  PROVE  Wanted(t) < Wanted(u)
<1>1. pc[t] \in {"lock_a", "lock_b"} /\ owner[Wanted(t)] = u
  BY DEF Waits, Wanted
<1>2. Wanted(t) \in Row
  BY <1>1, CallFacts DEF Wanted
<1>3. Holds(u, Wanted(t))
  BY <1>1, <1>2 DEF IInv, MutexesHeld
<1>4. pc[u] = "lock_b" /\ Wanted(t) = call[u][1]
  BY <1>3 DEF Holds
<1>5. Wanted(u) = call[u][2] /\ call[u][1] < call[u][2]
  BY <1>4 DEF Wanted, IInv, Calls
<1> QED  BY <1>4, <1>5

\* Swaps that take two mutexes each never wait for each other in a circle, for
\* any number of workers: the order of the indices (array_swap.h:68-76).
THEOREM WaitsAreAcyclic == Spec => []NoCircularWait
<1>1. IInv => NoCircularWait
  <2> SUFFICES ASSUME IInv, NEW S \in SUBSET Thread, S # {},
                      \A t \in S : \E u \in S : Waits(t, u)
               PROVE  FALSE
    BY DEF NoCircularWait
  <2> DEFINE W == {Wanted(t) : t \in S}
  <2>1. \A t \in S : pc[t] \in {"lock_a", "lock_b"}
    BY DEF Waits
  <2>2. W \in SUBSET Row /\ W # {}
    BY <2>1, CallFacts DEF Wanted
  <2>3. PICK m \in W : \A k \in W : k <= m
    <3> HIDE DEF W
    <3> QED  BY <2>2, Highest
  <2>4. PICK t \in S : Wanted(t) = m
    OBVIOUS
  <2>5. PICK u \in S : Waits(t, u)
    OBVIOUS
  <2>6. Wanted(t) < Wanted(u)
    BY <2>1, <2>5, WaitsUpwards
  <2>7. Wanted(u) <= Wanted(t) /\ Wanted(u) \in Row /\ Wanted(t) \in Row
    BY <2>2, <2>3, <2>4
  <2> QED  BY <2>6, <2>7 DEF Row
<1> QED  BY <1>1, Invariant, PTL

-----------------------------------------------------------------------------
(***************************************************************************)
(* Refinement: a swap is made at its second store.                         *)
(***************************************************************************)

\* The calls and swaps that are still to take effect.
ACall == [t \in Thread |-> IF Swapped(t) THEN <<>> ELSE call[t]]
ALeft == [t \in Thread |-> IF Swapped(t) THEN left[t] - 1 ELSE left[t]]

LEMMA RefineInit == Init => Abstract!Init
<1> SUFFICES ASSUME Init PROVE Abstract!Init
  OBVIOUS
<1>1. Settled = [i \in Row |-> i]
  BY DEF Init, Settled
<1>2. \A t \in Thread : ~ Swapped(t)
  BY DEF Init, Swapped
<1>3. ACall = call /\ ALeft = left
  BY <1>2 DEF ACall, ALeft, Init
<1> QED  BY <1>1, <1>3 DEF Init, Abstract!Init, ACall, ALeft

\* A step that changes no call, no count and no Swapped is hidden.
LEMMA Hidden ==
  ASSUME IInv, call' = call, left' = left, Settled' = Settled,
         \A t \in Thread : Swapped(t)' <=> Swapped(t)
  PROVE  UNCHANGED <<Settled, ACall, ALeft>>
BY DEF ACall, ALeft

LEMMA RefineNext == IInv /\ [Next]_vars => [Abstract!Next]_(Abstract!vars)
<1> SUFFICES ASSUME IInv, [Next]_vars
             PROVE  Abstract!Next \/ UNCHANGED <<Settled, ACall, ALeft>>
  BY DEF Abstract!vars, ACall, ALeft
<1>1. ASSUME NEW t \in Thread, NEW i \in Row, NEW j \in Row, Call(t, i, j)  PROVE Abstract!Next
  <2> DEFINE a == Ordered(i, j)[1]
             b == Ordered(i, j)[2]
  <2>1. /\ pc[t] = "idle" /\ left[t] > 0
        /\ call' = [call EXCEPT ![t] = Ordered(i, j)]
        /\ pc' = [pc EXCEPT ![t] = IF i = j THEN "return" ELSE "lock_a"]
        /\ UNCHANGED <<rows, owner, temp, left>>
    BY <1>1 DEF Call
  <2>2. Ordered(i, j) = <<a, b>> /\ a \in Row /\ b \in Row /\ (i = j => a = b)
    BY DEF Ordered
  <2> HIDE DEF a, b
  <2>3. /\ call'[t] = <<a, b>> /\ pc'[t] = (IF i = j THEN "return" ELSE "lock_a")
        /\ \A u \in Thread : u # t => call'[u] = call[u] /\ pc'[u] = pc[u]
    BY <2>1, <2>2 DEF IInv, TypeOK
  <2>4. Settled' = Settled
    BY <2>1, <2>3, SettledSame
  <2>5. call[t] = <<>>
    BY <2>1 DEF IInv, Calls
  <2>6. \A u \in Thread : u # t => (Swapped(u)' <=> Swapped(u))
    BY <2>3 DEF Swapped
  <2>7. ~ Swapped(t) /\ ~ Swapped(t)'
    BY <2>1, <2>2, <2>3 DEF Swapped
  <2>8. ACall[t] = <<>> /\ ALeft[t] > 0 /\ ALeft' = ALeft
    BY <2>1, <2>5, <2>6, <2>7 DEF ACall, ALeft
  <2>9. ACall' = [ACall EXCEPT ![t] = <<a, b>>]
    BY <2>3, <2>6, <2>7, Zenon DEF ACall
  <2>10. Abstract!Invoke(t, a, b)
    BY <2>4, <2>8, <2>9 DEF Abstract!Invoke, ACall, ALeft
  <2> QED  BY <2>2, <2>10 DEF Abstract!Next
<1>2. ASSUME NEW t \in Thread, NEW k \in {1, 2}, Lock(t, k) \/ Unlock(t, k)
      PROVE  UNCHANGED <<Settled, ACall, ALeft>>
  <2>1. /\ UNCHANGED <<rows, call, temp, left>>
        /\ \/ /\ pc[t] \in {"lock_a", "lock_b"}
              /\ pc' = [pc EXCEPT ![t] = IF k = 1 THEN "lock_b" ELSE "store_a"]
           \/ /\ pc[t] \in {"unlock_a", "unlock_b"}
              /\ pc' = [pc EXCEPT ![t] = IF k = 1 THEN "unlock_b" ELSE "return"]
    BY <1>2 DEF Lock, Unlock
  <2>2. /\ \/ pc[t] \in {"lock_a", "lock_b"} /\ pc'[t] \in {"lock_b", "store_a"}
           \/ pc[t] \in {"unlock_a", "unlock_b"} /\ pc'[t] \in {"unlock_b", "return"}
        /\ \A u \in Thread : u # t => pc'[u] = pc[u]
    BY <2>1 DEF IInv, TypeOK
  <2>3. Settled' = Settled
    BY <2>1, <2>2, SettledSame
  <2>4. call[t][1] # call[t][2]
    BY <2>2, CallFacts
  <2>5. \A u \in Thread : Swapped(u)' <=> Swapped(u)
    BY <2>1, <2>2, <2>4 DEF Swapped
  <2> QED  BY <2>1, <2>3, <2>5, Hidden
<1>3. ASSUME NEW t \in Thread, StoreA(t)  PROVE UNCHANGED <<Settled, ACall, ALeft>>
  <2>1. /\ pc[t] = "store_a" /\ pc' = [pc EXCEPT ![t] = "store_b"]
        /\ call' = call /\ left' = left
    BY <1>3 DEF StoreA
  <2>2. \A u \in Thread : Swapped(u)' <=> Swapped(u)
    BY <2>1 DEF Swapped, IInv, TypeOK
  <2>3. Settled' = Settled
    BY <1>3, StoreAStep
  <2> QED  BY <2>1, <2>2, <2>3, Hidden
<1>4. ASSUME NEW t \in Thread, StoreB(t)  PROVE Abstract!Next
  <2>1. /\ pc[t] = "store_b" /\ pc' = [pc EXCEPT ![t] = "unlock_a"]
        /\ call' = call /\ left' = left
    BY <1>4 DEF StoreB
  <2>2. /\ call[t] # <<>>
        /\ Settled' = Abstract!Swapped(Settled, call[t][1], call[t][2])
    BY <1>4, StoreBStep
  <2>3. ~ Swapped(t) /\ Swapped(t)' /\ \A u \in Thread : u # t => (Swapped(u)' <=> Swapped(u))
    BY <2>1 DEF Swapped, IInv, TypeOK
  <2>4. ACall[t] = call[t]
    BY <2>3 DEF ACall
  <2>5. ACall' = [ACall EXCEPT ![t] = <<>>]
    BY <2>1, <2>3, Zenon DEF ACall
  <2>6. ALeft' = [ALeft EXCEPT ![t] = @ - 1]
    BY <2>1, <2>3 DEF ALeft
  <2>7. Abstract!Swap(t)
    BY <2>2, <2>4, <2>5, <2>6 DEF Abstract!Swap, ACall, ALeft
  <2> QED  BY <2>7 DEF Abstract!Next
<1>5. ASSUME NEW t \in Thread, Return(t)
      PROVE  Abstract!Next \/ UNCHANGED <<Settled, ACall, ALeft>>
  <2>1. /\ pc[t] = "return"
        /\ pc' = [pc EXCEPT ![t] = "idle"]
        /\ call' = [call EXCEPT ![t] = <<>>]
        /\ left' = [left EXCEPT ![t] = @ - 1]
        /\ UNCHANGED <<rows, owner, temp>>
    BY <1>5 DEF Return
  <2>2. /\ pc'[t] = "idle" /\ call'[t] = <<>> /\ left'[t] = left[t] - 1
        /\ \A u \in Thread : u # t => pc'[u] = pc[u] /\ call'[u] = call[u] /\ left'[u] = left[u]
    BY <2>1 DEF IInv, TypeOK
  <2>3. Settled' = Settled
    BY <2>1, <2>2, SettledSame
  <2>4. ~ Swapped(t)' /\ \A u \in Thread : u # t => (Swapped(u)' <=> Swapped(u))
    BY <2>2 DEF Swapped
  <2>5. CASE Swapped(t)
    <3>1. ACall' = ACall /\ ALeft' = ALeft
      BY <2>2, <2>4, <2>5 DEF ACall, ALeft
    <3> QED  BY <2>3, <3>1
  <2>6. CASE ~ Swapped(t)
    <3>1. call[t] # <<>> /\ call[t][1] \in Row /\ call[t][1] = call[t][2]
      BY <2>1, <2>6, CallFacts DEF Swapped
    <3>2. Settled = Abstract!Swapped(Settled, call[t][1], call[t][2])
      <4>1. Settled \in [Row -> Row]
        BY SettledFacts
      <4> QED  BY <3>1, <4>1 DEF Abstract!Swapped
    <3>3. ACall[t] = call[t]
      BY <2>6 DEF ACall
    <3>4. ACall' = [ACall EXCEPT ![t] = <<>>]
      BY <2>2, <2>4, <2>6, Zenon DEF ACall
    <3>5. ALeft' = [ALeft EXCEPT ![t] = @ - 1]
      BY <2>2, <2>4, <2>6 DEF ALeft
    <3>6. Abstract!Swap(t)
      BY <2>3, <3>1, <3>2, <3>3, <3>4, <3>5 DEF Abstract!Swap, ACall, ALeft
    <3> QED  BY <3>6 DEF Abstract!Next
  <2> QED  BY <2>5, <2>6
<1>6. CASE UNCHANGED vars
  <2>1. UNCHANGED <<rows, owner, pc, call, temp, left>>
    BY <1>6 DEF vars
  <2>2. Settled' = Settled
    BY <2>1, SettledSame
  <2>3. \A t \in Thread : Swapped(t)' <=> Swapped(t)
    BY <2>1 DEF Swapped
  <2> QED  BY <2>1, <2>2, <2>3, Hidden
<1> QED  BY <1>1, <1>2, <1>3, <1>4, <1>5, <1>6 DEF Next, Step, Terminated

\* Every swap exchanges its two rows at one instant between its call and its
\* return, once (array_swap.h:61-88), whatever the interleaving of its stores
\* with the swaps of other rows.
THEOREM SwapsTakeEffectOnce == Spec => SwapsAreAtomic
<1>1. Init /\ []IInv /\ [][Next]_vars => SwapsAreAtomic
  BY RefineInit, RefineNext, PTL DEF SwapsAreAtomic, Abstract!Spec
<1> QED  BY <1>1, Invariant, PTL DEF Spec
=============================================================================
