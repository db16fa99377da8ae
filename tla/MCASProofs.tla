----------------------------- MODULE MCASProofs -----------------------------
(***************************************************************************)
(* What the operators of MCAS do, as lemmas that the proofs about every    *)
(* client of mcas.h cite through an INSTANCE of this module, and then the  *)
(* proofs about MCASCalls, for any threads, words, values, longest call    *)
(* and for both builds: the types, the lock discipline, what the owner of  *)
(* the lock still has to store, and that the calls implement AtomicMCAS.   *)
(***************************************************************************)
EXTENDS MCASCalls, TLAPS, SequenceTheorems, NaturalsInduction, WellFoundedInduction

\* Stored, word by word.
LEMMA StoredAt ==
  ASSUME NEW m \in [Addr -> Val], NEW w \in Seq(Words), Distinct(w)
  PROVE  /\ Stored(m, w) \in [Addr -> Val]
         /\ \A i \in 1 .. Len(w) : Stored(m, w)[w[i].addr] = w[i].new
         /\ \A a \in Addr : (\A i \in 1 .. Len(w) : w[i].addr # a) => Stored(m, w)[a] = m[a]
<1>1. DOMAIN w = 1 .. Len(w) /\ DOMAIN m = Addr
  BY LenProperties
<1>2. \A i \in 1 .. Len(w) : w[i] \in Words
  BY ElementOfSeq
<1>3. ASSUME NEW i \in 1 .. Len(w)
      PROVE  (CHOOSE j \in DOMAIN w : w[j].addr = w[i].addr) = i
  BY <1>1, <1>3 DEF Distinct
<1>4. \A i \in 1 .. Len(w) : Stored(m, w)[w[i].addr] = w[i].new
  BY <1>1, <1>2, <1>3 DEF Stored, Words
<1>5. \A a \in Addr : (\A i \in 1 .. Len(w) : w[i].addr # a) => Stored(m, w)[a] = m[a]
  BY <1>1 DEF Stored
<1>6. ASSUME NEW a \in Addr  PROVE  Stored(m, w)[a] \in Val
  BY <1>2, <1>4, <1>5 DEF Words
<1>7. Stored(m, w) = [a \in Addr |-> Stored(m, w)[a]]
  BY <1>1 DEF Stored
<1> QED  BY <1>4, <1>5, <1>6, <1>7

\* Making the first store does not change the memory the call leaves behind.
LEMMA StoredFirst ==
  ASSUME NEW m \in [Addr -> Val], NEW w \in Seq(Words), Distinct(w), w # <<>>
  PROVE  LET n == [m EXCEPT ![Head(w).addr] = Head(w).new]
         IN  /\ n \in [Addr -> Val]
             /\ Tail(w) \in Seq(Words)
             /\ Distinct(Tail(w))
             /\ Stored(n, Tail(w)) = Stored(m, w)
<1> DEFINE n == [m EXCEPT ![Head(w).addr] = Head(w).new]
           v == Tail(w)
<1>1. Len(w) \in Nat /\ Len(w) # 0 /\ DOMAIN w = 1 .. Len(w)
  BY LenProperties, EmptySeq
<1>2. Head(w) = w[1] /\ w[1] \in Words
  BY <1>1, ElementOfSeq
<1>3. /\ v \in Seq(Words) /\ Len(v) = Len(w) - 1 /\ DOMAIN v = 1 .. Len(v)
      /\ \A i \in 1 .. Len(v) : v[i] = w[i + 1]
  BY HeadTailProperties, LenProperties
<1>4. n \in [Addr -> Val]
  BY <1>2 DEF Words
<1>5. Distinct(v)
  <2> SUFFICES ASSUME NEW i \in 1 .. Len(v), NEW j \in 1 .. Len(v), v[i].addr = v[j].addr
               PROVE  i = j
    BY <1>3 DEF Distinct
  <2>1. i + 1 \in DOMAIN w /\ j + 1 \in DOMAIN w
    BY <1>1, <1>3
  <2>2. w[i + 1].addr = w[j + 1].addr
    BY <1>3
  <2> QED  BY <2>1, <2>2, <1>3 DEF Distinct
<1> HIDE DEF n, v
<1>6. /\ Stored(n, v) \in [Addr -> Val]
      /\ \A i \in 1 .. Len(v) : Stored(n, v)[v[i].addr] = v[i].new
      /\ \A a \in Addr : (\A i \in 1 .. Len(v) : v[i].addr # a) => Stored(n, v)[a] = n[a]
  BY <1>3, <1>4, <1>5, StoredAt
<1>7. /\ Stored(m, w) \in [Addr -> Val]
      /\ \A i \in 1 .. Len(w) : Stored(m, w)[w[i].addr] = w[i].new
      /\ \A a \in Addr : (\A i \in 1 .. Len(w) : w[i].addr # a) => Stored(m, w)[a] = m[a]
  BY StoredAt
<1>8. n = [m EXCEPT ![w[1].addr] = w[1].new]
  BY <1>2 DEF n
<1>9. ASSUME NEW a \in Addr  PROVE  Stored(n, v)[a] = Stored(m, w)[a]
  <2>1. CASE \E i \in 1 .. Len(v) : v[i].addr = a
    <3>1. PICK i \in 1 .. Len(v) : v[i].addr = a
      BY <2>1
    <3>2. Stored(n, v)[a] = v[i].new
      BY <3>1, <1>6
    <3>3. i + 1 \in 1 .. Len(w) /\ w[i + 1] = v[i]
      BY <1>1, <1>3
    <3>4. Stored(m, w)[a] = v[i].new
      BY <3>1, <3>3, <1>7
    <3> QED  BY <3>2, <3>4
  <2>2. CASE /\ \A i \in 1 .. Len(v) : v[i].addr # a
             /\ a = w[1].addr
    <3>1. Stored(n, v)[a] = n[a]
      BY <2>2, <1>6
    <3>2. Stored(m, w)[a] = w[1].new
      BY <2>2, <1>1, <1>7
    <3> QED  BY <3>1, <3>2, <2>2, <1>8
  <2>3. CASE /\ \A i \in 1 .. Len(v) : v[i].addr # a
             /\ a # w[1].addr
    <3>1. Stored(n, v)[a] = n[a]
      BY <2>3, <1>6
    <3>2. ASSUME NEW i \in 1 .. Len(w)  PROVE  w[i].addr # a
      <4>1. CASE i = 1
        BY <4>1, <2>3
      <4>2. CASE i # 1
        <5>1. i - 1 \in 1 .. Len(v) /\ v[i - 1] = w[i]
          BY <4>2, <1>1, <1>3
        <5> QED  BY <5>1, <2>3
      <4> QED  BY <4>1, <4>2
    <3>3. Stored(m, w)[a] = m[a]
      BY <3>2, <1>7
    <3> QED  BY <3>1, <3>3, <2>3, <1>8
  <2> QED  BY <2>1, <2>2, <2>3
<1>10. Stored(n, v) = Stored(m, w)
  BY <1>9, <1>6, <1>7
<1> QED  BY <1>3, <1>4, <1>5, <1>10 DEF n, v

\* No store pending: nothing left to change.
LEMMA StoredNone ==
  ASSUME NEW m \in [Addr -> Val]
  PROVE  Stored(m, <<>>) = m
<1>1. DOMAIN <<>> = {}
  OBVIOUS
<1> QED  BY <1>1 DEF Stored

\* The memory a call leaves behind is well typed, and the one in place when
\* nobody stores.
LEMMA SettledFacts ==
  ASSUME MCASTypeOK, LockDiscipline
  PROVE  /\ Settled \in [Addr -> Val]
         /\ lock = NoThread => Settled = mem
<1>1. mem \in [Addr -> Val] /\ todo \in Seq(Words) /\ Distinct(todo)
  BY DEF MCASTypeOK, LockDiscipline, Words
<1>2. Settled \in [Addr -> Val]
  BY <1>1, StoredAt DEF Settled
<1>3. lock = NoThread => Settled = mem
  BY <1>1, StoredNone DEF Settled, LockDiscipline
<1> QED  BY <1>2, <1>3

\* What the first store of w, a call's words or what is left of them, does.
LEMMA FirstStore ==
  ASSUME MCASTypeOK, NEW t \in Thread,
         NEW w \in Seq(Words), Distinct(w), w # <<>>,
         StoreFirst(t, w)
  PROVE  /\ MCASTypeOK'
         /\ LockDiscipline'
         /\ Settled' = Stored(mem, w)
         /\ Len(todo') = Len(w) - 1
         /\ \A i \in 1 .. Len(todo') : todo'[i] = w[i + 1]
         /\ lock' \in {t, NoThread}
<1>1. mem \in [Addr -> Val]
  BY DEF MCASTypeOK
<1>2. /\ mem' \in [Addr -> Val]
      /\ todo' \in Seq(Words)
      /\ Distinct(todo')
      /\ Settled' = Stored(mem, w)
  BY <1>1, StoredFirst DEF StoreFirst, Settled
<1>3. /\ Len(todo') = Len(w) - 1
      /\ \A i \in 1 .. Len(todo') : todo'[i] = w[i + 1]
  BY HeadTailProperties DEF StoreFirst
<1>4. todo' = <<>> <=> Len(w) = 1
  BY <1>2, <1>3, EmptySeq, LenProperties
<1>5. lock' \in {t, NoThread} /\ (lock' = NoThread <=> Len(w) = 1)
  BY MCASAssumption DEF StoreFirst
<1> QED
  BY <1>2, <1>3, <1>4, <1>5 DEF MCASTypeOK, LockDiscipline, Words

\* What a successful call's first step does, in both builds.
LEMMA SucceedStep ==
  ASSUME MCASTypeOK, LockDiscipline, NEW t \in Thread,
         NEW w \in Seq(Words), Distinct(w), w # <<>>,
         Succeed(t, w)
  PROVE  /\ MCASTypeOK'
         /\ LockDiscipline'
         /\ Settled = mem
         /\ Settled' = Stored(mem, w)
         /\ lock = NoThread
         /\ lock' \in {t, NoThread}
         /\ lock' = t => /\ Len(todo') = Len(w) - 1
                        /\ \A i \in 1 .. Len(todo') : todo'[i] = w[i + 1]
<1>1. lock = NoThread /\ todo = <<>> /\ mem \in [Addr -> Val] /\ Settled = mem
  BY SettledFacts DEF MCASTypeOK, LockDiscipline, Succeed
<1>2. CASE Gem5
  <2>1. mem' = Stored(mem, w) /\ lock' = NoThread /\ todo' = <<>>
    BY <1>1, <1>2 DEF Succeed, Store, StoreAll
  <2>2. mem' \in [Addr -> Val]
    BY <1>1, <2>1, StoredAt
  <2>3. Settled' = mem'
    BY <2>1, <2>2, StoredNone DEF Settled
  <2>4. MCASTypeOK' /\ LockDiscipline'
    BY <2>1, <2>2, EmptySeq DEF MCASTypeOK, LockDiscipline, Distinct
  <2> QED  BY <1>1, <2>1, <2>3, <2>4, MCASAssumption
<1>3. CASE ~Gem5
  <2>1. StoreFirst(t, w)
    BY <1>3 DEF Succeed, Store
  <2> QED  BY <1>1, <2>1, FirstStore
<1> QED  BY <1>2, <1>3

\* What a later step of a successful call does.
LEMMA StoreNextStep ==
  ASSUME MCASTypeOK, LockDiscipline, NEW t \in Thread, StoreNext(t)
  PROVE  /\ MCASTypeOK'
         /\ LockDiscipline'
         /\ Settled' = Settled
         /\ lock = t
         /\ lock' \in {t, NoThread}
         /\ Len(todo') = Len(todo) - 1
         /\ \A i \in 1 .. Len(todo') : todo'[i] = todo[i + 1]
<1>1. lock = t /\ StoreFirst(t, todo)
  BY DEF StoreNext
<1>2. todo \in Seq(Words) /\ Distinct(todo) /\ todo # <<>>
  BY <1>1, MCASAssumption DEF MCASTypeOK, LockDiscipline, Words
<1>3. MCASTypeOK' /\ LockDiscipline' /\ Settled' = Stored(mem, todo)
      /\ lock' \in {t, NoThread} /\ Len(todo') = Len(todo) - 1
      /\ \A i \in 1 .. Len(todo') : todo'[i] = todo[i + 1]
  BY <1>1, <1>2, FirstStore
<1> QED  BY <1>1, <1>3 DEF Settled

\* A step that neither stores nor takes the lock.
LEMMA NoStoreStep ==
  ASSUME MCASTypeOK, LockDiscipline, NoStore
  PROVE  MCASTypeOK' /\ LockDiscipline' /\ Settled' = Settled
BY DEF NoStore, MCASTypeOK, LockDiscipline, Settled

\* A first store stores what the word will hold once the call is over.
LEMMA FirstStoreSettles ==
  ASSUME NEW m \in [Addr -> Val], NEW w \in Seq(Words), Distinct(w), w # <<>>, NEW a \in Addr
  PROVE  LET n == [m EXCEPT ![Head(w).addr] = Head(w).new]
         IN  n[a] = m[a] \/ n[a] = Stored(m, w)[a]
<1>1. Len(w) \in Nat /\ 1 \in 1 .. Len(w) /\ Head(w) = w[1] /\ w[1] \in Words
  BY LenProperties, EmptySeq, ElementOfSeq
<1>2. Stored(m, w)[w[1].addr] = w[1].new
  BY <1>1, StoredAt
<1> QED  BY <1>1, <1>2 DEF Words

\* A call's steps store nothing but what is settled.
LEMMA SucceedSettles ==
  ASSUME MCASTypeOK, LockDiscipline, NEW t \in Thread,
         NEW w \in Seq(Words), Distinct(w), w # <<>>,
         Succeed(t, w), NEW a \in Addr
  PROVE  mem'[a] = mem[a] \/ mem'[a] = Settled'[a]
<1>1. Settled' = Stored(mem, w) /\ mem \in [Addr -> Val]
  BY SucceedStep DEF MCASTypeOK
<1>2. CASE Gem5
  BY <1>1, <1>2 DEF Succeed, Store, StoreAll
<1>3. CASE ~Gem5
  <2>1. mem' = [mem EXCEPT ![Head(w).addr] = Head(w).new]
    BY <1>3 DEF Succeed, Store, StoreFirst
  <2> QED  BY <1>1, <2>1, FirstStoreSettles
<1> QED  BY <1>2, <1>3

\* The first store of a call is made with the step that succeeds.
LEMMA SucceedFirst ==
  ASSUME MCASTypeOK, NEW t \in Thread, NEW w \in Seq(Words), Distinct(w), w # <<>>, Succeed(t, w)
  PROVE  mem'[w[1].addr] = w[1].new
<1>1. Len(w) \in Nat /\ 1 \in 1 .. Len(w) /\ Head(w) = w[1] /\ w[1] \in Words /\ mem \in [Addr -> Val]
  BY LenProperties, EmptySeq, ElementOfSeq DEF MCASTypeOK
<1>2. CASE Gem5
  <2>1. mem' = Stored(mem, w)
    BY <1>2 DEF Succeed, Store, StoreAll
  <2> QED  BY <1>1, <2>1, StoredAt
<1>3. CASE ~Gem5
  <2>1. mem' = [mem EXCEPT ![Head(w).addr] = Head(w).new]
    BY <1>3 DEF Succeed, Store, StoreFirst
  <2> QED  BY <1>1, <2>1 DEF Words
<1> QED  BY <1>2, <1>3

LEMMA StoreNextSettles ==
  ASSUME MCASTypeOK, LockDiscipline, NEW t \in Thread, StoreNext(t), NEW a \in Addr
  PROVE  mem'[a] = mem[a] \/ mem'[a] = Settled'[a]
<1>1. /\ mem \in [Addr -> Val] /\ todo \in Seq(Words) /\ Distinct(todo) /\ todo # <<>>
      /\ mem' = [mem EXCEPT ![Head(todo).addr] = Head(todo).new]
  BY MCASAssumption DEF MCASTypeOK, LockDiscipline, Words, StoreNext, StoreFirst
<1>2. Settled' = Stored(mem, todo)
  BY StoreNextStep DEF Settled
<1> QED  BY <1>1, <1>2, FirstStoreSettles

\* A store of a word that no call is about to store: the structures make
\* them to nodes nobody else has.
LEMMA StoreElsewhere ==
  ASSUME MCASTypeOK, LockDiscipline, NEW a \in Addr, NEW v \in Val,
         \A i \in 1 .. Len(todo) : todo[i].addr # a,
         mem' = [mem EXCEPT ![a] = v], UNCHANGED <<lock, todo>>
  PROVE  /\ MCASTypeOK' /\ LockDiscipline'
         /\ Settled[a] = mem[a]
         /\ Settled' = [Settled EXCEPT ![a] = v]
<1>1. mem \in [Addr -> Val] /\ todo \in Seq(Words) /\ Distinct(todo) /\ DOMAIN todo = 1 .. Len(todo)
  BY LenProperties DEF MCASTypeOK, LockDiscipline, Words
<1>2. MCASTypeOK' /\ LockDiscipline'
  BY <1>1 DEF MCASTypeOK, LockDiscipline
<1>3. Settled[a] = mem[a] /\ Settled \in [Addr -> Val]
  BY <1>1, StoredAt DEF Settled
<1>4. mem' \in [Addr -> Val] /\ todo' = todo /\ Settled' = Stored(mem', todo)
  BY <1>1 DEF Settled
<1>5. Settled' \in [Addr -> Val] /\ Settled'[a] = v
  <2>1. Stored(mem', todo) \in [Addr -> Val] /\ Stored(mem', todo)[a] = mem'[a]
    BY <1>1, <1>4, StoredAt
  <2> QED  BY <2>1, <1>1, <1>4
<1>6. ASSUME NEW b \in Addr, b # a  PROVE Settled'[b] = Settled[b]
  BY <1>1, <1>4, <1>6 DEF Settled, Stored
<1> QED  BY <1>2, <1>3, <1>5, <1>6

\* Stores to words that no call is about to store.
LEMMA StoresElsewhere ==
  ASSUME MCASTypeOK, LockDiscipline, mem' \in [Addr -> Val], UNCHANGED <<lock, todo>>
  PROVE  /\ MCASTypeOK' /\ LockDiscipline'
         /\ \A a \in Addr : (\A i \in 1 .. Len(todo) : todo[i].addr # a) => Settled'[a] = mem'[a]
         /\ \A a \in Addr : mem'[a] = mem[a] => Settled'[a] = Settled[a]
<1>1. mem \in [Addr -> Val] /\ todo \in Seq(Words) /\ Distinct(todo) /\ Settled' = Stored(mem', todo)
  BY DEF MCASTypeOK, LockDiscipline, Words, Settled
<1>2. MCASTypeOK' /\ LockDiscipline'
  BY <1>1 DEF MCASTypeOK, LockDiscipline
<1>3. /\ \A i \in 1 .. Len(todo) : Stored(mem, todo)[todo[i].addr] = todo[i].new
      /\ \A a \in Addr : (\A i \in 1 .. Len(todo) : todo[i].addr # a) => Stored(mem, todo)[a] = mem[a]
  BY <1>1, StoredAt
<1>4. PICK m : m = mem'
  OBVIOUS
<1>5. /\ \A i \in 1 .. Len(todo) : Stored(m, todo)[todo[i].addr] = todo[i].new
      /\ \A a \in Addr : (\A i \in 1 .. Len(todo) : todo[i].addr # a) => Stored(m, todo)[a] = m[a]
  BY <1>1, <1>4, StoredAt
<1>6. Settled = Stored(mem, todo) /\ Settled' = Stored(m, todo)
  BY <1>1, <1>4 DEF Settled
<1> QED  BY <1>2, <1>3, <1>4, <1>5, <1>6

\* A set of numbers has a least element.
LEMMA Least ==
  ASSUME NEW S \in SUBSET Nat, S # {}
  PROVE  \E n \in S : \A k \in S : n <= k
<1> DEFINE R == OpToRel(<, Nat)
<1>1. IsWellFoundedOn(R, Nat)
  BY NatLessThanWellFounded
<1>2. ASSUME NEW i \in Nat, NEW j \in Nat, i < j PROVE <<i, j>> \in R
  BY <1>2 DEF OpToRel
<1> HIDE DEF R
<1>3. PICK n \in S : \A k \in S : ~ (<<k, n>> \in R)
  BY <1>1, WFMin
<1>4. ASSUME NEW k \in S PROVE n <= k
  <2>1. ~(k < n)
    BY <1>2, <1>3
  <2> QED  BY <2>1
<1> QED  BY <1>4

-----------------------------------------------------------------------------
(***************************************************************************)
(* The calls.                                                              *)
(***************************************************************************)

\* What a call is: a non-empty sequence of words at different addresses.
LEMMA CallsAreSequences ==
  ASSUME NEW w \in Calls
  PROVE  /\ w \in Seq(Words)
         /\ w # <<>>
         /\ Distinct(w)
<1>1. PICK k \in 1 .. MaxWords : w \in [1 .. k -> Words]
  BY DEF Calls, Words
<1>2. k \in Nat
  BY MCASCallsAssumption
<1>3. w \in Seq(Words)
  BY <1>1, <1>2, SeqDef
<1>4. w # <<>>
  <2>1. Len(w) = k /\ k # 0
    BY <1>1, <1>2, <1>3, LenProperties, SMT
  <2> QED  BY <2>1
<1> QED  BY <1>3, <1>4 DEF Calls

-----------------------------------------------------------------------------
(***************************************************************************)
(* The invariant.  The three invariants of MCASCalls need one more to be   *)
(* inductive: a call that has begun has words.                             *)
(***************************************************************************)
CallHasWords == \A t \in Thread : status[t] = "idle" <=> args[t] = <<>>

IInv == TypeOK /\ LockDiscipline /\ OwnerStores /\ CallHasWords

\* The words of a call that has begun are the words of the lemmas.
LEMMA CallWords ==
  ASSUME IInv, NEW t \in Thread, status[t] # "idle"
  PROVE  /\ args[t] \in Seq(Words)
         /\ args[t] # <<>>
         /\ Distinct(args[t])
BY CallsAreSequences DEF IInv, TypeOK, CallHasWords

LEMMA InitIInv == Init => IInv
<1> SUFFICES ASSUME Init PROVE IInv
  OBVIOUS
<1>1. TypeOK
  BY EmptySeq DEF Init, InitMCAS, TypeOK, MCASTypeOK
<1>2. LockDiscipline
  BY DEF Init, InitMCAS, LockDiscipline, Distinct
<1>3. OwnerStores /\ CallHasWords
  BY MCASAssumption DEF Init, InitMCAS, OwnerStores, CallHasWords
<1> QED  BY <1>1, <1>2, <1>3 DEF IInv

\* The invariant is preserved by every step of every thread.
LEMMA NextIInv == IInv /\ [Next]_vars => IInv'
<1> SUFFICES ASSUME IInv, [Next]_vars PROVE IInv'
  OBVIOUS
<1>1. TypeOK /\ LockDiscipline /\ OwnerStores /\ CallHasWords
  BY DEF IInv
<1> USE <1>1 DEF IInv
<1>2. ASSUME NEW t \in Thread, NEW w \in Calls, Invoke(t, w)  PROVE IInv'
  <2>1. w # <<>>
    BY CallsAreSequences
  <2>2. TypeOK'
    BY <1>2 DEF Invoke, NoStore, TypeOK, MCASTypeOK
  <2>3. LockDiscipline'
    BY <1>2 DEF Invoke, NoStore, LockDiscipline
  <2>4. OwnerStores'
    BY <1>2 DEF Invoke, NoStore, TypeOK, OwnerStores
  <2>5. CallHasWords'
    BY <1>2, <2>1 DEF Invoke, TypeOK, CallHasWords
  <2> QED  BY <2>2, <2>3, <2>4, <2>5
<1>3. ASSUME NEW t \in Thread, Exchange(t)  PROVE IInv'
  <2>1. /\ MCASTypeOK' /\ LockDiscipline'
        /\ lock = NoThread /\ lock' \in {t, NoThread}
        /\ lock' = t => /\ Len(todo') = Len(args[t]) - 1
                       /\ \A i \in 1 .. Len(todo') : todo'[i] = args[t][i + 1]
    BY <1>3, CallWords, SucceedStep DEF TypeOK, Exchange
  <2>2. /\ args' = args /\ status[t] = "called"
        /\ status' = [status EXCEPT ![t] = IF lock' = NoThread THEN "true" ELSE "storing"]
    BY <1>3 DEF Exchange, Returns
  <2>3. TypeOK'
    BY <2>1, <2>2 DEF TypeOK
  <2>4. OwnerStores'
    <3>1. args[t] \in Seq(Words) /\ todo' \in Seq(Words)
      BY <2>1, <2>2, CallWords DEF MCASTypeOK, Words
    <3>2. /\ Len(args[t]) \in Nat /\ Len(todo') \in Nat
          /\ DOMAIN todo' = 1 .. Len(todo')
      BY <3>1, LenProperties
    <3>3. ASSUME lock' = t
          PROVE  /\ Len(todo') < Len(args[t])
                 /\ \A i \in DOMAIN todo' : todo'[i] = args[t][Len(args[t]) - Len(todo') + i]
      <4>1. Len(args[t]) - Len(todo') = 1
        BY <2>1, <3>2, <3>3
      <4>2. \A i \in DOMAIN todo' : todo'[i] = args[t][1 + i]
        BY <2>1, <3>2, <3>3
      <4> QED  BY <3>2, <4>1, <4>2
    <3>4. \A u \in Thread : status'[u] = "storing" <=> lock' = u
      BY <2>1, <2>2, MCASAssumption DEF TypeOK, OwnerStores
    <3> QED  BY <2>1, <2>2, <3>3, <3>4, MCASAssumption DEF OwnerStores
  <2>5. CallHasWords'
    BY <2>2 DEF TypeOK, CallHasWords
  <2> QED  BY <2>1, <2>3, <2>4, <2>5
<1>4. ASSUME NEW t \in Thread, Continue(t)  PROVE IInv'
  <2>1. /\ MCASTypeOK' /\ LockDiscipline'
        /\ lock = t /\ lock' \in {t, NoThread}
        /\ Len(todo') = Len(todo) - 1
        /\ \A i \in 1 .. Len(todo') : todo'[i] = todo[i + 1]
    BY <1>4, StoreNextStep DEF TypeOK, Continue
  <2>2. /\ args' = args /\ status[t] = "storing"
        /\ status' = [status EXCEPT ![t] = IF lock' = NoThread THEN "true" ELSE "storing"]
    BY <1>4 DEF Continue, Returns
  <2>3. TypeOK'
    BY <2>1, <2>2 DEF TypeOK
  <2>4. OwnerStores'
    <3>1. args[t] \in Seq(Words) /\ todo \in Seq(Words) /\ todo' \in Seq(Words)
      BY <2>1, <2>2, CallWords DEF TypeOK, MCASTypeOK, Words
    <3>2. /\ Len(args[t]) \in Nat /\ Len(todo) \in Nat /\ Len(todo') \in Nat
          /\ DOMAIN todo = 1 .. Len(todo) /\ DOMAIN todo' = 1 .. Len(todo')
      BY <3>1, LenProperties
    <3>3. /\ Len(todo') < Len(args[t])
          /\ \A i \in DOMAIN todo' : todo'[i] = args[t][Len(args[t]) - Len(todo') + i]
      <4>1. Len(todo) < Len(args[t])
        BY <2>1 DEF OwnerStores
      <4>2. \A j \in DOMAIN todo : todo[j] = args[t][Len(args[t]) - Len(todo) + j]
        BY <2>1 DEF OwnerStores
      <4>3. ASSUME NEW i \in DOMAIN todo'
            PROVE  todo'[i] = args[t][Len(args[t]) - Len(todo') + i]
        <5>1. i \in Nat /\ i + 1 \in DOMAIN todo /\ todo'[i] = todo[i + 1]
          BY <2>1, <3>2
        <5>2. \A a, b, c, j \in Nat : c = b - 1 => a - b + (j + 1) = a - c + j
          OBVIOUS
        <5>3. /\ i \in Nat /\ Len(todo') = Len(todo) - 1
              /\ Len(args[t]) \in Nat /\ Len(todo) \in Nat /\ Len(todo') \in Nat
          BY <5>1, <2>1, <3>2
        <5>4. Len(args[t]) - Len(todo) + (i + 1) = Len(args[t]) - Len(todo') + i
          BY <5>2, <5>3
        <5> QED  BY <5>1, <5>4, <4>2
      <4> QED  BY <2>1, <3>2, <4>1, <4>3
    <3>4. \A u \in Thread : status'[u] = "storing" <=> lock' = u
      BY <2>1, <2>2, MCASAssumption DEF TypeOK, OwnerStores
    <3> QED  BY <2>1, <2>2, <3>3, <3>4, MCASAssumption DEF OwnerStores
  <2>5. CallHasWords'
    BY <2>2 DEF TypeOK, CallHasWords
  <2> QED  BY <2>1, <2>3, <2>4, <2>5
<1>5. ASSUME NEW t \in Thread, Reject(t)  PROVE IInv'
  BY <1>5 DEF Reject, Fail, NoStore, TypeOK, MCASTypeOK, LockDiscipline, OwnerStores, CallHasWords
<1>6. ASSUME NEW t \in Thread, Return(t)  PROVE IInv'
  <2>1. TypeOK' /\ LockDiscipline' /\ CallHasWords'
    BY <1>6 DEF Return, NoStore, TypeOK, MCASTypeOK, LockDiscipline, CallHasWords
  <2>2. OwnerStores'
    BY <1>6 DEF Return, NoStore, TypeOK, OwnerStores
  <2> QED  BY <2>1, <2>2
<1>7. CASE UNCHANGED vars
  BY <1>7 DEF vars, TypeOK, MCASTypeOK, LockDiscipline, OwnerStores, CallHasWords
<1> QED  BY <1>2, <1>3, <1>4, <1>5, <1>6, <1>7 DEF Next, Step

\* Every reachable state has the types, the lock is held exactly while stores
\* are pending, and its owner stores the words it was called with, in order
\* (mcas.h:86-152).
THEOREM Invariant == Spec => []IInv
<1> QED  BY InitIInv, NextIInv, PTL DEF Spec

\* Every variable keeps its type: no call stores outside its words.
THEOREM TypeCorrect == Spec => []TypeOK
<1> QED  BY Invariant, PTL DEF IInv

\* Between a call's first store and its last nobody else stores: only the
\* thread at its stores owns the lock, and what it has left is what it was
\* called with.
THEOREM LockIsSound == Spec => [](LockDiscipline /\ OwnerStores)
<1> QED  BY Invariant, PTL DEF IInv

-----------------------------------------------------------------------------
(***************************************************************************)
(* Refinement.  The abstract memory is Settled, the memory once the owner  *)
(* of the lock has made its stores; a call takes effect at its first one   *)
(* and the stores that follow are stuttering steps.                        *)
(***************************************************************************)

\* The abstract status of the calls.
AStatus == [t \in Thread |-> IF status[t] = "storing" THEN "true" ELSE status[t]]

LEMMA RefineInit == Init => Abstract!Init
<1> SUFFICES ASSUME Init PROVE Abstract!Init
  OBVIOUS
<1>1. Settled = mem
  BY InitIInv, SettledFacts DEF IInv, TypeOK, Init, InitMCAS
<1> QED  BY <1>1 DEF Init, Abstract!Init

\* Every step of a thread is a step of AtomicMCAS or leaves its state alone.
LEMMA RefineNext == IInv /\ IInv' /\ [Next]_vars => [Abstract!Next]_(Abstract!vars)
<1> SUFFICES ASSUME IInv, IInv', [Next]_vars
             PROVE  Abstract!Next \/ UNCHANGED <<Settled, args, AStatus>>
  BY DEF Abstract!vars, AStatus
<1>1. status \in [Thread -> {"idle", "called", "storing", "true", "false"}]
  BY DEF IInv, TypeOK
<1>2. ASSUME NEW t \in Thread, NEW w \in Calls, Invoke(t, w)
      PROVE  Abstract!Next
  <2>1. Settled' = Settled
    BY <1>2 DEF Invoke, NoStore, Settled
  <2>2. w \in Abstract!Calls
    BY DEF Calls, Abstract!Calls, Distinct, Words
  <2>3. AStatus' = [AStatus EXCEPT ![t] = "called"]
    BY <1>1, <1>2 DEF Invoke, AStatus
  <2>4. Abstract!Invoke(t, w)
    BY <1>1, <1>2, <2>1, <2>3 DEF Invoke, Abstract!Invoke, AStatus
  <2> QED  BY <2>2, <2>4 DEF Abstract!Next
<1>3. ASSUME NEW t \in Thread, Exchange(t)
      PROVE  Abstract!Next
  <2>1. /\ status[t] = "called" /\ args' = args
        /\ status' = [status EXCEPT ![t] = IF lock' = NoThread THEN "true" ELSE "storing"]
    BY <1>3 DEF Exchange, Returns
  <2>2. Settled' = Stored(mem, args[t])
    BY <1>3, <2>1, CallWords, SucceedStep DEF IInv, TypeOK, Exchange
  <2>3. Settled = mem /\ DOMAIN mem = Addr
    BY <1>3, SettledFacts DEF IInv, TypeOK, MCASTypeOK, Exchange, Succeed
  <2>4. AStatus' = [AStatus EXCEPT ![t] = "true"]
    BY <1>1, <2>1 DEF AStatus
  <2>5. AStatus[t] = "called"
    BY <2>1 DEF AStatus
  <2>6. \A i \in DOMAIN args[t] : Settled[args[t][i].addr] = args[t][i].old
    BY <1>3, <2>3 DEF Exchange, Succeed, Matches
  <2>7. Abstract!Exchange(t)
    BY <2>1, <2>2, <2>3, <2>4, <2>5, <2>6 DEF Abstract!Exchange, Stored, AStatus
  <2> QED  BY <2>7 DEF Abstract!Next
<1>4. ASSUME NEW t \in Thread, Continue(t)
      PROVE  UNCHANGED <<Settled, args, AStatus>>
  <2>1. Settled' = Settled
    BY <1>4, StoreNextStep DEF IInv, TypeOK, Continue
  <2>2. args' = args /\ AStatus' = AStatus
    BY <1>1, <1>4 DEF Continue, Returns, AStatus
  <2> QED  BY <2>1, <2>2
<1>5. ASSUME NEW t \in Thread, Reject(t)
      PROVE  Abstract!Next
  <2>1. Settled' = Settled /\ Settled = mem
    BY <1>5, SettledFacts DEF IInv, TypeOK, Reject, Fail, NoStore, Settled
  <2>2. AStatus' = [AStatus EXCEPT ![t] = "false"] /\ AStatus[t] = "called"
    BY <1>1, <1>5 DEF Reject, AStatus
  <2>3. \E i \in DOMAIN args[t] : Settled[args[t][i].addr] # args[t][i].old
    BY <1>5, <2>1 DEF Reject, Fail, Matches
  <2>4. Abstract!Reject(t)
    BY <1>5, <2>1, <2>2, <2>3 DEF Reject, Abstract!Reject, AStatus
  <2> QED  BY <2>4 DEF Abstract!Next
<1>6. ASSUME NEW t \in Thread, Return(t)
      PROVE  Abstract!Next
  <2>1. Settled' = Settled
    BY <1>6 DEF Return, NoStore, Settled
  <2>2. AStatus' = [AStatus EXCEPT ![t] = "idle"] /\ AStatus[t] \in {"true", "false"}
    BY <1>1, <1>6 DEF Return, AStatus
  <2>3. Abstract!Return(t)
    BY <1>6, <2>1, <2>2 DEF Return, Abstract!Return, AStatus
  <2> QED  BY <2>3 DEF Abstract!Next
<1>7. CASE UNCHANGED vars
  BY <1>7 DEF vars, Settled, AStatus
<1> QED  BY <1>2, <1>3, <1>4, <1>5, <1>6, <1>7 DEF Next, Step

\* cas, dcas, tcas and qcas, called by any number of threads with any words,
\* are atomic to each other (mcas.h:88-152), although a successful call of
\* the mutex build stores its words in several steps.
THEOREM CallsAreAtomic == Spec => Atomic
<1>1. Init /\ []IInv /\ [][Next]_vars => Atomic
  BY RefineInit, RefineNext, PTL DEF Atomic, Abstract!Spec
<1> QED  BY <1>1, Invariant, PTL DEF Spec
=============================================================================
