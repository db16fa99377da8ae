------------------------ MODULE McasBenchmarksProofs ------------------------
(***************************************************************************)
(* Proofs about McasBenchmarks, for any number of workers, any width of    *)
(* the counters, any number of rows, buckets, nodes and keys and both      *)
(* builds of mcas.h.  Multi-word object: no update is lost, made twice or  *)
(* split, and none that saw a torn object succeeds.  Array: every swap is  *)
(* made at one instant, and no element is lost or in two rows.  Hash map:  *)
(* every call takes effect at one instant, sees the nodes that are in the  *)
(* map all through it, and leaves the lists of the buckets whole.          *)
(***************************************************************************)
EXTENDS McasBenchmarks, TLAPS, SequenceTheorems, FiniteSetTheorems, WellFoundedInduction

\* The lemmas of MCASProofs about the counters; they do not mention the callers of
\* MCASCalls, its last three parameters.
O == INSTANCE MCASProofs WITH Addr <- Object!Field, Val <- 0 .. Modulus - 1,
                        MaxWords <- 4, args <- seen, status <- seen

\* The two instances of MCAS are the same.
LEMMA ObjectSame ==
  /\ Object!M!MCASTypeOK <=> O!MCASTypeOK
  /\ Object!M!LockDiscipline <=> O!LockDiscipline
  /\ Object!M!NoStore <=> O!NoStore
  /\ Object!M!Settled = O!Settled /\ Object!M!Settled' = O!Settled'
  /\ \A m, w : Object!M!Stored(m, w) = O!Stored(m, w)
  /\ \A w : Object!M!Distinct(w) <=> O!Distinct(w)
  /\ \A t, w : Object!M!Succeed(t, w) <=> O!Succeed(t, w)
  /\ \A t : Object!M!StoreNext(t) <=> O!StoreNext(t)
BY DEF Object!M!MCASTypeOK, O!MCASTypeOK, Object!M!LockDiscipline, O!LockDiscipline,
       Object!M!NoStore, O!NoStore, Object!M!Settled, O!Settled, Object!M!Stored, O!Stored,
       Object!M!Distinct, O!Distinct, Object!M!Succeed, O!Succeed, Object!M!StoreNext, O!StoreNext,
       Object!M!Words, O!Words, Object!M!Matches, O!Matches, Object!M!Store, O!Store,
       Object!M!StoreAll, O!StoreAll, Object!M!StoreFirst, O!StoreFirst

\* What MCASProofs assumes of its constants.
LEMMA ObjectAssumed == O!MCASAssumption /\ O!MCASCallsAssumption
BY McasArraysAssumption DEF O!MCASAssumption, O!MCASCallsAssumption

\* What a counter can hold.
Value == 0 .. Modulus - 1

\* The arguments of a qcas are four words at different addresses.
LEMMA IncrementIsCall ==
  ASSUME NEW s \in [Object!Field -> Value]
  PROVE  /\ Object!Increment(s) \in Seq(O!Words)
         /\ O!Distinct(Object!Increment(s))
         /\ Object!Increment(s) # <<>>
         /\ Len(Object!Increment(s)) = 4
<1> DEFINE w == Object!Increment(s)
<1>1. \A i \in Object!Field : w[i].addr = i /\ w[i] \in O!Words
  <2>1. \A i \in Object!Field : (s[i] + 1) % Modulus \in Value
    BY McasArraysAssumption DEF Value
  <2> QED  BY <2>1 DEF Object!Increment, Object!M!Word, O!Words, Value, Object!Field
<1>2. w \in [Object!Field -> O!Words]
  BY <1>1 DEF Object!Increment
<1>3. w \in Seq(O!Words)
  <2>1. \A S : [1 .. 4 -> S] \subseteq Seq(S)
    <3>1. \A S : \A n \in Nat : [1 .. n -> S] \subseteq Seq(S)
      BY SeqDef
    <3>2. 4 \in Nat
      OBVIOUS
    <3> QED  BY <3>1, <3>2, Zenon
  <2> QED  BY <1>2, <2>1, Zenon DEF Object!Field
<1>4. DOMAIN w = 1 .. 4 /\ Len(w) = 4
  BY <1>2, <1>3, LenProperties DEF Object!Field
<1>5. w # <<>>
  <2>1. Len(<<>>) = 0
    OBVIOUS
  <2>2. 4 # 0
    OBVIOUS
  <2> QED  BY <1>4, <2>1, <2>2, Zenon
<1>6. O!Distinct(w)
  BY <1>1, <1>4 DEF O!Distinct, Object!Field
<1> QED  BY <1>3, <1>4, <1>5, <1>6

\* Once a qcas has made all its stores, every counter it saw is one higher.
LEMMA IncrementStored ==
  ASSUME NEW s \in [Object!Field -> Value], NEW m \in [Object!Field -> Value]
  PROVE  O!Stored(m, Object!Increment(s)) = [f \in Object!Field |-> (s[f] + 1) % Modulus]
<1> DEFINE w == Object!Increment(s)
<1>1. \A i \in Object!Field : w[i].addr = i /\ w[i].new = (s[i] + 1) % Modulus
  BY DEF Object!Increment, Object!M!Word
<1>2. /\ O!Stored(m, w) \in [Object!Field -> Value]
      /\ \A i \in 1 .. Len(w) : O!Stored(m, w)[w[i].addr] = w[i].new
  BY IncrementIsCall, O!StoredAt, ObjectAssumed DEF Value
<1>3. \A i \in Object!Field : O!Stored(m, w)[i] = (s[i] + 1) % Modulus
  BY <1>1, <1>2, IncrementIsCall DEF Object!Field
<1> QED  BY <1>2, <1>3

-----------------------------------------------------------------------------
(***************************************************************************)
(* The invariant.  TypeOK needs more to be inductive: only a worker with   *)
(* an update left loads counters, only one that has loaded all four is at  *)
(* its stores.  TornLoadsLose needs the counters to be equal once the qcas *)
(* under way is over.                                                      *)
(***************************************************************************)
AtQcas == \A t \in Thread :
  /\ seen[t] # <<>> => left[t] > 0
  /\ lock = t => Len(seen[t]) = 4

Together == \A f, g \in Object!Field : O!Settled[f] = O!Settled[g]

ObjectOK ==
  /\ O!MCASTypeOK
  /\ O!LockDiscipline
  /\ seen \in [Thread -> UNION {[1 .. n -> Value] : n \in 0 .. 4}]
  /\ left \in [Thread -> 0 .. Updates]
  /\ AtQcas
  /\ Together

\* The invariant says more than the types.
LEMMA ObjectTypes == ObjectOK => Object!TypeOK
BY ObjectSame DEF ObjectOK, Object!TypeOK, Value

\* The local variables of a worker, as sequences.
LEMMA ObjectSeenFacts ==
  ASSUME ObjectOK, NEW t \in Thread
  PROVE  /\ seen[t] \in Seq(Value)
         /\ Len(seen[t]) \in 0 .. 4
         /\ Len(seen[t]) = 4 => seen[t] \in [Object!Field -> Value] /\ seen[t] # <<>>
<1>1. PICK n \in 0 .. 4 : seen[t] \in [1 .. n -> Value]
  BY DEF ObjectOK
<1>2. seen[t] \in Seq(Value) /\ Len(seen[t]) = n
  <2>1. n \in Nat
    OBVIOUS
  <2>2. seen[t] \in Seq(Value)
    BY <1>1, <2>1, SeqDef
  <2> QED  BY <1>1, <2>1, <2>2, LenProperties
<1>3. Len(seen[t]) = 4 => seen[t] \in [Object!Field -> Value]
  BY <1>1, <1>2 DEF Object!Field
<1>4. Len(seen[t]) = 4 => seen[t] # <<>>
  OBVIOUS
<1> QED  BY <1>2, <1>3, <1>4

\* The counters start at zero, and no worker is inside an update.
LEMMA ObjectInitOK == Object!Init => ObjectOK
<1> SUFFICES ASSUME Object!Init PROVE ObjectOK
  OBVIOUS
<1>1. lock = NoThread /\ todo = <<>> /\ mem = [f \in Object!Field |-> 0]
  BY DEF Object!Init, Object!M!InitMCAS
<1>2. 0 \in Value
  BY McasArraysAssumption DEF Value
<1>3. O!MCASTypeOK /\ O!LockDiscipline
  BY <1>1, <1>2, EmptySeq DEF O!MCASTypeOK, O!LockDiscipline, O!Distinct, Value
<1>4. O!Settled = mem
  BY <1>1, <1>3, O!SettledFacts, ObjectAssumed
<1>5. Together
  BY <1>1, <1>4 DEF Together
<1>6. <<>> \in [1 .. 0 -> Value]
  OBVIOUS
<1>7. seen \in [Thread -> UNION {[1 .. n -> Value] : n \in 0 .. 4}]
  BY <1>6 DEF Object!Init
<1>8. left \in [Thread -> 0 .. Updates]
  BY McasArraysAssumption DEF Object!Init
<1>9. AtQcas
  BY <1>1, McasArraysAssumption DEF Object!Init, AtQcas
<1> QED  BY <1>3, <1>5, <1>7, <1>8, <1>9 DEF ObjectOK

\* The counters after the first step of a successful qcas.
LEMMA QcasStep ==
  ASSUME ObjectOK, NEW t \in Thread, Object!QcasSucceeds(t)
  PROVE  /\ O!MCASTypeOK' /\ O!LockDiscipline'
         /\ O!Settled = mem
         /\ \A f \in Object!Field : mem[f] = seen[t][f]
         /\ O!Settled' = [f \in Object!Field |-> (O!Settled[f] + 1) % Modulus]
         /\ lock = NoThread /\ lock' \in {t, NoThread}
<1> DEFINE w == Object!Increment(seen[t])
<1>1. O!Succeed(t, w) /\ Len(seen[t]) = 4
  BY ObjectSame DEF Object!QcasSucceeds
<1>2. seen[t] \in [Object!Field -> Value]
  BY <1>1, ObjectSeenFacts
<1>3. w \in Seq(O!Words) /\ O!Distinct(w) /\ w # <<>>
  BY <1>2, IncrementIsCall
<1>4. O!MCASTypeOK /\ O!LockDiscipline /\ mem \in [Object!Field -> Value]
  BY DEF ObjectOK, O!MCASTypeOK, Value
<1>5. /\ O!MCASTypeOK' /\ O!LockDiscipline'
      /\ O!Settled = mem
      /\ O!Settled' = O!Stored(mem, w)
      /\ lock = NoThread /\ lock' \in {t, NoThread}
  <2> HIDE DEF w
  <2> QED  BY <1>1, <1>3, <1>4, O!SucceedStep, ObjectAssumed
<1>6. \A f \in Object!Field : mem[f] = seen[t][f]
  BY <1>1 DEF O!Succeed, O!Matches, Object!Increment, Object!M!Word
<1>7. O!Stored(mem, w) = [f \in Object!Field |-> (seen[t][f] + 1) % Modulus]
  BY <1>2, <1>4, IncrementStored
<1>8. [f \in Object!Field |-> (seen[t][f] + 1) % Modulus] = [f \in Object!Field |-> (O!Settled[f] + 1) % Modulus]
  BY <1>5, <1>6
<1> QED  BY <1>5, <1>6, <1>7, <1>8

\* The later stores of a qcas settle nothing anew.
LEMMA ObjectStoresStep ==
  ASSUME ObjectOK, NEW t \in Thread, Object!QcasStores(t)
  PROVE  /\ O!MCASTypeOK' /\ O!LockDiscipline'
         /\ O!Settled' = O!Settled
         /\ lock = t /\ lock' \in {t, NoThread}
<1>1. O!StoreNext(t) /\ O!MCASTypeOK /\ O!LockDiscipline
  BY ObjectSame DEF Object!QcasStores, ObjectOK
<1> QED  BY <1>1, O!StoreNextStep, ObjectAssumed

\* A step without a store settles nothing anew.
LEMMA ObjectQuietStep ==
  ASSUME ObjectOK, O!NoStore
  PROVE  /\ O!MCASTypeOK' /\ O!LockDiscipline'
         /\ O!Settled' = O!Settled /\ lock' = lock
BY O!NoStoreStep, ObjectAssumed DEF ObjectOK, O!NoStore

\* What Advance does to the worker's local variables.
LEMMA ObjectAdvanceStep ==
  ASSUME ObjectOK, NEW t \in Thread, Object!Advance(t), Len(seen[t]) = 4, lock \in {t, NoThread}, lock' \in {t, NoThread}
  PROVE  /\ seen' \in [Thread -> UNION {[1 .. n -> Value] : n \in 0 .. 4}]
         /\ left' \in [Thread -> 0 .. Updates]
         /\ AtQcas'
<1>1. left[t] \in 1 .. Updates
  <2>1. seen[t] # <<>>
    BY ObjectSeenFacts
  <2> QED  BY <2>1, McasArraysAssumption DEF ObjectOK, AtQcas
<1>2. <<>> \in [1 .. 0 -> Value]
  OBVIOUS
<1>3. CASE lock' = NoThread
  <2>1. seen' = [seen EXCEPT ![t] = <<>>] /\ left' = [left EXCEPT ![t] = @ - 1]
    BY <1>3 DEF Object!Advance, Object!M!Returns
  <2>2. seen' \in [Thread -> UNION {[1 .. n -> Value] : n \in 0 .. 4}]
    BY <1>2, <2>1 DEF ObjectOK
  <2>3. left[t] - 1 \in 0 .. Updates
    BY <1>1, McasArraysAssumption
  <2>4. left' \in [Thread -> 0 .. Updates]
    BY <2>1, <2>3 DEF ObjectOK
  <2>5. AtQcas'
    BY <1>3, <2>1, McasArraysAssumption DEF ObjectOK, AtQcas
  <2> QED  BY <2>2, <2>4, <2>5
<1>4. CASE lock' # NoThread
  <2>1. seen' = seen /\ left' = left /\ lock' = t
    BY <1>4 DEF Object!Advance, Object!M!Returns
  <2>2. AtQcas'
    BY <2>1 DEF ObjectOK, AtQcas
  <2> QED  BY <2>1, <2>2 DEF ObjectOK
<1> QED  BY <1>3, <1>4

\* A step of a worker, or none.
ObjectNext == (\E t \in Thread : Object!Step(t)) \/ UNCHANGED <<mem, lock, todo, seen, left>>

\* Every step of an update keeps the invariant.
LEMMA ObjectNextOK == ObjectOK /\ ObjectNext => ObjectOK'
<1> SUFFICES ASSUME ObjectOK, ObjectNext PROVE ObjectOK'
  OBVIOUS
<1>1. ASSUME NEW t \in Thread, Object!Load(t)  PROVE ObjectOK'
  <2>1. O!NoStore
    BY <1>1, ObjectSame DEF Object!Load
  <2>2. O!MCASTypeOK' /\ O!LockDiscipline' /\ O!Settled' = O!Settled /\ lock' = lock
    BY <2>1, ObjectQuietStep
  <2>3. left' = left /\ left[t] > 0 /\ Len(seen[t]) < 4
        /\ seen' = [seen EXCEPT ![t] = Append(@, mem[Len(@) + 1])]
    BY <1>1 DEF Object!Load
  <2>4. PICK n \in 0 .. 3 : Len(seen[t]) = n
    <3>1. Len(seen[t]) \in 0 .. 4
      BY ObjectSeenFacts
    <3> QED  BY <3>1, <2>3
  <2>5. mem[n + 1] \in Value
    BY <2>4 DEF ObjectOK, O!MCASTypeOK, Value, Object!Field
  <2>6. Append(seen[t], mem[n + 1]) \in [1 .. n + 1 -> Value]
    <3>1. seen[t] \in Seq(Value)
      BY ObjectSeenFacts
    <3>2. /\ Append(seen[t], mem[n + 1]) \in Seq(Value)
          /\ Len(Append(seen[t], mem[n + 1])) = n + 1
      BY <3>1, <2>4, <2>5, AppendProperties
    <3> QED  BY <3>2, LenProperties
  <2>7. seen' \in [Thread -> UNION {[1 .. k -> Value] : k \in 0 .. 4}]
    <3>1. n + 1 \in 0 .. 4
      OBVIOUS
    <3> QED  BY <2>3, <2>4, <2>6, <3>1 DEF ObjectOK
  <2>8. lock # t
    <3>1. lock = t => Len(seen[t]) = 4
      BY DEF ObjectOK, AtQcas
    <3> QED  BY <2>4, <3>1
  <2>9. AtQcas'
    BY <2>2, <2>3, <2>8 DEF ObjectOK, AtQcas
  <2> QED  BY <2>2, <2>3, <2>7, <2>9 DEF ObjectOK, Together
<1>2. ASSUME NEW t \in Thread, Object!QcasSucceeds(t)  PROVE ObjectOK'
  <2>1. /\ O!MCASTypeOK' /\ O!LockDiscipline'
        /\ O!Settled' = [f \in Object!Field |-> (O!Settled[f] + 1) % Modulus]
        /\ lock = NoThread /\ lock' \in {t, NoThread}
    BY <1>2, QcasStep
  <2>2. Object!Advance(t) /\ Len(seen[t]) = 4
    BY <1>2 DEF Object!QcasSucceeds
  <2>3. /\ seen' \in [Thread -> UNION {[1 .. n -> Value] : n \in 0 .. 4}]
        /\ left' \in [Thread -> 0 .. Updates]
        /\ AtQcas'
    BY <2>1, <2>2, ObjectAdvanceStep
  <2>4. Together'
    BY <2>1 DEF ObjectOK, Together
  <2> QED  BY <2>1, <2>3, <2>4 DEF ObjectOK
<1>3. ASSUME NEW t \in Thread, Object!QcasStores(t)  PROVE ObjectOK'
  <2>1. /\ O!MCASTypeOK' /\ O!LockDiscipline' /\ O!Settled' = O!Settled
        /\ lock = t /\ lock' \in {t, NoThread}
    BY <1>3, ObjectStoresStep
  <2>2. Object!Advance(t) /\ Len(seen[t]) = 4
    BY <1>3, <2>1 DEF Object!QcasStores, ObjectOK, AtQcas
  <2>3. /\ seen' \in [Thread -> UNION {[1 .. n -> Value] : n \in 0 .. 4}]
        /\ left' \in [Thread -> 0 .. Updates]
        /\ AtQcas'
    BY <2>1, <2>2, ObjectAdvanceStep
  <2> QED  BY <2>1, <2>3 DEF ObjectOK, Together
<1>4. ASSUME NEW t \in Thread, Object!QcasFails(t)  PROVE ObjectOK'
  <2>1. O!NoStore /\ lock = NoThread /\ left' = left /\ seen' = [seen EXCEPT ![t] = <<>>]
    BY <1>4, ObjectSame DEF Object!QcasFails, Object!M!Fail
  <2>2. O!MCASTypeOK' /\ O!LockDiscipline' /\ O!Settled' = O!Settled /\ lock' = lock
    BY <2>1, ObjectQuietStep
  <2>3. <<>> \in [1 .. 0 -> Value]
    OBVIOUS
  <2>4. seen' \in [Thread -> UNION {[1 .. n -> Value] : n \in 0 .. 4}]
    BY <2>1, <2>3 DEF ObjectOK
  <2>5. AtQcas'
    BY <2>1, <2>2, McasArraysAssumption DEF ObjectOK, AtQcas
  <2> QED  BY <2>1, <2>2, <2>4, <2>5 DEF ObjectOK, Together
<1>5. CASE UNCHANGED <<mem, lock, todo, seen, left>>
  <2>1. O!NoStore /\ seen' = seen /\ left' = left
    BY <1>5 DEF O!NoStore
  <2>2. O!MCASTypeOK' /\ O!LockDiscipline' /\ O!Settled' = O!Settled /\ lock' = lock
    BY <2>1, ObjectQuietStep
  <2>3. AtQcas'
    BY <2>1, <2>2 DEF ObjectOK, AtQcas
  <2> QED  BY <2>1, <2>2, <2>3 DEF ObjectOK, Together
<1> QED  BY <1>1, <1>2, <1>3, <1>4, <1>5 DEF ObjectNext, Object!Step

-----------------------------------------------------------------------------
(***************************************************************************)
(* Refinement: an update is made at the first store of its qcas.           *)
(***************************************************************************)

\* The updates the workers have still to make.
ObjectALeft == [t \in Thread |-> IF lock = t THEN left[t] - 1 ELSE left[t]]

\* The counters start as those of MWObjectSpec.
LEMMA ObjectRefineInit == Object!Init => Object!Abstract!Init
<1> SUFFICES ASSUME Object!Init PROVE Object!Abstract!Init
  OBVIOUS
<1>1. lock = NoThread /\ ObjectOK
  BY ObjectInitOK DEF Object!Init, Object!M!InitMCAS
<1>2. Object!M!Settled = mem
  BY <1>1, ObjectSame, O!SettledFacts, ObjectAssumed DEF ObjectOK
<1>3. ObjectALeft = left
  BY <1>1, McasArraysAssumption DEF ObjectALeft, ObjectOK
<1> QED  BY <1>2, <1>3 DEF Object!Init, Object!Abstract!Init, ObjectALeft

\* Every step of an update is one of MWObjectSpec, or changes nothing there.
LEMMA ObjectRefineNext == ObjectOK /\ ObjectNext => [Object!Abstract!Next]_(Object!Abstract!vars)
<1> SUFFICES ASSUME ObjectOK, ObjectNext
             PROVE  Object!Abstract!Next \/ UNCHANGED <<O!Settled, ObjectALeft>>
  BY ObjectSame DEF Object!Abstract!vars, ObjectALeft
<1>1. ASSUME NEW t \in Thread, Object!Load(t)  PROVE UNCHANGED <<O!Settled, ObjectALeft>>
  <2>1. O!NoStore /\ left' = left
    BY <1>1, ObjectSame DEF Object!Load
  <2> QED  BY <2>1, ObjectQuietStep DEF ObjectALeft
<1>2. ASSUME NEW t \in Thread, Object!QcasSucceeds(t)  PROVE Object!Abstract!Next
  <2>1. /\ O!Settled' = [f \in Object!Field |-> (O!Settled[f] + 1) % Modulus]
        /\ lock = NoThread /\ lock' \in {t, NoThread}
    BY <1>2, QcasStep
  <2>2. left[t] \in Nat /\ left[t] > 0
    <3>1. seen[t] # <<>>
      BY <1>2, ObjectSeenFacts DEF Object!QcasSucceeds
    <3> QED  BY <3>1, McasArraysAssumption DEF ObjectOK, AtQcas
  <2>3. ObjectALeft = left
    BY <2>1, McasArraysAssumption DEF ObjectALeft, ObjectOK
  <2>4. ObjectALeft' = [left EXCEPT ![t] = @ - 1]
    <3>1. CASE lock' = NoThread
      <4>1. left' = [left EXCEPT ![t] = @ - 1]
        BY <1>2, <3>1 DEF Object!QcasSucceeds, Object!Advance, Object!M!Returns
      <4> QED  BY <3>1, <4>1, McasArraysAssumption DEF ObjectALeft, ObjectOK
    <3>2. CASE lock' # NoThread
      <4>1. left' = left /\ lock' = t
        BY <1>2, <2>1, <3>2 DEF Object!QcasSucceeds, Object!Advance, Object!M!Returns
      <4> QED  BY <4>1 DEF ObjectALeft, ObjectOK
    <3> QED  BY <3>1, <3>2
  <2>5. Object!Abstract!Update(t)
    BY <2>1, <2>2, <2>3, <2>4, ObjectSame DEF Object!Abstract!Update, ObjectALeft
  <2> QED  BY <2>5 DEF Object!Abstract!Next
<1>3. ASSUME NEW t \in Thread, Object!QcasStores(t)  PROVE UNCHANGED <<O!Settled, ObjectALeft>>
  <2>1. O!Settled' = O!Settled /\ lock = t /\ lock' \in {t, NoThread}
    BY <1>3, ObjectStoresStep
  <2>2. ObjectALeft' = ObjectALeft
    <3>1. CASE lock' = NoThread
      <4>1. left' = [left EXCEPT ![t] = @ - 1]
        BY <1>3, <3>1 DEF Object!QcasStores, Object!Advance, Object!M!Returns
      <4> QED  BY <2>1, <3>1, <4>1, McasArraysAssumption DEF ObjectALeft, ObjectOK
    <3>2. CASE lock' # NoThread
      <4>1. left' = left /\ lock' = t
        BY <1>3, <2>1, <3>2 DEF Object!QcasStores, Object!Advance, Object!M!Returns
      <4> QED  BY <2>1, <4>1 DEF ObjectALeft
    <3> QED  BY <3>1, <3>2
  <2> QED  BY <2>1, <2>2
<1>4. ASSUME NEW t \in Thread, Object!QcasFails(t)  PROVE UNCHANGED <<O!Settled, ObjectALeft>>
  <2>1. O!NoStore /\ left' = left
    BY <1>4, ObjectSame DEF Object!QcasFails, Object!M!Fail
  <2> QED  BY <2>1, ObjectQuietStep DEF ObjectALeft
<1>5. CASE UNCHANGED <<mem, lock, todo, seen, left>>
  <2>1. O!NoStore /\ left' = left
    BY <1>5 DEF O!NoStore
  <2> QED  BY <2>1, ObjectQuietStep DEF ObjectALeft
<1> QED  BY <1>1, <1>2, <1>3, <1>4, <1>5 DEF ObjectNext, Object!Step

-----------------------------------------------------------------------------
\* The lemmas of MCASProofs about the rows; they do not mention the callers of
\* MCASCalls, its last three parameters.
A == INSTANCE MCASProofs WITH Addr <- Array!Row, Val <- Array!Row,
                        MaxWords <- 4, args <- call, status <- seen

\* The two instances of MCAS are the same.
LEMMA ArraySame ==
  /\ Array!M!MCASTypeOK <=> A!MCASTypeOK
  /\ Array!M!LockDiscipline <=> A!LockDiscipline
  /\ Array!M!NoStore <=> A!NoStore
  /\ Array!M!Settled = A!Settled /\ Array!M!Settled' = A!Settled'
  /\ \A t, w : Array!M!Succeed(t, w) <=> A!Succeed(t, w)
  /\ \A t : Array!M!StoreNext(t) <=> A!StoreNext(t)
BY DEF Array!M!MCASTypeOK, A!MCASTypeOK, Array!M!LockDiscipline, A!LockDiscipline,
       Array!M!NoStore, A!NoStore, Array!M!Settled, A!Settled, Array!M!Stored, A!Stored,
       Array!M!Distinct, A!Distinct, Array!M!Succeed, A!Succeed, Array!M!StoreNext, A!StoreNext,
       Array!M!Words, A!Words, Array!M!Matches, A!Matches, Array!M!Store, A!Store,
       Array!M!StoreAll, A!StoreAll, Array!M!StoreFirst, A!StoreFirst

\* What MCASProofs assumes of its constants.
LEMMA ArrayAssumed == A!MCASAssumption /\ A!MCASCallsAssumption
BY McasArraysAssumption DEF A!MCASAssumption, A!MCASCallsAssumption

\* Pairs as sequences.
LEMMA Pair ==
  ASSUME NEW S, NEW a \in S, NEW b \in S
  PROVE  /\ <<a, b>> \in Seq(S) /\ Len(<<a, b>>) = 2 /\ DOMAIN <<a, b>> = {1, 2}
         /\ Append(<<a>>, b) = <<a, b>>
<1> DEFINE p == <<a, b>>
           q == Append(<<a>>, b)
<1>1. <<a>> \in Seq(S) /\ Len(<<a>>) = 1 /\ <<a>>[1] = a
  OBVIOUS
<1>2. q \in Seq(S) /\ Len(q) = 2 /\ q[1] = a /\ q[2] = b
  BY <1>1, AppendProperties
<1>3. p \in Seq(S) /\ Len(p) = 2 /\ p[1] = a /\ p[2] = b
  OBVIOUS
<1>4. DOMAIN p = {1, 2}
  OBVIOUS
<1> HIDE DEF p, q
<1>5. \A i \in 1 .. 2 : p[i] = q[i]
  BY <1>2, <1>3
<1>6. p \in [1 .. 2 -> S] /\ q \in [1 .. 2 -> S]
  BY <1>2, <1>3, LenProperties
<1>7. p = q
  BY <1>5, <1>6
<1> QED  BY <1>3, <1>4, <1>7 DEF p, q

\* The arguments of a dcas are two words at different addresses.
LEMMA ExchangeIsCall ==
  ASSUME NEW c \in Array!Row \X Array!Row, c[1] # c[2], NEW s \in Array!Row \X Array!Row
  PROVE  /\ Array!Exchange(c, s) \in Seq(A!Words)
         /\ A!Distinct(Array!Exchange(c, s))
         /\ Array!Exchange(c, s) # <<>>
         /\ Len(Array!Exchange(c, s)) = 2
<1> DEFINE w == Array!Exchange(c, s)
<1>1. w[1] \in A!Words /\ w[2] \in A!Words /\ w[1].addr = c[1] /\ w[2].addr = c[2]
  BY DEF Array!Exchange, Array!M!Word, A!Words
<1>2. w = <<w[1], w[2]>>
  BY DEF Array!Exchange
<1>3. w \in Seq(A!Words) /\ Len(w) = 2 /\ DOMAIN w = {1, 2}
  <2> DEFINE a == w[1]
             b == w[2]
  <2>1. a \in A!Words /\ b \in A!Words /\ w = <<a, b>>
    BY <1>1, <1>2
  <2> HIDE DEF a, b, w
  <2>2. /\ <<a, b>> \in Seq(A!Words)
        /\ Len(<<a, b>>) = 2 /\ DOMAIN <<a, b>> = {1, 2}
    BY <2>1, Pair
  <2> QED  BY <2>1, <2>2
<1>4. A!Distinct(w)
  BY <1>1, <1>3 DEF A!Distinct
<1>5. w # <<>>
  <2>1. Len(<<>>) = 0
    OBVIOUS
  <2>2. 2 # 0
    OBVIOUS
  <2> QED  BY <1>3, <2>1, <2>2, Zenon
<1> QED  BY <1>3, <1>4, <1>5

\* Once a dcas that found the rows as loaded has made its stores, their
\* elements are exchanged.
LEMMA ExchangeStored ==
  ASSUME NEW m \in [Array!Row -> Array!Row], NEW c \in Array!Row \X Array!Row, c[1] # c[2], NEW s \in Array!Row \X Array!Row,
         m[c[1]] = s[1], m[c[2]] = s[2]
  PROVE  A!Stored(m, Array!Exchange(c, s)) = Array!Abstract!Swapped(m, c[1], c[2])
<1> DEFINE w == Array!Exchange(c, s)
           r == A!Stored(m, w)
<1>1. /\ w[1].addr = c[1] /\ w[1].new = s[2]
      /\ w[2].addr = c[2] /\ w[2].new = s[1]
  BY DEF Array!Exchange, Array!M!Word
<1>2. w \in Seq(A!Words) /\ A!Distinct(w) /\ Len(w) = 2
  BY ExchangeIsCall
<1>3. /\ r \in [Array!Row -> Array!Row]
      /\ \A i \in 1 .. Len(w) : r[w[i].addr] = w[i].new
      /\ \A a \in Array!Row : (\A i \in 1 .. Len(w) : w[i].addr # a) => r[a] = m[a]
  <2> HIDE DEF w
  <2> QED  BY <1>2, A!StoredAt, ArrayAssumed
<1>4. 1 .. Len(w) = {1, 2}
  BY <1>2
<1> HIDE DEF w, r
<1>5. r[c[1]] = s[2] /\ r[c[2]] = s[1]
  BY <1>1, <1>3, <1>4
<1>6. \A a \in Array!Row : a # c[1] /\ a # c[2] => r[a] = m[a]
  BY <1>1, <1>3, <1>4
<1>7. c[1] \in Array!Row /\ c[2] \in Array!Row
  OBVIOUS
<1>8. r = [m EXCEPT ![c[1]] = m[c[2]], ![c[2]] = m[c[1]]]
  BY <1>3, <1>5, <1>6, <1>7
<1> QED  BY <1>8 DEF r, w, Array!Abstract!Swapped

\* Every element is in one row.
IsPermutation(r) ==
  /\ \A i \in Array!Row : \E j \in Array!Row : r[j] = i
  /\ \A i, j \in Array!Row : r[i] = r[j] => i = j

\* Exchanging two rows leaves every element in one row.
LEMMA SwappedPermutation ==
  ASSUME NEW m \in [Array!Row -> Array!Row], IsPermutation(m), NEW i \in Array!Row, NEW j \in Array!Row
  PROVE  IsPermutation(Array!Abstract!Swapped(m, i, j))
<1> DEFINE r == Array!Abstract!Swapped(m, i, j)
           at == [k \in Array!Row |-> IF k = i THEN j ELSE IF k = j THEN i ELSE k]
<1>1. \A k \in Array!Row : at[k] \in Array!Row /\ at[at[k]] = k /\ r[k] = m[at[k]]
  BY DEF Array!Abstract!Swapped
<1> HIDE DEF r, at
<1>2. ASSUME NEW e \in Array!Row  PROVE \E k \in Array!Row : r[k] = e
  <2>1. PICK k \in Array!Row : m[k] = e
    BY DEF IsPermutation
  <2>2. at[k] \in Array!Row /\ r[at[k]] = m[k]
    BY <1>1
  <2> QED  BY <2>1, <2>2
<1>3. ASSUME NEW k \in Array!Row, NEW l \in Array!Row, r[k] = r[l]  PROVE k = l
  <2>1. at[k] = at[l]
    BY <1>1, <1>3 DEF IsPermutation
  <2> QED  BY <1>1, <2>1
<1>4. IsPermutation(r)
  BY <1>2, <1>3 DEF IsPermutation
<1> QED  BY <1>4 DEF r

-----------------------------------------------------------------------------
(***************************************************************************)
(* The invariant.  TypeOK needs more to be inductive: pointers are loaded  *)
(* for a call with two different rows, a call is made with a swap left,    *)
(* and a worker at its stores has loaded both pointers.                    *)
(***************************************************************************)
AtDcas == \A t \in Thread :
  /\ call[t] # <<>> => left[t] > 0
  /\ seen[t] # <<>> => call[t] # <<>> /\ call[t][1] # call[t][2]
  /\ lock = t => Len(seen[t]) = 2

ArrayOK ==
  /\ A!MCASTypeOK
  /\ A!LockDiscipline
  /\ call \in [Thread -> {<<>>} \cup (Array!Row \X Array!Row)]
  /\ seen \in [Thread -> {<<>>} \cup {<<i>> : i \in Array!Row} \cup (Array!Row \X Array!Row)]
  /\ left \in [Thread -> 0 .. Swaps]
  /\ AtDcas
  /\ IsPermutation(A!Settled)

\* The invariant says more than the types.
LEMMA ArrayTypes == ArrayOK => Array!TypeOK
BY ArraySame DEF ArrayOK, Array!TypeOK

\* The local variables of a worker that has loaded some pointers.
LEMMA ArraySeenFacts ==
  ASSUME ArrayOK, NEW t \in Thread
  PROVE  /\ Len(seen[t]) = 0 => seen[t] = <<>>
         /\ Len(seen[t]) = 1 => seen[t] \in {<<i>> : i \in Array!Row}
         /\ Len(seen[t]) = 2 => seen[t] \in Array!Row \X Array!Row /\ seen[t] # <<>>
         /\ Len(seen[t]) \in {0, 1, 2}
         /\ call[t] # <<>> => call[t] \in Array!Row \X Array!Row
<1>1. seen[t] \in {<<>>} \cup {<<i>> : i \in Array!Row} \cup (Array!Row \X Array!Row)
  BY DEF ArrayOK
<1>2. call[t] # <<>> => call[t] \in Array!Row \X Array!Row
  BY DEF ArrayOK
<1>3. seen[t] = <<>> => Len(seen[t]) = 0
  OBVIOUS
<1>4. seen[t] \in {<<i>> : i \in Array!Row} => Len(seen[t]) = 1
  <2> SUFFICES ASSUME NEW i \in Array!Row  PROVE Len(<<i>>) = 1
    OBVIOUS
  <2> QED  OBVIOUS
<1>5. seen[t] \in Array!Row \X Array!Row => Len(seen[t]) = 2
  <2> SUFFICES ASSUME NEW i \in Array!Row, NEW j \in Array!Row  PROVE Len(<<i, j>>) = 2
    OBVIOUS
  <2> QED  OBVIOUS
<1> QED  BY <1>1, <1>2, <1>3, <1>4, <1>5

\* Every element starts in its own row, and no worker is inside swap.
LEMMA ArrayInitOK == Array!Init => ArrayOK
<1> SUFFICES ASSUME Array!Init PROVE ArrayOK
  OBVIOUS
<1>1. lock = NoThread /\ todo = <<>> /\ mem = [i \in Array!Row |-> i]
  BY DEF Array!Init, Array!M!InitMCAS
<1>2. A!MCASTypeOK /\ A!LockDiscipline
  BY <1>1, EmptySeq DEF A!MCASTypeOK, A!LockDiscipline, A!Distinct
<1>3. A!Settled = mem
  BY <1>1, <1>2, A!SettledFacts, ArrayAssumed
<1>4. IsPermutation(A!Settled)
  BY <1>1, <1>3 DEF IsPermutation
<1>5. AtDcas
  BY <1>1, McasArraysAssumption DEF Array!Init, AtDcas
<1>6. left \in [Thread -> 0 .. Swaps]
  BY McasArraysAssumption DEF Array!Init
<1> QED  BY <1>2, <1>4, <1>5, <1>6 DEF Array!Init, ArrayOK

\* The array after the first step of a successful dcas.
LEMMA DcasStep ==
  ASSUME ArrayOK, NEW t \in Thread, Array!DcasSucceeds(t)
  PROVE  /\ A!MCASTypeOK' /\ A!LockDiscipline'
         /\ call[t] \in Array!Row \X Array!Row /\ call[t] # <<>>
         /\ A!Settled \in [Array!Row -> Array!Row]
         /\ A!Settled' = Array!Abstract!Swapped(A!Settled, call[t][1], call[t][2])
         /\ lock = NoThread /\ lock' \in {t, NoThread}
<1> DEFINE c == call[t]
           s == seen[t]
           w == Array!Exchange(c, s)
<1>1. A!Succeed(t, w) /\ Len(s) = 2
  BY ArraySame DEF Array!DcasSucceeds
<1>2. s \in Array!Row \X Array!Row /\ c \in Array!Row \X Array!Row /\ c # <<>> /\ c[1] # c[2]
  BY <1>1, ArraySeenFacts DEF ArrayOK, AtDcas
<1>3. w \in Seq(A!Words) /\ A!Distinct(w) /\ w # <<>> /\ Len(w) = 2
  BY <1>2, ExchangeIsCall
<1>4. A!MCASTypeOK /\ A!LockDiscipline /\ mem \in [Array!Row -> Array!Row]
  BY DEF ArrayOK, A!MCASTypeOK
<1>5. /\ A!MCASTypeOK' /\ A!LockDiscipline'
      /\ A!Settled = mem
      /\ A!Settled' = A!Stored(mem, w)
      /\ lock = NoThread /\ lock' \in {t, NoThread}
  <2> HIDE DEF w
  <2> QED  BY <1>1, <1>3, <1>4, A!SucceedStep, ArrayAssumed
<1>6. mem[c[1]] = s[1] /\ mem[c[2]] = s[2]
  <2>1. 1 \in DOMAIN w /\ 2 \in DOMAIN w
    BY <1>3, LenProperties
  <2>2. \A i \in DOMAIN w : mem[w[i].addr] = w[i].old
    BY <1>1 DEF A!Succeed, A!Matches
  <2>3. mem[w[1].addr] = w[1].old /\ mem[w[2].addr] = w[2].old
    BY <2>1, <2>2
  <2> QED  BY <2>3 DEF Array!Exchange, Array!M!Word
<1>7. A!Stored(mem, w) = Array!Abstract!Swapped(mem, c[1], c[2])
  BY <1>2, <1>4, <1>6, ExchangeStored
<1> QED  BY <1>2, <1>4, <1>5, <1>7

\* The second store of a dcas settles nothing anew.
LEMMA ArrayStoresStep ==
  ASSUME ArrayOK, NEW t \in Thread, Array!DcasStores(t)
  PROVE  /\ A!MCASTypeOK' /\ A!LockDiscipline'
         /\ A!Settled' = A!Settled
         /\ lock = t /\ lock' \in {t, NoThread}
<1>1. A!StoreNext(t) /\ A!MCASTypeOK /\ A!LockDiscipline
  BY ArraySame DEF Array!DcasStores, ArrayOK
<1> QED  BY <1>1, A!StoreNextStep, ArrayAssumed

\* A step without a store settles nothing anew.
LEMMA ArrayQuietStep ==
  ASSUME ArrayOK, A!NoStore
  PROVE  /\ A!MCASTypeOK' /\ A!LockDiscipline'
         /\ A!Settled' = A!Settled /\ lock' = lock
BY A!NoStoreStep, ArrayAssumed DEF ArrayOK, A!NoStore

\* What the end of a call does to the worker's local variables.
LEMMA ArrayFinishStep ==
  ASSUME ArrayOK, NEW t \in Thread, Array!Finish(t), call[t] # <<>>, lock' = NoThread
  PROVE  /\ call' \in [Thread -> {<<>>} \cup (Array!Row \X Array!Row)]
         /\ seen' \in [Thread -> {<<>>} \cup {<<i>> : i \in Array!Row} \cup (Array!Row \X Array!Row)]
         /\ left' \in [Thread -> 0 .. Swaps]
         /\ AtDcas'
<1>1. left[t] - 1 \in 0 .. Swaps
  BY McasArraysAssumption DEF ArrayOK, AtDcas
<1>2. left' \in [Thread -> 0 .. Swaps]
  BY <1>1 DEF Array!Finish, ArrayOK
<1>3. /\ call' \in [Thread -> {<<>>} \cup (Array!Row \X Array!Row)]
      /\ seen' \in [Thread -> {<<>>} \cup {<<i>> : i \in Array!Row} \cup (Array!Row \X Array!Row)]
  BY DEF Array!Finish, ArrayOK
<1>4. AtDcas'
  BY McasArraysAssumption DEF Array!Finish, ArrayOK, AtDcas
<1> QED  BY <1>2, <1>3, <1>4

\* A worker after a step of its dcas, by whether it was the last one.
LEMMA ArrayAdvanceStep ==
  ASSUME ArrayOK, NEW t \in Thread, Array!Advance(t), Len(seen[t]) = 2, call[t] # <<>>,
         lock \in {t, NoThread}, lock' \in {t, NoThread}
  PROVE  /\ call' \in [Thread -> {<<>>} \cup (Array!Row \X Array!Row)]
         /\ seen' \in [Thread -> {<<>>} \cup {<<i>> : i \in Array!Row} \cup (Array!Row \X Array!Row)]
         /\ left' \in [Thread -> 0 .. Swaps]
         /\ AtDcas'
<1>1. CASE lock' = NoThread
  <2>1. Array!Finish(t)
    BY <1>1 DEF Array!Advance, Array!M!Returns
  <2> QED  BY <1>1, <2>1, ArrayFinishStep
<1>2. CASE lock' # NoThread
  <2>1. call' = call /\ seen' = seen /\ left' = left /\ lock' = t
    BY <1>2 DEF Array!Advance, Array!M!Returns
  <2>2. AtDcas'
    BY <2>1 DEF ArrayOK, AtDcas
  <2> QED  BY <2>1, <2>2 DEF ArrayOK
<1> QED  BY <1>1, <1>2

\* A step of a worker, or none.
ArrayNext == (\E t \in Thread : Array!Step(t)) \/ UNCHANGED <<mem, lock, todo, call, seen, left>>

\* Every step of a swap keeps the invariant.
LEMMA ArrayNextOK == ArrayOK /\ ArrayNext => ArrayOK'
<1> SUFFICES ASSUME ArrayOK, ArrayNext PROVE ArrayOK'
  OBVIOUS
<1>1. ASSUME NEW t \in Thread, NEW i \in Array!Row, NEW j \in Array!Row, Array!Call(t, i, j)  PROVE ArrayOK'
  <2>1. A!NoStore /\ left[t] > 0 /\ call[t] = <<>> /\ seen' = seen /\ left' = left
        /\ call' = [call EXCEPT ![t] = <<i, j>>]
    BY <1>1, ArraySame DEF Array!Call
  <2>2. A!MCASTypeOK' /\ A!LockDiscipline' /\ A!Settled' = A!Settled /\ lock' = lock
    BY <2>1, ArrayQuietStep
  <2>3. call' \in [Thread -> {<<>>} \cup (Array!Row \X Array!Row)]
    BY <2>1 DEF ArrayOK
  <2>4. seen[t] = <<>>
    BY <2>1 DEF ArrayOK, AtDcas
  <2>5. AtDcas'
    BY <2>1, <2>2, <2>4 DEF ArrayOK, AtDcas
  <2> QED  BY <2>1, <2>2, <2>3, <2>5 DEF ArrayOK
<1>2. ASSUME NEW t \in Thread, Array!SameIndex(t)  PROVE ArrayOK'
  <2>1. A!NoStore /\ call[t] # <<>> /\ call[t][1] = call[t][2] /\ Array!Finish(t)
    BY <1>2, ArraySame DEF Array!SameIndex
  <2>2. A!MCASTypeOK' /\ A!LockDiscipline' /\ A!Settled' = A!Settled /\ lock' = lock
    BY <2>1, ArrayQuietStep
  <2>3. left[t] - 1 \in 0 .. Swaps
    BY <2>1, McasArraysAssumption DEF ArrayOK, AtDcas
  <2>4. lock # t
    <3>1. seen[t] = <<>>
      BY <2>1 DEF ArrayOK, AtDcas
    <3>2. Len(seen[t]) # 2
      BY <3>1, ArraySeenFacts
    <3> QED  BY <3>2 DEF ArrayOK, AtDcas
  <2>5. call' = [call EXCEPT ![t] = <<>>] /\ seen' = [seen EXCEPT ![t] = <<>>]
        /\ left' = [left EXCEPT ![t] = @ - 1]
    BY <2>1 DEF Array!Finish
  <2>6. AtDcas'
    BY <2>2, <2>4, <2>5 DEF ArrayOK, AtDcas
  <2>7. left' \in [Thread -> 0 .. Swaps]
    BY <2>3, <2>5 DEF ArrayOK
  <2>8. /\ call' \in [Thread -> {<<>>} \cup (Array!Row \X Array!Row)]
        /\ seen' \in [Thread -> {<<>>} \cup {<<i>> : i \in Array!Row} \cup (Array!Row \X Array!Row)]
    BY <2>5 DEF ArrayOK
  <2> QED  BY <2>2, <2>6, <2>7, <2>8 DEF ArrayOK
<1>3. ASSUME NEW t \in Thread, Array!Load(t)  PROVE ArrayOK'
  <2>1. A!NoStore /\ call' = call /\ left' = left /\ call[t] # <<>> /\ call[t][1] # call[t][2]
        /\ Len(seen[t]) < 2
        /\ seen' = [seen EXCEPT ![t] = Append(@, mem[call[t][Len(@) + 1]])]
    BY <1>3, ArraySame DEF Array!Load
  <2>2. A!MCASTypeOK' /\ A!LockDiscipline' /\ A!Settled' = A!Settled /\ lock' = lock
    BY <2>1, ArrayQuietStep
  <2>3. call[t] \in Array!Row \X Array!Row /\ mem \in [Array!Row -> Array!Row]
    BY <2>1, ArraySeenFacts DEF ArrayOK, A!MCASTypeOK
  <2>4. Append(seen[t], mem[call[t][Len(seen[t]) + 1]]) \in {<<i>> : i \in Array!Row} \cup (Array!Row \X Array!Row)
    <3>1. CASE Len(seen[t]) = 0
      <4>1. seen[t] = <<>>
        BY <3>1, ArraySeenFacts
      <4>2. mem[call[t][1]] \in Array!Row
        BY <2>3
      <4>3. Append(<<>>, mem[call[t][1]]) = <<mem[call[t][1]]>>
        OBVIOUS
      <4> QED  BY <3>1, <4>1, <4>2, <4>3
    <3>2. CASE Len(seen[t]) = 1
      <4>1. PICK i \in Array!Row : seen[t] = <<i>>
        BY <3>2, ArraySeenFacts
      <4>2. mem[call[t][2]] \in Array!Row
        BY <2>3
      <4>3. Append(<<i>>, mem[call[t][2]]) = <<i, mem[call[t][2]]>>
        BY <4>2, Pair
      <4> QED  BY <3>2, <4>1, <4>2, <4>3
    <3> QED  BY <2>1, <3>1, <3>2, ArraySeenFacts
  <2>5. seen' \in [Thread -> {<<>>} \cup {<<i>> : i \in Array!Row} \cup (Array!Row \X Array!Row)]
    BY <2>1, <2>4 DEF ArrayOK
  <2>6. lock # t
    <3>1. Len(seen[t]) # 2
      BY <2>1, ArraySeenFacts
    <3> QED  BY <3>1 DEF ArrayOK, AtDcas
  <2>7. AtDcas'
    BY <2>1, <2>2, <2>6 DEF ArrayOK, AtDcas
  <2> QED  BY <2>1, <2>2, <2>5, <2>7 DEF ArrayOK
<1>4. ASSUME NEW t \in Thread, Array!DcasSucceeds(t)  PROVE ArrayOK'
  <2>1. /\ A!MCASTypeOK' /\ A!LockDiscipline'
        /\ call[t] \in Array!Row \X Array!Row /\ call[t] # <<>>
        /\ A!Settled \in [Array!Row -> Array!Row]
        /\ A!Settled' = Array!Abstract!Swapped(A!Settled, call[t][1], call[t][2])
        /\ lock = NoThread /\ lock' \in {t, NoThread}
    BY <1>4, DcasStep
  <2>2. IsPermutation(A!Settled)'
    <3>1. IsPermutation(Array!Abstract!Swapped(A!Settled, call[t][1], call[t][2]))
      BY <2>1, SwappedPermutation DEF ArrayOK
    <3> QED  BY <2>1, <3>1 DEF IsPermutation
  <2>3. Array!Advance(t) /\ Len(seen[t]) = 2
    BY <1>4 DEF Array!DcasSucceeds
  <2> QED  BY <2>1, <2>2, <2>3, ArrayAdvanceStep DEF ArrayOK
<1>5. ASSUME NEW t \in Thread, Array!DcasStores(t)  PROVE ArrayOK'
  <2>1. /\ A!MCASTypeOK' /\ A!LockDiscipline' /\ A!Settled' = A!Settled
        /\ lock = t /\ lock' \in {t, NoThread}
    BY <1>5, ArrayStoresStep
  <2>2. Array!Advance(t) /\ Len(seen[t]) = 2
    BY <1>5, <2>1 DEF Array!DcasStores, ArrayOK, AtDcas
  <2>3. call[t] # <<>>
    BY <2>2, ArraySeenFacts DEF ArrayOK, AtDcas
  <2>4. IsPermutation(A!Settled)'
    BY <2>1 DEF ArrayOK, IsPermutation
  <2> QED  BY <2>1, <2>2, <2>3, <2>4, ArrayAdvanceStep DEF ArrayOK
<1>6. ASSUME NEW t \in Thread, Array!DcasFails(t)  PROVE ArrayOK'
  <2>1. A!NoStore /\ lock = NoThread /\ call' = call /\ left' = left
        /\ seen' = [seen EXCEPT ![t] = <<>>]
    BY <1>6, ArraySame DEF Array!DcasFails, Array!M!Fail
  <2>2. A!MCASTypeOK' /\ A!LockDiscipline' /\ A!Settled' = A!Settled /\ lock' = lock
    BY <2>1, ArrayQuietStep
  <2>3. seen' \in [Thread -> {<<>>} \cup {<<i>> : i \in Array!Row} \cup (Array!Row \X Array!Row)]
    BY <2>1 DEF ArrayOK
  <2>4. AtDcas'
    BY <2>1, <2>2, McasArraysAssumption DEF ArrayOK, AtDcas
  <2> QED  BY <2>1, <2>2, <2>3, <2>4 DEF ArrayOK
<1>7. CASE UNCHANGED <<mem, lock, todo, call, seen, left>>
  <2>1. A!NoStore /\ call' = call /\ seen' = seen /\ left' = left
    BY <1>7 DEF A!NoStore
  <2>2. A!MCASTypeOK' /\ A!LockDiscipline' /\ A!Settled' = A!Settled /\ lock' = lock
    BY <2>1, ArrayQuietStep
  <2>3. AtDcas'
    BY <2>1, <2>2 DEF ArrayOK, AtDcas
  <2> QED  BY <2>1, <2>2, <2>3 DEF ArrayOK
<1> QED  BY <1>1, <1>2, <1>3, <1>4, <1>5, <1>6, <1>7 DEF ArrayNext, Array!Step

-----------------------------------------------------------------------------
(***************************************************************************)
(* Refinement: a swap is made at the first store of its dcas.              *)
(***************************************************************************)

\* The calls and swaps that are still to take effect.
ArrayACall == [t \in Thread |-> IF lock = t THEN <<>> ELSE call[t]]
ArrayALeft == [t \in Thread |-> IF lock = t THEN left[t] - 1 ELSE left[t]]

\* The rows start as those of ArraySwapSpec.
LEMMA ArrayRefineInit == Array!Init => Array!Abstract!Init
<1> SUFFICES ASSUME Array!Init PROVE Array!Abstract!Init
  OBVIOUS
<1>1. lock = NoThread /\ ArrayOK
  BY ArrayInitOK DEF Array!Init, Array!M!InitMCAS
<1>2. Array!M!Settled = mem
  BY <1>1, ArraySame, A!SettledFacts, ArrayAssumed DEF ArrayOK
<1>3. ArrayALeft = left /\ ArrayACall = call
  BY <1>1, McasArraysAssumption DEF ArrayALeft, ArrayACall, ArrayOK
<1> QED  BY <1>2, <1>3 DEF Array!Init, Array!Abstract!Init, ArrayALeft, ArrayACall

\* A step of a dcas hides what is left of its call, or the call is over.
LEMMA ArrayAdvanceHidden ==
  ASSUME ArrayOK, NEW t \in Thread, Array!Advance(t), lock \in {t, NoThread}, lock' \in {t, NoThread}
  PROVE  /\ ArrayACall' = [call EXCEPT ![t] = <<>>]
         /\ ArrayALeft' = [left EXCEPT ![t] = @ - 1]
<1>1. CASE lock' = NoThread
  <2>1. call' = [call EXCEPT ![t] = <<>>] /\ left' = [left EXCEPT ![t] = @ - 1]
    BY <1>1 DEF Array!Advance, Array!M!Returns, Array!Finish
  <2> QED  BY <1>1, <2>1, McasArraysAssumption DEF ArrayACall, ArrayALeft, ArrayOK
<1>2. CASE lock' # NoThread
  <2>1. call' = call /\ left' = left /\ lock' = t
    BY <1>2 DEF Array!Advance, Array!M!Returns
  <2> QED  BY <2>1 DEF ArrayACall, ArrayALeft, ArrayOK
<1> QED  BY <1>1, <1>2

\* Every step of a swap is one of ArraySwapSpec, or changes nothing there.
LEMMA ArrayRefineNext == ArrayOK /\ ArrayNext => [Array!Abstract!Next]_(Array!Abstract!vars)
<1> SUFFICES ASSUME ArrayOK, ArrayNext
             PROVE  Array!Abstract!Next \/ UNCHANGED <<A!Settled, ArrayACall, ArrayALeft>>
  BY ArraySame DEF Array!Abstract!vars, ArrayACall, ArrayALeft
<1>1. ASSUME NEW t \in Thread, NEW i \in Array!Row, NEW j \in Array!Row, Array!Call(t, i, j)  PROVE Array!Abstract!Next
  <2>1. A!NoStore /\ left[t] > 0 /\ call[t] = <<>> /\ left' = left
        /\ call' = [call EXCEPT ![t] = <<i, j>>]
    BY <1>1, ArraySame DEF Array!Call
  <2>2. A!Settled' = A!Settled /\ lock' = lock
    BY <2>1, ArrayQuietStep
  <2>3. lock # t
    <3>1. seen[t] = <<>>
      BY <2>1 DEF ArrayOK, AtDcas
    <3>2. Len(seen[t]) # 2
      BY <3>1, ArraySeenFacts
    <3> QED  BY <3>2 DEF ArrayOK, AtDcas
  <2>4. ArrayALeft' = ArrayALeft /\ ArrayACall[t] = <<>> /\ ArrayALeft[t] > 0
    BY <2>1, <2>2, <2>3 DEF ArrayACall, ArrayALeft
  <2>5. ArrayACall' = [ArrayACall EXCEPT ![t] = <<i, j>>]
    <3>1. call'[t] = <<i, j>> /\ \A u \in Thread : u # t => call'[u] = call[u]
      BY <2>1 DEF ArrayOK
    <3> QED  BY <2>2, <2>3, <3>1, Zenon DEF ArrayACall
  <2>6. Array!Abstract!Invoke(t, i, j)
    BY <2>2, <2>4, <2>5, ArraySame DEF Array!Abstract!Invoke, ArrayACall, ArrayALeft
  <2> QED  BY <2>6 DEF Array!Abstract!Next
<1>2. ASSUME NEW t \in Thread, Array!SameIndex(t)  PROVE Array!Abstract!Next
  <2>1. A!NoStore /\ call[t] # <<>> /\ call[t][1] = call[t][2] /\ Array!Finish(t)
    BY <1>2, ArraySame DEF Array!SameIndex
  <2>2. A!Settled' = A!Settled /\ lock' = lock
    BY <2>1, ArrayQuietStep
  <2>3. lock # t
    <3>1. seen[t] = <<>>
      BY <2>1 DEF ArrayOK, AtDcas
    <3>2. Len(seen[t]) # 2
      BY <3>1, ArraySeenFacts
    <3> QED  BY <3>2 DEF ArrayOK, AtDcas
  <2>4. /\ ArrayACall[t] = call[t]
        /\ ArrayACall' = [ArrayACall EXCEPT ![t] = <<>>]
        /\ ArrayALeft' = [ArrayALeft EXCEPT ![t] = @ - 1]
    BY <2>1, <2>2, <2>3 DEF Array!Finish, ArrayACall, ArrayALeft, ArrayOK
  <2>5. A!Settled = Array!Abstract!Swapped(A!Settled, call[t][1], call[t][2])
    <3>1. A!Settled \in [Array!Row -> Array!Row]
      BY A!SettledFacts, ArrayAssumed DEF ArrayOK
    <3>2. call[t][1] \in Array!Row
      BY <2>1, ArraySeenFacts
    <3> QED  BY <2>1, <3>1, <3>2 DEF Array!Abstract!Swapped
  <2>6. Array!Abstract!Swap(t)
    BY <2>1, <2>2, <2>4, <2>5, ArraySame DEF Array!Abstract!Swap, ArrayACall, ArrayALeft
  <2> QED  BY <2>6 DEF Array!Abstract!Next
<1>3. ASSUME NEW t \in Thread, Array!Load(t)  PROVE UNCHANGED <<A!Settled, ArrayACall, ArrayALeft>>
  <2>1. A!NoStore /\ call' = call /\ left' = left
    BY <1>3, ArraySame DEF Array!Load
  <2> QED  BY <2>1, ArrayQuietStep DEF ArrayACall, ArrayALeft
<1>4. ASSUME NEW t \in Thread, Array!DcasSucceeds(t)  PROVE Array!Abstract!Next
  <2>1. /\ call[t] # <<>>
        /\ A!Settled' = Array!Abstract!Swapped(A!Settled, call[t][1], call[t][2])
        /\ lock = NoThread /\ lock' \in {t, NoThread}
    BY <1>4, DcasStep
  <2>2. ArrayACall = call /\ ArrayALeft = left
    BY <2>1, McasArraysAssumption DEF ArrayACall, ArrayALeft, ArrayOK
  <2>3. ArrayACall' = [call EXCEPT ![t] = <<>>] /\ ArrayALeft' = [left EXCEPT ![t] = @ - 1]
    BY <1>4, <2>1, ArrayAdvanceHidden DEF Array!DcasSucceeds
  <2>4. Array!Abstract!Swap(t)
    BY <2>1, <2>2, <2>3, ArraySame DEF Array!Abstract!Swap, ArrayACall, ArrayALeft
  <2> QED  BY <2>4 DEF Array!Abstract!Next
<1>5. ASSUME NEW t \in Thread, Array!DcasStores(t)  PROVE UNCHANGED <<A!Settled, ArrayACall, ArrayALeft>>
  <2>1. A!Settled' = A!Settled /\ lock = t /\ lock' \in {t, NoThread}
    BY <1>5, ArrayStoresStep
  <2>2. ArrayACall = [call EXCEPT ![t] = <<>>] /\ ArrayALeft = [left EXCEPT ![t] = @ - 1]
    BY <2>1 DEF ArrayACall, ArrayALeft, ArrayOK
  <2>3. ArrayACall' = [call EXCEPT ![t] = <<>>] /\ ArrayALeft' = [left EXCEPT ![t] = @ - 1]
    BY <1>5, <2>1, ArrayAdvanceHidden DEF Array!DcasStores
  <2> QED  BY <2>1, <2>2, <2>3
<1>6. ASSUME NEW t \in Thread, Array!DcasFails(t)  PROVE UNCHANGED <<A!Settled, ArrayACall, ArrayALeft>>
  <2>1. A!NoStore /\ call' = call /\ left' = left
    BY <1>6, ArraySame DEF Array!DcasFails, Array!M!Fail
  <2> QED  BY <2>1, ArrayQuietStep DEF ArrayACall, ArrayALeft
<1>7. CASE UNCHANGED <<mem, lock, todo, call, seen, left>>
  <2>1. A!NoStore /\ call' = call /\ left' = left
    BY <1>7 DEF A!NoStore
  <2> QED  BY <2>1, ArrayQuietStep DEF ArrayACall, ArrayALeft
<1> QED  BY <1>1, <1>2, <1>3, <1>4, <1>5, <1>6, <1>7 DEF ArrayNext, Array!Step

-----------------------------------------------------------------------------

\* The lemmas of MCASProofs about the fields of the nodes; they do not mention
\* the callers of MCASCalls, its last three parameters.
H == INSTANCE MCASProofs WITH Addr <- Map!Word, Val <- Int, MaxWords <- 4, args <- call, status <- loc

\* The two instances of MCAS are the same.
LEMMA TableSame ==
  /\ Map!M!MCASTypeOK <=> H!MCASTypeOK
  /\ Map!M!LockDiscipline <=> H!LockDiscipline
  /\ Map!M!MCASTypeOK' <=> H!MCASTypeOK'
  /\ Map!M!LockDiscipline' <=> H!LockDiscipline'
  /\ Map!M!NoStore <=> H!NoStore
  /\ Map!M!Settled = H!Settled /\ Map!M!Settled' = H!Settled'
  /\ \A t, w : Map!M!Succeed(t, w) <=> H!Succeed(t, w)
  /\ \A w : Map!M!Matches(w) <=> H!Matches(w)
  /\ \A t : Map!M!StoreNext(t) <=> H!StoreNext(t)
BY DEF Map!M!MCASTypeOK, H!MCASTypeOK, Map!M!LockDiscipline, H!LockDiscipline,
       Map!M!NoStore, H!NoStore, Map!M!Settled, H!Settled, Map!M!Stored, H!Stored,
       Map!M!Distinct, H!Distinct, Map!M!Succeed, H!Succeed, Map!M!StoreNext, H!StoreNext,
       Map!M!Words, H!Words, Map!M!Matches, H!Matches, Map!M!Store, H!Store,
       Map!M!StoreAll, H!StoreAll, Map!M!StoreFirst, H!StoreFirst

\* What MCASProofs assumes of its constants.
LEMMA TableAssumed == H!MCASAssumption /\ H!MCASCallsAssumption
BY McasMapsAssumption DEF H!MCASAssumption, H!MCASCallsAssumption

-----------------------------------------------------------------------------
(***************************************************************************)
(* The invariant.  A walk may be at a node that has left its list, so it   *)
(* is not enough to say what the lists are: what links of such nodes still *)
(* are in memory must lead on.  New nodes are linked before the tail, so   *)
(* there are ranks r, as of the time a node was linked: a link leads to    *)
(* the first node of higher rank that is still in the list, and a walk     *)
(* that has reached curr has passed no node of its key that stays.         *)
(***************************************************************************)

\* The sentinels and the nodes; the nodes that have been allocated.
Obj == 0 .. Map!Made(MapNodes)
Heads == Map!Buckets
Tails == {Map!TailOf(b) : b \in Map!Buckets}
Allocated == {Map!Made(i) : i \in 1 .. made}

\* The bucket an object belongs to.
Of(x) ==
  IF x \in Heads THEN x ELSE IF x \in Tails THEN x - TableSize ELSE Map!Bucket(mem[<<x, "key">>])

\* The memory once the qcas under way is over, and the nodes that are in the map then.
Settled == Map!M!Settled
InTable(m) == {n \in Map!Node : m[<<n, "prev">>] # Map!Null /\ m[<<m[<<n, "prev">>], "next">>] = n}
L == InTable(Settled)

\* The nodes any worker can have come across.
Met == Allocated \ Map!Own

\* y is the first that is still in its list of those that were linked after x.
Ahead(r, x, y) ==
  /\ y \in Tails \union L /\ Of(y) = Of(x) /\ r[x] < r[y]
  /\ \A z \in L : Of(z) = Of(x) => r[z] <= r[x] \/ r[y] <= r[z]

\* A node without links.
Off(m, x) == m[<<x, "next">>] = Map!Null /\ m[<<x, "prev">>] = Map!Null

\* What the links of x may lead to.
IsBefore(x, y) == y \in Heads \union Met /\ Of(y) = Of(x)
IsAfter(x, y) == y \in Tails \union Met /\ Of(y) = Of(x)

\* Where the links of x lead in the memory m.
LinksTo(m, x) ==
  /\ m[<<x, "next">>] # Map!Null => IsAfter(x, m[<<x, "next">>])
  /\ m[<<x, "prev">>] # Map!Null => IsBefore(x, m[<<x, "prev">>])

\* r tells which of two nodes was linked before the other.
Ranks(r) ==
  /\ \A x \in Obj : r[x] = 0 <=> x \in Heads
  /\ \A z \in Tails, x \in Obj : IF x \in Tails THEN r[x] = r[z] ELSE r[x] < r[z]
  /\ \A x, y \in L : r[x] = r[y] => x = y

\* The links of what is in the map, both ways.
Chained(r) ==
  /\ \A x \in Heads \union L : Ahead(r, x, Settled[<<x, "next">>]) /\ Settled[<<Settled[<<x, "next">>], "prev">>] = x
  /\ \A y \in Tails \union L : Settled[<<y, "prev">>] \in Heads \union L /\ Settled[<<Settled[<<y, "prev">>], "next">>] = y

\* The links of every object, and where the stores still to come go: a next that
\* is still in memory and will not stay is one the qcas under way clears.
Memory(r) ==
  /\ L \subseteq Met
  /\ \A x \in Map!Node \ (Map!Own \union L) : Off(Settled, x)
  /\ \A x \in Obj : LinksTo(Settled, x) /\ LinksTo(mem, x)
  /\ \A x \in Obj : mem[<<x, "next">>] # Settled[<<x, "next">>] =>
       Settled[<<x, "next">>] = Map!Null /\ Ahead(r, x, mem[<<x, "next">>])
  /\ \A x \in Obj : Settled[<<x, "key">>] = mem[<<x, "key">>]
  /\ \A x \in Allocated : mem[<<x, "key">>] \in MapKey
  /\ \A i \in 1 .. Len(todo) : todo[i].addr \in (Heads \union Tails \union Met) \X {"next", "prev"}

Table(r) == Ranks(r) /\ Chained(r) /\ Memory(r)

Places == {"idle", "first", "walk", "spin", "load_value", "assign", "load_prev", "load_next", "qcas", "store", "return"}

Names == {"insert", "remove", "contains"}

\* The node of an insert.
Owns(t) ==
  LET l == loc[t]
  IN  /\ "node" \in DOMAIN l <=> Map!Is(t, "insert")
      /\ Map!Is(t, "insert") => l.node \in Allocated /\ mem[<<l.node, "key">>] = Map!KeyOf(t)
      /\ Map!Is(t, "insert") /\ l.pc \notin {"qcas", "store", "return"} => Off(mem, l.node)

\* A node with the key of t that was in the table during its call.
Found(t) == LET c == loc[t].curr IN c \in Met /\ mem[<<c, "key">>] = Map!KeyOf(t) /\ c \in past[t].been

\* The walk of t has come to the tail, and past no node of its key.
AtTail(t) == loc[t].curr = Map!TailOf(Map!Bucket(Map!KeyOf(t))) /\ past[t].stayed = {}

\* Where the walk of t is.
Walks(t, r) ==
  LET l == loc[t]
  IN  /\ l.pc \notin {"idle", "first", "spin", "return"} => "curr" \in DOMAIN l
      /\ l.pc = "spin" => Map!Is(t, "contains")
      /\ l.pc = "walk" => /\ l.curr \in Met /\ Of(l.curr) = Map!Bucket(Map!KeyOf(t))
                          /\ \A s \in past[t].stayed : r[l.curr] < r[s]
      /\ l.pc \in {"load_value", "assign"} => Map!Is(t, "insert") /\ Found(t)
      /\ l.pc \in {"load_prev", "qcas"} =>
           (Map!Is(t, "insert") /\ AtTail(t)) \/ (Map!Is(t, "remove") /\ Found(t))
      /\ l.pc = "load_next" => Map!Is(t, "remove") /\ Found(t)
      /\ l.pc = "assign" => "old" \in DOMAIN l

\* The arguments of the qcas of t.
Loaded(t) ==
  LET l == loc[t]
  IN  /\ l.pc \in {"load_next", "qcas"} => /\ "prev" \in DOMAIN l
                                           /\ l.prev # Map!Null => IsBefore(l.curr, l.prev)
      /\ l.pc = "qcas" /\ Map!Is(t, "remove") => /\ "next" \in DOMAIN l
                                                 /\ l.next # Map!Null => IsAfter(l.curr, l.next)
      /\ l.pc = "qcas" /\ Map!Is(t, "insert") => /\ mem[<<l.node, "next">>] = l.curr
                                                 /\ mem[<<l.node, "prev">>] = l.prev

\* What the history of the call of t knows of the nodes of its key.
Remembers(t) ==
  /\ past[t].stayed \subseteq {n \in L : mem[<<n, "key">>] = Map!KeyOf(t)}
  /\ {n \in L : mem[<<n, "key">>] = Map!KeyOf(t)} \subseteq past[t].been

\* A call has its result when it has taken effect, and the result is right.
Ends(t) ==
  LET l == loc[t]
  IN  /\ "value" \in DOMAIN l <=> l.pc \in {"store", "return"}
      /\ l.pc = "store" => l.value = TRUE /\ ~Map!Is(t, "contains")
      /\ l.pc \in {"store", "return"} => l.value \in BOOLEAN /\ Map!IsRegular(t)
      /\ lock = t <=> l.pc = "store"

\* A worker between its calls or inside one.
Worker(t, r) ==
  /\ loc[t].pc \in Places /\ (call[t] = <<>> <=> loc[t].pc = "idle") /\ "pc" \in DOMAIN loc[t]
  /\ call[t] # <<>> => /\ left[t] > 0
                       /\ Owns(t) /\ Walks(t, r) /\ Loaded(t) /\ Remembers(t) /\ Ends(t)
  /\ call[t] = <<>> => "value" \notin DOMAIN loc[t] /\ "node" \notin DOMAIN loc[t] /\ lock # t

\* The types, and that no two calls have the same node.
Types ==
  /\ Map!M!MCASTypeOK /\ Map!M!LockDiscipline
  /\ made \in 0 .. MapNodes
  /\ left \in [Thread -> Nat]
  /\ call \in [Thread -> {<<>>} \union (Names \X {""} \X MapKey)]
  /\ DOMAIN loc = Thread
  /\ past \in [Thread -> [stayed : SUBSET Map!Node, been : SUBSET Map!Node]]
  /\ \A t, u \in Thread : "node" \in DOMAIN loc[t] /\ "node" \in DOMAIN loc[u] /\ loc[t].node = loc[u].node => t = u

TableInv == Types /\ \E r \in [Obj -> Nat] : Table(r) /\ \A t \in Thread : Worker(t, r)

\* Every worker that has calls to make is started.
Started == workers \subseteq Thread /\ \A t \in Thread : left[t] > 0 => t \in workers

-----------------------------------------------------------------------------
\* The objects: heads, tails and nodes.
LEMMA Objects ==
  /\ Heads \subseteq Obj /\ Tails \subseteq Obj /\ Map!Node \subseteq Obj
  /\ Obj \subseteq Int /\ Obj = Heads \union Tails \union Map!Node
  /\ Heads \cap Tails = {} /\ Heads \cap Map!Node = {} /\ Tails \cap Map!Node = {}
  /\ Map!Null \in Int \ Obj
  /\ Map!Node = 2 * TableSize .. 2 * TableSize + MapNodes - 1
<1>1. TableSize \in Nat \ {0} /\ MapNodes \in Nat
  BY McasMapsAssumption
<1>2. Heads = 0 .. TableSize - 1 /\ Map!Null = -1
  BY DEF Heads, Map!Buckets, Map!Null
<1>3. Tails = TableSize .. 2 * TableSize - 1
  <2>1. \A x \in TableSize .. 2 * TableSize - 1 : x - TableSize \in 0 .. TableSize - 1 /\ x = TableSize + (x - TableSize)
    BY <1>1
  <2> QED  BY <1>1, <2>1 DEF Tails, Map!Buckets, Map!TailOf
<1>4. Map!Node = 2 * TableSize .. 2 * TableSize + MapNodes - 1
  <2>1. \A x \in 2 * TableSize .. 2 * TableSize + MapNodes - 1 :
          x - 2 * TableSize + 1 \in 1 .. MapNodes /\ x = 2 * TableSize + (x - 2 * TableSize + 1) - 1
    BY <1>1
  <2>2. \A i \in 1 .. MapNodes : 2 * TableSize + i - 1 \in 2 * TableSize .. 2 * TableSize + MapNodes - 1
    BY <1>1
  <2> QED  BY <1>1, <2>1, <2>2 DEF Map!Node, Map!Made
<1>5. Obj = 0 .. 2 * TableSize + MapNodes - 1
  BY DEF Obj, Map!Made
<1> QED  BY <1>1, <1>2, <1>3, <1>4, <1>5

\* The bucket of an object, of a key and of a node.
LEMMA Buckets ==
  /\ \A k \in MapKey : Map!Bucket(k) \in Heads
  /\ \A b \in Heads : /\ Map!HeadOf(b) = b /\ Map!TailOf(b) \in Tails
                      /\ Of(b) = b /\ Of(Map!TailOf(b)) = b
                      /\ Of(b)' = b /\ Of(Map!TailOf(b))' = b
  /\ \A z \in Tails : Of(z) \in Heads /\ z = Map!TailOf(Of(z)) /\ Of(z)' = Of(z)
  /\ \A x \in Map!Node : /\ Of(x) = Map!Bucket(mem[<<x, "key">>])
                         /\ Of(x)' = Map!Bucket(mem'[<<x, "key">>])
<1>1. TableSize \in Nat \ {0} /\ MapKey \subseteq Nat
  BY McasMapsAssumption
<1>2. Heads = 0 .. TableSize - 1
  BY DEF Heads, Map!Buckets
<1>3. \A k \in MapKey : Map!Bucket(k) \in Heads
  BY <1>1, <1>2 DEF Map!Bucket
<1>4. \A b \in Heads : Map!HeadOf(b) = b /\ Map!TailOf(b) \in Tails
  BY <1>2 DEF Map!HeadOf, Tails, Map!Buckets, Heads
<1>5. \A b \in Heads : Of(b) = b /\ Of(Map!TailOf(b)) = b /\ Of(b)' = b /\ Of(Map!TailOf(b))' = b
  <2>1. \A b \in Heads : Map!TailOf(b) \notin Heads
    BY <1>4, Objects
  <2>2. \A b \in Heads : Map!TailOf(b) - TableSize = b
    BY <1>1, <1>2 DEF Map!TailOf
  <2> QED  BY <1>4, <2>1, <2>2 DEF Of
<1>6. \A z \in Tails : \E b \in Heads : z = Map!TailOf(b)
  BY DEF Tails, Heads
<1>7. \A x \in Map!Node : x \notin Heads /\ x \notin Tails
  BY Objects
<1>8. \A x \in Map!Node : /\ Of(x) = Map!Bucket(mem[<<x, "key">>])
                          /\ Of(x)' = Map!Bucket(mem'[<<x, "key">>])
  BY <1>7 DEF Of
<1>9. \A z \in Tails : Of(z) \in Heads /\ z = Map!TailOf(Of(z)) /\ Of(z)' = Of(z)
  BY <1>5, <1>6
<1> QED  BY <1>3, <1>4, <1>5, <1>8, <1>9

\* The nodes are different from each other.
LEMMA MadeNodes ==
  /\ \A i \in 1 .. MapNodes : Map!Made(i) \in Map!Node
  /\ \A i, j \in Int : Map!Made(i) = Map!Made(j) => i = j
  /\ made \in 0 .. MapNodes => Allocated \subseteq Map!Node
<1>1. TableSize \in Nat \ {0} /\ MapNodes \in Nat
  BY McasMapsAssumption
<1>2. \A i, j \in Int : Map!Made(i) = Map!Made(j) => i = j
  BY <1>1 DEF Map!Made
<1> QED  BY <1>1, <1>2 DEF Map!Node, Allocated

\* Types of the memory, and the settled one.
LEMMA TableTypes ==
  ASSUME Types
  PROVE  /\ mem \in [Map!Word -> Int] /\ Settled \in [Map!Word -> Int]
         /\ lock = NoThread => Settled = mem
         /\ Map!Linked = L /\ L \subseteq Map!Node
         /\ Allocated \subseteq Map!Node /\ Met \subseteq Allocated
         /\ H!MCASTypeOK /\ H!LockDiscipline
<1>1. H!MCASTypeOK /\ H!LockDiscipline
  BY TableSame DEF Types
<1>2. mem \in [Map!Word -> Int] /\ Settled \in [Map!Word -> Int] /\ (lock = NoThread => Settled = mem)
  BY <1>1, TableSame, TableAssumed, H!SettledFacts DEF H!MCASTypeOK, Settled
<1>3. Map!Memory = Settled
  BY <1>2 DEF Map!Memory, Settled
<1>4. Map!Linked = L /\ L \subseteq Map!Node
  BY <1>3 DEF Map!Linked, L, InTable
<1>5. Allocated \subseteq Map!Node /\ Met \subseteq Allocated
  BY MadeNodes DEF Types, Met
<1> QED  BY <1>1, <1>2, <1>4, <1>5

\* TableTypes in the next state.
LEMMA TableTypesNext ==
  ASSUME Types'
  PROVE  /\ mem' \in [Map!Word -> Int] /\ Settled' \in [Map!Word -> Int]
         /\ lock' = NoThread => Settled' = mem'
         /\ Map!Linked' = L' /\ L' \subseteq Map!Node
         /\ Allocated' \subseteq Map!Node /\ Met' \subseteq Allocated'
<1>1. H!MCASTypeOK' /\ H!LockDiscipline'
  BY TableSame DEF Types
<1>2. /\ mem' \in [Map!Word -> Int] /\ todo' \in Seq(H!Words) /\ H!Distinct(todo')
      /\ lock' = NoThread => todo' = <<>>
      /\ Settled' = H!Stored(mem', todo')
  BY <1>1, TableSame DEF H!MCASTypeOK, H!LockDiscipline, H!Words, H!Distinct, Settled, H!Settled, H!Stored
<1>3. Settled' \in [Map!Word -> Int]
  BY <1>2, TableAssumed, H!StoredAt
<1>4. lock' = NoThread => Settled' = mem'
  BY <1>2, TableAssumed, H!StoredNone
<1>5. Map!Memory' = Settled'
  BY <1>4 DEF Map!Memory, Settled
<1>6. Map!Linked' = L' /\ L' \subseteq Map!Node
  BY <1>5 DEF Map!Linked, L, InTable
<1>7. Allocated' \subseteq Map!Node
  <2>1. made' \in 0 .. MapNodes /\ MapNodes \in Nat
    BY McasMapsAssumption DEF Types
  <2>2. \A i \in 1 .. made' : i \in 1 .. MapNodes
    BY <2>1
  <2> QED  BY <2>2, MadeNodes DEF Allocated
<1> QED  BY <1>2, <1>3, <1>4, <1>6, <1>7 DEF Met

\* The fields of the objects are words of the memory.
LEMMA Words ==
  /\ \A x \in Obj, f \in {"key", "value", "next", "prev"} : <<x, f>> \in Map!Word
  /\ \A f \in {"key", "value", "next", "prev"} : <<Map!Null, f>> \in Map!Word
  /\ \A w \in Map!Word : w[1] \in Obj \union {Map!Null} /\ w = <<w[1], w[2]>>
BY DEF Map!Word, Obj

\* A worker whose node nobody else can have come across.
Private(u) == "node" \in DOMAIN loc[u] /\ loc[u].pc \notin {"store", "return"}

\* The nodes that nobody else can have come across.
LEMMA OwnIs ==
  /\ \A x : x \in Map!Own <=> \E u \in Thread : Private(u) /\ x = loc[u].node
  /\ \A x : x \in Map!Own' <=> \E u \in Thread : Private(u)' /\ x = loc'[u].node
BY DEF Map!Own, Private

\* The history.
LEMMA History ==
  ASSUME Types, Types', Map!Remember, NEW u \in Thread
  PROVE  /\ call'[u] = <<>> => past'[u] = [stayed |-> {}, been |-> {}]
         /\ call[u] = <<>> /\ call'[u] # <<>> =>
              /\ past'[u].stayed = {n \in L' : mem'[<<n, "key">>] = call'[u][3]}
              /\ past'[u].been = {n \in L' : mem'[<<n, "key">>] = call'[u][3]}
         /\ call[u] # <<>> /\ call'[u] # <<>> =>
              /\ past'[u].stayed = past[u].stayed \intersect L'
              /\ past'[u].been = past[u].been \union {n \in L' : mem'[<<n, "key">>] = Map!KeyOf(u)}
<1>1. Map!Linked' = L'
  BY TableTypesNext
<1> QED  BY <1>1 DEF Map!Remember, Map!KeyOf

\* The history stays one of nodes.
LEMMA PastType ==
  ASSUME Map!Remember, Map!Linked' \subseteq Map!Node, past \in [Thread -> [stayed : SUBSET Map!Node, been : SUBSET Map!Node]]
  PROVE  past' \in [Thread -> [stayed : SUBSET Map!Node, been : SUBSET Map!Node]]
BY DEF Map!Remember

-----------------------------------------------------------------------------
\* What a step of t leaves to the others.
Alone(t) ==
  /\ DOMAIN loc' = Thread
  /\ \A u \in Thread : u # t => /\ loc'[u] = loc[u] /\ call'[u] = call[u] /\ left'[u] = left[u]
                                /\ (lock = u <=> lock' = u)

\* The nodes keep their keys and their ranks, and those of the others their links.
Evolves(t, r, rr) ==
  /\ rr \in [Obj -> Nat] /\ \A x \in Met : rr[x] = r[x]
  /\ Met \subseteq Met' /\ Allocated \subseteq Allocated'
  /\ \A x \in Allocated : mem'[<<x, "key">>] = mem[<<x, "key">>]
  /\ \A u \in Thread : u # t /\ Private(u) =>
       /\ mem'[<<loc[u].node, "next">>] = mem[<<loc[u].node, "next">>]
       /\ mem'[<<loc[u].node, "prev">>] = mem[<<loc[u].node, "prev">>]

\* A call remembers all that was and all that is.
LEMMA RemembersOn ==
  ASSUME Types, Types', Map!Remember, NEW u \in Thread, call[u] # <<>>, call'[u] = call[u], Remembers(u),
         L \subseteq Allocated, \A x \in Allocated : mem'[<<x, "key">>] = mem[<<x, "key">>]
  PROVE  /\ past'[u].stayed \subseteq past[u].stayed /\ past[u].been \subseteq past'[u].been
         /\ Remembers(u)'
<1>1. /\ past'[u].stayed = past[u].stayed \intersect L'
      /\ past'[u].been = past[u].been \union {n \in L' : mem'[<<n, "key">>] = Map!KeyOf(u)}
  BY History
<1>2. Map!KeyOf(u)' = Map!KeyOf(u)
  BY DEF Map!KeyOf
<1>3. \A n \in past[u].stayed : mem'[<<n, "key">>] = Map!KeyOf(u)
  BY DEF Remembers
<1> QED  BY <1>1, <1>2, <1>3 DEF Remembers

\* An object stays in its bucket while the keys of the nodes stay.
LEMMA SameBucket ==
  ASSUME Types, \A x \in Allocated : mem'[<<x, "key">>] = mem[<<x, "key">>],
         NEW x \in Heads \union Tails \union Allocated
  PROVE  Of(x)' = Of(x)
<1>1. Allocated \subseteq Map!Node
  BY TableTypes
<1>2. CASE x \in Allocated
  <2>1. x \in Map!Node /\ mem'[<<x, "key">>] = mem[<<x, "key">>]
    BY <1>1, <1>2
  <2>2. Of(x) = Map!Bucket(mem[<<x, "key">>]) /\ Of(x)' = Map!Bucket(mem'[<<x, "key">>])
    BY <2>1, Buckets
  <2> QED  BY <2>1, <2>2
<1>3. CASE x \in Heads \union Tails
  BY <1>3, Buckets
<1> QED  BY <1>2, <1>3

\* The key of a call, and its bucket.
LEMMA Keys ==
  ASSUME Types, NEW u \in Thread, call[u] # <<>>
  PROVE  /\ call[u] \in Names \X {""} \X MapKey /\ Map!KeyOf(u) \in MapKey
         /\ Map!Bucket(Map!KeyOf(u)) \in Heads /\ Map!TailOf(Map!Bucket(Map!KeyOf(u))) \in Tails
         /\ Map!HeadOf(Map!Bucket(Map!KeyOf(u))) = Map!Bucket(Map!KeyOf(u))
         /\ \E name \in Names : call[u][1] = name
<1>1. call[u] \in Names \X {""} \X MapKey
  BY DEF Types
<1>2. Map!KeyOf(u) \in MapKey
  BY <1>1 DEF Map!KeyOf
<1> QED  BY <1>1, <1>2, Buckets

\* The node a call works at.
LEMMA CurrIs ==
  ASSUME Types, NEW u \in Thread, call[u] # <<>>, NEW r, Walks(u, r), loc[u].pc \in {"load_prev", "load_next", "qcas"}
  PROVE  loc[u].curr \in Tails \union Met
BY Keys DEF Walks, AtTail, Found

\* The other workers are where they were.
LEMMA OtherWorkers ==
  ASSUME Types, Types', Map!Remember, NEW t, NEW u \in Thread, u # t, Alone(t),
         NEW r \in [Obj -> Nat], NEW rr, Evolves(t, r, rr), L \subseteq Met, Worker(u, r)
  PROVE  Worker(u, rr)'
<1>1. /\ loc'[u] = loc[u] /\ call'[u] = call[u] /\ left'[u] = left[u] /\ (lock = u <=> lock' = u)
  BY DEF Alone
<1>2. CASE call[u] = <<>>
  BY <1>1, <1>2 DEF Worker
<1>3. CASE call[u] # <<>>
  <2>1. Owns(u) /\ Walks(u, r) /\ Loaded(u) /\ Remembers(u) /\ Ends(u)
    BY <1>3 DEF Worker
  <2>2. L \subseteq Allocated /\ Met \subseteq Allocated /\ Allocated \subseteq Map!Node
    BY TableTypes
  <2>3. /\ past'[u].stayed \subseteq past[u].stayed /\ past[u].been \subseteq past'[u].been
        /\ Remembers(u)'
    BY <1>1, <1>3, <2>1, <2>2, RemembersOn DEF Evolves
  <2>4. /\ Map!KeyOf(u)' = Map!KeyOf(u) /\ \A name : Map!Is(u, name)' <=> Map!Is(u, name)
    BY <1>1 DEF Map!KeyOf, Map!Is
  <2>5. Map!Is(u, "insert") /\ loc[u].pc \notin {"store", "return"} => Private(u)
    BY <2>1 DEF Owns, Private
  <2>6. /\ \A x \in Allocated : x \in Allocated' /\ mem'[<<x, "key">>] = mem[<<x, "key">>]
        /\ \A x \in Met : rr[x] = r[x] /\ x \in Met'
        /\ Private(u) => /\ mem'[<<loc[u].node, "next">>] = mem[<<loc[u].node, "next">>]
                         /\ mem'[<<loc[u].node, "prev">>] = mem[<<loc[u].node, "prev">>]
    BY DEF Evolves
  <2>7. \A x \in Heads \union Tails \union Met : Of(x)' = Of(x)
    BY <2>2, <2>6, SameBucket
  <2>14. loc[u].curr \in Heads \union Tails \union Met => Of(loc[u].curr)' = Of(loc[u].curr)
    <3>1. PICK c : c = loc[u].curr /\ c = loc'[u].curr
      BY <1>1
    <3>2. c \in Heads \union Tails \union Met => Of(c)' = Of(c)
      BY <2>7
    <3> QED  BY <3>1, <3>2
  <2>8. Owns(u)'
    BY <1>1, <2>1, <2>4, <2>5, <2>6 DEF Owns, Off
  <2>9. Found(u) => Found(u)'
    BY <1>1, <2>2, <2>3, <2>4, <2>6 DEF Found
  <2>10. AtTail(u) => AtTail(u)'
    BY <1>1, <2>3, <2>4 DEF AtTail
  <2>11. Walks(u, rr)'
    <3>1. loc[u].pc = "walk" => /\ loc[u].curr \in Met' /\ Of(loc[u].curr)' = Map!Bucket(Map!KeyOf(u))
                                /\ \A s \in past'[u].stayed : rr[loc[u].curr] < rr[s]
      <4>1. past[u].stayed \subseteq Met
        BY <2>1 DEF Remembers
      <4>2. loc[u].pc = "walk" => /\ loc[u].curr \in Met /\ Of(loc[u].curr) = Map!Bucket(Map!KeyOf(u))
                                  /\ \A s \in past[u].stayed : r[loc[u].curr] < r[s]
        BY <2>1 DEF Walks
      <4>3. loc[u].pc = "walk" => \A s \in past'[u].stayed : rr[loc[u].curr] = r[loc[u].curr] /\ rr[s] = r[s] /\ s \in past[u].stayed
        BY <2>3, <2>6, <4>1, <4>2
      <4>4. loc[u].pc = "walk" => \A s \in past'[u].stayed : rr[loc[u].curr] < rr[s]
        BY <4>2, <4>3
      <4>5. loc[u].pc = "walk" => loc[u].curr \in Met' /\ Of(loc[u].curr)' = Of(loc[u].curr)
        BY <1>1, <2>6, <2>14, <4>2
      <4> QED  BY <4>2, <4>4, <4>5
    <3> QED  BY <1>1, <2>1, <2>4, <2>9, <2>10, <3>1 DEF Walks
  <2>12. Loaded(u)'
    <3>1. CASE loc[u].pc \in {"load_next", "qcas"}
      <4>1. Of(loc[u].curr)' = Of(loc[u].curr)
        <5>1. loc[u].curr \in Tails \union Met
          BY <1>3, <2>1, <3>1, CurrIs
        <5> QED  BY <2>14, <5>1
      <4>2. \A y : (IsBefore(loc[u].curr, y) => IsBefore(loc[u].curr, y)') /\ (IsAfter(loc[u].curr, y) => IsAfter(loc[u].curr, y)')
        BY <1>1, <2>6, <2>7, <4>1 DEF IsBefore, IsAfter
      <4> QED  BY <1>1, <2>1, <2>4, <2>5, <2>6, <4>2 DEF Loaded
    <3>2. CASE loc[u].pc \notin {"load_next", "qcas"}
      BY <1>1, <2>4, <3>2 DEF Loaded
    <3> QED  BY <3>1, <3>2
  <2>13. Ends(u)'
    BY <1>1, <2>1, <2>3, <2>4 DEF Ends, Map!IsRegular
  <2> QED  BY <1>1, <1>3, <2>3, <2>8, <2>11, <2>12, <2>13 DEF Worker
<1> QED  BY <1>2, <1>3

\* A step of t is one that keeps the invariant if it leaves the others alone and does its own part.
LEMMA Concludes ==
  ASSUME Types, Types', Map!Remember, NEW t \in Thread, Alone(t),
         NEW r \in [Obj -> Nat], L \subseteq Met, \A u \in Thread : Worker(u, r),
         NEW rr, Evolves(t, r, rr), Table(rr)', Worker(t, rr)'
  PROVE  TableInv'
<1>1. rr \in [Obj -> Nat]
  BY DEF Evolves
<1>2. \A u \in Thread : Worker(u, rr)'
  BY OtherWorkers
<1> QED  BY <1>1, <1>2 DEF TableInv

\* t is inside a call.
Begun(t, r) ==
  /\ Types /\ r \in [Obj -> Nat] /\ Table(r) /\ \A u \in Thread : Worker(u, r)
  /\ call[t] # <<>>

\* What is known of a worker inside a call.
LEMMA BegunFacts ==
  ASSUME NEW t \in Thread, NEW r, Begun(t, r)
  PROVE  /\ Types /\ r \in [Obj -> Nat] /\ Table(r) /\ L \subseteq Met
         /\ \A u \in Thread : Worker(u, r)
         /\ call[t] # <<>> /\ left[t] > 0 /\ loc[t].pc \in Places \ {"idle"} /\ "pc" \in DOMAIN loc[t]
         /\ Owns(t) /\ Walks(t, r) /\ Loaded(t) /\ Remembers(t) /\ Ends(t)
BY DEF Begun, Worker, Table, Memory

\* The step of t decides what its call does, or changes nothing in the table.
Effect(t) ==
  IF ~Decided(t) /\ Decided(t)' THEN Map!TakesEffect(t) ELSE L' = L

\* t keeps its node.
Keeps(t) ==
  /\ Alone(t) /\ "pc" \in DOMAIN loc'[t]
  /\ "node" \in DOMAIN loc'[t] <=> "node" \in DOMAIN loc[t]
  /\ "node" \in DOMAIN loc[t] => loc'[t].node = loc[t].node

\* The nodes nobody else has come across stay the same if the one of t does.
LEMMA KeepsOwn ==
  ASSUME NEW t \in Thread, Keeps(t), Private(t)' <=> Private(t)
  PROVE  Map!Own' = Map!Own
<1>1. \A u \in Thread : (Private(u)' <=> Private(u)) /\ (Private(u) => loc'[u].node = loc[u].node)
  BY DEF Keeps, Alone, Private
<1>2. \A x : x \in Map!Own' <=> x \in Map!Own
  BY <1>1, OwnIs
<1> QED  BY <1>2

\* The types after a step of t.
LEMMA TypesOn ==
  ASSUME Types, Map!Remember, H!MCASTypeOK', H!LockDiscipline', made' \in 0 .. MapNodes, left' \in [Thread -> Nat],
         call' \in [Thread -> {<<>>} \union (Names \X {""} \X MapKey)],
         NEW t \in Thread, Alone(t),
         "node" \in DOMAIN loc'[t] => \A u \in Thread : u # t /\ "node" \in DOMAIN loc[u] => loc[u].node # loc'[t].node
  PROVE  Types'
<1>1. Map!Linked' \subseteq Map!Node
  BY DEF Map!Linked
<1>2. past' \in [Thread -> [stayed : SUBSET Map!Node, been : SUBSET Map!Node]]
  BY <1>1, PastType DEF Types
<1>3. Map!M!MCASTypeOK' /\ Map!M!LockDiscipline'
  BY TableSame
<1>4. \A u, v \in Thread : "node" \in DOMAIN loc'[u] /\ "node" \in DOMAIN loc'[v] /\ loc'[u].node = loc'[v].node => u = v
  BY DEF Types, Alone
<1>5. DOMAIN loc' = Thread
  BY DEF Alone
<1> QED  BY <1>2, <1>3, <1>4, <1>5 DEF Types

\* The types after a step of t inside its call.
LEMMA KeepsTypes ==
  ASSUME Types, Map!Remember, H!MCASTypeOK', H!LockDiscipline', UNCHANGED <<made, call, left>>,
         NEW t \in Thread, Keeps(t)
  PROVE  Types'
<1>1. /\ made' \in 0 .. MapNodes /\ left' \in [Thread -> Nat]
      /\ call' \in [Thread -> {<<>>} \union (Names \X {""} \X MapKey)]
  BY DEF Types
<1>2. "node" \in DOMAIN loc'[t] => \A u \in Thread : u # t /\ "node" \in DOMAIN loc[u] => loc[u].node # loc'[t].node
  BY DEF Types, Keeps
<1> QED  BY <1>1, <1>2, TypesOn DEF Keeps

\* The memory is as it was.
LEMMA QuietTable ==
  ASSUME NEW t, NEW r, Types, r \in [Obj -> Nat], Table(r), UNCHANGED <<mem, lock, todo, made>>, Map!Own' = Map!Own
  PROVE  Table(r)' /\ L' = L /\ Met' = Met /\ Evolves(t, r, r)
<1>1. Settled' = Settled
  BY TableSame DEF Settled, H!Settled, H!Stored
<1>2. L' = L
  BY <1>1 DEF L, InTable
<1>3. Met' = Met /\ Allocated' = Allocated
  BY DEF Met, Allocated
<1>4. \A x : Of(x)' = Of(x)
  BY DEF Of
<1>5. \A x, y : (Ahead(r, x, y)' <=> Ahead(r, x, y)) /\ (IsBefore(x, y)' <=> IsBefore(x, y)) /\ (IsAfter(x, y)' <=> IsAfter(x, y))
  BY <1>2, <1>3, <1>4 DEF Ahead, IsBefore, IsAfter
<1>6. Ranks(r)'
  BY <1>2 DEF Table, Ranks
<1>7. Chained(r)'
  BY <1>1, <1>2, <1>5 DEF Table, Chained
<1>8. Memory(r)'
  <2>1. \A x : (LinksTo(Settled, x)' <=> LinksTo(Settled, x)) /\ (LinksTo(mem, x)' <=> LinksTo(mem, x))
    BY <1>1, <1>5 DEF LinksTo
  <2> QED  BY <1>1, <1>2, <1>3, <1>5, <2>1 DEF Table, Memory, Off
<1>9. Evolves(t, r, r)
  BY <1>3 DEF Evolves
<1> QED  BY <1>2, <1>3, <1>6, <1>7, <1>8, <1>9 DEF Table

\* A step of t that changes nothing but where t is.
LEMMA LocalStep ==
  ASSUME NEW t \in Thread, NEW r, Begun(t, r), Map!Remember, Keeps(t),
         UNCHANGED <<mem, lock, todo, made, call, left>>,
         loc[t].pc \notin {"store", "return"}, loc'[t].pc \in Places \ {"idle", "store"},
         Map!Is(t, "insert") => loc[t].pc # "qcas" /\ loc'[t].pc \notin {"qcas", "return"},
         "value" \in DOMAIN loc'[t] <=> loc'[t].pc = "return",
         loc'[t].pc = "return" => loc'[t].value \in BOOLEAN /\ (loc'[t].value => Map!Is(t, "contains")),
         Types' => Walks(t, r)' /\ Loaded(t)' /\ (loc'[t].pc = "return" => Map!IsRegular(t)')
  PROVE  TableInv' /\ Effect(t)
<1>1. /\ Types /\ r \in [Obj -> Nat] /\ Table(r) /\ L \subseteq Met
      /\ \A u \in Thread : Worker(u, r)
      /\ call[t] # <<>> /\ left[t] > 0 /\ loc[t].pc \in Places \ {"idle"}
      /\ Owns(t) /\ Walks(t, r) /\ Loaded(t) /\ Remembers(t) /\ Ends(t)
  BY BegunFacts
<1>2. Types'
  <2>1. H!NoStore
    BY DEF H!NoStore
  <2>2. H!MCASTypeOK' /\ H!LockDiscipline'
    BY <1>1, <2>1, TableTypes, TableAssumed, H!NoStoreStep
  <2> QED  BY <1>1, <2>2, KeepsTypes
<1>3. Private(t)' <=> Private(t)
  BY <1>1 DEF Private, Keeps, Owns
<1>4. Table(r)' /\ L' = L /\ Met' = Met /\ Evolves(t, r, r)
  BY <1>1, <1>3, KeepsOwn, QuietTable
<1>5. /\ Map!KeyOf(t)' = Map!KeyOf(t) /\ \A name : Map!Is(t, name)' <=> Map!Is(t, name)
  BY DEF Map!KeyOf, Map!Is
<1>6. Owns(t)'
  BY <1>1, <1>4, <1>5 DEF Owns, Keeps, Off, Evolves
<1>7. Remembers(t)'
  <2>1. Met \subseteq Allocated
    BY <1>1, TableTypes
  <2> QED  BY <1>1, <1>2, <1>4, <2>1, RemembersOn DEF Evolves
<1>8. Ends(t)'
  BY <1>1, <1>2 DEF Ends
<1>9. Worker(t, r)'
  BY <1>1, <1>2, <1>6, <1>7, <1>8 DEF Worker, Keeps
<1>10. TableInv'
  BY <1>1, <1>2, <1>4, <1>9, Concludes DEF Keeps
<1>11. Effect(t)
  <2>1. Map!Linked' = Map!Linked
    BY <1>1, <1>2, <1>4, TableTypes, TableTypesNext
  <2> QED  BY <1>4, <2>1 DEF Effect, Decided, Map!TakesEffect
<1> QED  BY <1>10, <1>11

\* Where the next of an object leads that a worker has come across.
LEMMA NextIs ==
  ASSUME Types, NEW r, Table(r), NEW x \in Heads \union Met
  PROVE  mem[<<x, "next">>] = Map!Null \/ Ahead(r, x, mem[<<x, "next">>])
<1>1. x \in Obj /\ (x \in Met => x \in Map!Node /\ x \notin Map!Own)
  BY TableTypes, Objects DEF Met
<1>2. CASE mem[<<x, "next">>] # Settled[<<x, "next">>]
  BY <1>1, <1>2 DEF Table, Memory
<1>3. CASE mem[<<x, "next">>] = Settled[<<x, "next">>]
  <2>1. CASE x \in Heads \union L
    BY <1>3, <2>1 DEF Table, Chained
  <2>2. CASE x \notin Heads \union L
    <3>1. Off(Settled, x)
      BY <1>1, <2>2 DEF Table, Memory
    <3> QED  BY <1>3, <3>1 DEF Off
  <2> QED  BY <2>1, <2>2
<1> QED  BY <1>2, <1>3

\* A step of t that sets the locals of frame keeps its other ones.
LEMMA GoFrame ==
  ASSUME NEW t \in Thread, NEW r, Begun(t, r), NEW frame, Go(t, frame), "node" \notin DOMAIN frame, "pc" \in DOMAIN frame,
         UNCHANGED <<call, left>>, \A u \in Thread : u # t => (lock = u <=> lock' = u)
  PROVE  /\ Keeps(t) /\ DOMAIN loc'[t] = DOMAIN frame \union DOMAIN loc[t]
         /\ \A x \in DOMAIN frame : loc'[t][x] = frame[x]
         /\ \A x \in DOMAIN loc[t] \ DOMAIN frame : loc'[t][x] = loc[t][x]
<1>1. DOMAIN loc = Thread
  BY DEF Begun, Types
<1>2. /\ DOMAIN loc' = Thread
      /\ \A u \in Thread : u # t => loc'[u] = loc[u]
      /\ DOMAIN loc'[t] = DOMAIN frame \union DOMAIN loc[t]
      /\ \A x \in DOMAIN frame : loc'[t][x] = frame[x]
      /\ \A x \in DOMAIN loc[t] \ DOMAIN frame : loc'[t][x] = loc[t][x]
  BY <1>1 DEF Go, Updated
<1>3. Alone(t)
  BY <1>2 DEF Alone
<1>4. "node" \in DOMAIN loc[t] => loc'[t].node = loc[t].node
  BY <1>2
<1> QED  BY <1>2, <1>3, <1>4 DEF Keeps

\* The frames of the map are those of the program.
LEMMA MapFrames ==
  /\ \A t, l : Map!At(t, l) <=> At(t, l)
  /\ \A t, f : Map!Go(t, f) <=> Go(t, f)
  /\ \A t, v : Map!Returns(t, v) <=> Returns(t, v)
  /\ \A o, f : Map!Updated(o, f) = Updated(o, f)
BY DEF Map!At, At, Map!Go, Go, Map!Updated, Updated, Map!Returns, Returns

\* goto retry keeps the node of the call and nothing else.
LEMMA RestartFrame ==
  ASSUME NEW t \in Thread, NEW r, Begun(t, r), Map!Restart(t), UNCHANGED <<call, left>>
  PROVE  /\ Keeps(t) /\ loc'[t].pc = "first" /\ UNCHANGED <<lock, todo, made, crashed>>
         /\ DOMAIN loc'[t] = {"pc"} \union ({"node"} \cap DOMAIN loc[t])
<1>1. DOMAIN loc = Thread
  BY DEF Begun, Types
<1>2. /\ UNCHANGED <<lock, todo, made, crashed>>
      /\ loc' = [loc EXCEPT ![t] = Updated([f \in {"node"} \cap DOMAIN loc[t] |-> loc[t][f]], [pc |-> "first"])]
  BY MapFrames, Zenon DEF Map!Restart
<1>3. /\ DOMAIN loc' = Thread /\ \A u \in Thread : u # t => loc'[u] = loc[u]
      /\ loc'[t] = Updated([f \in {"node"} \cap DOMAIN loc[t] |-> loc[t][f]], [pc |-> "first"])
  BY <1>1, <1>2
<1>4. /\ DOMAIN loc'[t] = {"pc"} \union ({"node"} \cap DOMAIN loc[t])
      /\ loc'[t].pc = "first" /\ ("node" \in DOMAIN loc[t] => loc'[t].node = loc[t].node)
  BY <1>3 DEF Updated
<1> QED  BY <1>2, <1>3, <1>4 DEF Keeps, Alone

\* goto retry of a call whose node has no links yet.
LEMMA Restarts ==
  ASSUME NEW t \in Thread, NEW r, Begun(t, r), Map!Remember, Map!Restart(t), UNCHANGED <<call, left>>,
         loc[t].pc \notin {"store", "return"}, Map!Is(t, "insert") => loc[t].pc # "qcas"
  PROVE  TableInv' /\ Effect(t)
<1>1. /\ Keeps(t) /\ loc'[t].pc = "first" /\ UNCHANGED <<lock, todo, made, crashed>>
      /\ DOMAIN loc'[t] = {"pc"} \union ({"node"} \cap DOMAIN loc[t])
  BY RestartFrame
<1>2. mem' = mem
  <2>1. CASE Map!Is(t, "insert")
    <3>1. Off(mem, loc[t].node)
      BY <2>1, BegunFacts DEF Owns
    <3>2. mem \in [Map!Word -> Int]
      BY BegunFacts, TableTypes
    <3>3. mem' = [mem EXCEPT ![<<loc[t].node, "next">>] = Map!Null, ![<<loc[t].node, "prev">>] = Map!Null]
      BY <2>1 DEF Map!Restart
    <3> QED  BY <3>1, <3>2, <3>3 DEF Off
  <2>2. CASE ~Map!Is(t, "insert")
    BY <2>2 DEF Map!Restart
  <2> QED  BY <2>1, <2>2
<1>3. Walks(t, r)' /\ Loaded(t)'
  BY <1>1 DEF Walks, Loaded
<1>4. "value" \notin DOMAIN loc'[t] /\ loc'[t].pc \in Places \ {"idle", "store"}
  BY <1>1 DEF Places
<1> QED  BY <1>1, <1>2, <1>3, <1>4, LocalStep

\* What a walk that has come past no node of its call finds next.
LEMMA WalkFinds ==
  ASSUME NEW t \in Thread, NEW r, Begun(t, r), NEW x \in Heads \union Met,
         Of(x) = Map!Bucket(Map!KeyOf(t)), \A s \in past[t].stayed : r[x] < r[s],
         NEW c, c = mem[<<x, "next">>], c # Map!Null
  PROVE  \/ c = Map!TailOf(Map!Bucket(Map!KeyOf(t))) /\ past[t].stayed = {}
         \/ /\ c \in L /\ c \in Met /\ c \notin Tails /\ Of(c) = Map!Bucket(Map!KeyOf(t))
            /\ mem[<<c, "key">>] = Map!KeyOf(t) => c \in past[t].been
            /\ mem[<<c, "key">>] # Map!KeyOf(t) => \A s \in past[t].stayed : r[c] < r[s]
<1>1. Types /\ Table(r) /\ Remembers(t) /\ L \subseteq Met /\ call[t] # <<>> /\ r \in [Obj -> Nat]
  BY BegunFacts
<1>2. Ahead(r, x, c)
  BY <1>1, NextIs
<1>3. past[t].stayed \subseteq L /\ \A s \in past[t].stayed : mem[<<s, "key">>] = Map!KeyOf(t) /\ Of(s) = Of(x)
  <2>1. past[t].stayed \subseteq L /\ \A s \in past[t].stayed : mem[<<s, "key">>] = Map!KeyOf(t)
    BY <1>1 DEF Remembers
  <2>2. \A s \in L : Of(s) = Map!Bucket(mem[<<s, "key">>])
    BY <1>1, TableTypes, Buckets
  <2> QED  BY <2>1, <2>2
<1>4. x \in Obj /\ c \in Obj /\ L \subseteq Obj
  <2>1. Met \subseteq Obj /\ L \subseteq Obj
    BY <1>1, TableTypes, Objects
  <2> QED  BY <1>2, <2>1, Objects DEF Ahead
<1>5. \A s \in past[t].stayed : r[c] <= r[s]
  <2>1. \A s \in past[t].stayed : r[s] <= r[x] \/ r[c] <= r[s]
    BY <1>2, <1>3 DEF Ahead
  <2> QED  BY <1>1, <1>3, <1>4, <2>1
<1>6. CASE c \in Tails
  <2>1. \A s \in past[t].stayed : r[s] < r[c]
    <3>1. \A s \in L : s \in Obj /\ s \notin Tails
      BY <1>1, TableTypes, Objects
    <3>2. \A s \in L : r[s] < r[c]
      BY <1>1, <1>6, <3>1 DEF Table, Ranks
    <3> QED  BY <1>3, <3>2
  <2>2. past[t].stayed = {}
    BY <1>1, <1>3, <1>4, <1>5, <2>1
  <2>3. c = Map!TailOf(Of(c)) /\ Of(c) = Of(x)
    BY <1>2, <1>6, Buckets DEF Ahead
  <2> QED  BY <2>2, <2>3
<1>7. CASE c \notin Tails
  <2>1. c \in L /\ c \in Met /\ Of(c) = Of(x)
    BY <1>1, <1>2, <1>7 DEF Ahead
  <2>2. mem[<<c, "key">>] = Map!KeyOf(t) => c \in past[t].been
    BY <1>1, <2>1 DEF Remembers
  <2>3. ASSUME mem[<<c, "key">>] # Map!KeyOf(t), NEW s \in past[t].stayed  PROVE r[c] < r[s]
    <3>1. s # c /\ s \in L
      BY <1>3, <2>3
    <3>2. r[s] # r[c]
      BY <1>1, <2>1, <3>1 DEF Table, Ranks
    <3>3. r[s] \in Nat /\ r[c] \in Nat
      BY <1>1, <1>4, <3>1
    <3> QED  BY <1>5, <3>2, <3>3
  <2> QED  BY <1>7, <2>1, <2>2, <2>3
<1> QED  BY <1>6, <1>7

\* A step that neither allocates a node nor links one shows nobody a new node.
LEMMA MetStays ==
  ASSUME NEW t \in Thread, Owns(t), Keeps(t), UNCHANGED made,
         Map!Is(t, "insert") => loc[t].pc \notin {"store", "return"} /\ loc'[t].pc \notin {"store", "return"}
  PROVE  Met' = Met
<1>1. Private(t)' <=> Private(t)
  BY DEF Private, Keeps, Owns
<1> QED  BY <1>1, KeepsOwn DEF Met, Allocated

\* Load the next node of the walk, and go on with what it is.
LEMMA TableWalk ==
  ASSUME NEW t \in Thread, NEW r, Begun(t, r), Map!Remember, Map!Walk(t), UNCHANGED <<call, left>>
  PROVE  TableInv' /\ Effect(t)
<1> DEFINE k == Map!KeyOf(t)
           x == IF At(t, "first") THEN Map!HeadOf(Map!Bucket(k)) ELSE loc[t].curr
           c == mem[<<x, "next">>]
<1>1. /\ Types /\ Table(r) /\ call[t] # <<>> /\ Walks(t, r) /\ Loaded(t) /\ Ends(t) /\ Owns(t) /\ Remembers(t)
      /\ r \in [Obj -> Nat] /\ L \subseteq Met /\ \A u \in Thread : Worker(u, r)
  BY BegunFacts
<1>2. loc[t].pc \in {"first", "walk"}
  BY MapFrames DEF Map!Walk, At
<1>3. /\ k \in MapKey /\ Map!Bucket(k) \in Heads /\ Map!HeadOf(Map!Bucket(k)) = Map!Bucket(k)
      /\ Map!TailOf(Map!Bucket(k)) \in Tails /\ \E name \in Names : Map!Is(t, name)
  BY <1>1, Keys DEF Map!Is
<1>4. x \in Heads \union Met /\ Of(x) = Map!Bucket(k) /\ \A s \in past[t].stayed : r[x] < r[s]
  <2>1. CASE At(t, "first")
    <3>1. x \in Heads /\ Of(x) = Map!Bucket(k)
      BY <1>3, <2>1, Buckets
    <3>2. \A s \in past[t].stayed : s \in Obj /\ s \notin Heads
      BY <1>1, TableTypes, Objects DEF Remembers
    <3>3. \A y \in Obj : r[y] = 0 <=> y \in Heads
      BY <1>1 DEF Table, Ranks
    <3>4. r[x] = 0 /\ \A s \in past[t].stayed : r[s] \in Nat /\ r[s] # 0
      BY <1>1, <3>1, <3>2, <3>3, Objects
    <3>5. \A s \in past[t].stayed : r[x] < r[s]
      BY <3>4
    <3> QED  BY <3>1, <3>5
  <2>2. CASE ~At(t, "first")
    BY <1>1, <1>2, <2>2 DEF Walks, At
  <2> QED  BY <2>1, <2>2
<1> HIDE DEF x
<1>5. c # Map!Null =>
        \/ c = Map!TailOf(Map!Bucket(k)) /\ past[t].stayed = {}
        \/ /\ c \in L /\ c \in Met /\ c \notin Tails /\ Of(c) = Map!Bucket(k)
           /\ mem[<<c, "key">>] = k => c \in past[t].been
           /\ mem[<<c, "key">>] # k => \A s \in past[t].stayed : r[c] < r[s]
  BY <1>4, WalkFinds
<1> DEFINE Then(label) == Go(t, [pc |-> label, curr |-> c]) /\ Map!Quiet
           same == c \notin {Map!TailOf(Map!Bucket(k)), Map!Null} /\ mem[<<c, "key">>] = k
<1>6. \/ c = Map!Null /\ Map!Is(t, "contains") /\ Then("spin")
      \/ c = Map!Null /\ ~Map!Is(t, "contains") /\ Map!Restart(t)
      \/ c = Map!TailOf(Map!Bucket(k)) /\ Map!Is(t, "insert") /\ Then("load_prev")
      \/ c = Map!TailOf(Map!Bucket(k)) /\ ~Map!Is(t, "insert") /\ Returns(t, FALSE) /\ Map!Quiet
      \/ same /\ Map!Is(t, "insert") /\ Then("load_value")
      \/ same /\ Map!Is(t, "remove") /\ Then("load_prev")
      \/ same /\ Map!Is(t, "contains") /\ Go(t, [pc |-> "return", value |-> TRUE, curr |-> c]) /\ Map!Quiet
      \/ c # Map!Null /\ c # Map!TailOf(Map!Bucket(k)) /\ ~same /\ Then("walk")
  BY MapFrames, Zenon DEF Map!Walk, x
<1> HIDE DEF c, k, same
<1>7. Map!Quiet => UNCHANGED <<mem, lock, todo, made>>
  BY DEF Map!Quiet, Map!M!NoStore
<1>8. Map!Restart(t) => TableInv' /\ Effect(t)
  BY <1>2, Restarts
<1>9. ASSUME Types', UNCHANGED mem
      PROVE  past'[t].stayed \subseteq past[t].stayed /\ past[t].been \subseteq past'[t].been
  <2>1. L \subseteq Allocated
    BY <1>1, TableTypes
  <2> QED  BY <1>1, <1>9, <2>1, RemembersOn
<1>10. /\ Map!KeyOf(t)' = k /\ \A name : Map!Is(t, name)' <=> Map!Is(t, name)
  BY DEF Map!KeyOf, Map!Is, k
<1>11. ASSUME NEW l \in {"spin", "load_prev", "load_value", "walk"}, Then(l), Types' => Walks(t, r)'
       PROVE  TableInv' /\ Effect(t)
  <2> DEFINE f == [pc |-> l, curr |-> c]
  <2>1. DOMAIN f = {"pc", "curr"} /\ f.pc = l
    OBVIOUS
  <2> HIDE DEF f
  <2>2. Go(t, f)
    BY <1>11 DEF f
  <2>3. UNCHANGED <<mem, lock, todo, made>>
    BY <1>7, <1>11
  <2>4. Keeps(t) /\ DOMAIN loc'[t] = {"pc", "curr"} \union DOMAIN loc[t] /\ loc'[t].pc = l
    BY <2>1, <2>2, <2>3, GoFrame
  <2>5. Loaded(t)'
    BY <2>4 DEF Loaded
  <2>6. "value" \notin DOMAIN loc'[t]
    BY <1>1, <1>2, <2>4 DEF Ends
  <2>7. l \in Places \ {"idle", "store", "return", "qcas"}
    BY DEF Places
  <2> QED  BY <1>2, <1>11, <2>3, <2>4, <2>5, <2>6, <2>7, LocalStep
<1>12. ASSUME NEW l, Then(l)  PROVE loc'[t].pc = l /\ loc'[t].curr = c /\ "curr" \in DOMAIN loc'[t] /\ UNCHANGED <<mem, made>> /\ Keeps(t)
  <2> DEFINE f == [pc |-> l, curr |-> c]
  <2>1. DOMAIN f = {"pc", "curr"} /\ f.pc = l /\ f.curr = c
    OBVIOUS
  <2> HIDE DEF f
  <2>2. Go(t, f)
    BY <1>12 DEF f
  <2>3. UNCHANGED <<mem, lock, todo, made>>
    BY <1>7, <1>12
  <2> QED  BY <2>1, <2>2, <2>3, GoFrame
<1>13. ASSUME c = Map!Null, Map!Is(t, "contains"), Then("spin")  PROVE TableInv' /\ Effect(t)
  <2>1. Walks(t, r)'
    BY <1>10, <1>12, <1>13 DEF Walks
  <2> QED  BY <1>11, <1>13, <2>1
<1>14. ASSUME c = Map!TailOf(Map!Bucket(k)), Map!Is(t, "insert"), Then("load_prev")  PROVE TableInv' /\ Effect(t)
  <2>1. past[t].stayed = {}
    BY <1>3, <1>5, <1>14, Objects
  <2>2. Types' => AtTail(t)'
    BY <1>9, <1>10, <1>12, <1>14, <2>1 DEF AtTail, k
  <2>3. Types' => Walks(t, r)'
    BY <1>10, <1>12, <1>14, <2>2 DEF Walks
  <2> QED  BY <1>11, <1>14, <2>3
<1>15. ASSUME same  PROVE c \in Met /\ mem[<<c, "key">>] = k /\ c \in past[t].been
  BY <1>3, <1>5, <1>15 DEF same
<1>16. ASSUME same, NEW l \in {"load_prev", "load_value"}, Then(l), Types'  PROVE Found(t)'
  <2>1. /\ c \in Met /\ mem[<<c, "key">>] = k /\ c \in past[t].been
        /\ loc'[t].curr = c /\ loc'[t].pc = l /\ UNCHANGED <<mem, made>> /\ Keeps(t)
    BY <1>12, <1>15, <1>16
  <2>2. Met' = Met
    BY <1>1, <1>2, <1>16, <2>1, MetStays
  <2> QED  BY <1>9, <1>10, <1>16, <2>1, <2>2 DEF Found
<1>17. ASSUME same, Map!Is(t, "insert"), Then("load_value")  PROVE TableInv' /\ Effect(t)
  <2>1. Types' => Walks(t, r)'
    BY <1>10, <1>12, <1>16, <1>17 DEF Walks
  <2> QED  BY <1>11, <1>17, <2>1
<1>18. ASSUME same, Map!Is(t, "remove"), Then("load_prev")  PROVE TableInv' /\ Effect(t)
  <2>1. Types' => Walks(t, r)'
    BY <1>10, <1>12, <1>16, <1>18 DEF Walks
  <2> QED  BY <1>11, <1>18, <2>1
<1>19. ASSUME c # Map!Null, c # Map!TailOf(Map!Bucket(k)), ~same, Then("walk")  PROVE TableInv' /\ Effect(t)
  <2>1. c \in Met /\ Of(c) = Map!Bucket(k) /\ \A s \in past[t].stayed : r[c] < r[s]
    BY <1>5, <1>19 DEF same
  <2>2. loc'[t].pc = "walk" /\ loc'[t].curr = c /\ "curr" \in DOMAIN loc'[t] /\ UNCHANGED <<mem, made>> /\ Keeps(t)
    BY <1>12, <1>19
  <2>3. Met' = Met
    BY <1>1, <1>2, <2>2, MetStays
  <2>7. \A d : Of(d)' = Of(d)
    BY <2>2 DEF Of
  <2>4. Types' => \A s \in past'[t].stayed : r[c] < r[s]
    BY <1>9, <2>1, <2>2
  <2>5. Of(loc[t].curr)' = Map!Bucket(k)
    <3>1. PICK d : d = c /\ d = loc'[t].curr
      BY <2>2
    <3>2. Of(d)' = Of(d)
      BY <2>7
    <3> QED  BY <2>1, <3>1, <3>2
  <2>6. Types' => Walks(t, r)'
    BY <1>10, <2>1, <2>2, <2>3, <2>4, <2>5 DEF Walks
  <2> QED  BY <1>11, <1>19, <2>6
<1>20. ASSUME c = Map!TailOf(Map!Bucket(k)), ~Map!Is(t, "insert"), Returns(t, FALSE), Map!Quiet  PROVE TableInv' /\ Effect(t)
  <2> DEFINE f == [pc |-> "return", value |-> FALSE]
  <2>1. DOMAIN f = {"pc", "value"} /\ f.pc = "return" /\ f.value = FALSE
    OBVIOUS
  <2> HIDE DEF f
  <2>2. Go(t, f)
    BY <1>20 DEF f, Returns
  <2>3. UNCHANGED <<mem, lock, todo, made>>
    BY <1>7, <1>20
  <2>4. Keeps(t) /\ "value" \in DOMAIN loc'[t] /\ loc'[t].pc = "return" /\ loc'[t].value = FALSE
    BY <2>1, <2>2, <2>3, GoFrame
  <2>5. Loaded(t)' /\ Walks(t, r)'
    BY <2>4 DEF Loaded, Walks
  <2>6. past[t].stayed = {}
    BY <1>3, <1>5, <1>20, Objects
  <2>7. Types' => Map!IsRegular(t)'
    BY <1>9, <1>10, <1>20, <2>3, <2>4, <2>6 DEF Map!IsRegular
  <2> QED  BY <1>2, <1>20, <2>3, <2>4, <2>5, <2>7, LocalStep DEF Places
<1>21. ASSUME same, Map!Is(t, "contains"), Go(t, [pc |-> "return", value |-> TRUE, curr |-> c]), Map!Quiet
       PROVE  TableInv' /\ Effect(t)
  <2> DEFINE f == [pc |-> "return", value |-> TRUE, curr |-> c]
  <2>1. DOMAIN f = {"pc", "value", "curr"} /\ f.pc = "return" /\ f.value = TRUE /\ f.curr = c
    OBVIOUS
  <2> HIDE DEF f
  <2>2. Go(t, f)
    BY <1>21 DEF f
  <2>3. UNCHANGED <<mem, lock, todo, made>>
    BY <1>7, <1>21
  <2>4. Keeps(t) /\ "value" \in DOMAIN loc'[t] /\ loc'[t].pc = "return" /\ loc'[t].value = TRUE /\ loc'[t].curr = c
    BY <2>1, <2>2, <2>3, GoFrame
  <2>5. Loaded(t)' /\ Walks(t, r)'
    BY <2>4 DEF Loaded, Walks
  <2>6. c \in past[t].been /\ ~Map!Is(t, "insert")
    BY <1>15, <1>21 DEF Map!Is
  <2>7. Types' => Map!IsRegular(t)'
    BY <1>9, <1>10, <1>21, <2>3, <2>4, <2>6 DEF Map!IsRegular
  <2> QED  BY <1>2, <1>21, <2>3, <2>4, <2>5, <2>6, <2>7, LocalStep DEF Places
<1> QED  BY <1>6, <1>8, <1>13, <1>14, <1>17, <1>18, <1>19, <1>20, <1>21

\* The loads of a call that has found a node of its key.
LEMMA TableLoads ==
  ASSUME NEW t \in Thread, NEW r, Begun(t, r), Map!Remember, UNCHANGED <<mem, lock, todo, made, call, left>>,
         NEW frame, Go(t, frame), NEW x \in {"old", "prev", "next"}, DOMAIN frame = {"pc", x},
         \/ loc[t].pc = "load_value" /\ frame.pc = "assign" /\ x = "old"
         \/ loc[t].pc = "load_prev" /\ Map!Is(t, "remove") /\ frame.pc = "load_next" /\ x = "prev"
            /\ frame.prev = mem[<<loc[t].curr, "prev">>]
         \/ loc[t].pc = "load_next" /\ frame.pc = "qcas" /\ x = "next" /\ frame.next = mem[<<loc[t].curr, "next">>]
  PROVE  TableInv' /\ Effect(t)
<1>1. /\ Types /\ Table(r) /\ call[t] # <<>> /\ Walks(t, r) /\ Loaded(t) /\ Ends(t) /\ Owns(t) /\ Remembers(t)
      /\ r \in [Obj -> Nat] /\ L \subseteq Met
  BY BegunFacts
<1>2. /\ Keeps(t) /\ DOMAIN loc'[t] = {"pc", x} \union DOMAIN loc[t]
      /\ loc'[t].pc = frame.pc /\ loc'[t][x] = frame[x]
      /\ \A y \in DOMAIN loc[t] \ {"pc", x} : loc'[t][y] = loc[t][y]
  BY GoFrame
<1>3. /\ Map!KeyOf(t)' = Map!KeyOf(t) /\ \A name : Map!Is(t, name)' <=> Map!Is(t, name)
  BY DEF Map!KeyOf, Map!Is
<1>4. loc[t].pc \in {"load_value", "load_prev", "load_next"} /\ loc'[t].pc \in {"assign", "load_next", "qcas"}
  BY <1>2
<1>5. Found(t) /\ "curr" \in DOMAIN loc[t] /\ ((loc[t].pc = "load_value") <=> Map!Is(t, "insert")) /\ (loc[t].pc # "load_value" => Map!Is(t, "remove"))
  BY <1>1, <1>4 DEF Walks, Map!Is
<1>6. Met' = Met
  BY <1>1, <1>2, <1>4, MetStays
<1>7. loc'[t].curr = loc[t].curr /\ "curr" \in DOMAIN loc'[t]
  BY <1>2, <1>5
<1>8. ASSUME Types'  PROVE Found(t)'
  <2>1. L \subseteq Allocated
    BY <1>1, TableTypes
  <2>2. past[t].been \subseteq past'[t].been
    BY <1>1, <1>8, <2>1, RemembersOn
  <2> QED  BY <1>3, <1>5, <1>6, <1>7, <2>2 DEF Found
<1>9. Types' => Walks(t, r)'
  BY <1>2, <1>3, <1>4, <1>5, <1>7, <1>8 DEF Walks
<1>10. \A y : (IsBefore(loc[t].curr, y)' <=> IsBefore(loc[t].curr, y)) /\ (IsAfter(loc[t].curr, y)' <=> IsAfter(loc[t].curr, y))
  <2>1. \A y : Of(y)' = Of(y)
    BY DEF Of
  <2>2. \A c, y : (IsBefore(c, y)' <=> IsBefore(c, y)) /\ (IsAfter(c, y)' <=> IsAfter(c, y))
    BY <1>6, <2>1 DEF IsBefore, IsAfter
  <2> QED  BY <1>7, <2>2
<1>11. LinksTo(mem, loc[t].curr)
  <2>1. loc[t].curr \in Obj
    BY <1>1, <1>5, TableTypes, Objects DEF Found
  <2> QED  BY <1>1, <2>1 DEF Table, Memory
<1>12. Loaded(t)'
  <2>1. CASE loc[t].pc = "load_value"
    BY <1>2, <2>1 DEF Loaded
  <2>2. CASE loc[t].pc = "load_prev"
    BY <1>2, <1>10, <1>11, <2>2 DEF Loaded, LinksTo
  <2>3. CASE loc[t].pc = "load_next"
    <3>1. "prev" \in DOMAIN loc[t] /\ (loc[t].prev # Map!Null => IsBefore(loc[t].curr, loc[t].prev))
      BY <1>1, <2>3 DEF Loaded
    <3>2. "prev" \in DOMAIN loc'[t] /\ loc'[t].prev = loc[t].prev
      BY <1>2, <2>3, <3>1
    <3>3. loc'[t].next = mem[<<loc[t].curr, "next">>] /\ "next" \in DOMAIN loc'[t] /\ ~Map!Is(t, "insert")
      BY <1>2, <1>5, <2>3
    <3> QED  BY <1>2, <1>3, <1>10, <1>11, <2>3, <3>1, <3>2, <3>3 DEF Loaded, LinksTo
  <2> QED  BY <1>4, <2>1, <2>2, <2>3
<1>13. "value" \notin DOMAIN loc'[t]
  BY <1>1, <1>2, <1>4 DEF Ends
<1> QED  BY <1>1, <1>2, <1>4, <1>5, <1>9, <1>12, <1>13, LocalStep DEF Places

-----------------------------------------------------------------------------
\* Stores that settle nothing anew.
LEMMA LinksSame ==
  ASSUME Types, NEW r \in [Obj -> Nat], Table(r), UNCHANGED made,
         \A x \in Obj, f \in {"key", "next", "prev"} : Settled'[<<x, f>>] = Settled[<<x, f>>],
         \A x \in Obj : mem'[<<x, "key">>] = mem[<<x, "key">>],
         \A x \in Obj, f \in {"next", "prev"} : mem'[<<x, f>>] \in {mem[<<x, f>>], Settled[<<x, f>>]},
         \A i \in 1 .. Len(todo') : \E j \in 1 .. Len(todo) : todo'[i].addr = todo[j].addr,
         Map!Own' \subseteq Map!Own, \A x \in Map!Own \ Map!Own' : Off(Settled, x)
  PROVE  Table(r)' /\ L' = L /\ Met \subseteq Met' /\ Allocated' = Allocated
<1>1. Allocated' = Allocated /\ Met \subseteq Met'
  BY DEF Met, Allocated
<1>2. Ranks(r) /\ Chained(r) /\ Memory(r)
  BY DEF Table
<1>3. Heads \subseteq Obj /\ Tails \subseteq Obj /\ Map!Node \subseteq Obj /\ Allocated \subseteq Map!Node /\ Met \subseteq Map!Node /\ L \subseteq Met
  BY <1>2, TableTypes, Objects DEF Memory, Met
<1>4. \A x \in Obj : Settled[<<x, "prev">>] # Map!Null => Settled[<<x, "prev">>] \in Obj
  BY <1>2, <1>3 DEF Memory, LinksTo, IsBefore
<1>5. L' = L
  <2>1. \A x \in Map!Node : x \in L' <=> x \in L
    BY <1>3, <1>4 DEF L, InTable
  <2> QED  BY <2>1 DEF L, InTable
<1>6. \A x \in Obj : Of(x)' = Of(x)
  BY DEF Of
<1>7. \A x \in Obj : \A y : (Ahead(r, x, y) => Ahead(r, x, y)') /\ (IsBefore(x, y) => IsBefore(x, y)') /\ (IsAfter(x, y) => IsAfter(x, y)')
  BY <1>1, <1>3, <1>5, <1>6 DEF Ahead, IsBefore, IsAfter
<1>8. Ranks(r)'
  BY <1>2, <1>5 DEF Ranks
<1>9. Chained(r)'
  <2>1. \A x \in Heads \union L : /\ x \in Obj /\ Ahead(r, x, Settled[<<x, "next">>]) /\ Settled[<<x, "next">>] \in Obj
                                  /\ Settled[<<Settled[<<x, "next">>], "prev">>] = x
    BY <1>2, <1>3 DEF Chained, Ahead
  <2>2. \A y \in Tails \union L : /\ y \in Obj /\ Settled[<<y, "prev">>] \in Heads \union L /\ Settled[<<y, "prev">>] \in Obj
                                  /\ Settled[<<Settled[<<y, "prev">>], "next">>] = y
    BY <1>2, <1>3 DEF Chained
  <2>3. \A x \in Heads \union L : Ahead(r, x, Settled[<<x, "next">>])' /\ Settled'[<<Settled'[<<x, "next">>], "prev">>] = x
    <3> SUFFICES ASSUME NEW x \in Heads \union L
                 PROVE  Ahead(r, x, Settled[<<x, "next">>])' /\ Settled'[<<Settled'[<<x, "next">>], "prev">>] = x
      OBVIOUS
    <3>1. PICK y : y = Settled[<<x, "next">>] /\ y = Settled'[<<x, "next">>] /\ y \in Obj /\ Ahead(r, x, y)
      BY <2>1
    <3>2. Ahead(r, x, y)'
      BY <1>7, <2>1, <3>1
    <3> QED  BY <2>1, <3>1, <3>2
  <2>4. \A y \in Tails \union L : Settled'[<<y, "prev">>] \in Heads \union L /\ Settled'[<<Settled'[<<y, "prev">>], "next">>] = y
    BY <2>2
  <2> QED  BY <1>5, <2>3, <2>4 DEF Chained
<1>10. Memory(r)'
  <2>1. L' \subseteq Met'
    BY <1>1, <1>3, <1>5
  <2>2. \A x \in Map!Node \ (Map!Own' \union L') : Off(Settled, x)'
    BY <1>2, <1>3, <1>5 DEF Memory, Off
  <2>3. ASSUME NEW x \in Obj  PROVE LinksTo(Settled, x)' /\ LinksTo(mem, x)'
    <3>1. LinksTo(Settled, x) /\ LinksTo(mem, x)
      BY <1>2 DEF Memory
    <3>2. \A y : (IsBefore(x, y) => IsBefore(x, y)') /\ (IsAfter(x, y) => IsAfter(x, y)')
      BY <1>7
    <3>3. /\ Settled'[<<x, "next">>] = Settled[<<x, "next">>] /\ Settled'[<<x, "prev">>] = Settled[<<x, "prev">>]
          /\ mem'[<<x, "next">>] \in {mem[<<x, "next">>], Settled[<<x, "next">>]}
          /\ mem'[<<x, "prev">>] \in {mem[<<x, "prev">>], Settled[<<x, "prev">>]}
      OBVIOUS
    <3>4. PICK a, b, c, d : /\ a = Settled'[<<x, "next">>] /\ b = Settled'[<<x, "prev">>]
                            /\ c = mem'[<<x, "next">>] /\ d = mem'[<<x, "prev">>]
      OBVIOUS
    <3>5. /\ a # Map!Null => IsAfter(x, a)'
          /\ b # Map!Null => IsBefore(x, b)'
          /\ c # Map!Null => IsAfter(x, c)'
          /\ d # Map!Null => IsBefore(x, d)'
      BY <3>1, <3>2, <3>3, <3>4 DEF LinksTo
    <3> QED  BY <3>4, <3>5 DEF LinksTo
  <2>4. ASSUME NEW x \in Obj, mem'[<<x, "next">>] # Settled'[<<x, "next">>]
        PROVE  Settled'[<<x, "next">>] = Map!Null /\ Ahead(r, x, mem[<<x, "next">>])'
    <3>1. mem'[<<x, "next">>] = mem[<<x, "next">>] /\ mem[<<x, "next">>] # Settled[<<x, "next">>]
      BY <2>4
    <3>2. Settled[<<x, "next">>] = Map!Null /\ Ahead(r, x, mem[<<x, "next">>])
      BY <1>2, <3>1 DEF Memory
    <3>3. PICK y : y = mem[<<x, "next">>] /\ y = mem'[<<x, "next">>]
      BY <3>1
    <3>4. Ahead(r, x, y)'
      BY <1>7, <3>2, <3>3
    <3> QED  BY <3>2, <3>3, <3>4
  <2>5. \A x \in Obj : Settled'[<<x, "key">>] = mem'[<<x, "key">>]
    BY <1>2 DEF Memory
  <2>6. \A x \in Allocated' : mem'[<<x, "key">>] \in MapKey
    BY <1>1, <1>2, <1>3 DEF Memory
  <2>7. \A i \in 1 .. Len(todo') : todo'[i].addr \in (Heads \union Tails \union Met') \X {"next", "prev"}
    BY <1>1, <1>2 DEF Memory
  <2> QED  BY <2>1, <2>2, <2>3, <2>4, <2>5, <2>6, <2>7 DEF Memory
<1> QED  BY <1>1, <1>5, <1>8, <1>9, <1>10 DEF Table

\* Where a store of a qcas goes: neither to a key nor to a node that is not linked yet.
LEMMA StoreGoes ==
  ASSUME Types, NEW r, Table(r), NEW t \in Thread, H!StoreNext(t)
  PROVE  /\ \A x \in Obj : mem'[<<x, "key">>] = mem[<<x, "key">>]
         /\ \A x \in Map!Own, f \in {"next", "prev"} : x \in Map!Node => mem'[<<x, f>>] = mem[<<x, f>>]
<1>1. /\ mem \in [Map!Word -> Int] /\ todo \in Seq(H!Words) /\ H!MCASTypeOK /\ H!LockDiscipline
  BY TableTypes DEF H!MCASTypeOK, H!Words
<1>2. lock = t /\ mem' = [mem EXCEPT ![Head(todo).addr] = Head(todo).new]
  BY DEF H!StoreNext, H!StoreFirst
<1>3. todo # <<>>
  BY <1>1, <1>2, McasMapsAssumption DEF H!LockDiscipline
<1>4. Len(todo) \in Nat /\ 1 \in 1 .. Len(todo) /\ Head(todo) = todo[1]
  BY <1>1, <1>3, LenProperties, EmptySeq
<1>5. Head(todo).addr \in (Heads \union Tails \union Met) \X {"next", "prev"}
  BY <1>4 DEF Table, Memory
<1>6. PICK a : a = Head(todo).addr
  OBVIOUS
<1>7. PICK y \in Heads \union Tails \union Met, f \in {"next", "prev"} : a = <<y, f>>
  BY <1>5, <1>6
<1>8. \A w \in Map!Word : w # a => mem'[w] = mem[w]
  BY <1>1, <1>2, <1>6
<1>9. \A x \in Map!Own : x \in Map!Node => x # y
  BY Objects DEF Met
<1>10. \A x \in Obj, g \in {"key", "next", "prev"} : <<x, g>> \in Map!Word
  BY Words
<1> QED  BY <1>7, <1>8, <1>9, <1>10, Objects

\* The stores of a qcas that has taken effect.
LEMMA TableStores ==
  ASSUME NEW t \in Thread, NEW r, Begun(t, r), Map!Remember, Map!QcasStores(t), UNCHANGED <<call, left>>
  PROVE  TableInv' /\ Effect(t)
<1>1. /\ Types /\ Table(r) /\ call[t] # <<>> /\ Walks(t, r) /\ Loaded(t) /\ Ends(t) /\ Owns(t) /\ Remembers(t)
      /\ r \in [Obj -> Nat] /\ L \subseteq Met /\ \A u \in Thread : Worker(u, r) /\ left[t] > 0
  BY BegunFacts
<1>2. H!MCASTypeOK /\ H!LockDiscipline /\ H!StoreNext(t)
  BY <1>1, TableTypes, TableSame DEF Map!QcasStores
<1>3. /\ H!MCASTypeOK' /\ H!LockDiscipline' /\ Settled' = Settled
      /\ lock = t /\ lock' \in {t, NoThread}
      /\ Len(todo') = Len(todo) - 1 /\ \A i \in 1 .. Len(todo') : todo'[i] = todo[i + 1]
  BY <1>2, TableAssumed, TableSame, H!StoreNextStep DEF Settled
<1>4. loc[t].pc = "store" /\ "value" \in DOMAIN loc[t] /\ loc[t].value = TRUE /\ ~Map!Is(t, "contains") /\ Map!IsRegular(t)
  BY <1>1, <1>3 DEF Ends
<1> DEFINE l == IF lock' = NoThread THEN "return" ELSE "store"
           f == [pc |-> l]
<1>5. DOMAIN f = {"pc"} /\ f.pc = l
  OBVIOUS
<1>6. Go(t, f) /\ UNCHANGED <<made, crashed>>
  BY MapFrames DEF Map!QcasStores, Map!M!Returns
<1> HIDE DEF f
<1>7. NoThread \notin Thread
  BY McasMapsAssumption
<1>8. /\ Keeps(t) /\ DOMAIN loc'[t] = {"pc"} \union DOMAIN loc[t] /\ loc'[t].pc = l
      /\ \A x \in DOMAIN loc[t] \ {"pc"} : loc'[t][x] = loc[t][x]
  BY <1>3, <1>5, <1>6, <1>7, GoFrame
<1>9. loc'[t].pc \in {"store", "return"} /\ (loc'[t].pc = "store" <=> lock' = t)
  BY <1>3, <1>7, <1>8
<1>10. Types'
  BY <1>1, <1>3, <1>6, <1>8, KeepsTypes
<1>11. Map!Own' = Map!Own
  BY <1>4, <1>8, <1>9, KeepsOwn DEF Private
<1>12. /\ \A x \in Obj : mem'[<<x, "key">>] = mem[<<x, "key">>]
       /\ \A x \in Map!Own, g \in {"next", "prev"} : x \in Map!Node => mem'[<<x, g>>] = mem[<<x, g>>]
  BY <1>1, <1>2, StoreGoes
<1>13. \A x \in Obj, g \in {"next", "prev"} : mem'[<<x, g>>] \in {mem[<<x, g>>], Settled[<<x, g>>]}
  <2>1. \A w \in Map!Word : mem'[w] = mem[w] \/ mem'[w] = H!Settled'[w]
    BY <1>2, TableAssumed, H!StoreNextSettles
  <2>2. \A w \in Map!Word : mem'[w] = mem[w] \/ mem'[w] = Settled[w]
    BY <1>3, <2>1, TableSame DEF Settled
  <2> QED  BY <2>2, Words
<1>14. \A i \in 1 .. Len(todo') : \E j \in 1 .. Len(todo) : todo'[i].addr = todo[j].addr
  <2>1. Len(todo) \in Nat
    BY <1>2, LenProperties DEF H!MCASTypeOK
  <2> QED  BY <1>3, <2>1
<1>15. Table(r)' /\ L' = L /\ Met \subseteq Met' /\ Allocated' = Allocated
  BY <1>1, <1>3, <1>6, <1>11, <1>12, <1>13, <1>14, LinksSame
<1>16. L \subseteq Allocated /\ Allocated \subseteq Map!Node /\ Map!Node \subseteq Obj /\ Met \subseteq Allocated
  BY <1>1, TableTypes, Objects
<1>17. Evolves(t, r, r)
  <2>1. \A u \in Thread : Private(u) => loc[u].node \in Map!Own
    BY OwnIs
  <2>2. \A u \in Thread : Private(u) => loc[u].node \in Map!Node
    BY <1>1, <1>16 DEF Worker, Owns, Private
  <2> QED  BY <1>1, <1>12, <1>15, <1>16, <2>1, <2>2 DEF Evolves
<1>18. /\ Map!KeyOf(t)' = Map!KeyOf(t) /\ \A name : Map!Is(t, name)' <=> Map!Is(t, name)
  BY DEF Map!KeyOf, Map!Is
<1>19. past'[t].stayed \subseteq past[t].stayed /\ past[t].been \subseteq past'[t].been /\ Remembers(t)'
  BY <1>1, <1>10, <1>12, <1>16, RemembersOn
<1>20. Owns(t)'
  BY <1>1, <1>8, <1>9, <1>12, <1>15, <1>16, <1>18 DEF Owns, Keeps
<1>21. Walks(t, r)' /\ Loaded(t)'
  BY <1>1, <1>4, <1>8, <1>9 DEF Walks, Loaded
<1>22. Map!IsRegular(t)'
  BY <1>4, <1>8, <1>18, <1>19, <1>1 DEF Map!IsRegular, Walks
<1>23. Ends(t)'
  BY <1>4, <1>8, <1>9, <1>18, <1>22 DEF Ends
<1>24. Worker(t, r)'
  BY <1>1, <1>8, <1>9, <1>19, <1>20, <1>21, <1>23 DEF Worker, Keeps, Places
<1>25. TableInv'
  BY <1>1, <1>8, <1>10, <1>15, <1>17, <1>24, Concludes DEF Keeps
<1>26. Effect(t)
  BY <1>4, <1>15 DEF Effect, Decided
<1> QED  BY <1>25, <1>26

\* The node of a call that has linked it is no longer its own.
LEMMA LeavesOwn ==
  ASSUME NEW t \in Thread, Keeps(t), Private(t), ~Private(t)'
  PROVE  /\ Map!Own' \subseteq Map!Own /\ \A x \in Map!Own \ Map!Own' : x = loc[t].node
         /\ Types => loc[t].node \notin Map!Own'
<1>1. \A u \in Thread : /\ Private(u)' => u # t /\ Private(u) /\ loc'[u].node = loc[u].node
                        /\ u # t /\ Private(u) => Private(u)' /\ loc'[u].node = loc[u].node
  BY DEF Keeps, Alone, Private
<1>2. Map!Own' \subseteq Map!Own /\ \A x \in Map!Own \ Map!Own' : x = loc[t].node
  BY <1>1, OwnIs
<1>3. ASSUME Types, loc[t].node \in Map!Own'  PROVE FALSE
  <2>1. PICK u \in Thread : Private(u)' /\ loc[t].node = loc'[u].node
    BY <1>3, OwnIs
  <2> QED  BY <1>1, <1>3, <2>1 DEF Types, Private
<1> QED  BY <1>2, <1>3

\* insert_or_assign overwrites the value of a node of its key.
LEMMA TableAssigns ==
  ASSUME NEW t \in Thread, NEW r, Begun(t, r), Map!Remember, loc[t].pc = "assign",
         Map!M!Succeed(t, <<Map!M!Word(<<loc[t].curr, "value">>, loc[t].old, Map!KeyOf(t))>>),
         Returns(t, FALSE), UNCHANGED <<made, crashed, call, left>>
  PROVE  TableInv' /\ Effect(t)
<1>1. /\ Types /\ Table(r) /\ call[t] # <<>> /\ Walks(t, r) /\ Loaded(t) /\ Ends(t) /\ Owns(t) /\ Remembers(t)
      /\ r \in [Obj -> Nat] /\ L \subseteq Met /\ \A u \in Thread : Worker(u, r) /\ left[t] > 0
  BY BegunFacts
<1>2. H!MCASTypeOK /\ H!LockDiscipline /\ NoThread \notin Thread /\ mem \in [Map!Word -> Int]
  BY <1>1, TableTypes, McasMapsAssumption
<1>3. PICK w : w = <<Map!M!Word(<<loc[t].curr, "value">>, loc[t].old, Map!KeyOf(t))>>
  OBVIOUS
<1>4. H!Succeed(t, w)
  BY <1>3, TableSame
<1>5. Found(t) /\ Map!Is(t, "insert") /\ "curr" \in DOMAIN loc[t]
  BY <1>1 DEF Walks
<1>6. /\ L \subseteq Allocated /\ Allocated \subseteq Map!Node /\ Map!Node \subseteq Obj /\ Met \subseteq Allocated
      /\ loc[t].curr \in Obj
  BY <1>1, <1>5, TableTypes, Objects DEF Found
<1>7. /\ w \in Seq(H!Words) /\ H!Distinct(w) /\ w # <<>> /\ Len(w) = 1
      /\ w[1].addr = <<loc[t].curr, "value">>
  <2>1. w[1] = [addr |-> <<loc[t].curr, "value">>, old |-> loc[t].old, new |-> Map!KeyOf(t)] /\ Len(w) = 1 /\ DOMAIN w = 1 .. 1
    BY <1>3 DEF Map!M!Word
  <2>2. <<loc[t].curr, "value">> \in Map!Word
    BY <1>6, Words
  <2>3. mem[w[1].addr] = w[1].old
    BY <1>4, <2>1 DEF H!Succeed, H!Matches
  <2>4. loc[t].old \in Int
    BY <1>2, <2>1, <2>2, <2>3
  <2>5. Map!KeyOf(t) \in Int
    <3>1. MapKey \subseteq Int
      BY McasMapsAssumption
    <3> QED  BY <1>1, <3>1, Keys
  <2>6. w[1] \in H!Words
    BY <2>1, <2>2, <2>4, <2>5 DEF H!Words
  <2>7. w \in Seq(H!Words)
    BY <1>3, <2>1, <2>6
  <2>8. H!Distinct(w)
    BY <2>1 DEF H!Distinct
  <2>9. Len(<<>>) = 0 /\ Len(w) # 0
    BY <2>1
  <2>10. w # <<>>
    BY <2>9, Zenon
  <2> QED  BY <2>1, <2>7, <2>8, <2>10
<1>8. /\ H!MCASTypeOK' /\ H!LockDiscipline' /\ Settled = mem /\ Settled' = H!Stored(mem, w)
      /\ lock = NoThread /\ lock' \in {t, NoThread}
      /\ lock' = t => Len(todo') = 0
  BY <1>2, <1>4, <1>7, TableAssumed, TableSame, H!SucceedStep DEF Settled
<1>9. lock' = NoThread /\ todo' = <<>>
  <2>1. lock' # t
    <3>1. lock' = t => todo' = <<>>
      BY <1>8, EmptySeq DEF H!MCASTypeOK
    <3> QED  BY <1>2, <1>8, <3>1 DEF H!LockDiscipline
  <2> QED  BY <1>8, <2>1 DEF H!LockDiscipline
<1>10. mem' = Settled'
  <2>1. mem' \in [Map!Word -> Int]
    BY <1>8 DEF H!MCASTypeOK
  <2> QED  BY <1>9, <2>1, TableAssumed, TableSame, H!StoredNone DEF Settled, H!Settled
<1>11. \A x \in Obj, g \in {"key", "next", "prev"} : mem'[<<x, g>>] = mem[<<x, g>>]
  <2>1. \A a \in Map!Word : a # <<loc[t].curr, "value">> => mem'[a] = mem[a]
    <3>1. \A a \in Map!Word : (\A i \in 1 .. Len(w) : w[i].addr # a) => H!Stored(mem, w)[a] = mem[a]
      BY <1>2, <1>7, TableAssumed, H!StoredAt
    <3> QED  BY <1>7, <1>8, <1>10, <3>1
  <2>2. \A x \in Obj, g \in {"key", "next", "prev"} : <<x, g>> \in Map!Word /\ <<x, g>> # <<loc[t].curr, "value">>
    BY Words
  <2> QED  BY <2>1, <2>2
<1> DEFINE f == [pc |-> "return", value |-> FALSE]
<1>12. DOMAIN f = {"pc", "value"} /\ f.pc = "return" /\ f.value = FALSE
  OBVIOUS
<1>13. Go(t, f)
  BY DEF Returns
<1> HIDE DEF f
<1>14. /\ Keeps(t) /\ DOMAIN loc'[t] = {"pc", "value"} \union DOMAIN loc[t] /\ loc'[t].pc = "return" /\ loc'[t].value = FALSE
       /\ \A x \in DOMAIN loc[t] \ {"pc", "value"} : loc'[t][x] = loc[t][x]
  BY <1>2, <1>8, <1>9, <1>12, <1>13, GoFrame
<1>15. Types'
  BY <1>1, <1>8, <1>14, KeepsTypes
<1>16. Map!Own' \subseteq Map!Own /\ \A x \in Map!Own \ Map!Own' : Off(Settled, x)
  <2>1. Private(t) /\ ~Private(t)' /\ Off(mem, loc[t].node)
    BY <1>1, <1>5, <1>14 DEF Private, Owns
  <2> QED  BY <1>8, <1>14, <2>1, LeavesOwn
<1>17. Table(r)' /\ L' = L /\ Met \subseteq Met' /\ Allocated' = Allocated
  <2>1. \A i \in 1 .. Len(todo') : \E j \in 1 .. Len(todo) : todo'[i].addr = todo[j].addr
    BY <1>9
  <2> QED  BY <1>1, <1>8, <1>10, <1>11, <1>16, <2>1, LinksSame
<1>18. Evolves(t, r, r)
  <2>1. \A u \in Thread : Private(u) => loc[u].node \in Obj
    BY <1>1, <1>6 DEF Worker, Owns, Private
  <2> QED  BY <1>1, <1>6, <1>11, <1>17, <2>1 DEF Evolves
<1>19. /\ Map!KeyOf(t)' = Map!KeyOf(t) /\ \A name : Map!Is(t, name)' <=> Map!Is(t, name)
  BY DEF Map!KeyOf, Map!Is
<1>20. past'[t].stayed \subseteq past[t].stayed /\ past[t].been \subseteq past'[t].been /\ Remembers(t)'
  BY <1>1, <1>6, <1>11, <1>15, RemembersOn
<1>21. Owns(t)'
  BY <1>1, <1>6, <1>11, <1>14, <1>17, <1>19 DEF Owns, Keeps
<1>22. Walks(t, r)' /\ Loaded(t)'
  BY <1>14 DEF Walks, Loaded
<1>23. Map!IsRegular(t)'
  BY <1>5, <1>14, <1>19, <1>20 DEF Map!IsRegular, Found
<1>24. Ends(t)'
  BY <1>2, <1>9, <1>14, <1>23 DEF Ends
<1>25. Worker(t, r)'
  BY <1>1, <1>14, <1>20, <1>21, <1>22, <1>24 DEF Worker, Keeps, Places
<1>26. TableInv'
  BY <1>1, <1>14, <1>15, <1>17, <1>18, <1>25, Concludes DEF Keeps
<1>27. Effect(t)
  <2>1. Map!Linked' = Map!Linked
    BY <1>1, <1>15, <1>17, TableTypes, TableTypesNext
  <2> QED  BY <1>14, <1>17, <2>1 DEF Effect, Map!TakesEffect
<1> QED  BY <1>26, <1>27

\* Stores to a node that nobody else has come across.
LEMMA OwnStores ==
  ASSUME Types, NEW r \in [Obj -> Nat], Table(r), mem' \in [Map!Word -> Int], UNCHANGED <<lock, todo>>,
         NEW n \in Map!Node, n \notin Met, Met' = Met, Allocated' = Allocated \union {n}, Map!Own' = Map!Own \union {n},
         \A x \in Obj, f \in {"key", "next", "prev"} : x # n => mem'[<<x, f>>] = mem[<<x, f>>],
         mem'[<<n, "key">>] \in MapKey,
         NEW a, a = mem'[<<n, "next">>], a # Map!Null => a \in Tails \union Met /\ Of(a) = Map!Bucket(mem'[<<n, "key">>]),
         NEW b, b = mem'[<<n, "prev">>], b # Map!Null => b \in Heads \union Met /\ Of(b) = Map!Bucket(mem'[<<n, "key">>])
  PROVE  Table(r)' /\ L' = L /\ H!MCASTypeOK' /\ H!LockDiscipline'
<1>1. Ranks(r) /\ Chained(r) /\ Memory(r) /\ H!MCASTypeOK /\ H!LockDiscipline
  BY TableTypes DEF Table
<1>2. /\ Heads \subseteq Obj /\ Tails \subseteq Obj /\ Map!Node \subseteq Obj /\ Met \subseteq Map!Node
      /\ L \subseteq Met /\ n \notin Heads \union Tails \union L /\ Allocated \subseteq Map!Node
  BY <1>1, TableTypes, Objects DEF Memory
<1>3. /\ H!MCASTypeOK' /\ H!LockDiscipline'
      /\ \A w \in Map!Word : (\A i \in 1 .. Len(todo) : todo[i].addr # w) => Settled'[w] = mem'[w]
      /\ \A w \in Map!Word : mem'[w] = mem[w] => Settled'[w] = Settled[w]
  BY <1>1, TableAssumed, TableSame, H!StoresElsewhere DEF Settled
<1>4. \A x \in Obj, f \in {"key", "next", "prev"} : x # n => Settled'[<<x, f>>] = Settled[<<x, f>>]
  BY <1>3, Words
<1>5. \A f \in {"key", "next", "prev"} : Settled'[<<n, f>>] = mem'[<<n, f>>]
  <2>1. \A i \in 1 .. Len(todo), f \in {"key", "next", "prev"} : todo[i].addr # <<n, f>>
    BY <1>1, <1>2 DEF Memory
  <2> QED  BY <1>2, <1>3, <2>1, Words
<1>6. \A x \in Obj : x # n => Of(x)' = Of(x)
  BY DEF Of
<1>7. Of(n)' = Map!Bucket(mem'[<<n, "key">>])
  BY Buckets
<1>8. \A x \in Obj : /\ Settled[<<x, "next">>] # Map!Null => IsAfter(x, Settled[<<x, "next">>])
                     /\ Settled[<<x, "prev">>] # Map!Null => IsBefore(x, Settled[<<x, "prev">>])
  BY <1>1 DEF Memory, LinksTo
<1>9. L' = L
  <2>1. ASSUME NEW x \in Map!Node, x # n  PROVE x \in L' <=> x \in L
    <3>1. PICK p : p = Settled[<<x, "prev">>] /\ p = Settled'[<<x, "prev">>]
      BY <1>2, <1>4, <2>1
    <3>2. p # Map!Null => p \in Obj /\ p # n
      BY <1>2, <1>8, <3>1 DEF IsBefore
    <3>3. p # Map!Null => Settled'[<<p, "next">>] = Settled[<<p, "next">>]
      BY <1>4, <3>2
    <3> QED  BY <3>1, <3>3 DEF L, InTable
  <2>2. n \notin L'
    <3>1. Settled'[<<n, "prev">>] = b
      BY <1>5
    <3>2. b # Map!Null => Settled'[<<b, "next">>] = Settled[<<b, "next">>] /\ b \in Obj
      BY <1>2, <1>4
    <3>3. b # Map!Null => Settled[<<b, "next">>] # n
      <4>1. n # Map!Null
        BY <1>2, Objects
      <4> QED  BY <1>2, <1>8, <3>2, <4>1 DEF IsAfter
    <3> QED  BY <3>1, <3>2, <3>3 DEF L, InTable
  <2>3. \A x \in L' : x \in Map!Node
    BY DEF L, InTable
  <2> QED  BY <1>2, <2>1, <2>2, <2>3
<1>10. \A x \in Obj : \A y : x # n =>
         (Ahead(r, x, y) => Ahead(r, x, y)') /\ (IsBefore(x, y) => IsBefore(x, y)') /\ (IsAfter(x, y) => IsAfter(x, y)')
  <2>1. \A z \in Heads \union Tails \union Met : Of(z)' = Of(z)
    BY <1>2, <1>6
  <2> QED  BY <1>2, <1>6, <1>9, <2>1 DEF Ahead, IsBefore, IsAfter
<1>11. Ranks(r)'
  BY <1>1, <1>9 DEF Ranks
<1>12. Chained(r)'
  <2>1. \A x \in Heads \union L : /\ x \in Obj /\ x # n /\ Ahead(r, x, Settled[<<x, "next">>])
                                  /\ Settled[<<x, "next">>] \in Tails \union L
                                  /\ Settled[<<Settled[<<x, "next">>], "prev">>] = x
    BY <1>1, <1>2 DEF Chained, Ahead
  <2>2. \A y \in Tails \union L : /\ y \in Obj /\ y # n /\ Settled[<<y, "prev">>] \in Heads \union L
                                  /\ Settled[<<Settled[<<y, "prev">>], "next">>] = y
    BY <1>1, <1>2 DEF Chained
  <2>3. ASSUME NEW x \in Heads \union L
        PROVE  Ahead(r, x, Settled[<<x, "next">>])' /\ Settled'[<<Settled'[<<x, "next">>], "prev">>] = x
    <3>1. PICK y : y = Settled[<<x, "next">>] /\ y = Settled'[<<x, "next">>] /\ y \in Tails \union L /\ Ahead(r, x, y)
      BY <1>4, <2>1
    <3>2. Ahead(r, x, y)'
      BY <1>10, <2>1, <3>1
    <3>3. Settled'[<<y, "prev">>] = Settled[<<y, "prev">>]
      BY <1>4, <2>2, <3>1
    <3> QED  BY <2>1, <3>1, <3>2, <3>3
  <2>4. ASSUME NEW y \in Tails \union L
        PROVE  Settled'[<<y, "prev">>] \in Heads \union L /\ Settled'[<<Settled'[<<y, "prev">>], "next">>] = y
    BY <1>4, <2>1, <2>2
  <2> QED  BY <1>9, <2>3, <2>4 DEF Chained
<1>13. Memory(r)'
  <2>1. L' \subseteq Met'
    BY <1>2, <1>9
  <2>2. \A x \in Map!Node \ (Map!Own' \union L') : Off(Settled, x)'
    BY <1>1, <1>2, <1>4, <1>9 DEF Memory, Off
  <2>3. ASSUME NEW x \in Obj  PROVE LinksTo(Settled, x)' /\ LinksTo(mem, x)'
    <3>1. CASE x # n
      <4>1. LinksTo(Settled, x) /\ LinksTo(mem, x)
        BY <1>1 DEF Memory
      <4>2. \A y : (IsBefore(x, y) => IsBefore(x, y)') /\ (IsAfter(x, y) => IsAfter(x, y)')
        BY <1>10, <3>1
      <4>3. /\ Settled'[<<x, "next">>] = Settled[<<x, "next">>] /\ Settled'[<<x, "prev">>] = Settled[<<x, "prev">>]
            /\ mem'[<<x, "next">>] = mem[<<x, "next">>] /\ mem'[<<x, "prev">>] = mem[<<x, "prev">>]
        BY <1>4, <3>1
      <4>4. PICK c, d, e, f : /\ c = Settled'[<<x, "next">>] /\ d = Settled'[<<x, "prev">>]
                              /\ e = mem'[<<x, "next">>] /\ f = mem'[<<x, "prev">>]
        OBVIOUS
      <4>5. /\ c # Map!Null => IsAfter(x, c)'
            /\ d # Map!Null => IsBefore(x, d)'
            /\ e # Map!Null => IsAfter(x, e)'
            /\ f # Map!Null => IsBefore(x, f)'
        BY <4>1, <4>2, <4>3, <4>4 DEF LinksTo
      <4> QED  BY <4>4, <4>5 DEF LinksTo
    <3>2. CASE x = n
      <4>1. /\ a # Map!Null => IsAfter(n, a)'
            /\ b # Map!Null => IsBefore(n, b)'
        BY <1>2, <1>6, <1>7 DEF IsAfter, IsBefore
      <4>2. Settled'[<<n, "next">>] = a /\ Settled'[<<n, "prev">>] = b
        BY <1>5
      <4> QED  BY <3>2, <4>1, <4>2 DEF LinksTo
    <3> QED  BY <3>1, <3>2
  <2>4. ASSUME NEW x \in Obj, mem'[<<x, "next">>] # Settled'[<<x, "next">>]
        PROVE  Settled'[<<x, "next">>] = Map!Null /\ Ahead(r, x, mem[<<x, "next">>])'
    <3>1. x # n
      BY <1>5, <2>4
    <3>2. mem'[<<x, "next">>] = mem[<<x, "next">>] /\ Settled'[<<x, "next">>] = Settled[<<x, "next">>]
      BY <1>4, <3>1
    <3>3. Settled[<<x, "next">>] = Map!Null /\ Ahead(r, x, mem[<<x, "next">>])
      BY <1>1, <2>4, <3>2 DEF Memory
    <3>4. PICK y : y = mem[<<x, "next">>] /\ y = mem'[<<x, "next">>]
      BY <3>2
    <3>5. Ahead(r, x, y)'
      BY <1>10, <3>1, <3>3, <3>4
    <3> QED  BY <3>2, <3>3, <3>4, <3>5
  <2>5. \A x \in Obj : Settled'[<<x, "key">>] = mem'[<<x, "key">>]
    BY <1>1, <1>4, <1>5 DEF Memory
  <2>6. \A x \in Allocated' : mem'[<<x, "key">>] \in MapKey
    BY <1>1, <1>2 DEF Memory
  <2>7. \A i \in 1 .. Len(todo') : todo'[i].addr \in (Heads \union Tails \union Met') \X {"next", "prev"}
    BY <1>1 DEF Memory
  <2> QED  BY <2>1, <2>2, <2>3, <2>4, <2>5, <2>6, <2>7 DEF Memory
<1> QED  BY <1>3, <1>9, <1>11, <1>12, <1>13 DEF Table

\* insert_or_assign sets the links of its node, or clears them.
LEMMA OwnStep ==
  ASSUME NEW t \in Thread, NEW r, Begun(t, r), Map!Remember, Keeps(t), Map!Is(t, "insert"),
         loc[t].pc \notin {"store", "return"}, loc'[t].pc \in {"first", "qcas"}, "value" \notin DOMAIN loc'[t],
         UNCHANGED <<lock, todo, made, call, left>>,
         NEW a \in Int, a # Map!Null => a \in Tails \union Met /\ Of(a) = Of(loc[t].node),
         NEW b \in Int, b # Map!Null => b \in Heads \union Met /\ Of(b) = Of(loc[t].node),
         mem' = [mem EXCEPT ![<<loc[t].node, "next">>] = a, ![<<loc[t].node, "prev">>] = b],
         loc'[t].pc = "first" => a = Map!Null /\ b = Map!Null,
         Types' => Walks(t, r)' /\ Loaded(t)'
  PROVE  TableInv' /\ Effect(t)
<1>1. /\ Types /\ Table(r) /\ call[t] # <<>> /\ Walks(t, r) /\ Loaded(t) /\ Ends(t) /\ Owns(t) /\ Remembers(t)
      /\ r \in [Obj -> Nat] /\ L \subseteq Met /\ \A u \in Thread : Worker(u, r) /\ left[t] > 0
  BY BegunFacts
<1>2. PICK n : n = loc[t].node
  OBVIOUS
<1>3. /\ n \in Allocated /\ n \in Map!Node /\ n \in Obj /\ Private(t) /\ mem \in [Map!Word -> Int]
      /\ L \subseteq Allocated /\ Allocated \subseteq Map!Node /\ Map!Node \subseteq Obj /\ Met \subseteq Allocated
      /\ "node" \in DOMAIN loc[t]
  BY <1>1, <1>2, TableTypes, Objects DEF Owns, Private
<1>4. n \in Map!Own
  BY <1>2, <1>3, OwnIs
<1>5. Met' = Met /\ Allocated' = Allocated /\ Map!Own' = Map!Own
  <2>1. Private(t)' <=> Private(t)
    BY <1>3 DEF Private, Keeps
  <2> QED  BY <2>1, KeepsOwn DEF Met, Allocated
<1>6. /\ <<n, "next">> \in Map!Word /\ <<n, "prev">> \in Map!Word
      /\ mem' = [mem EXCEPT ![<<n, "next">>] = a, ![<<n, "prev">>] = b]
  BY <1>2, <1>3, Words
<1>7. /\ mem' \in [Map!Word -> Int] /\ mem'[<<n, "next">>] = a /\ mem'[<<n, "prev">>] = b
      /\ \A w \in Map!Word : w # <<n, "next">> /\ w # <<n, "prev">> => mem'[w] = mem[w]
  <2>1. <<n, "next">> # <<n, "prev">>
    OBVIOUS
  <2> QED  BY <1>3, <1>6, <2>1
<1>8. /\ \A x \in Obj, f \in {"key", "next", "prev"} : x # n => mem'[<<x, f>>] = mem[<<x, f>>]
      /\ \A x \in Obj : mem'[<<x, "key">>] = mem[<<x, "key">>]
  <2>1. \A x \in Obj, f \in {"key", "next", "prev"} : <<x, f>> \in Map!Word
    BY Words
  <2>2. \A x, f : /\ x # n => <<x, f>> # <<n, "next">> /\ <<x, f>> # <<n, "prev">>
                  /\ f = "key" => <<x, f>> # <<n, "next">> /\ <<x, f>> # <<n, "prev">>
    OBVIOUS
  <2> QED  BY <1>7, <2>1, <2>2
<1>9. mem'[<<n, "key">>] \in MapKey /\ Of(n) = Map!Bucket(mem'[<<n, "key">>])
  <2>1. mem[<<n, "key">>] \in MapKey
    BY <1>1, <1>3 DEF Table, Memory
  <2>2. mem'[<<n, "key">>] = mem[<<n, "key">>]
    BY <1>3, <1>8
  <2> QED  BY <1>3, <2>1, <2>2, Buckets
<1>10. Table(r)' /\ L' = L /\ H!MCASTypeOK' /\ H!LockDiscipline'
  <2>1. n \notin Met /\ Allocated' = Allocated \union {n} /\ Map!Own' = Map!Own \union {n}
    BY <1>3, <1>4, <1>5 DEF Met
  <2>2. /\ a # Map!Null => a \in Tails \union Met /\ Of(a) = Map!Bucket(mem'[<<n, "key">>])
        /\ b # Map!Null => b \in Heads \union Met /\ Of(b) = Map!Bucket(mem'[<<n, "key">>])
    BY <1>2, <1>9
  <2> QED  BY <1>1, <1>3, <1>5, <1>7, <1>8, <1>9, <2>1, <2>2, OwnStores
<1>11. Types'
  BY <1>1, <1>10, KeepsTypes
<1>12. /\ Map!KeyOf(t)' = Map!KeyOf(t) /\ \A name : Map!Is(t, name)' <=> Map!Is(t, name)
  BY DEF Map!KeyOf, Map!Is
<1>13. Remembers(t)'
  BY <1>1, <1>3, <1>8, <1>11, RemembersOn
<1>14. Owns(t)'
  <2>1. mem'[<<n, "key">>] = Map!KeyOf(t)
    BY <1>1, <1>2, <1>3, <1>8 DEF Owns
  <2>2. loc'[t].node = n /\ "node" \in DOMAIN loc'[t]
    BY <1>2, <1>3 DEF Keeps
  <2>3. loc'[t].pc # "qcas" => mem'[<<n, "next">>] = Map!Null /\ mem'[<<n, "prev">>] = Map!Null
    BY <1>7
  <2> QED  BY <1>3, <1>5, <1>12, <2>1, <2>2, <2>3 DEF Owns, Off
<1>15. Ends(t)'
  BY <1>1 DEF Ends
<1>16. Worker(t, r)'
  BY <1>1, <1>11, <1>13, <1>14, <1>15 DEF Worker, Keeps, Places
<1>17. Evolves(t, r, r)
  <2>1. \A u \in Thread : u # t /\ Private(u) => loc[u].node \in Obj /\ loc[u].node # n
    <3>1. \A u \in Thread : Private(u) => loc[u].node \in Obj
      BY <1>1, <1>3 DEF Worker, Owns, Private
    <3> QED  BY <1>1, <1>2, <1>3, <3>1 DEF Types, Private
  <2> QED  BY <1>1, <1>3, <1>5, <1>8, <2>1 DEF Evolves
<1>18. TableInv'
  BY <1>1, <1>10, <1>11, <1>16, <1>17, Concludes DEF Keeps
<1> QED  BY <1>10, <1>18 DEF Effect, Decided

\* insert_before sets the links of the node of the call.
LEMMA TableLinks ==
  ASSUME NEW t \in Thread, NEW r, Begun(t, r), Map!Remember, UNCHANGED <<lock, todo, made, call, left>>,
         loc[t].pc = "load_prev", Map!Is(t, "insert"),
         mem' = [mem EXCEPT ![<<loc[t].node, "next">>] = loc[t].curr,
                            ![<<loc[t].node, "prev">>] = mem[<<loc[t].curr, "prev">>]],
         NEW frame, Go(t, frame), DOMAIN frame = {"pc", "prev"}, frame.pc = "qcas", frame.prev = mem[<<loc[t].curr, "prev">>]
  PROVE  TableInv' /\ Effect(t)
<1>1. /\ Types /\ Table(r) /\ call[t] # <<>> /\ Walks(t, r) /\ Ends(t) /\ Owns(t) /\ Remembers(t) /\ L \subseteq Met
  BY BegunFacts
<1>2. /\ Keeps(t) /\ DOMAIN loc'[t] = {"pc", "prev"} \union DOMAIN loc[t]
      /\ loc'[t].pc = "qcas" /\ loc'[t].prev = frame.prev
      /\ \A x \in DOMAIN loc[t] \ {"pc", "prev"} : loc'[t][x] = loc[t][x]
  BY GoFrame
<1>3. /\ Map!KeyOf(t)' = Map!KeyOf(t) /\ \A name : Map!Is(t, name)' <=> Map!Is(t, name)
  BY DEF Map!KeyOf, Map!Is
<1>4. AtTail(t) /\ "curr" \in DOMAIN loc[t] /\ ~Map!Is(t, "remove")
  BY <1>1 DEF Walks, Map!Is
<1>5. PICK n, c, p : n = loc[t].node /\ c = loc[t].curr /\ p = mem[<<loc[t].curr, "prev">>]
  OBVIOUS
<1>6. /\ n \in Allocated /\ n \in Map!Node /\ n \in Obj /\ mem \in [Map!Word -> Int]
      /\ Allocated \subseteq Map!Node /\ Map!Node \subseteq Obj /\ Met \subseteq Allocated /\ L \subseteq Allocated
      /\ mem[<<n, "key">>] = Map!KeyOf(t)
  BY <1>1, <1>5, TableTypes, Objects DEF Owns
<1>7. c \in Tails /\ c \in Obj /\ c \in Int /\ Of(c) = Map!Bucket(Map!KeyOf(t)) /\ Of(n) = Map!Bucket(Map!KeyOf(t))
  <2>1. PICK k : k = Map!KeyOf(t)
    OBVIOUS
  <2>2. Map!Bucket(k) \in Heads /\ c = Map!TailOf(Map!Bucket(k))
    BY <1>1, <1>4, <1>5, <2>1, Keys DEF AtTail
  <2>3. c \in Tails /\ Of(c) = Map!Bucket(k)
    BY <2>2, Buckets
  <2>4. Of(n) = Map!Bucket(k)
    BY <1>6, <2>1, Buckets
  <2> QED  BY <2>1, <2>3, <2>4, Objects
<1>8. p \in Int /\ (p # Map!Null => IsBefore(c, p))
  <2>1. <<c, "prev">> \in Map!Word /\ LinksTo(mem, c)
    BY <1>1, <1>7, Words DEF Table, Memory
  <2> QED  BY <1>5, <1>6, <2>1 DEF LinksTo
<1>9. p # Map!Null => p \in Heads \union Met /\ Of(p) = Of(n)
  BY <1>7, <1>8 DEF IsBefore
<1>10. mem' = [mem EXCEPT ![<<n, "next">>] = c, ![<<n, "prev">>] = p]
  BY <1>5
<1>11. /\ mem'[<<n, "next">>] = c /\ mem'[<<n, "prev">>] = p
       /\ \A x \in Obj : mem'[<<x, "key">>] = mem[<<x, "key">>]
  <2>1. /\ <<n, "next">> \in Map!Word /\ <<n, "prev">> \in Map!Word /\ <<n, "next">> # <<n, "prev">>
        /\ \A x \in Obj : <<x, "key">> \in Map!Word /\ <<x, "key">> # <<n, "next">> /\ <<x, "key">> # <<n, "prev">>
    BY <1>6, Words
  <2> QED  BY <1>6, <1>10, <2>1
<1>12. Met' = Met
  BY <1>1, <1>2, MetStays
<1>13. \A x \in Heads \union Tails \union Met : Of(x)' = Of(x)
  BY <1>1, <1>6, <1>11, SameBucket
<1>14. loc'[t].curr = c /\ loc'[t].prev = p /\ loc'[t].node = n /\ "prev" \in DOMAIN loc'[t] /\ "curr" \in DOMAIN loc'[t]
  BY <1>1, <1>2, <1>4, <1>5 DEF Owns, Keeps
<1>15. Loaded(t)'
  <2>1. p # Map!Null => IsBefore(c, p)'
    BY <1>7, <1>8, <1>12, <1>13 DEF IsBefore
  <2>2. p # Map!Null => IsBefore(loc[t].curr, p)'
    BY <1>14, <2>1
  <2> QED  BY <1>2, <1>3, <1>4, <1>11, <1>14, <2>2 DEF Loaded
<1>16. Types' => Walks(t, r)'
  <2>1. Types' => past'[t].stayed \subseteq past[t].stayed
    BY <1>1, <1>6, <1>11, RemembersOn
  <2>2. Types' => AtTail(t)'
    BY <1>3, <1>4, <1>5, <1>14, <2>1 DEF AtTail
  <2> QED  BY <1>2, <1>3, <1>14, <2>2 DEF Walks
<1>17. "value" \notin DOMAIN loc'[t]
  BY <1>1, <1>2 DEF Ends
<1>18. /\ mem' = [mem EXCEPT ![<<loc[t].node, "next">>] = c, ![<<loc[t].node, "prev">>] = p]
       /\ c # Map!Null => c \in Tails \union Met /\ Of(c) = Of(loc[t].node)
       /\ p # Map!Null => p \in Heads \union Met /\ Of(p) = Of(loc[t].node)
  BY <1>5, <1>7, <1>9
<1>19. loc[t].pc \notin {"store", "return"} /\ loc'[t].pc \in {"first", "qcas"} /\ loc'[t].pc # "first"
  BY <1>2
<1> QED  BY <1>2, <1>7, <1>8, <1>15, <1>16, <1>17, <1>18, <1>19, OwnStep

\* goto retry after a qcas that has failed.
LEMMA TableRetries ==
  ASSUME NEW t \in Thread, NEW r, Begun(t, r), Map!Remember, Map!Restart(t), UNCHANGED <<call, left>>, loc[t].pc = "qcas"
  PROVE  TableInv' /\ Effect(t)
<1>1. /\ Keeps(t) /\ loc'[t].pc = "first" /\ UNCHANGED <<lock, todo, made, crashed>>
      /\ DOMAIN loc'[t] = {"pc"} \union ({"node"} \cap DOMAIN loc[t])
  BY RestartFrame
<1>2. CASE ~Map!Is(t, "insert")
  BY <1>2, Restarts
<1>3. CASE Map!Is(t, "insert")
  <2>1. mem' = [mem EXCEPT ![<<loc[t].node, "next">>] = Map!Null, ![<<loc[t].node, "prev">>] = Map!Null]
    BY <1>3 DEF Map!Restart
  <2>2. Walks(t, r)' /\ Loaded(t)' /\ "value" \notin DOMAIN loc'[t]
    BY <1>1 DEF Walks, Loaded
  <2> QED  BY <1>1, <1>3, <2>1, <2>2, OwnStep, Objects
<1> QED  BY <1>2, <1>3

\* A call begins.
LEMMA CallFrame ==
  ASSUME NEW t \in Thread, NEW r, Types, NEW name \in Names, NEW k \in MapKey, At(t, "idle"), Map!Call(t, name, k), UNCHANGED left
  PROVE  /\ Alone(t) /\ "pc" \in DOMAIN loc'[t] /\ loc'[t].pc = "first"
         /\ "node" \in DOMAIN loc'[t] <=> name = "insert"
         /\ "value" \notin DOMAIN loc'[t]
         /\ name = "insert" => loc'[t].node = Map!Made(made + 1) /\ made' = made + 1 /\ made < MapNodes
         /\ name # "insert" => UNCHANGED <<made, mem>>
         /\ UNCHANGED <<lock, todo, crashed>>
<1>1. UNCHANGED <<lock, todo, crashed>> /\ call' = [call EXCEPT ![t] = <<name, "", k>>]
  BY Zenon DEF Map!Call
<1>2. DOMAIN loc = Thread /\ call \in [Thread -> {<<>>} \union (Names \X {""} \X MapKey)]
  BY DEF Types
<1>3. \A u \in Thread : u # t => call'[u] = call[u]
  BY <1>1, <1>2
<1>5. \A u \in Thread : (lock = u <=> lock' = u)
  BY <1>1
<1>6. CASE name = "insert"
  <2>1. made' = made + 1 /\ made < MapNodes
    BY <1>6, Zenon DEF Map!Call
  <2>2. loc' = [loc EXCEPT ![t] = [pc |-> "first", node |-> Map!Made(made')]]
    BY <1>6, Zenon DEF Map!Call
  <2>3. /\ DOMAIN loc' = Thread /\ loc'[t] = [pc |-> "first", node |-> Map!Made(made + 1)]
        /\ \A u \in Thread : u # t => loc'[u] = loc[u]
    BY <1>2, <2>1, <2>2
  <2>4. DOMAIN loc'[t] = {"pc", "node"} /\ loc'[t].pc = "first" /\ loc'[t].node = Map!Made(made + 1)
    BY <2>3
  <2> QED  BY <1>1, <1>3, <1>5, <1>6, <2>1, <2>3, <2>4 DEF Alone
<1>7. CASE name # "insert"
  <2>1. UNCHANGED <<made, mem>>
    BY <1>7, Zenon DEF Map!Call
  <2>2. loc' = [loc EXCEPT ![t] = [pc |-> "first"]]
    BY <1>7, Zenon DEF Map!Call
  <2>3. /\ DOMAIN loc' = Thread /\ loc'[t] = [pc |-> "first"]
        /\ \A u \in Thread : u # t => loc'[u] = loc[u]
    BY <1>2, <2>2
  <2>4. DOMAIN loc'[t] = {"pc"} /\ loc'[t].pc = "first"
    BY <2>3
  <2> QED  BY <1>1, <1>3, <1>5, <1>7, <2>1, <2>3, <2>4 DEF Alone
<1> QED  BY <1>6, <1>7

\* The name and the key of the new call.
LEMMA CallArguments ==
  ASSUME NEW t \in Thread, Types, NEW name \in Names, NEW k \in MapKey, Map!Call(t, name, k)
  PROVE  /\ call' \in [Thread -> {<<>>} \union (Names \X {""} \X MapKey)]
         /\ call'[t] # <<>> /\ Map!KeyOf(t)' = k /\ \A a : Map!Is(t, a)' <=> name = a
<1>1. call' = [call EXCEPT ![t] = <<name, "", k>>]
  BY Zenon DEF Map!Call
<1>2. call \in [Thread -> {<<>>} \union (Names \X {""} \X MapKey)]
  BY DEF Types
<1>3. <<name, "", k>> \in Names \X {""} \X MapKey
  OBVIOUS
<1>4. call' \in [Thread -> {<<>>} \union (Names \X {""} \X MapKey)] /\ call'[t] = <<name, "", k>>
  BY <1>1, <1>2, <1>3
<1>5. Len(<<name, "", k>>) = 3 /\ Len(<<>>) = 0
  OBVIOUS
<1>6. 3 # 0
  OBVIOUS
<1>7. <<name, "", k>> # <<>>
  BY <1>5, <1>6, Zenon
<1>8. <<name, "", k>>[1] = name /\ <<name, "", k>>[3] = k
  OBVIOUS
<1> QED  BY <1>4, <1>7, <1>8, Zenon DEF Map!KeyOf, Map!Is

\* insert_or_assign makes its node, and every call starts at the head.
LEMMA TableCalls ==
  ASSUME NEW t \in Thread, NEW r \in [Obj -> Nat], Types, Table(r), \A u \in Thread : Worker(u, r), Map!Remember,
         left[t] > 0, At(t, "idle"), NEW name \in Names, NEW k \in MapKey, Map!Call(t, name, k), UNCHANGED left
  PROVE  TableInv' /\ Effect(t)
<1>1. /\ Alone(t) /\ "pc" \in DOMAIN loc'[t] /\ loc'[t].pc = "first"
      /\ "node" \in DOMAIN loc'[t] <=> name = "insert"
      /\ "value" \notin DOMAIN loc'[t]
      /\ name = "insert" => loc'[t].node = Map!Made(made + 1) /\ made' = made + 1 /\ made < MapNodes
      /\ name # "insert" => UNCHANGED <<made, mem>>
      /\ UNCHANGED <<lock, todo, crashed>>
  BY CallFrame
<1>9. /\ call' \in [Thread -> {<<>>} \union (Names \X {""} \X MapKey)]
      /\ call'[t] # <<>> /\ Map!KeyOf(t)' = k /\ \A a : Map!Is(t, a)' <=> name = a
  BY CallArguments
<1>2. /\ call[t] = <<>> /\ "value" \notin DOMAIN loc[t] /\ "node" \notin DOMAIN loc[t] /\ lock # t
  BY DEF Worker, At
<1>3. /\ mem \in [Map!Word -> Int] /\ Settled \in [Map!Word -> Int] /\ L \subseteq Met /\ Met \subseteq Allocated
      /\ Allocated \subseteq Map!Node /\ Map!Node \subseteq Obj /\ H!MCASTypeOK /\ H!LockDiscipline
      /\ made \in 0 .. MapNodes /\ MapNodes \in Nat /\ left \in [Thread -> Nat]
  BY TableTypes, Objects, McasMapsAssumption DEF Table, Memory, Types
<1>4. \A u \in Thread : "node" \in DOMAIN loc[u] => loc[u].node \in Allocated
  BY DEF Worker, Owns
<1>5. \A u \in Thread : u # t => (Private(u)' <=> Private(u)) /\ loc'[u] = loc[u]
  BY <1>1 DEF Alone, Private
<1>6. ASSUME Types', Table(r)', L' = L, Evolves(t, r, r), Owns(t)'  PROVE TableInv' /\ Effect(t)
  <2>1. /\ past'[t].stayed = {x \in L' : mem'[<<x, "key">>] = call'[t][3]}
        /\ past'[t].been = {x \in L' : mem'[<<x, "key">>] = call'[t][3]}
    BY <1>2, <1>6, <1>9, History
  <2>2. Remembers(t)'
    BY <2>1 DEF Remembers, Map!KeyOf
  <2>3. Walks(t, r)' /\ Loaded(t)' /\ Ends(t)'
    BY <1>1, <1>2, <1>9 DEF Walks, Loaded, Ends
  <2>4. Worker(t, r)'
    BY <1>1, <1>6, <1>9, <2>2, <2>3 DEF Worker, Places
  <2>5. TableInv'
    BY <1>1, <1>3, <1>6, <2>4, Concludes
  <2>6. ~Decided(t)'
    BY <1>1 DEF Decided
  <2> QED  BY <1>6, <2>5, <2>6 DEF Effect
<1>7. CASE name # "insert"
  <2>1. Map!Own' = Map!Own
    <3>1. \A u \in Thread : (Private(u)' <=> Private(u)) /\ (Private(u) => loc'[u] = loc[u])
      BY <1>1, <1>2, <1>5, <1>7 DEF Private
    <3>2. \A x : x \in Map!Own' <=> x \in Map!Own
      BY <3>1, OwnIs
    <3> QED  BY <3>2
  <2>2. Table(r)' /\ L' = L /\ Evolves(t, r, r)
    BY <1>1, <1>7, <2>1, QuietTable
  <2>3. H!MCASTypeOK' /\ H!LockDiscipline'
    <3>1. H!NoStore
      BY <1>1, <1>7 DEF H!NoStore
    <3> QED  BY <1>3, <3>1, TableAssumed, H!NoStoreStep
  <2>4. Types'
    BY <1>1, <1>3, <1>7, <1>9, <2>3, TypesOn
  <2>5. Owns(t)'
    BY <1>1, <1>7, <1>9 DEF Owns
  <2> QED  BY <1>6, <2>2, <2>4, <2>5
<1>8. CASE name = "insert"
  <2>1. PICK n : n = Map!Made(made + 1)
    OBVIOUS
  <2>2. n \in Map!Node /\ n \notin Allocated /\ Allocated' = Allocated \union {n}
    <3>1. made + 1 \in 1 .. MapNodes /\ made + 1 \in Int /\ made' = made + 1
      BY <1>1, <1>3, <1>8
    <3>2. n \in Map!Node
      BY <2>1, <3>1, MadeNodes
    <3>3. \A i \in 1 .. made : i \in Int /\ i # made + 1
      BY <1>3
    <3>4. n \notin Allocated
      BY <2>1, <3>1, <3>3, MadeNodes DEF Allocated
    <3>5. 1 .. made' = 1 .. made \union {made + 1}
      BY <1>3, <3>1
    <3> QED  BY <2>1, <3>2, <3>4, <3>5 DEF Allocated
  <2>3. \A x : x \in Map!Own' <=> x \in Map!Own \/ x = n
    <3>1. Private(t)' /\ ~Private(t) /\ loc'[t].node = n
      BY <1>1, <1>2, <1>8, <2>1 DEF Private
    <3>2. \A u \in Thread : Private(u) => Private(u)' /\ loc'[u].node = loc[u].node
      BY <1>5, <3>1
    <3>3. \A u \in Thread : Private(u)' => u = t \/ (Private(u) /\ loc'[u].node = loc[u].node)
      BY <1>5
    <3> QED  BY <3>1, <3>2, <3>3, OwnIs
  <2>4. /\ Map!Own' = Map!Own \union {n} /\ Met' = Met /\ n \notin Met
        /\ \A u \in Thread : Private(u) => loc[u].node # n
    BY <1>3, <1>4, <2>2, <2>3 DEF Met, Private
  <2>5. mem' = [mem EXCEPT ![<<n, "key">>] = k, ![<<n, "value">>] = k]
    <3>1. mem' = [mem EXCEPT ![<<Map!Made(made'), "key">>] = k, ![<<Map!Made(made'), "value">>] = k]
      BY <1>8, Zenon DEF Map!Call
    <3> QED  BY <1>1, <1>8, <2>1, <3>1
  <2>6. /\ mem' \in [Map!Word -> Int] /\ mem'[<<n, "key">>] = k
        /\ \A w \in Map!Word : w # <<n, "key">> /\ w # <<n, "value">> => mem'[w] = mem[w]
    <3>1. <<n, "key">> \in Map!Word /\ <<n, "value">> \in Map!Word /\ <<n, "key">> # <<n, "value">>
      BY <1>3, <2>2, Words
    <3>2. k \in Int
      BY McasMapsAssumption
    <3> QED  BY <1>3, <2>5, <3>1, <3>2
  <2>7. /\ \A x \in Obj, f \in {"key", "next", "prev"} : x # n => mem'[<<x, f>>] = mem[<<x, f>>]
        /\ \A x \in Obj, f \in {"next", "prev"} : mem'[<<x, f>>] = mem[<<x, f>>]
    BY <2>6, Words
  <2>8. Off(mem, n)
    <3>1. n \notin Map!Own /\ n \notin L
      <4>1. n \notin Map!Own
        BY <2>4, OwnIs
      <4> QED  BY <1>3, <2>2, <4>1
    <3>2. Off(Settled, n)
      BY <2>2, <3>1 DEF Table, Memory
    <3>3. \A i \in 1 .. Len(todo), f \in {"next", "prev"} : todo[i].addr # <<n, f>>
      BY <2>2, <2>4, Objects DEF Table, Memory
    <3>4. \A f \in {"next", "prev"} : Settled[<<n, f>>] = mem[<<n, f>>]
      <4>1. \A f \in {"next", "prev"} : <<n, f>> \in Map!Word
        BY <1>3, <2>2, Words
      <4>2. todo \in Seq(H!Words) /\ H!Distinct(todo) /\ Settled = H!Stored(mem, todo)
        BY <1>3, TableSame DEF H!MCASTypeOK, H!LockDiscipline, H!Words, H!Distinct, Settled, H!Settled
      <4>3. \A a \in Map!Word : (\A i \in 1 .. Len(todo) : todo[i].addr # a) => H!Stored(mem, todo)[a] = mem[a]
        BY <1>3, <4>2, TableAssumed, H!StoredAt
      <4> QED  BY <3>3, <4>1, <4>2, <4>3
    <3> QED  BY <3>2, <3>4 DEF Off
  <2>9. /\ mem'[<<n, "next">>] = Map!Null /\ mem'[<<n, "prev">>] = Map!Null /\ Off(mem, n)'
    BY <1>3, <2>2, <2>7, <2>8 DEF Off
  <2>10. Table(r)' /\ L' = L /\ H!MCASTypeOK' /\ H!LockDiscipline'
    BY <1>1, <1>3, <2>2, <2>4, <2>6, <2>7, <2>9, OwnStores
  <2>11. Types'
    <3>1. made' \in 0 .. MapNodes
      BY <1>1, <1>3, <1>8
    <3>2. \A u \in Thread : u # t /\ "node" \in DOMAIN loc[u] => loc[u].node # loc'[t].node
      BY <1>1, <1>4, <1>8, <2>1, <2>2
    <3> QED  BY <1>1, <1>3, <1>9, <2>10, <3>1, <3>2, TypesOn
  <2>12. Evolves(t, r, r)
    <3>1. \A x \in Allocated : mem'[<<x, "key">>] = mem[<<x, "key">>]
      BY <1>3, <2>2, <2>7
    <3>2. \A u \in Thread : Private(u) => loc[u].node \in Obj
      BY <1>3, <1>4 DEF Private
    <3> QED  BY <2>2, <2>4, <2>7, <3>1, <3>2 DEF Evolves
  <2>13. Owns(t)'
    <3>1. loc'[t].node = n
      BY <1>1, <1>8, <2>1
    <3> QED  BY <1>1, <1>8, <1>9, <2>2, <2>6, <2>9, <3>1 DEF Owns, Off
  <2> QED  BY <1>6, <2>10, <2>11, <2>12, <2>13
<1> QED  BY <1>7, <1>8

-----------------------------------------------------------------------------
\* What a qcas of four words does that finds them as expected.
LEMMA QcasStored ==
  ASSUME H!MCASTypeOK, H!LockDiscipline, NEW t \in Thread,
         NEW a1 \in Map!Word, NEW a2 \in Map!Word, NEW a3 \in Map!Word, NEW a4 \in Map!Word,
         a1 # a2, a1 # a3, a1 # a4, a2 # a3, a2 # a4, a3 # a4,
         NEW o1 \in Int, NEW o2 \in Int, NEW o3 \in Int, NEW o4 \in Int,
         NEW n1 \in Int, NEW n2 \in Int, NEW n3 \in Int, NEW n4 \in Int,
         H!Succeed(t, <<Map!M!Word(a1, o1, n1), Map!M!Word(a2, o2, n2), Map!M!Word(a3, o3, n3), Map!M!Word(a4, o4, n4)>>)
  PROVE  /\ H!MCASTypeOK' /\ H!LockDiscipline' /\ Settled = mem /\ lock = NoThread /\ lock' \in {t, NoThread}
         /\ Settled'[a1] = n1 /\ Settled'[a2] = n2 /\ Settled'[a3] = n3 /\ Settled'[a4] = n4
         /\ \A a \in Map!Word : a \notin {a1, a2, a3, a4} => Settled'[a] = mem[a]
         /\ \A a \in Map!Word : mem'[a] = mem[a] \/ mem'[a] = Settled'[a]
         /\ mem'[a1] = n1
         /\ \A i \in 1 .. Len(todo') : todo'[i].addr \in {a2, a3, a4}
<1>1. PICK w : w = <<Map!M!Word(a1, o1, n1), Map!M!Word(a2, o2, n2), Map!M!Word(a3, o3, n3), Map!M!Word(a4, o4, n4)>>
  OBVIOUS
<1>2. /\ Len(w) = 4 /\ DOMAIN w = 1 .. 4
      /\ w[1] = Map!M!Word(a1, o1, n1) /\ w[2] = Map!M!Word(a2, o2, n2)
      /\ w[3] = Map!M!Word(a3, o3, n3) /\ w[4] = Map!M!Word(a4, o4, n4)
  BY <1>1
<1>3. /\ w[1].addr = a1 /\ w[2].addr = a2 /\ w[3].addr = a3 /\ w[4].addr = a4
      /\ w[1].new = n1 /\ w[2].new = n2 /\ w[3].new = n3 /\ w[4].new = n4
  BY <1>2 DEF Map!M!Word
<1>4. w \in Seq(H!Words)
  <2>1. \A a \in Map!Word, o, n \in Int : Map!M!Word(a, o, n) \in H!Words
    BY DEF Map!M!Word, H!Words
  <2>2. /\ Map!M!Word(a1, o1, n1) \in H!Words /\ Map!M!Word(a2, o2, n2) \in H!Words
        /\ Map!M!Word(a3, o3, n3) \in H!Words /\ Map!M!Word(a4, o4, n4) \in H!Words
    BY <2>1
  <2> QED  BY <1>1, <2>2
<1>5. H!Distinct(w)
  <2>1. \A i \in DOMAIN w : i = 1 \/ i = 2 \/ i = 3 \/ i = 4
    BY <1>2
  <2> QED  BY <1>3, <2>1 DEF H!Distinct
<1>6. w # <<>>
  <2>1. Len(<<>>) = 0 /\ 4 # 0
    OBVIOUS
  <2> QED  BY <1>2, <2>1, Zenon
<1>7. H!Succeed(t, w)
  BY <1>1
<1>8. /\ H!MCASTypeOK' /\ H!LockDiscipline' /\ Settled = mem /\ lock = NoThread /\ lock' \in {t, NoThread}
      /\ Settled' = H!Stored(mem, w)
      /\ lock' = t => /\ Len(todo') = Len(w) - 1
                      /\ \A i \in 1 .. Len(todo') : todo'[i] = w[i + 1]
  BY <1>4, <1>5, <1>6, <1>7, TableAssumed, TableSame, H!SucceedStep DEF Settled
<1>9. mem \in [Map!Word -> Int]
  BY DEF H!MCASTypeOK
<1>10. /\ \A i \in 1 .. 4 : Settled'[w[i].addr] = w[i].new
       /\ \A a \in Map!Word : (\A i \in 1 .. 4 : w[i].addr # a) => Settled'[a] = mem[a]
  <2>1. /\ \A i \in 1 .. Len(w) : H!Stored(mem, w)[w[i].addr] = w[i].new
        /\ \A a \in Map!Word : (\A i \in 1 .. Len(w) : w[i].addr # a) => H!Stored(mem, w)[a] = mem[a]
    BY <1>4, <1>5, <1>9, TableAssumed, H!StoredAt
  <2>2. Settled' = H!Stored(mem, w) /\ Len(w) = 4
    BY <1>2, <1>8
  <2> QED  BY <2>1, <2>2, Zenon
<1>11. Settled'[a1] = n1 /\ Settled'[a2] = n2 /\ Settled'[a3] = n3 /\ Settled'[a4] = n4
  <2>1. 1 \in 1 .. 4 /\ 2 \in 1 .. 4 /\ 3 \in 1 .. 4 /\ 4 \in 1 .. 4
    OBVIOUS
  <2> QED  BY <1>3, <1>10, <2>1
<1>12. \A a \in Map!Word : a \notin {a1, a2, a3, a4} => Settled'[a] = mem[a]
  <2>1. \A i \in 1 .. 4 : i = 1 \/ i = 2 \/ i = 3 \/ i = 4
    OBVIOUS
  <2> QED  BY <1>3, <1>10, <2>1
<1>13. \A a \in Map!Word : mem'[a] = mem[a] \/ mem'[a] = Settled'[a]
  BY <1>4, <1>5, <1>6, <1>7, TableAssumed, TableSame, H!SucceedSettles DEF Settled
<1>14. mem'[a1] = n1
  BY <1>3, <1>4, <1>5, <1>6, <1>7, TableAssumed, H!SucceedFirst
<1>15. \A i \in 1 .. Len(todo') : todo'[i].addr \in {a2, a3, a4}
  <2>1. CASE lock' = t
    <3>1. Len(todo') = 3 /\ \A i \in 1 .. 3 : todo'[i] = w[i + 1]
      <4>1. Len(w) = 4 /\ 4 - 1 = 3
        BY <1>2
      <4> QED  BY <1>8, <2>1, <4>1, Zenon
    <3>2. \A i \in 1 .. 3 : i + 1 = 2 \/ i + 1 = 3 \/ i + 1 = 4
      OBVIOUS
    <3> QED  BY <1>3, <3>1, <3>2
  <2>2. CASE lock' = NoThread
    <3>1. todo' = <<>>
      BY <1>8, <2>2 DEF H!LockDiscipline
    <3>2. Len(todo') = 0
      BY <3>1
    <3> QED  BY <3>2
  <2> QED  BY <1>8, <2>1, <2>2
<1> QED  BY <1>8, <1>11, <1>12, <1>13, <1>14, <1>15

\* A node whose neighbours and itself are as the qcas of delete_node expects is in its list.
LEMMA UnlinkFinds ==
  ASSUME Types, NEW r \in [Obj -> Nat], Table(r), Settled = mem, NEW c \in Met, NEW p, NEW n,
         mem[<<p, "next">>] = c, mem[<<c, "next">>] = n, mem[<<c, "prev">>] = p, p # Map!Null
  PROVE  /\ c \in L /\ p \in Heads \union L /\ n \in Tails \union L /\ c \notin Heads \union Tails
         /\ Ahead(r, p, c) /\ Ahead(r, c, n) /\ p # c /\ n # c
<1>1. Ranks(r) /\ Chained(r) /\ Memory(r)
  BY DEF Table
<1>2. /\ Heads \subseteq Obj /\ Tails \subseteq Obj /\ Map!Node \subseteq Obj /\ Met \subseteq Map!Node /\ L \subseteq Met
  BY <1>1, TableTypes, Objects DEF Memory
<1>3. c \in L
  BY <1>2 DEF L, InTable
<1>4. p \in Heads \union L /\ Ahead(r, c, n)
  BY <1>1, <1>3 DEF Chained
<1>5. Ahead(r, p, c)
  BY <1>1, <1>4 DEF Chained
<1>6. r[p] < r[c] /\ r[c] < r[n] /\ n \in Tails \union L
  BY <1>4, <1>5 DEF Ahead
<1>7. p # c /\ n # c
  <2>1. r[c] \in Nat
    BY <1>2
  <2> QED  BY <1>6, <2>1
<1> QED  BY <1>2, <1>3, <1>4, <1>5, <1>6, <1>7, Objects

\* A step that unlinks c from between p and n.
Unlinks(c, p, n) ==
  /\ Settled = mem /\ UNCHANGED made /\ Map!Own' = Map!Own
  /\ c \in Met /\ p # Map!Null
  /\ mem[<<p, "next">>] = c /\ mem[<<n, "prev">>] = c /\ mem[<<c, "next">>] = n /\ mem[<<c, "prev">>] = p
  /\ Settled'[<<p, "next">>] = n /\ Settled'[<<n, "prev">>] = p
  /\ Settled'[<<c, "next">>] = Map!Null /\ Settled'[<<c, "prev">>] = Map!Null
  /\ \A x \in Obj : x # p /\ x # c => Settled'[<<x, "next">>] = mem[<<x, "next">>]
  /\ \A x \in Obj : x # n /\ x # c => Settled'[<<x, "prev">>] = mem[<<x, "prev">>]
  /\ \A x \in Obj : Settled'[<<x, "key">>] = mem[<<x, "key">>] /\ mem'[<<x, "key">>] = mem[<<x, "key">>]
  /\ \A x \in Obj, f \in {"next", "prev"} : mem'[<<x, f>>] = mem[<<x, f>>] \/ mem'[<<x, f>>] = Settled'[<<x, f>>]
  /\ mem'[<<p, "next">>] = n
  /\ \A i \in 1 .. Len(todo') : todo'[i].addr \in {<<n, "prev">>, <<c, "next">>, <<c, "prev">>}

\* The table without c: the first store of the qcas of delete_node.
LEMMA UnlinkTable ==
  ASSUME Types, NEW r \in [Obj -> Nat], Table(r), NEW c, NEW p, NEW n, Unlinks(c, p, n)
  PROVE  Table(r)' /\ L' = L \ {c} /\ Met' = Met /\ Allocated' = Allocated
<1> USE DEF Unlinks
<1>1. Ranks(r) /\ Chained(r) /\ Memory(r)
  BY DEF Table
<1>2. /\ Heads \subseteq Obj /\ Tails \subseteq Obj /\ Map!Node \subseteq Obj /\ Met \subseteq Map!Node /\ L \subseteq Met
      /\ Allocated \subseteq Map!Node /\ Map!Null \notin Obj
  BY <1>1, TableTypes, Objects DEF Memory
<1>3. /\ c \in L /\ p \in Heads \union L /\ n \in Tails \union L /\ c \notin Heads \union Tails
      /\ Ahead(r, p, c) /\ Ahead(r, c, n) /\ p # c /\ n # c
  BY UnlinkFinds
<1>4. Met' = Met /\ Allocated' = Allocated
  BY DEF Met, Allocated
<1>5. \A x \in Obj : Of(x)' = Of(x)
  BY DEF Of
<1>6. \A x \in Heads \union L : /\ x \in Obj /\ Ahead(r, x, Settled[<<x, "next">>])
                                /\ Settled[<<x, "next">>] \in Tails \union L
                                /\ Settled[<<Settled[<<x, "next">>], "prev">>] = x
  BY <1>1, <1>2 DEF Chained, Ahead
<1>7. \A y \in Tails \union L : /\ y \in Obj /\ Settled[<<y, "prev">>] \in Heads \union L
                                /\ Settled[<<Settled[<<y, "prev">>], "next">>] = y
  BY <1>1, <1>2 DEF Chained
<1>8. L' = L \ {c}
  <2>1. c \notin L'
    BY DEF L, InTable
  <2>2. ASSUME NEW x \in L, x # c  PROVE x \in L'
    <3>1. PICK q : q = mem[<<x, "prev">>]
      OBVIOUS
    <3>2. q \in Obj /\ q # Map!Null /\ mem[<<q, "next">>] = x
      BY <1>2, <1>6, <1>7, <3>1, <2>2
    <3>3. CASE x = n
      <4>1. Settled'[<<x, "prev">>] = p /\ Settled'[<<p, "next">>] = x /\ x \in Map!Node
        BY <1>2, <2>2, <3>3
      <4> QED  BY <4>1 DEF L, InTable
    <3>4. CASE x # n
      <4>1. q # p /\ q # c
        BY <2>2, <3>2, <3>4
      <4>2. Settled'[<<x, "prev">>] = q /\ Settled'[<<q, "next">>] = x /\ x \in Map!Node
        BY <1>2, <2>2, <3>1, <3>2, <3>4, <4>1
      <4> QED  BY <3>2, <4>2 DEF L, InTable
    <3> QED  BY <3>3, <3>4
  <2>3. ASSUME NEW x \in L'  PROVE x \in L
    <3>1. x \in Map!Node /\ Settled'[<<x, "prev">>] # Map!Null /\ Settled'[<<Settled'[<<x, "prev">>], "next">>] = x
      BY DEF L, InTable
    <3>2. SUFFICES ASSUME x \notin L  PROVE FALSE
      OBVIOUS
    <3>3. x # c /\ x # n /\ x \in Obj
      BY <1>2, <1>3, <3>1, <3>2, Objects
    <3>4. PICK q : q = mem[<<x, "prev">>] /\ q = Settled'[<<x, "prev">>]
      BY <3>3
    <3>5. q # Map!Null /\ Settled'[<<q, "next">>] = x /\ q \in Obj
      <4>1. LinksTo(Settled, x)
        BY <1>1, <3>3 DEF Memory
      <4> QED  BY <1>2, <3>1, <3>4, <4>1 DEF LinksTo, IsBefore
    <3>6. q # p /\ q # c
      BY <1>2, <3>3, <3>5
    <3>7. mem[<<q, "next">>] = x
      BY <3>5, <3>6
    <3> QED  BY <3>1, <3>2, <3>4, <3>5, <3>7 DEF L, InTable
  <2> QED  BY <2>1, <2>2, <2>3
<1>9. \A x \in Obj : \A y : /\ IsBefore(x, y) => IsBefore(x, y)'
                            /\ IsAfter(x, y) => IsAfter(x, y)'
  BY <1>2, <1>4, <1>5 DEF IsBefore, IsAfter
<1>10. \A x \in Obj : \A y : y # c /\ Ahead(r, x, y) => Ahead(r, x, y)'
  BY <1>2, <1>5, <1>8 DEF Ahead
<1>11. \A z \in L : Of(z) = Of(c) /\ z # c => r[z] <= r[p] \/ r[n] <= r[z]
  <2>1. SUFFICES ASSUME NEW z \in L, Of(z) = Of(c), z # c, ~(r[z] <= r[p])  PROVE r[n] <= r[z]
    OBVIOUS
  <2>2. r[c] <= r[z]
    BY <1>3, <2>1 DEF Ahead
  <2>3. r[c] # r[z] /\ r[c] \in Nat /\ r[z] \in Nat
    BY <1>1, <1>2, <1>3, <2>1 DEF Ranks
  <2> QED  BY <1>3, <2>1, <2>2, <2>3 DEF Ahead
<1>12. Ahead(r, p, n)'
  <2>1. p \in Obj /\ n \in Obj /\ c \in Obj
    BY <1>2, <1>3
  <2>2. r[p] < r[n] /\ Of(n) = Of(p) /\ Of(c) = Of(p)
    BY <1>3, <2>1 DEF Ahead
  <2>3. \A z \in L' : z \in L /\ z # c /\ z \in Obj
    BY <1>2, <1>8
  <2>4. n \in Tails \union L'
    BY <1>3, <1>8
  <2>5. \A z \in L' : Of(z)' = Of(z)
    BY <1>5, <2>3
  <2>6. \A z \in L' : Of(z)' = Of(p)' => r[z] <= r[p] \/ r[n] <= r[z]
    BY <1>5, <1>11, <2>1, <2>2, <2>3, <2>5
  <2> QED  BY <1>5, <2>1, <2>2, <2>4, <2>6 DEF Ahead
<1>13. Ranks(r)'
  BY <1>1, <1>8 DEF Ranks
<1>14. Chained(r)'
  <2>1. ASSUME NEW x \in Heads \union L'
        PROVE  Ahead(r, x, Settled[<<x, "next">>])' /\ Settled'[<<Settled'[<<x, "next">>], "prev">>] = x
    <3>1. CASE x = p
      <4>1. PICK y : y = Settled'[<<x, "next">>] /\ y = n
        BY <3>1
      <4>2. Ahead(r, x, y)'
        BY <1>12, <3>1, <4>1
      <4> QED  BY <3>1, <4>1, <4>2
    <3>2. CASE x # p
      <4>1. x \in Heads \union L /\ x # c /\ x \in Obj
        BY <1>3, <1>6, <1>8
      <4>2. PICK y : y = mem[<<x, "next">>] /\ y = Settled'[<<x, "next">>]
        BY <3>2, <4>1
      <4>3. Ahead(r, x, y) /\ mem[<<y, "prev">>] = x /\ y \in Obj
        BY <1>6, <1>7, <4>1, <4>2
      <4>4. y # c /\ y # n
        BY <3>2, <4>1, <4>3
      <4>5. Ahead(r, x, y)'
        BY <1>10, <4>1, <4>3, <4>4
      <4> QED  BY <4>2, <4>3, <4>4, <4>5
    <3> QED  BY <3>1, <3>2
  <2>2. ASSUME NEW y \in Tails \union L'
        PROVE  Settled'[<<y, "prev">>] \in Heads \union L' /\ Settled'[<<Settled'[<<y, "prev">>], "next">>] = y
    <3>1. CASE y = n
      BY <1>3, <1>8, <3>1
    <3>2. CASE y # n
      <4>1. y \in Tails \union L /\ y # c /\ y \in Obj
        BY <1>3, <1>7, <1>8
      <4>2. PICK x : x = mem[<<y, "prev">>] /\ x = Settled'[<<y, "prev">>]
        BY <3>2, <4>1
      <4>3. x \in Heads \union L /\ x \in Obj /\ mem[<<x, "next">>] = y
        BY <1>6, <1>7, <4>1, <4>2
      <4>4. x # c /\ x # p
        BY <3>2, <4>1, <4>3
      <4> QED  BY <1>8, <4>2, <4>3, <4>4
    <3> QED  BY <3>1, <3>2
  <2> QED  BY <2>1, <2>2 DEF Chained
<1>15. /\ \A x \in Obj : Settled'[<<x, "next">>] # Map!Null => IsAfter(x, Settled[<<x, "next">>])'
       /\ \A x \in Obj : Settled'[<<x, "prev">>] # Map!Null => IsBefore(x, Settled[<<x, "prev">>])'
  <2>1. \A x \in Obj : LinksTo(Settled, x)
    BY <1>1 DEF Memory
  <2>2. IsAfter(p, n) /\ IsBefore(n, p)
    <3>1. Of(n) = Of(p)
      BY <1>3 DEF Ahead
    <3> QED  BY <1>2, <1>3, <3>1 DEF IsAfter, IsBefore
  <2>3. ASSUME NEW x \in Obj, Settled'[<<x, "next">>] # Map!Null  PROVE IsAfter(x, Settled[<<x, "next">>])'
    <3>1. PICK y : y = Settled'[<<x, "next">>]
      OBVIOUS
    <3>2. IsAfter(x, y)
      BY <2>1, <2>2, <2>3, <3>1 DEF LinksTo
    <3>3. IsAfter(x, y)'
      BY <1>9, <3>2
    <3> QED  BY <3>1, <3>3
  <2>4. ASSUME NEW x \in Obj, Settled'[<<x, "prev">>] # Map!Null  PROVE IsBefore(x, Settled[<<x, "prev">>])'
    <3>1. PICK y : y = Settled'[<<x, "prev">>]
      OBVIOUS
    <3>2. IsBefore(x, y)
      BY <2>1, <2>2, <2>4, <3>1 DEF LinksTo
    <3>3. IsBefore(x, y)'
      BY <1>9, <3>2
    <3> QED  BY <3>1, <3>3
  <2> QED  BY <2>3, <2>4
<1>16. ASSUME NEW x \in Obj  PROVE LinksTo(Settled, x)' /\ LinksTo(mem, x)'
  <2>1. LinksTo(mem, x)
    BY <1>1 DEF Memory
  <2>2. PICK a, b, d, e : /\ a = Settled'[<<x, "next">>] /\ b = Settled'[<<x, "prev">>]
                          /\ d = mem'[<<x, "next">>] /\ e = mem'[<<x, "prev">>]
    OBVIOUS
  <2>3. /\ a # Map!Null => IsAfter(x, a)'
        /\ b # Map!Null => IsBefore(x, b)'
    BY <1>15, <2>2
  <2>4. /\ d = a \/ d = mem[<<x, "next">>]
        /\ e = b \/ e = mem[<<x, "prev">>]
    BY <2>2
  <2>5. /\ d # Map!Null => IsAfter(x, d)'
        /\ e # Map!Null => IsBefore(x, e)'
    BY <1>9, <2>1, <2>3, <2>4 DEF LinksTo
  <2> QED  BY <2>2, <2>3, <2>5 DEF LinksTo
<1>17. ASSUME NEW x \in Obj, mem'[<<x, "next">>] # Settled'[<<x, "next">>]
       PROVE  Settled'[<<x, "next">>] = Map!Null /\ Ahead(r, x, mem[<<x, "next">>])'
  <2>1. x = c
    BY <1>17
  <2>2. mem'[<<x, "next">>] = n
    BY <1>17, <2>1
  <2>3. PICK y : y = mem'[<<x, "next">>]
    OBVIOUS
  <2>4. Ahead(r, x, y)'
    BY <1>2, <1>3, <1>10, <2>1, <2>2, <2>3
  <2> QED  BY <2>1, <2>3, <2>4
<1>18. Memory(r)'
  <2>1. L' \subseteq Met'
    BY <1>2, <1>4, <1>8
  <2>2. \A x \in Map!Node \ (Map!Own' \union L') : Off(Settled, x)'
    <3>1. SUFFICES ASSUME NEW x \in Map!Node, x \notin Map!Own, x \notin L'  PROVE Off(Settled, x)'
      OBVIOUS
    <3>2. CASE x = c
      BY <3>2 DEF Off
    <3>3. CASE x # c
      <4>1. x \notin L /\ x \in Obj /\ Off(Settled, x)
        BY <1>1, <1>2, <1>8, <3>1, <3>3 DEF Memory
      <4>2. x # p /\ x # n
        BY <1>3, <4>1, Objects
      <4> QED  BY <3>3, <4>1, <4>2 DEF Off
    <3> QED  BY <3>2, <3>3
  <2>3. \A x \in Obj : Settled'[<<x, "key">>] = mem'[<<x, "key">>]
    OBVIOUS
  <2>4. \A x \in Allocated' : mem'[<<x, "key">>] \in MapKey
    BY <1>1, <1>2, <1>4 DEF Memory
  <2>5. \A i \in 1 .. Len(todo') : todo'[i].addr \in (Heads \union Tails \union Met') \X {"next", "prev"}
    <3>1. n \in Tails \union Met' /\ c \in Met'
      BY <1>2, <1>3, <1>4
    <3>2. /\ <<n, "prev">> \in (Heads \union Tails \union Met') \X {"next", "prev"}
          /\ <<c, "prev">> \in (Heads \union Tails \union Met') \X {"next", "prev"}
          /\ <<c, "next">> \in (Heads \union Tails \union Met') \X {"next", "prev"}
      BY <3>1
    <3> QED  BY <3>2
  <2> QED  BY <1>16, <1>17, <2>1, <2>2, <2>3, <2>4, <2>5 DEF Memory
<1> QED  BY <1>4, <1>8, <1>13, <1>14, <1>18 DEF Table

\* A step that links e between p and the tail c.
Links(e, c, p) ==
  /\ Settled = mem /\ UNCHANGED made /\ Map!Own' = Map!Own \ {e}
  /\ e \in Map!Own /\ e \in Allocated /\ c \in Tails /\ p # Map!Null /\ Of(e) = Of(c)
  /\ mem[<<p, "next">>] = c /\ mem[<<c, "prev">>] = p /\ mem[<<e, "next">>] = c /\ mem[<<e, "prev">>] = p
  /\ Settled'[<<p, "next">>] = e /\ Settled'[<<c, "prev">>] = e
  /\ \A x \in Obj : x # p => Settled'[<<x, "next">>] = mem[<<x, "next">>]
  /\ \A x \in Obj : x # c => Settled'[<<x, "prev">>] = mem[<<x, "prev">>]
  /\ \A x \in Obj : Settled'[<<x, "key">>] = mem[<<x, "key">>] /\ mem'[<<x, "key">>] = mem[<<x, "key">>]
  /\ \A x \in Obj, f \in {"next", "prev"} : mem'[<<x, f>>] = mem[<<x, f>>] \/ mem'[<<x, f>>] = Settled'[<<x, f>>]
  /\ mem'[<<p, "next">>] = e
  /\ \A i \in 1 .. Len(todo') : todo'[i].addr \in {<<c, "prev">>, <<e, "next">>, <<e, "prev">>}

\* The ranks once e is linked.
Ranked(r, e, c) == [x \in Obj |-> IF x \in Tails THEN r[c] + 1 ELSE IF x = e THEN r[c] ELSE r[x]]

\* The table with e before the tail c: the first store of the qcas of insert_before.
LEMMA LinkTable ==
  ASSUME Types, NEW r \in [Obj -> Nat], Table(r), NEW e, NEW c, NEW p, Links(e, c, p), NEW rr, rr = Ranked(r, e, c)
  PROVE  Table(rr)' /\ L' = L \union {e} /\ Met' = Met \union {e} /\ Allocated' = Allocated
         /\ rr \in [Obj -> Nat] /\ \A x \in Met : rr[x] = r[x]
<1> USE DEF Links
<1>1. Ranks(r) /\ Chained(r) /\ Memory(r)
  BY DEF Table
<1>2. /\ Heads \subseteq Obj /\ Tails \subseteq Obj /\ Map!Node \subseteq Obj /\ Met \subseteq Map!Node /\ L \subseteq Met
      /\ Allocated \subseteq Map!Node /\ Map!Null \notin Obj /\ c \in Obj /\ c \notin Heads /\ c \notin Map!Node
  BY <1>1, TableTypes, Objects DEF Memory
<1>3. e \in Map!Node /\ e \in Obj /\ e \notin Heads /\ e \notin Tails /\ e \notin Met /\ e \notin L /\ e # c
  BY <1>2, Objects DEF Met
<1>4. Met' = Met \union {e} /\ Allocated' = Allocated
  BY DEF Met, Allocated
<1>5. \A x \in Obj : Of(x)' = Of(x)
  BY DEF Of
<1>6. \A x \in Heads \union L : /\ x \in Obj /\ Ahead(r, x, mem[<<x, "next">>])
                                /\ mem[<<x, "next">>] \in Tails \union L
                                /\ mem[<<mem[<<x, "next">>], "prev">>] = x
  BY <1>1, <1>2 DEF Chained, Ahead
<1>7. \A y \in Tails \union L : /\ y \in Obj /\ mem[<<y, "prev">>] \in Heads \union L
                                /\ mem[<<mem[<<y, "prev">>], "next">>] = y
  BY <1>1, <1>2 DEF Chained
<1>8. p \in Heads \union L /\ p \in Obj /\ p # e /\ p # c /\ Ahead(r, p, c) /\ Of(p) = Of(c)
  <2>1. p \in Heads \union L /\ p \in Obj
    BY <1>6, <1>7
  <2> QED  BY <1>2, <1>3, <1>6, <2>1 DEF Ahead
<1>9. L' = L \union {e}
  <2>1. e \in L'
    BY <1>2, <1>3 DEF L, InTable
  <2>2. ASSUME NEW x \in L  PROVE x \in L'
    <3>1. PICK q : q = mem[<<x, "prev">>]
      OBVIOUS
    <3>2. q \in Obj /\ q # Map!Null /\ mem[<<q, "next">>] = x /\ x # c /\ x \in Map!Node /\ x \in Obj
      BY <1>2, <1>6, <1>7, <3>1
    <3>3. q # p
      BY <3>2
    <3>4. Settled'[<<x, "prev">>] = q /\ Settled'[<<q, "next">>] = x
      BY <3>1, <3>2, <3>3
    <3> QED  BY <3>2, <3>4 DEF L, InTable
  <2>3. ASSUME NEW x \in L', x # e  PROVE x \in L
    <3>1. x \in Map!Node /\ Settled'[<<x, "prev">>] # Map!Null /\ Settled'[<<Settled'[<<x, "prev">>], "next">>] = x
      BY DEF L, InTable
    <3>2. x # c /\ x \in Obj
      BY <1>2, <3>1
    <3>3. PICK q : q = mem[<<x, "prev">>] /\ q = Settled'[<<x, "prev">>]
      BY <3>2
    <3>4. q # Map!Null /\ Settled'[<<q, "next">>] = x /\ q \in Obj
      <4>1. LinksTo(mem, x)
        BY <1>1, <3>2 DEF Memory
      <4> QED  BY <1>2, <3>1, <3>3, <4>1 DEF LinksTo, IsBefore
    <3>5. q # p
      BY <2>3, <3>4
    <3>6. mem[<<q, "next">>] = x
      BY <3>4, <3>5
    <3> QED  BY <3>1, <3>3, <3>4, <3>6 DEF L, InTable
  <2> QED  BY <2>1, <2>2, <2>3
<1>10. \A x \in Obj : \A y : /\ IsBefore(x, y) => IsBefore(x, y)'
                             /\ IsAfter(x, y) => IsAfter(x, y)'
  BY <1>2, <1>4, <1>5 DEF IsBefore, IsAfter
<1>11. /\ rr \in [Obj -> Nat] /\ rr[e] = r[c] /\ r[c] \in Nat
       /\ \A z \in Tails : rr[z] = r[c] + 1 /\ r[z] = r[c]
       /\ \A x \in Obj : x \notin Tails /\ x # e => rr[x] = r[x]
       /\ \A x \in Obj : x \notin Tails => r[x] < r[c]
       /\ \A x \in Obj : r[x] \in Nat
  BY <1>1, <1>2, <1>3 DEF Ranks, Ranked
<1>12. /\ \A x \in Met : rr[x] = r[x] /\ x \in Obj /\ r[x] < r[c]
       /\ \A x \in Heads : rr[x] = r[x] /\ x \in Obj /\ r[x] < r[c]
  BY <1>2, <1>3, <1>11, Objects
<1>13. Ranks(rr)'
  <2>1. \A x \in Obj : rr[x] = 0 <=> x \in Heads
    <3>1. \A x \in Obj : r[x] = 0 <=> x \in Heads
      BY <1>1 DEF Ranks
    <3>2. r[c] # 0 /\ r[c] + 1 # 0
      BY <1>2, <1>11, <3>1
    <3>3. Heads \cap Tails = {}
      BY Objects
    <3> QED  BY <1>3, <1>11, <3>1, <3>2, <3>3
  <2>2. \A z \in Tails, x \in Obj : IF x \in Tails THEN rr[x] = rr[z] ELSE rr[x] < rr[z]
    <3>1. SUFFICES ASSUME NEW z \in Tails, NEW x \in Obj  PROVE IF x \in Tails THEN rr[x] = rr[z] ELSE rr[x] < rr[z]
      OBVIOUS
    <3>2. CASE x \in Tails
      BY <1>11, <3>2
    <3>3. CASE x \notin Tails /\ x = e
      BY <1>11, <3>3
    <3>4. CASE x \notin Tails /\ x # e
      <4>1. rr[x] = r[x] /\ r[x] < r[c] /\ rr[z] = r[c] + 1 /\ r[x] \in Nat
        BY <1>11, <3>4
      <4> QED  BY <1>11, <3>4, <4>1
    <3> QED  BY <3>2, <3>3, <3>4
  <2>3. \A x, y \in L' : rr[x] = rr[y] => x = y
    <3>1. \A x \in L : rr[x] = r[x] /\ r[x] < r[c] /\ r[x] \in Nat
      BY <1>2, <1>11, <1>12
    <3>2. \A x, y \in L : r[x] = r[y] => x = y
      BY <1>1 DEF Ranks
    <3>3. \A x \in L : rr[x] # r[c]
      <4>1. SUFFICES ASSUME NEW x \in L  PROVE rr[x] # r[c]
        OBVIOUS
      <4>2. PICK u, v : u = r[x] /\ v = r[c]
        OBVIOUS
      <4>3. u \in Nat /\ v \in Nat /\ u < v /\ rr[x] = u
        BY <1>11, <3>1, <4>2, Zenon
      <4>4. u # v
        BY <4>3
      <4> QED  BY <4>2, <4>3, <4>4, Zenon
    <3>4. SUFFICES ASSUME NEW x \in L', NEW y \in L', rr[x] = rr[y]  PROVE x = y
      OBVIOUS
    <3>5. (x = e \/ x \in L) /\ (y = e \/ y \in L)
      BY <1>9, <3>4
    <3>6. CASE x \in L /\ y \in L
      <4>1. r[x] = r[y]
        BY <3>1, <3>4, <3>6, Zenon
      <4> QED  BY <3>2, <3>6, <4>1, Zenon
    <3>7. CASE x = e /\ y \in L
      <4>1. rr[e] = rr[y]
        BY <3>4, <3>7
      <4>2. rr[e] = r[c]
        BY <1>11, Zenon
      <4> QED  BY <3>3, <3>7, <4>1, <4>2
    <3>8. CASE x \in L /\ y = e
      BY <1>11, <3>3, <3>4, <3>8, Zenon
    <3> QED  BY <3>5, <3>6, <3>7, <3>8
  <2> QED  BY <2>1, <2>2, <2>3 DEF Ranks
<1>14. Ahead(rr, p, e)'
  <2>1. rr[p] < rr[e] /\ rr[p] = r[p]
    BY <1>2, <1>8, <1>11, <1>12
  <2>2. \A z \in L : Of(z) = Of(p) => r[z] <= r[p] \/ r[c] <= r[z]
    BY <1>8 DEF Ahead
  <2>3. \A z \in L : z \in Obj /\ rr[z] = r[z] /\ Of(z)' = Of(z)
    BY <1>2, <1>5, <1>12
  <2>4. Of(p)' = Of(p) /\ Of(e)' = Of(p)'
    BY <1>3, <1>5, <1>8
  <2>5. \A z \in L' : Of(z)' = Of(p)' => rr[z] <= rr[p] \/ rr[e] <= rr[z]
    <3>1. SUFFICES ASSUME NEW z \in L', Of(z)' = Of(p)'  PROVE rr[z] <= rr[p] \/ rr[e] <= rr[z]
      OBVIOUS
    <3>2. CASE z = e
      BY <1>11, <3>2
    <3>3. CASE z \in L
      <4>1. r[z] <= r[p] \/ r[c] <= r[z]
        <5>1. Of(z) = Of(p)
          BY <2>3, <2>4, <3>1, <3>3
        <5> QED  BY <2>2, <3>3, <5>1, Zenon
      <4>2. rr[z] = r[z] /\ rr[p] = r[p] /\ rr[e] = r[c]
        BY <1>11, <2>1, <2>3, <3>3, Zenon
      <4> QED  BY <4>1, <4>2, Zenon
    <3> QED  BY <1>9, <3>2, <3>3
  <2> QED  BY <1>9, <2>1, <2>4, <2>5 DEF Ahead
<1>15. Ahead(rr, e, c)'
  <2>1. rr[e] < rr[c] /\ Of(c)' = Of(e)'
    BY <1>2, <1>3, <1>5, <1>11
  <2>2. \A z \in L' : rr[z] <= rr[e]
    <3>1. \A z \in L : rr[z] = r[z] /\ r[z] < r[c] /\ r[z] \in Nat
      BY <1>2, <1>11, <1>12
    <3>2. \A z \in L : rr[z] <= rr[e]
      <4>1. SUFFICES ASSUME NEW z \in L  PROVE rr[z] <= rr[e]
        OBVIOUS
      <4>2. PICK u, v : u = r[z] /\ v = r[c]
        OBVIOUS
      <4>3. u \in Nat /\ v \in Nat /\ u < v /\ rr[z] = u /\ rr[e] = v
        BY <1>11, <3>1, <4>2, Zenon
      <4>4. u <= v
        BY <4>3
      <4> QED  BY <4>3, <4>4, Zenon
    <3>3. rr[e] <= rr[e]
      BY <1>11
    <3> QED  BY <1>9, <3>2, <3>3
  <2> QED  BY <2>1, <2>2 DEF Ahead
<1>16. ASSUME NEW x \in Heads \union L, x # p, NEW y, y = mem[<<x, "next">>]
       PROVE  Ahead(rr, x, y)'
  <2>1. /\ Ahead(r, x, y) /\ y \in Tails \union L /\ x \in Obj /\ y \in Obj
        /\ Of(x) = Of(y) /\ Of(x)' = Of(x) /\ Of(y)' = Of(y) /\ Of(x) = Of(y)
    BY <1>5, <1>6, <1>7, <1>16 DEF Ahead
  <2>2. y # c
    BY <1>6, <1>16
  <2>3. rr[x] = r[x] /\ r[x] \in Nat /\ r[x] < r[y]
    BY <1>2, <1>11, <1>12, <2>1 DEF Ahead
  <2>4. \A z \in L : z \in Obj /\ rr[z] = r[z] /\ Of(z)' = Of(z) /\ r[z] < r[c] /\ r[z] \in Nat
    BY <1>2, <1>5, <1>11, <1>12
  <2>5. \A z \in L : Of(z) = Of(x) => r[z] <= r[x] \/ r[y] <= r[z]
    BY <2>1 DEF Ahead
  <2>6. CASE y \in Tails
    <3>1. Of(x) # Of(e)
      <4>1. \A z \in Tails : z = Map!TailOf(Of(z))
        BY Buckets
      <4> QED  BY <2>1, <2>2, <2>6, <4>1
    <3>5. PICK u, v : u = r[x] /\ v = r[c]
      OBVIOUS
    <3>6. u \in Nat /\ v \in Nat /\ u < v /\ rr[x] = u /\ rr[y] = v + 1 /\ r[y] = v
      BY <1>11, <2>3, <2>6, <3>5, Zenon
    <3>7. u < v + 1
      BY <3>6
    <3>2. rr[x] < rr[y]
      BY <3>6, <3>7, Zenon
    <3>3. \A z \in L : Of(z) = Of(x) => r[z] <= r[x]
      <4>1. SUFFICES ASSUME NEW z \in L, Of(z) = Of(x)  PROVE r[z] <= r[x]
        OBVIOUS
      <4>2. PICK w : w = r[z]
        OBVIOUS
      <4>3. w \in Nat /\ w < v /\ (w <= u \/ v <= w)
        BY <2>4, <2>5, <3>5, <3>6, <4>1, <4>2, Zenon
      <4>4. w <= u
        BY <3>6, <4>3
      <4> QED  BY <3>5, <4>2, <4>4, Zenon
    <3>4. \A z \in L' : Of(z)' = Of(x)' => rr[z] <= rr[x] \/ rr[y] <= rr[z]
      BY <1>3, <1>5, <1>9, <2>1, <2>3, <2>4, <3>1, <3>3
    <3> QED  BY <2>1, <2>6, <3>2, <3>4 DEF Ahead
  <2>7. CASE y \in L
    <3>1. rr[y] = r[y] /\ r[y] < r[c] /\ r[y] \in Nat
      BY <2>4, <2>7
    <3>2. rr[y] <= rr[e]
      BY <1>11, <3>1
    <3>3. \A z \in L' : Of(z)' = Of(x)' => rr[z] <= rr[x] \/ rr[y] <= rr[z]
      BY <1>9, <2>1, <2>3, <2>4, <2>5, <3>1, <3>2
    <3> QED  BY <1>9, <2>1, <2>3, <2>7, <3>1, <3>3 DEF Ahead
  <2> QED  BY <2>1, <2>6, <2>7
<1>17. Chained(rr)'
  <2>1. ASSUME NEW x \in Heads \union L'
        PROVE  Ahead(rr, x, Settled[<<x, "next">>])' /\ Settled'[<<Settled'[<<x, "next">>], "prev">>] = x
    <3>1. CASE x = p
      <4>1. PICK y : y = Settled'[<<x, "next">>] /\ y = e
        BY <3>1
      <4>2. Ahead(rr, x, y)'
        BY <1>14, <3>1, <4>1
      <4>3. Settled'[<<e, "prev">>] = p
        BY <1>3
      <4> QED  BY <3>1, <4>1, <4>2, <4>3
    <3>2. CASE x = e
      <4>1. PICK y : y = Settled'[<<x, "next">>] /\ y = c
        BY <1>3, <1>8, <3>2
      <4>2. Ahead(rr, x, y)'
        BY <1>15, <3>2, <4>1
      <4> QED  BY <3>2, <4>1, <4>2
    <3>3. CASE x # p /\ x # e
      <4>1. x \in Heads \union L /\ x \in Obj
        BY <1>6, <1>9, <3>3
      <4>2. PICK y : y = mem[<<x, "next">>] /\ y = Settled'[<<x, "next">>]
        BY <3>3, <4>1
      <4>3. mem[<<y, "prev">>] = x /\ y \in Obj
        BY <1>6, <1>7, <4>1, <4>2
      <4>4. y # c
        BY <3>3, <4>3
      <4>5. Ahead(rr, x, y)'
        BY <1>16, <3>3, <4>1, <4>2
      <4> QED  BY <4>2, <4>3, <4>4, <4>5
    <3> QED  BY <3>1, <3>2, <3>3
  <2>2. ASSUME NEW y \in Tails \union L'
        PROVE  Settled'[<<y, "prev">>] \in Heads \union L' /\ Settled'[<<Settled'[<<y, "prev">>], "next">>] = y
    <3>1. CASE y = c
      BY <1>3, <1>8, <1>9, <3>1
    <3>2. CASE y = e
      <4>1. Settled'[<<e, "prev">>] = p
        BY <1>3
      <4> QED  BY <1>8, <1>9, <3>2, <4>1
    <3>3. CASE y # c /\ y # e
      <4>1. y \in Tails \union L /\ y \in Obj
        BY <1>7, <1>9, <3>3
      <4>2. PICK x : x = mem[<<y, "prev">>] /\ x = Settled'[<<y, "prev">>]
        BY <3>3, <4>1
      <4>3. x \in Heads \union L /\ x \in Obj /\ mem[<<x, "next">>] = y
        BY <1>6, <1>7, <4>1, <4>2
      <4>4. x # p
        BY <3>3, <4>3
      <4> QED  BY <1>9, <4>2, <4>3, <4>4
    <3> QED  BY <3>1, <3>2, <3>3
  <2> QED  BY <2>1, <2>2 DEF Chained
<1>18. ASSUME NEW x \in Obj  PROVE LinksTo(Settled, x)' /\ LinksTo(mem, x)'
  <2>1. LinksTo(mem, x)
    BY <1>1 DEF Memory
  <2>2. IsAfter(p, e)' /\ IsBefore(c, e)'
    BY <1>2, <1>3, <1>4, <1>5, <1>8 DEF IsAfter, IsBefore
  <2>3. PICK a, b, d, f : /\ a = Settled'[<<x, "next">>] /\ b = Settled'[<<x, "prev">>]
                          /\ d = mem'[<<x, "next">>] /\ f = mem'[<<x, "prev">>]
    OBVIOUS
  <2>4. a # Map!Null => IsAfter(x, a)'
    <3>1. CASE x = p
      BY <2>2, <2>3, <3>1
    <3>2. CASE x # p
      <4>1. a = mem[<<x, "next">>]
        BY <2>3, <3>2
      <4> QED  BY <1>10, <2>1, <4>1 DEF LinksTo
    <3> QED  BY <3>1, <3>2
  <2>5. b # Map!Null => IsBefore(x, b)'
    <3>1. CASE x = c
      BY <2>2, <2>3, <3>1
    <3>2. CASE x # c
      <4>1. b = mem[<<x, "prev">>]
        BY <2>3, <3>2
      <4> QED  BY <1>10, <2>1, <4>1 DEF LinksTo
    <3> QED  BY <3>1, <3>2
  <2>6. /\ d = a \/ d = mem[<<x, "next">>]
        /\ f = b \/ f = mem[<<x, "prev">>]
    BY <2>3
  <2>7. /\ d # Map!Null => IsAfter(x, d)'
        /\ f # Map!Null => IsBefore(x, f)'
    BY <1>10, <2>1, <2>4, <2>5, <2>6 DEF LinksTo
  <2> QED  BY <2>3, <2>4, <2>5, <2>7 DEF LinksTo
<1>19. \A x \in Obj : mem'[<<x, "next">>] = Settled'[<<x, "next">>]
  OBVIOUS
<1>20. Memory(rr)'
  <2>1. L' \subseteq Met'
    BY <1>2, <1>4, <1>9
  <2>2. \A x \in Map!Node \ (Map!Own' \union L') : Off(Settled, x)'
    <3>1. SUFFICES ASSUME NEW x \in Map!Node, x \notin Map!Own \ {e}, x \notin L'  PROVE Off(Settled, x)'
      OBVIOUS
    <3>2. x \notin L /\ x # e /\ x \notin Map!Own /\ x \in Obj
      BY <1>2, <1>9, <3>1
    <3>3. Off(Settled, x)
      BY <1>1, <3>2 DEF Memory
    <3>4. x # p /\ x # c
      BY <1>2, <1>8, <3>2, Objects
    <3> QED  BY <3>2, <3>3, <3>4 DEF Off
  <2>3. \A x \in Obj : Settled'[<<x, "key">>] = mem'[<<x, "key">>]
    OBVIOUS
  <2>4. \A x \in Allocated' : mem'[<<x, "key">>] \in MapKey
    BY <1>1, <1>2, <1>4 DEF Memory
  <2>5. \A i \in 1 .. Len(todo') : todo'[i].addr \in (Heads \union Tails \union Met') \X {"next", "prev"}
    <3>1. /\ <<c, "prev">> \in (Heads \union Tails \union Met') \X {"next", "prev"}
          /\ <<e, "prev">> \in (Heads \union Tails \union Met') \X {"next", "prev"}
          /\ <<e, "next">> \in (Heads \union Tails \union Met') \X {"next", "prev"}
      BY <1>4
    <3> QED  BY <3>1
  <2> QED  BY <1>18, <1>19, <2>1, <2>2, <2>3, <2>4, <2>5 DEF Memory
<1> QED  BY <1>4, <1>9, <1>11, <1>12, <1>13, <1>17, <1>20 DEF Table

\* The call whose qcas has succeeded.
LEMMA QcasFrame ==
  ASSUME NEW t \in Thread, NEW r, Begun(t, r), Map!QcasSucceeds(t), UNCHANGED <<call, left>>,
         lock = NoThread, lock' \in {t, NoThread}
  PROVE  /\ Keeps(t) /\ DOMAIN loc'[t] = {"pc", "value"} \union DOMAIN loc[t] /\ loc'[t].value = TRUE
         /\ loc'[t].pc \in {"store", "return"} /\ (loc'[t].pc = "store" <=> lock' = t)
         /\ \A x \in DOMAIN loc[t] \ {"pc", "value"} : loc'[t][x] = loc[t][x]
<1> DEFINE l == IF lock' = NoThread THEN "return" ELSE "store"
           f == [pc |-> l, value |-> TRUE]
<1>1. DOMAIN f = {"pc", "value"} /\ f.pc = l /\ f.value = TRUE
  OBVIOUS
<1>2. Go(t, f)
  BY MapFrames DEF Map!QcasSucceeds, Map!M!Returns
<1> HIDE DEF f
<1>3. NoThread \notin Thread
  BY McasMapsAssumption
<1>4. /\ Keeps(t) /\ DOMAIN loc'[t] = {"pc", "value"} \union DOMAIN loc[t] /\ loc'[t].pc = l /\ loc'[t].value = TRUE
      /\ \A x \in DOMAIN loc[t] \ {"pc", "value"} : loc'[t][x] = loc[t][x]
  BY <1>1, <1>2, <1>3, GoFrame
<1>5. loc'[t].pc \in {"store", "return"} /\ (loc'[t].pc = "store" <=> lock' = t)
  BY <1>3, <1>4
<1> QED  BY <1>4, <1>5

\* The worker whose qcas has taken effect, in a table that is right.
LEMMA QcasDone ==
  ASSUME NEW t \in Thread, NEW r, Begun(t, r), Map!Remember, loc[t].pc = "qcas", UNCHANGED <<made, call, left>>,
         Keeps(t), DOMAIN loc'[t] = {"pc", "value"} \union DOMAIN loc[t], loc'[t].value = TRUE,
         loc'[t].pc \in {"store", "return"}, loc'[t].pc = "store" <=> lock' = t,
         \A x \in DOMAIN loc[t] \ {"pc", "value"} : loc'[t][x] = loc[t][x],
         H!MCASTypeOK', H!LockDiscipline', NEW rr, Evolves(t, r, rr), Table(rr)'
  PROVE  TableInv' /\ Types'
<1>1. /\ Types /\ Table(r) /\ call[t] # <<>> /\ Walks(t, r) /\ Loaded(t) /\ Ends(t) /\ Owns(t) /\ Remembers(t)
      /\ r \in [Obj -> Nat] /\ L \subseteq Met /\ \A u \in Thread : Worker(u, r) /\ left[t] > 0
  BY BegunFacts
<1>2. Types'
  BY <1>1, KeepsTypes
<1>3. /\ Map!KeyOf(t)' = Map!KeyOf(t) /\ \A name : Map!Is(t, name)' <=> Map!Is(t, name)
  BY DEF Map!KeyOf, Map!Is
<1>4. L \subseteq Allocated /\ \A x \in Allocated : x \in Allocated' /\ mem'[<<x, "key">>] = mem[<<x, "key">>]
  BY <1>1, TableTypes DEF Evolves
<1>5. past'[t].stayed \subseteq past[t].stayed /\ past[t].been \subseteq past'[t].been /\ Remembers(t)'
  BY <1>1, <1>2, <1>4, RemembersOn
<1>6. Owns(t)'
  BY <1>1, <1>3, <1>4 DEF Owns, Keeps
<1>7. "curr" \in DOMAIN loc[t] /\ ((Map!Is(t, "insert") /\ AtTail(t)) \/ (Map!Is(t, "remove") /\ Found(t)))
  BY <1>1 DEF Walks
<1>8. Walks(t, rr)' /\ Loaded(t)'
  BY <1>7 DEF Walks, Loaded
<1>9. Map!IsRegular(t)' /\ ~Map!Is(t, "contains")
  <2>1. Map!Is(t, "insert") => past[t].stayed = {} /\ ~Map!Is(t, "contains")
    BY <1>7 DEF Map!Is, AtTail
  <2>2. ~Map!Is(t, "insert") => loc[t].curr \in past[t].been /\ ~Map!Is(t, "contains") /\ loc'[t].curr = loc[t].curr
    BY <1>7 DEF Map!Is, Found
  <2> QED  BY <1>3, <1>5, <2>1, <2>2 DEF Map!IsRegular
<1>10. Ends(t)'
  BY <1>3, <1>9 DEF Ends
<1>11. Worker(t, rr)'
  BY <1>1, <1>5, <1>6, <1>8, <1>10 DEF Worker, Keeps, Places
<1>12. TableInv'
  BY <1>1, <1>2, <1>11, Concludes DEF Keeps
<1> QED  BY <1>2, <1>12

\* Four words that are all as expected: none of them is of a null node.
LEMMA NoFault ==
  ASSUME NEW t, NEW a1, NEW a2, NEW a3, NEW a4, NEW o1, NEW o2, NEW o3, NEW o4, NEW n1, NEW n2, NEW n3, NEW n4,
         NEW w, w = <<Map!M!Word(a1, o1, n1), Map!M!Word(a2, o2, n2), Map!M!Word(a3, o3, n3), Map!M!Word(a4, o4, n4)>>,
         ~Map!Faults(w), H!Succeed(t, w)
  PROVE  /\ a1[1] # Map!Null /\ a2[1] # Map!Null /\ lock = NoThread
         /\ mem[a1] = o1 /\ mem[a2] = o2 /\ mem[a3] = o3 /\ mem[a4] = o4
<1>1. DOMAIN w = 1 .. 4
  OBVIOUS
<1>2. /\ w[1].addr = a1 /\ w[2].addr = a2 /\ w[3].addr = a3 /\ w[4].addr = a4
      /\ w[1].old = o1 /\ w[2].old = o2 /\ w[3].old = o3 /\ w[4].old = o4
  BY DEF Map!M!Word
<1>3. lock = NoThread /\ \A i \in 1 .. 4 : mem[w[i].addr] = w[i].old
  BY <1>1 DEF H!Succeed, H!Matches
<1>4. \A i \in 1 .. 4 : w[i].addr[1] # Map!Null
  <2>1. \A i \in 1 .. 4 : \A j \in 1 .. i - 1 : j \in 1 .. 4
    OBVIOUS
  <2> QED  BY <1>1, <1>3, <2>1 DEF Map!Faults
<1>5. 1 \in 1 .. 4 /\ 2 \in 1 .. 4 /\ 3 \in 1 .. 4 /\ 4 \in 1 .. 4
  OBVIOUS
<1> QED  BY <1>2, <1>3, <1>4, <1>5

\* remove unlinks its node with the first store of its qcas.
LEMMA TableUnlinks ==
  ASSUME NEW t \in Thread, NEW r, Begun(t, r), Map!Remember, Map!QcasSucceeds(t), UNCHANGED <<call, left>>, Map!Is(t, "remove")
  PROVE  TableInv' /\ Effect(t)
<1>1. /\ Types /\ Table(r) /\ call[t] # <<>> /\ Walks(t, r) /\ Loaded(t) /\ Ends(t) /\ Owns(t) /\ Remembers(t)
      /\ r \in [Obj -> Nat] /\ L \subseteq Met /\ \A u \in Thread : Worker(u, r)
  BY BegunFacts
<1>2. loc[t].pc = "qcas" /\ UNCHANGED made
  BY MapFrames DEF Map!QcasSucceeds, At
<1>3. Found(t) /\ ~Map!Is(t, "insert") /\ "value" \notin DOMAIN loc[t] /\ "curr" \in DOMAIN loc[t]
  BY <1>1, <1>2 DEF Walks, Ends, Map!Is
<1>4. PICK c, p, n : c = loc[t].curr /\ p = loc[t].prev /\ n = loc[t].next
  OBVIOUS
<1>5. /\ c \in Met /\ H!MCASTypeOK /\ H!LockDiscipline /\ Met \subseteq Map!Node /\ Map!Node \subseteq Obj
      /\ Heads \subseteq Obj /\ Tails \subseteq Obj /\ Obj \subseteq Int /\ Map!Null \in Int \ Obj
      /\ L \subseteq Allocated /\ Allocated \subseteq Map!Node /\ Met \subseteq Allocated
      /\ mem \in [Map!Word -> Int]
  BY <1>1, <1>3, <1>4, TableTypes, Objects DEF Found
<1>6. PICK w : w = <<Map!M!Word(<<p, "next">>, c, n), Map!M!Word(<<n, "prev">>, c, p),
                     Map!M!Word(<<c, "next">>, n, Map!Null), Map!M!Word(<<c, "prev">>, p, Map!Null)>>
  OBVIOUS
<1>7. w = Map!QcasWords(t)
  BY <1>3, <1>4, <1>6 DEF Map!QcasWords
<1>8. ~Map!Faults(w) /\ H!Succeed(t, w)
  BY <1>7, TableSame DEF Map!QcasSucceeds
<1>9. /\ p # Map!Null /\ n # Map!Null /\ lock = NoThread
      /\ mem[<<p, "next">>] = c /\ mem[<<n, "prev">>] = c /\ mem[<<c, "next">>] = n /\ mem[<<c, "prev">>] = p
  <2>1. /\ <<p, "next">>[1] # Map!Null /\ <<n, "prev">>[1] # Map!Null /\ lock = NoThread
        /\ mem[<<p, "next">>] = c /\ mem[<<n, "prev">>] = c /\ mem[<<c, "next">>] = n /\ mem[<<c, "prev">>] = p
    BY <1>6, <1>8, NoFault
  <2> QED  BY <2>1
<1>10. Settled = mem
  BY <1>1, <1>9, TableTypes
<1>11. /\ c \in L /\ p \in Heads \union L /\ n \in Tails \union L /\ c \notin Heads \union Tails /\ p # c /\ n # c
  BY <1>1, <1>5, <1>9, <1>10, UnlinkFinds
<1>12. p \in Obj /\ n \in Obj /\ c \in Obj /\ p \in Int /\ n \in Int /\ c \in Int
  BY <1>1, <1>5, <1>11
<1>13. /\ <<p, "next">> \in Map!Word /\ <<n, "prev">> \in Map!Word /\ <<c, "next">> \in Map!Word /\ <<c, "prev">> \in Map!Word
       /\ <<p, "next">> # <<n, "prev">> /\ <<p, "next">> # <<c, "next">> /\ <<p, "next">> # <<c, "prev">>
       /\ <<n, "prev">> # <<c, "next">> /\ <<n, "prev">> # <<c, "prev">> /\ <<c, "next">> # <<c, "prev">>
  BY <1>11, <1>12, Words
<1>14. /\ H!MCASTypeOK' /\ H!LockDiscipline' /\ lock' \in {t, NoThread}
       /\ Settled'[<<p, "next">>] = n /\ Settled'[<<n, "prev">>] = p
       /\ Settled'[<<c, "next">>] = Map!Null /\ Settled'[<<c, "prev">>] = Map!Null
       /\ \A a \in Map!Word : a \notin {<<p, "next">>, <<n, "prev">>, <<c, "next">>, <<c, "prev">>} => Settled'[a] = mem[a]
       /\ \A a \in Map!Word : mem'[a] = mem[a] \/ mem'[a] = Settled'[a]
       /\ mem'[<<p, "next">>] = n
       /\ \A i \in 1 .. Len(todo') : todo'[i].addr \in {<<n, "prev">>, <<c, "next">>, <<c, "prev">>}
  <2>1. H!Succeed(t, <<Map!M!Word(<<p, "next">>, c, n), Map!M!Word(<<n, "prev">>, c, p),
                       Map!M!Word(<<c, "next">>, n, Map!Null), Map!M!Word(<<c, "prev">>, p, Map!Null)>>)
    BY <1>6, <1>8
  <2>2. H!MCASTypeOK /\ H!LockDiscipline /\ Map!Null \in Int
    BY <1>5
  <2> QED  BY <1>12, <1>13, <2>1, <2>2, QcasStored
<1>15. /\ \A x \in Obj : x # p /\ x # c => Settled'[<<x, "next">>] = mem[<<x, "next">>]
       /\ \A x \in Obj : x # n /\ x # c => Settled'[<<x, "prev">>] = mem[<<x, "prev">>]
       /\ \A x \in Obj : Settled'[<<x, "key">>] = mem[<<x, "key">>]
  <2>1. \A x \in Obj, f \in {"key", "next", "prev"} : <<x, f>> \in Map!Word
    BY Words
  <2> QED  BY <1>14, <2>1
<1>16. /\ \A x \in Obj, f \in {"next", "prev"} : mem'[<<x, f>>] = mem[<<x, f>>] \/ mem'[<<x, f>>] = Settled'[<<x, f>>]
       /\ \A x \in Obj : mem'[<<x, "key">>] = mem[<<x, "key">>]
  <2>1. \A x \in Obj, f \in {"key", "next", "prev"} : <<x, f>> \in Map!Word
    BY Words
  <2> QED  BY <1>14, <1>15, <2>1
<1>17. /\ Keeps(t) /\ DOMAIN loc'[t] = {"pc", "value"} \union DOMAIN loc[t] /\ loc'[t].value = TRUE
       /\ loc'[t].pc \in {"store", "return"} /\ (loc'[t].pc = "store" <=> lock' = t)
       /\ \A x \in DOMAIN loc[t] \ {"pc", "value"} : loc'[t][x] = loc[t][x]
  BY <1>9, <1>14, QcasFrame
<1>18. Map!Own' = Map!Own
  <2>1. "node" \notin DOMAIN loc[t] /\ "node" \notin DOMAIN loc'[t]
    BY <1>1, <1>3, <1>17 DEF Owns, Keeps
  <2> QED  BY <1>17, <2>1, KeepsOwn DEF Private
<1>19. Table(r)' /\ L' = L \ {c} /\ Met' = Met /\ Allocated' = Allocated
  <2>1. /\ Types /\ r \in [Obj -> Nat] /\ Table(r) /\ Settled = mem /\ UNCHANGED made /\ Map!Own' = Map!Own
        /\ c \in Met /\ p # Map!Null
        /\ mem[<<p, "next">>] = c /\ mem[<<n, "prev">>] = c /\ mem[<<c, "next">>] = n /\ mem[<<c, "prev">>] = p
    BY <1>1, <1>2, <1>5, <1>9, <1>10, <1>18
  <2>2. \A x \in Obj : Settled'[<<x, "key">>] = mem[<<x, "key">>] /\ mem'[<<x, "key">>] = mem[<<x, "key">>]
    BY <1>15, <1>16
  <2>3. Unlinks(c, p, n)
    BY <1>14, <1>15, <1>16, <2>1, <2>2, Zenon DEF Unlinks
  <2> QED  BY <2>1, <2>3, UnlinkTable
<1>20. Evolves(t, r, r)
  <2>1. \A x \in Map!Own : x \in Map!Node => x # p /\ x # n /\ x # c
    BY <1>1, <1>11, Objects DEF Met
  <2>2. \A u \in Thread : Private(u) => loc[u].node \in Map!Node /\ loc[u].node \in Map!Own
    BY <1>1, <1>5, OwnIs DEF Worker, Owns, Private
  <2>3. \A x \in Map!Own : x \in Map!Node => /\ Settled'[<<x, "next">>] = mem[<<x, "next">>]
                                              /\ Settled'[<<x, "prev">>] = mem[<<x, "prev">>]
    BY <1>5, <1>15, <2>1
  <2>4. \A x \in Map!Own : x \in Map!Node => /\ mem'[<<x, "next">>] = mem[<<x, "next">>]
                                              /\ mem'[<<x, "prev">>] = mem[<<x, "prev">>]
    BY <1>5, <1>16, <2>3
  <2> QED  BY <1>1, <1>5, <1>16, <1>19, <2>2, <2>4 DEF Evolves
<1>21. TableInv' /\ Types'
  BY <1>2, <1>14, <1>17, <1>19, <1>20, QcasDone
<1>22. Effect(t)
  <2>1. Map!Linked' = L' /\ Map!Linked = L
    BY <1>1, <1>21, TableTypes, TableTypesNext
  <2>2. Map!TakesEffect(t)
    BY <1>3, <1>4, <1>17, <1>19, <2>1 DEF Map!TakesEffect, Map!Is
  <2>3. ~Decided(t) /\ Decided(t)'
    BY <1>3, <1>17 DEF Decided
  <2> QED  BY <2>2, <2>3 DEF Effect
<1> QED  BY <1>21, <1>22

\* insert_or_assign links its node with the first store of its qcas.
LEMMA TableInserts ==
  ASSUME NEW t \in Thread, NEW r, Begun(t, r), Map!Remember, Map!QcasSucceeds(t), UNCHANGED <<call, left>>, Map!Is(t, "insert")
  PROVE  TableInv' /\ Effect(t)
<1>1. /\ Types /\ Table(r) /\ call[t] # <<>> /\ Walks(t, r) /\ Loaded(t) /\ Ends(t) /\ Owns(t) /\ Remembers(t)
      /\ r \in [Obj -> Nat] /\ L \subseteq Met /\ \A u \in Thread : Worker(u, r)
  BY BegunFacts
<1>2. loc[t].pc = "qcas" /\ UNCHANGED made
  BY MapFrames DEF Map!QcasSucceeds, At
<1>3. AtTail(t) /\ "value" \notin DOMAIN loc[t] /\ "curr" \in DOMAIN loc[t] /\ "node" \in DOMAIN loc[t] /\ Private(t)
  BY <1>1, <1>2 DEF Walks, Ends, Owns, Private, Map!Is
<1>4. PICK c, p, e : c = loc[t].curr /\ p = loc[t].prev /\ e = loc[t].node
  OBVIOUS
<1>5. /\ H!MCASTypeOK /\ H!LockDiscipline /\ Met \subseteq Map!Node /\ Map!Node \subseteq Obj
      /\ Heads \subseteq Obj /\ Tails \subseteq Obj /\ Obj \subseteq Int /\ Map!Null \in Int \ Obj
      /\ L \subseteq Allocated /\ Allocated \subseteq Map!Node /\ Met \subseteq Allocated
      /\ mem \in [Map!Word -> Int]
  BY <1>1, TableTypes, Objects
<1>6. e \in Allocated /\ e \in Map!Own /\ e \in Map!Node /\ mem[<<e, "key">>] = Map!KeyOf(t)
  BY <1>1, <1>3, <1>4, <1>5, OwnIs DEF Owns
<1>7. c \in Tails /\ Of(e) = Of(c)
  <2>1. PICK k : k = Map!KeyOf(t)
    OBVIOUS
  <2>2. Map!Bucket(k) \in Heads /\ c = Map!TailOf(Map!Bucket(k))
    BY <1>1, <1>3, <1>4, <2>1, Keys DEF AtTail
  <2>3. c \in Tails /\ Of(c) = Map!Bucket(k)
    BY <2>2, Buckets
  <2>4. Of(e) = Map!Bucket(k)
    BY <1>6, <2>1, Buckets
  <2> QED  BY <2>3, <2>4
<1>8. PICK w : w = <<Map!M!Word(<<p, "next">>, c, e), Map!M!Word(<<c, "prev">>, p, e),
                     Map!M!Word(<<e, "next">>, c, c), Map!M!Word(<<e, "prev">>, p, p)>>
  OBVIOUS
<1>9. w = Map!QcasWords(t)
  BY <1>4, <1>8 DEF Map!QcasWords
<1>10. ~Map!Faults(w) /\ H!Succeed(t, w)
  BY <1>9, TableSame DEF Map!QcasSucceeds
<1>11. /\ p # Map!Null /\ lock = NoThread
       /\ mem[<<p, "next">>] = c /\ mem[<<c, "prev">>] = p /\ mem[<<e, "next">>] = c /\ mem[<<e, "prev">>] = p
  <2>1. /\ <<p, "next">>[1] # Map!Null /\ lock = NoThread
        /\ mem[<<p, "next">>] = c /\ mem[<<c, "prev">>] = p /\ mem[<<e, "next">>] = c /\ mem[<<e, "prev">>] = p
    BY <1>8, <1>10, NoFault
  <2> QED  BY <2>1
<1>12. Settled = mem
  BY <1>1, <1>11, TableTypes
<1>13. p \in Heads \union L /\ p # e /\ p # c /\ c # e
  <2>1. p \in Heads \union L
    BY <1>1, <1>7, <1>11, <1>12 DEF Table, Chained
  <2>2. e \notin Met
    BY <1>6 DEF Met
  <2> QED  BY <1>1, <1>5, <1>6, <1>7, <2>1, <2>2, Objects
<1>14. p \in Obj /\ e \in Obj /\ c \in Obj /\ p \in Int /\ e \in Int /\ c \in Int
  BY <1>1, <1>5, <1>6, <1>7, <1>13
<1>15. /\ <<p, "next">> \in Map!Word /\ <<c, "prev">> \in Map!Word /\ <<e, "next">> \in Map!Word /\ <<e, "prev">> \in Map!Word
       /\ <<p, "next">> # <<c, "prev">> /\ <<p, "next">> # <<e, "next">> /\ <<p, "next">> # <<e, "prev">>
       /\ <<c, "prev">> # <<e, "next">> /\ <<c, "prev">> # <<e, "prev">> /\ <<e, "next">> # <<e, "prev">>
  BY <1>13, <1>14, Words
<1>16. /\ H!MCASTypeOK' /\ H!LockDiscipline' /\ lock' \in {t, NoThread}
       /\ Settled'[<<p, "next">>] = e /\ Settled'[<<c, "prev">>] = e
       /\ Settled'[<<e, "next">>] = c /\ Settled'[<<e, "prev">>] = p
       /\ \A a \in Map!Word : a \notin {<<p, "next">>, <<c, "prev">>, <<e, "next">>, <<e, "prev">>} => Settled'[a] = mem[a]
       /\ \A a \in Map!Word : mem'[a] = mem[a] \/ mem'[a] = Settled'[a]
       /\ mem'[<<p, "next">>] = e
       /\ \A i \in 1 .. Len(todo') : todo'[i].addr \in {<<c, "prev">>, <<e, "next">>, <<e, "prev">>}
  <2>1. H!Succeed(t, <<Map!M!Word(<<p, "next">>, c, e), Map!M!Word(<<c, "prev">>, p, e),
                       Map!M!Word(<<e, "next">>, c, c), Map!M!Word(<<e, "prev">>, p, p)>>)
    BY <1>8, <1>10
  <2>2. H!MCASTypeOK /\ H!LockDiscipline
    BY <1>5
  <2> QED  BY <1>14, <1>15, <2>1, <2>2, QcasStored
<1>17. /\ \A x \in Obj : x # p => Settled'[<<x, "next">>] = mem[<<x, "next">>]
       /\ \A x \in Obj : x # c => Settled'[<<x, "prev">>] = mem[<<x, "prev">>]
       /\ \A x \in Obj : Settled'[<<x, "key">>] = mem[<<x, "key">>]
  <2>1. \A x \in Obj, f \in {"key", "next", "prev"} : <<x, f>> \in Map!Word
    BY Words
  <2> QED  BY <1>11, <1>16, <2>1
<1>18. /\ \A x \in Obj, f \in {"next", "prev"} : mem'[<<x, f>>] = mem[<<x, f>>] \/ mem'[<<x, f>>] = Settled'[<<x, f>>]
       /\ \A x \in Obj : mem'[<<x, "key">>] = mem[<<x, "key">>]
  <2>1. \A x \in Obj, f \in {"key", "next", "prev"} : <<x, f>> \in Map!Word
    BY Words
  <2> QED  BY <1>16, <1>17, <2>1
<1>19. /\ Keeps(t) /\ DOMAIN loc'[t] = {"pc", "value"} \union DOMAIN loc[t] /\ loc'[t].value = TRUE
       /\ loc'[t].pc \in {"store", "return"} /\ (loc'[t].pc = "store" <=> lock' = t)
       /\ \A x \in DOMAIN loc[t] \ {"pc", "value"} : loc'[t][x] = loc[t][x]
  BY <1>11, <1>16, QcasFrame
<1>20. Map!Own' = Map!Own \ {e}
  <2>1. ~Private(t)'
    BY <1>19 DEF Private
  <2> QED  BY <1>1, <1>3, <1>4, <1>19, <2>1, LeavesOwn
<1>21. PICK rr : rr = Ranked(r, e, c)
  OBVIOUS
<1>22. Table(rr)' /\ L' = L \union {e} /\ Met' = Met \union {e} /\ Allocated' = Allocated
       /\ rr \in [Obj -> Nat] /\ \A x \in Met : rr[x] = r[x]
  <2>1. /\ Types /\ r \in [Obj -> Nat] /\ Table(r) /\ Settled = mem /\ UNCHANGED made /\ Map!Own' = Map!Own \ {e}
        /\ e \in Map!Own /\ e \in Allocated /\ c \in Tails /\ p # Map!Null /\ Of(e) = Of(c)
        /\ mem[<<p, "next">>] = c /\ mem[<<c, "prev">>] = p /\ mem[<<e, "next">>] = c /\ mem[<<e, "prev">>] = p
    BY <1>1, <1>2, <1>6, <1>7, <1>11, <1>12, <1>20
  <2>2. \A x \in Obj : Settled'[<<x, "key">>] = mem[<<x, "key">>] /\ mem'[<<x, "key">>] = mem[<<x, "key">>]
    BY <1>17, <1>18
  <2>3. Links(e, c, p)
    BY <1>16, <1>17, <1>18, <2>1, <2>2, Zenon DEF Links
  <2> QED  BY <1>21, <2>1, <2>3, LinkTable
<1>23. Evolves(t, r, rr)
  <2>1. \A x \in Map!Own : x \in Map!Node /\ x # e => x # p /\ x # c
    BY <1>1, <1>7, <1>13, Objects DEF Met
  <2>2. \A u \in Thread : Private(u) => loc[u].node \in Map!Node /\ loc[u].node \in Map!Own
    BY <1>1, <1>5, OwnIs DEF Worker, Owns, Private
  <2>3. \A x \in Map!Own : x \in Map!Node /\ x # e => /\ Settled'[<<x, "next">>] = mem[<<x, "next">>]
                                                       /\ Settled'[<<x, "prev">>] = mem[<<x, "prev">>]
    BY <1>5, <1>17, <2>1
  <2>4. \A x \in Map!Own : x \in Map!Node /\ x # e => /\ mem'[<<x, "next">>] = mem[<<x, "next">>]
                                                       /\ mem'[<<x, "prev">>] = mem[<<x, "prev">>]
    BY <1>5, <1>18, <2>3
  <2>5. \A u \in Thread : u # t /\ Private(u) => loc[u].node # e
    BY <1>1, <1>3, <1>4 DEF Types, Private
  <2>6. \A u \in Thread : u # t /\ Private(u) =>
          /\ mem'[<<loc[u].node, "next">>] = mem[<<loc[u].node, "next">>]
          /\ mem'[<<loc[u].node, "prev">>] = mem[<<loc[u].node, "prev">>]
    BY <2>2, <2>4, <2>5
  <2>7. \A x \in Allocated : mem'[<<x, "key">>] = mem[<<x, "key">>]
    BY <1>5, <1>18
  <2>8. Met \subseteq Met' /\ Allocated \subseteq Allocated'
    BY <1>22
  <2> QED  BY <1>22, <2>6, <2>7, <2>8, Zenon DEF Evolves
<1>24. TableInv' /\ Types'
  BY <1>2, <1>16, <1>19, <1>22, <1>23, QcasDone
<1>25. Effect(t)
  <2>1. Map!Linked' = L' /\ Map!Linked = L
    BY <1>1, <1>24, TableTypes, TableTypesNext
  <2>2. Map!TakesEffect(t)
    BY <1>3, <1>4, <1>19, <1>22, <2>1 DEF Map!TakesEffect, Map!Is
  <2>3. ~Decided(t) /\ Decided(t)'
    BY <1>3, <1>19 DEF Decided
  <2> QED  BY <2>2, <2>3 DEF Effect
<1> QED  BY <1>24, <1>25

-----------------------------------------------------------------------------
\* No worker moves.
LEMMA OwnStays ==
  ASSUME UNCHANGED loc
  PROVE  Map!Own' = Map!Own
BY DEF Map!Own

\* The steps that leave the calls where they are.
LEMMA TableFaults ==
  ASSUME NEW r \in [Obj -> Nat], Types, Table(r), \A u \in Thread : Worker(u, r), Map!Remember,
         UNCHANGED <<mem, lock, todo, made, call, loc, left>>
  PROVE  TableInv' /\ L' = L /\ \A u \in Thread : Decided(u)' <=> Decided(u)
<1>1. NoThread \notin Thread /\ L \subseteq Met /\ H!MCASTypeOK /\ H!LockDiscipline
  BY McasMapsAssumption, TableTypes DEF Table, Memory
<1>2. Table(r)' /\ L' = L /\ Met' = Met /\ Evolves(NoThread, r, r)
  BY OwnStays, QuietTable
<1>3. Alone(NoThread)
  BY DEF Alone, Types
<1>4. Types'
  <2>1. H!NoStore
    BY DEF H!NoStore
  <2>2. H!MCASTypeOK' /\ H!LockDiscipline'
    BY <1>1, <2>1, TableAssumed, H!NoStoreStep
  <2>3. Map!M!MCASTypeOK' /\ Map!M!LockDiscipline'
    BY <2>2, TableSame
  <2>4. Map!Linked' \subseteq Map!Node
    BY DEF Map!Linked
  <2>5. past' \in [Thread -> [stayed : SUBSET Map!Node, been : SUBSET Map!Node]]
    BY <2>4, PastType DEF Types
  <2> QED  BY <2>3, <2>5 DEF Types
<1>5. \A u \in Thread : Worker(u, r)'
  <2>1. ASSUME NEW u \in Thread  PROVE Worker(u, r)'
    <3>1. u # NoThread
      BY <1>1
    <3> QED  BY <1>1, <1>2, <1>3, <1>4, <3>1, OtherWorkers
  <2> QED  BY <2>1
<1>6. TableInv'
  BY <1>2, <1>4, <1>5 DEF TableInv
<1> QED  BY <1>2, <1>6 DEF Decided

\* A step of nobody.
LEMMA TableStutters ==
  ASSUME TableInv, UNCHANGED <<mem, lock, todo, made, call, loc, left, past>>
  PROVE  TableInv'
<1>1. PICK r \in [Obj -> Nat] : Types /\ Table(r) /\ \A u \in Thread : Worker(u, r)
  BY DEF TableInv
<1>2. H!MCASTypeOK /\ H!LockDiscipline
  BY <1>1, TableTypes
<1>3. Table(r)' /\ L' = L /\ Met' = Met /\ Evolves(NoThread, r, r)
  BY <1>1, OwnStays, QuietTable
<1>4. Types'
  <2>1. H!NoStore
    BY DEF H!NoStore
  <2>2. H!MCASTypeOK' /\ H!LockDiscipline'
    BY <1>2, <2>1, TableAssumed, H!NoStoreStep
  <2>3. Map!M!MCASTypeOK' /\ Map!M!LockDiscipline'
    BY <2>2, TableSame
  <2> QED  BY <1>1, <2>3 DEF Types
<1>5. ASSUME NEW u \in Thread  PROVE Worker(u, r)'
  <2>1. Worker(u, r)
    BY <1>1
  <2>2. \A x : Of(x)' = Of(x)
    BY DEF Of
  <2>3. \A x, y : (IsBefore(x, y)' <=> IsBefore(x, y)) /\ (IsAfter(x, y)' <=> IsAfter(x, y))
    BY <1>3, <2>2 DEF IsBefore, IsAfter
  <2>4. Map!KeyOf(u)' = Map!KeyOf(u) /\ \A name : Map!Is(u, name)' <=> Map!Is(u, name)
    BY DEF Map!KeyOf, Map!Is
  <2>5. Owns(u)' <=> Owns(u)
    <3>1. Allocated' = Allocated
      BY DEF Allocated
    <3> QED  BY <2>4, <3>1 DEF Owns, Off
  <2>6. Walks(u, r)' <=> Walks(u, r)
    <3>1. (Found(u)' <=> Found(u)) /\ (AtTail(u)' <=> AtTail(u))
      BY <1>3, <2>4 DEF Found, AtTail
    <3>2. Of(loc[u].curr)' = Of(loc[u].curr)
      BY DEF Of
    <3> QED  BY <1>3, <2>4, <3>1, <3>2 DEF Walks
  <2>7. Loaded(u)' <=> Loaded(u)
    <3>1. \A y : (IsBefore(loc[u].curr, y)' <=> IsBefore(loc[u].curr, y)) /\ (IsAfter(loc[u].curr, y)' <=> IsAfter(loc[u].curr, y))
      BY <1>3 DEF IsBefore, IsAfter, Of
    <3>2. (IsBefore(loc[u].curr, loc[u].prev)' <=> IsBefore(loc[u].curr, loc[u].prev)) /\ (IsAfter(loc[u].curr, loc[u].next)' <=> IsAfter(loc[u].curr, loc[u].next))
      BY <1>3 DEF IsBefore, IsAfter, Of
    <3> QED  BY <2>4, <3>1, <3>2 DEF Loaded
  <2>8. Remembers(u)' <=> Remembers(u)
    BY <1>3, <2>4 DEF Remembers
  <2>9. Ends(u)' <=> Ends(u)
    <3>1. Map!IsRegular(u)' <=> Map!IsRegular(u)
      BY <2>4 DEF Map!IsRegular
    <3> QED  BY <2>4, <3>1 DEF Ends
  <2> QED  BY <2>1, <2>5, <2>6, <2>7, <2>8, <2>9 DEF Worker
<1> QED  BY <1>3, <1>4, <1>5 DEF TableInv

\* A call returns.
LEMMA TableReturns ==
  ASSUME NEW t \in Thread, NEW r \in [Obj -> Nat], Types, Table(r), \A u \in Thread : Worker(u, r), Map!Remember, Return(t)
  PROVE  TableInv' /\ Effect(t)
<1>1. /\ loc[t].pc = "return" /\ call' = [call EXCEPT ![t] = <<>>] /\ loc' = [loc EXCEPT ![t] = [pc |-> "idle"]]
      /\ left' = [left EXCEPT ![t] = @ - 1] /\ UNCHANGED <<mem, lock, todo, made, crashed>>
  BY DEF Return, Leave, At, Idle
<1>2. /\ DOMAIN loc = Thread /\ call \in [Thread -> {<<>>} \union (Names \X {""} \X MapKey)] /\ left \in [Thread -> Nat]
      /\ L \subseteq Met /\ H!MCASTypeOK /\ H!LockDiscipline
  BY TableTypes DEF Types, Table, Memory
<1>3. call[t] # <<>> /\ left[t] > 0 /\ Ends(t)
  BY <1>1 DEF Worker
<1>4. lock # t
  BY <1>1, <1>3 DEF Ends
<1>5. /\ DOMAIN loc' = Thread /\ loc'[t] = [pc |-> "idle"] /\ \A u \in Thread : u # t => loc'[u] = loc[u]
  BY <1>1, <1>2
<1>6. /\ call' \in [Thread -> {<<>>} \union (Names \X {""} \X MapKey)] /\ call'[t] = <<>>
      /\ \A u \in Thread : u # t => call'[u] = call[u]
  BY <1>1, <1>2
<1>7. /\ left' \in [Thread -> Nat] /\ \A u \in Thread : u # t => left'[u] = left[u]
  <2>1. PICK n : n = left[t] - 1
    OBVIOUS
  <2>2. n \in Nat
    <3>1. left[t] \in Nat
      BY <1>2
    <3> QED  BY <1>3, <2>1, <3>1
  <2>3. left' = [left EXCEPT ![t] = n]
    BY <1>1, <2>1, Zenon
  <2> QED  BY <1>2, <2>2, <2>3, Zenon
<1>8. DOMAIN loc'[t] = {"pc"} /\ loc'[t].pc = "idle"
  BY <1>5
<1>9. Alone(t)
  BY <1>1, <1>5, <1>6, <1>7 DEF Alone
<1>10. Types'
  <2>1. H!NoStore
    BY <1>1 DEF H!NoStore
  <2>2. H!MCASTypeOK' /\ H!LockDiscipline'
    BY <1>2, <2>1, TableAssumed, H!NoStoreStep
  <2>3. made' \in 0 .. MapNodes /\ "node" \notin DOMAIN loc'[t]
    BY <1>1, <1>8 DEF Types
  <2> QED  BY <1>6, <1>7, <1>9, <2>2, <2>3, TypesOn
<1>11. Map!Own' = Map!Own
  <2>1. ~Private(t) /\ ~Private(t)'
    BY <1>1, <1>8 DEF Private
  <2>2. \A u \in Thread : (Private(u)' <=> Private(u)) /\ (Private(u) => loc'[u] = loc[u])
    BY <1>5, <2>1 DEF Private
  <2>3. \A x : x \in Map!Own' <=> x \in Map!Own
    BY <2>2, OwnIs
  <2> QED  BY <2>3
<1>12. Table(r)' /\ L' = L /\ Evolves(t, r, r)
  BY <1>1, <1>11, QuietTable
<1>13. Worker(t, r)'
  <2>1. "value" \notin DOMAIN loc'[t] /\ "node" \notin DOMAIN loc'[t] /\ "pc" \in DOMAIN loc'[t] /\ lock' # t
    BY <1>1, <1>4, <1>8
  <2> QED  BY <1>6, <1>8, <2>1 DEF Worker, Places
<1>14. TableInv'
  BY <1>2, <1>9, <1>10, <1>12, <1>13, Concludes
<1>15. ~Decided(t)'
  BY <1>8 DEF Decided
<1> QED  BY <1>12, <1>14, <1>15 DEF Effect

\* The steps of the operations, inside a call.
LEMMA TableAssignments ==
  ASSUME NEW t \in Thread, NEW r, Begun(t, r), Map!Remember, Map!Assign(t), UNCHANGED <<call, left>>
  PROVE  TableInv' /\ Effect(t)
<1>1. CASE /\ loc[t].pc = "load_value" /\ Map!Quiet
           /\ Map!Go(t, [pc |-> "assign", old |-> mem[<<loc[t].curr, "value">>]])
  <2>1. PICK frame : frame = [pc |-> "assign", old |-> mem[<<loc[t].curr, "value">>]]
    OBVIOUS
  <2>2. DOMAIN frame = {"pc", "old"} /\ frame.pc = "assign"
    BY <2>1
  <2>3. Go(t, frame)
    BY <1>1, <2>1, MapFrames, Zenon
  <2>4. UNCHANGED <<mem, lock, todo, made, call, left>>
    BY <1>1 DEF Map!Quiet, Map!M!NoStore
  <2> QED  BY <1>1, <2>2, <2>3, <2>4, TableLoads
<1>2. CASE /\ loc[t].pc = "assign" /\ Map!Returns(t, FALSE) /\ UNCHANGED <<made, crashed>>
           /\ Map!M!Succeed(t, <<Map!M!Word(<<loc[t].curr, "value">>, loc[t].old, Map!KeyOf(t))>>)
  <2>1. Returns(t, FALSE)
    BY <1>2, MapFrames
  <2> QED  BY <1>2, <2>1, TableAssigns
<1>3. CASE loc[t].pc = "assign" /\ Map!Restart(t)
  BY <1>3, Restarts
<1> QED  BY <1>1, <1>2, <1>3, Zenon DEF Map!Assign, Map!At

\* The loads of insert_before and of delete_node.
LEMMA TableLoadsLinks ==
  ASSUME NEW t \in Thread, NEW r, Begun(t, r), Map!Remember, Map!LoadLinks(t), UNCHANGED <<call, left>>
  PROVE  TableInv' /\ Effect(t)
<1>1. CASE /\ loc[t].pc = "load_prev" /\ Map!Is(t, "insert") /\ UNCHANGED <<lock, todo, made, crashed>>
           /\ mem' = [mem EXCEPT ![<<loc[t].node, "next">>] = loc[t].curr,
                                 ![<<loc[t].node, "prev">>] = mem[<<loc[t].curr, "prev">>]]
           /\ Map!Go(t, [pc |-> "qcas", prev |-> mem[<<loc[t].curr, "prev">>]])
  <2>1. PICK frame : frame = [pc |-> "qcas", prev |-> mem[<<loc[t].curr, "prev">>]]
    OBVIOUS
  <2>2. DOMAIN frame = {"pc", "prev"} /\ frame.pc = "qcas" /\ frame.prev = mem[<<loc[t].curr, "prev">>]
    BY <2>1
  <2>3. Go(t, frame)
    BY <1>1, <2>1, MapFrames, Zenon
  <2>4. UNCHANGED <<lock, todo, made, call, left>>
    BY <1>1
  <2> QED  BY <1>1, <2>2, <2>3, <2>4, TableLinks, Zenon
<1>2. CASE /\ loc[t].pc = "load_prev" /\ Map!Is(t, "remove") /\ Map!Quiet
           /\ Map!Go(t, [pc |-> "load_next", prev |-> mem[<<loc[t].curr, "prev">>]])
  <2>1. PICK frame : frame = [pc |-> "load_next", prev |-> mem[<<loc[t].curr, "prev">>]]
    OBVIOUS
  <2>2. DOMAIN frame = {"pc", "prev"} /\ frame.pc = "load_next" /\ frame.prev = mem[<<loc[t].curr, "prev">>]
    BY <2>1
  <2>3. Go(t, frame)
    BY <1>2, <2>1, MapFrames, Zenon
  <2>4. UNCHANGED <<mem, lock, todo, made, call, left>>
    BY <1>2 DEF Map!Quiet, Map!M!NoStore
  <2> QED  BY <1>2, <2>2, <2>3, <2>4, TableLoads
<1>3. CASE loc[t].pc = "load_next" /\ Map!Restart(t)
  BY <1>3, Restarts
<1>4. CASE /\ loc[t].pc = "load_next" /\ Map!Quiet
           /\ Map!Go(t, [pc |-> "qcas", next |-> mem[<<loc[t].curr, "next">>]])
  <2>1. PICK frame : frame = [pc |-> "qcas", next |-> mem[<<loc[t].curr, "next">>]]
    OBVIOUS
  <2>2. DOMAIN frame = {"pc", "next"} /\ frame.pc = "qcas" /\ frame.next = mem[<<loc[t].curr, "next">>]
    BY <2>1
  <2>3. Go(t, frame)
    BY <1>4, <2>1, MapFrames, Zenon
  <2>4. UNCHANGED <<mem, lock, todo, made, call, left>>
    BY <1>4 DEF Map!Quiet, Map!M!NoStore
  <2> QED  BY <1>4, <2>2, <2>3, <2>4, TableLoads
<1> QED  BY <1>1, <1>2, <1>3, <1>4, Zenon DEF Map!LoadLinks, Map!At

\* Every step of a call.
LEMMA TableSteps ==
  ASSUME NEW t \in Thread, NEW r \in [Obj -> Nat], Types, Table(r), \A u \in Thread : Worker(u, r), Map!Remember,
         Map!Step(t), UNCHANGED <<call, left>>
  PROVE  TableInv' /\ Effect(t) /\ left[t] > 0
<1>1. Worker(t, r)
  OBVIOUS
<1>2. Begun(t, r)
  <2>1. CASE loc[t].pc # "idle"
    BY <1>1, <2>1 DEF Worker, Begun
  <2>2. CASE loc[t].pc = "idle"
    <3>1. Map!M!StoreNext(t)
      BY <2>2 DEF Map!Step, Map!Walk, Map!Assign, Map!LoadLinks, Map!QcasSucceeds, Map!QcasFails, Map!QcasFaults, Map!QcasStores, Map!At
    <3>2. lock = t
      BY <3>1 DEF Map!M!StoreNext
    <3> QED  BY <1>1, <3>2 DEF Worker, Begun
  <2> QED  BY <2>1, <2>2
<1>3. left[t] > 0
  BY <1>2, BegunFacts
<1>4. CASE Map!Walk(t)
  BY <1>2, <1>3, <1>4, TableWalk
<1>5. CASE Map!Assign(t)
  BY <1>2, <1>3, <1>5, TableAssignments
<1>6. CASE Map!LoadLinks(t)
  BY <1>2, <1>3, <1>6, TableLoadsLinks
<1>7. CASE Map!QcasSucceeds(t)
  <2>1. loc[t].pc = "qcas" /\ Walks(t, r)
    BY <1>2, <1>3, <1>7, BegunFacts DEF Map!QcasSucceeds, Map!At
  <2>2. Map!Is(t, "insert") \/ Map!Is(t, "remove")
    BY <2>1 DEF Walks
  <2> QED  BY <1>2, <1>3, <1>7, <2>2, TableInserts, TableUnlinks
<1>8. CASE Map!QcasStores(t)
  BY <1>2, <1>3, <1>8, TableStores
<1>9. CASE Map!QcasFails(t)
  <2>1. loc[t].pc = "qcas" /\ Map!Restart(t)
    BY <1>9, Zenon DEF Map!QcasFails, Map!At
  <2> QED  BY <1>2, <1>3, <2>1, TableRetries
<1>10. CASE Map!QcasFaults(t)
  <2>1. UNCHANGED <<mem, lock, todo, made, call, loc, left>>
    BY <1>10 DEF Map!QcasFaults, Map!M!NoStore
  <2>2. TableInv' /\ L' = L /\ (Decided(t)' <=> Decided(t))
    BY <2>1, TableFaults
  <2> QED  BY <1>3, <2>2 DEF Effect
<1> QED  BY <1>4, <1>5, <1>6, <1>7, <1>8, <1>9, <1>10, Zenon DEF Map!Step

-----------------------------------------------------------------------------
\* The table at the start: empty, or with key 1.
LEMMA MemoryAtStart ==
  ASSUME Map!Init
  PROVE  /\ made \in 0 .. 1 /\ mem \in [Map!Word -> Int]
         /\ \A b \in Heads :
              /\ mem[<<b, "next">>] = IF made = 1 /\ b = Map!Bucket(1) THEN Map!Made(1) ELSE Map!TailOf(b)
              /\ mem[<<Map!TailOf(b), "prev">>] = IF made = 1 /\ b = Map!Bucket(1) THEN Map!Made(1) ELSE b
              /\ mem[<<b, "prev">>] = Map!Null /\ mem[<<Map!TailOf(b), "next">>] = Map!Null
         /\ made = 1 => /\ mem[<<Map!Made(1), "next">>] = Map!TailOf(Map!Bucket(1))
                        /\ mem[<<Map!Made(1), "prev">>] = Map!Bucket(1)
                        /\ mem[<<Map!Made(1), "key">>] = 1
         /\ \A x \in Map!Node : (made = 1 /\ x = Map!Made(1)) \/ (mem[<<x, "next">>] = Map!Null /\ mem[<<x, "prev">>] = Map!Null)
<1>1. PICK k \in 0 .. 1 :
        /\ mem = [w \in Map!Word |->
             CASE w[1] \in Map!Buckets /\ w[2] = "next" ->
                    IF k = 1 /\ w[1] = Map!Bucket(1) THEN Map!Made(1) ELSE Map!TailOf(w[1])
               [] w[1] - TableSize \in Map!Buckets /\ w[2] = "prev" ->
                    IF k = 1 /\ w[1] = Map!TailOf(Map!Bucket(1)) THEN Map!Made(1) ELSE w[1] - TableSize
               [] k = 1 /\ w = <<Map!Made(1), "next">> -> Map!TailOf(Map!Bucket(1))
               [] k = 1 /\ w = <<Map!Made(1), "prev">> -> Map!HeadOf(Map!Bucket(1))
               [] w[2] \in {"key", "value"} -> IF k = 1 /\ w = <<Map!Made(1), "key">> THEN 1 ELSE 0
               [] OTHER -> Map!Null]
        /\ made = k
  BY Zenon DEF Map!Init
<1>2. 1 \in MapKey /\ TableSize \in Nat \ {0} /\ MapNodes \in Nat \ {0}
  BY McasMapsAssumption
<1>3. Map!Bucket(1) \in Heads /\ Map!HeadOf(Map!Bucket(1)) = Map!Bucket(1)
  BY <1>2, Buckets
<1>4. Map!Made(1) \in Map!Node
  BY <1>2, MadeNodes
<1>5. Heads \subseteq Int /\ Tails \subseteq Int /\ Map!Node \subseteq Int /\ Map!Null \in Int
  BY Objects
<1>6. \A b \in Heads : Map!TailOf(b) \in Tails /\ Map!TailOf(b) \in Int /\ Map!TailOf(b) - TableSize = b
  BY <1>2, <1>5, Buckets DEF Map!TailOf
<1>7. \A w \in Map!Word : mem[w] \in Int
  BY <1>1, <1>2, <1>3, <1>4, <1>5, <1>6 DEF Heads
<1>8. mem \in [Map!Word -> Int]
  BY <1>1, <1>7, Zenon
<1>9. \A x \in Map!Node : x \notin Heads /\ x - TableSize \notin Heads
  <2>1. \A x \in Map!Node : x - TableSize \in Heads => x \in Tails
    <3>1. \A x \in Map!Node : x = TableSize + (x - TableSize)
      BY <1>2, <1>5
    <3> QED  BY <3>1 DEF Tails, Heads, Map!TailOf
  <2> QED  BY <2>1, Objects
<1>10. \A b \in Heads : Map!TailOf(b) \notin Heads /\ Map!TailOf(b) # Map!Made(1) /\ b # Map!Made(1) /\ b - TableSize \notin Heads
  <2>1. \A b \in Heads : b - TableSize \notin Heads
    BY <1>2 DEF Heads, Map!Buckets
  <2> QED  BY <1>4, <1>6, <2>1, Objects
<1>11. \A b \in Heads :
         /\ mem[<<b, "next">>] = IF made = 1 /\ b = Map!Bucket(1) THEN Map!Made(1) ELSE Map!TailOf(b)
         /\ mem[<<b, "prev">>] = Map!Null
  BY <1>1, <1>10, Objects, Words DEF Heads
<1>12. \A b \in Heads :
         /\ mem[<<Map!TailOf(b), "prev">>] = IF made = 1 /\ b = Map!Bucket(1) THEN Map!Made(1) ELSE b
         /\ mem[<<Map!TailOf(b), "next">>] = Map!Null
  <2>1. \A b, c \in Heads : Map!TailOf(b) = Map!TailOf(c) => b = c
    BY <1>6
  <2> QED  BY <1>1, <1>3, <1>6, <1>10, <2>1, Objects, Words DEF Heads
<1>13. made = 1 => /\ mem[<<Map!Made(1), "next">>] = Map!TailOf(Map!Bucket(1))
                   /\ mem[<<Map!Made(1), "prev">>] = Map!Bucket(1)
                   /\ mem[<<Map!Made(1), "key">>] = 1
  <2>1. PICK x : x = Map!Made(1)
    OBVIOUS
  <2>2. \A f \in {"key", "next", "prev"} : <<x, f>> \in Map!Word /\ <<x, f>>[1] = x /\ <<x, f>>[2] = f
    BY <1>4, <2>1, Objects, Words
  <2>3. x \notin Map!Buckets /\ x - TableSize \notin Map!Buckets
    BY <1>4, <1>9, <2>1 DEF Heads
  <2>4. \A f, g : <<x, f>> = <<x, g>> => f = g
    OBVIOUS
  <2> HIDE DEF Map!Buckets, Map!Null
  <2>5. made = 1 => mem[<<x, "next">>] = Map!TailOf(Map!Bucket(1))
    BY <1>1, <2>1, <2>2, <2>3
  <2>6. made = 1 => mem[<<x, "prev">>] = Map!HeadOf(Map!Bucket(1))
    BY <1>1, <2>1, <2>2, <2>3, <2>4
  <2>7. made = 1 => mem[<<x, "key">>] = 1
    BY <1>1, <2>1, <2>2, <2>3
  <2> QED  BY <1>3, <2>1, <2>5, <2>6, <2>7
<1>14. \A x \in Map!Node : (made = 1 /\ x = Map!Made(1)) \/ (mem[<<x, "next">>] = Map!Null /\ mem[<<x, "prev">>] = Map!Null)
  <2>1. ASSUME NEW x \in Map!Node, NEW f \in {"next", "prev"}, made # 1 \/ x # Map!Made(1)
        PROVE  mem[<<x, f>>] = Map!Null
    <3>1. <<x, f>> \in Map!Word /\ <<x, f>>[1] = x /\ <<x, f>>[2] = f
      BY Objects, Words
    <3>2. x \notin Map!Buckets /\ x - TableSize \notin Map!Buckets
      BY <1>9 DEF Heads
    <3>3. \A g : <<x, f>> = <<Map!Made(1), g>> => x = Map!Made(1)
      OBVIOUS
    <3>4. f \notin {"key", "value"}
      OBVIOUS
    <3> QED  BY <1>1, <2>1, <3>1, <3>2, <3>3, <3>4
  <2>2. "next" \in {"next", "prev"} /\ "prev" \in {"next", "prev"}
    OBVIOUS
  <2> QED  BY <2>1, <2>2, Zenon
<1> QED  BY <1>1, <1>8, <1>11, <1>12, <1>13, <1>14

\* The program starts with such a table and every worker outside its calls.
LEMMA TableStarts ==
  ASSUME Init, chosen = "hashmap"
  PROVE  TableInv /\ Started
<1>1. Map!Init /\ lock = NoThread /\ todo = <<>> /\ loc = [t \in Thread |-> Idle] /\ call = [t \in Thread |-> <<>>]
  BY DEF Init
<1>2. /\ made \in 0 .. 1 /\ mem \in [Map!Word -> Int]
      /\ \A b \in Heads :
           /\ mem[<<b, "next">>] = IF made = 1 /\ b = Map!Bucket(1) THEN Map!Made(1) ELSE Map!TailOf(b)
           /\ mem[<<Map!TailOf(b), "prev">>] = IF made = 1 /\ b = Map!Bucket(1) THEN Map!Made(1) ELSE b
           /\ mem[<<b, "prev">>] = Map!Null /\ mem[<<Map!TailOf(b), "next">>] = Map!Null
      /\ made = 1 => /\ mem[<<Map!Made(1), "next">>] = Map!TailOf(Map!Bucket(1))
                     /\ mem[<<Map!Made(1), "prev">>] = Map!Bucket(1)
                     /\ mem[<<Map!Made(1), "key">>] = 1
      /\ \A x \in Map!Node : (made = 1 /\ x = Map!Made(1)) \/ (mem[<<x, "next">>] = Map!Null /\ mem[<<x, "prev">>] = Map!Null)
  BY <1>1, MemoryAtStart
<1>3. TableSize \in Nat \ {0} /\ MapNodes \in Nat \ {0} /\ NoThread \notin Thread /\ 1 \in MapKey
  BY McasMapsAssumption
<1>4. left \in [Thread -> Nat]
  BY McasMapsAssumption DEF Init
<1>5. H!MCASTypeOK /\ H!LockDiscipline
  <2>1. todo \in Seq(H!Words) /\ DOMAIN todo = {}
    BY <1>1
  <2> QED  BY <1>1, <1>2, <2>1 DEF H!MCASTypeOK, H!LockDiscipline, H!Distinct
<1>6. Settled = mem
  BY <1>1, <1>5, TableSame, TableAssumed, H!SettledFacts DEF Settled
<1>7. \A t \in Thread : loc[t].pc = "idle" /\ DOMAIN loc[t] = {"pc"} /\ call[t] = <<>>
  BY <1>1 DEF Idle
<1>8. Map!Own = {}
  BY <1>7 DEF Map!Own
<1>9. PICK a : a = Map!Made(1)
  OBVIOUS
<1>10. PICK b1 : b1 = Map!Bucket(1)
  OBVIOUS
<1>11. a \in Map!Node /\ b1 \in Heads
  BY <1>3, <1>9, <1>10, MadeNodes, Buckets
<1>12. Allocated = (IF made = 1 THEN {a} ELSE {}) /\ Met = Allocated
  BY <1>2, <1>8, <1>9 DEF Allocated, Met
<1>13. L = IF made = 1 THEN {a} ELSE {}
  <2>1. \A n \in L : made = 1 /\ n = a
    BY <1>2, <1>6, <1>9 DEF L, InTable
  <2>2. made = 1 => a \in L
    <3>1. b1 # Map!Null
      BY <1>11, Objects
    <3> QED  BY <1>2, <1>6, <1>9, <1>10, <1>11, <3>1 DEF L, InTable
  <2> QED  BY <2>1, <2>2
<1>14. made = 1 => Of(a) = b1
  BY <1>2, <1>9, <1>10, <1>11, Buckets
<1>15. PICK r : r = [x \in Obj |-> IF x \in Heads THEN 0 ELSE IF x \in Tails THEN 2 ELSE 1]
  OBVIOUS
<1>16. r \in [Obj -> Nat]
  BY <1>15
<1>17. Ranks(r)
  BY <1>11, <1>13, <1>15, Objects DEF Ranks
<1>18. \A b \in Heads : Map!TailOf(b) \in Tails /\ Of(b) = b /\ Of(Map!TailOf(b)) = b /\ r[b] = 0 /\ r[Map!TailOf(b)] = 2
  BY <1>15, Buckets, Objects
<1>19. r[a] = 1
  BY <1>11, <1>15, Objects
<1>20. \A b \in Heads : /\ mem[<<b, "next">>] = IF made = 1 /\ b = b1 THEN a ELSE Map!TailOf(b)
                        /\ mem[<<Map!TailOf(b), "prev">>] = IF made = 1 /\ b = b1 THEN a ELSE b
  BY <1>2, <1>9, <1>10, Zenon
<1>21. made = 1 => mem[<<a, "next">>] = Map!TailOf(b1) /\ mem[<<a, "prev">>] = b1 /\ mem[<<a, "key">>] = 1
  BY <1>2, <1>9, <1>10, Zenon
<1>22. Chained(r)
  <2>1. ASSUME NEW x \in Heads \union L
        PROVE  Ahead(r, x, Settled[<<x, "next">>]) /\ Settled[<<Settled[<<x, "next">>], "prev">>] = x
    <3>1. CASE x \in Heads /\ (made # 1 \/ x # b1)
      <4>1. mem[<<x, "next">>] = Map!TailOf(x) /\ mem[<<Map!TailOf(x), "prev">>] = x
        BY <1>20, <3>1
      <4>2. Ahead(r, x, Map!TailOf(x))
        BY <1>13, <1>14, <1>18, <3>1 DEF Ahead
      <4> QED  BY <1>6, <4>1, <4>2, Zenon
    <3>2. CASE x = b1 /\ made = 1
      <4>1. mem[<<x, "next">>] = a /\ mem[<<a, "prev">>] = x
        BY <1>11, <1>20, <1>21, <3>2
      <4>2. Ahead(r, x, a)
        BY <1>11, <1>13, <1>14, <1>18, <1>19, <3>2 DEF Ahead
      <4> QED  BY <1>6, <4>1, <4>2, Zenon
    <3>3. CASE x = a /\ made = 1
      <4>1. mem[<<x, "next">>] = Map!TailOf(b1) /\ mem[<<Map!TailOf(b1), "prev">>] = x
        BY <1>11, <1>20, <1>21, <3>3
      <4>2. Ahead(r, x, Map!TailOf(b1))
        BY <1>11, <1>13, <1>14, <1>18, <1>19, <3>3 DEF Ahead
      <4> QED  BY <1>6, <4>1, <4>2, Zenon
    <3> QED  BY <1>13, <2>1, <3>1, <3>2, <3>3
  <2>2. ASSUME NEW y \in Tails \union L
        PROVE  Settled[<<y, "prev">>] \in Heads \union L /\ Settled[<<Settled[<<y, "prev">>], "next">>] = y
    <3>1. CASE y \in Tails
      <4>1. PICK b \in Heads : y = Map!TailOf(b)
        BY <3>1, Buckets
      <4>2. CASE made = 1 /\ b = b1
        <5>1. mem[<<y, "prev">>] = a /\ mem[<<a, "next">>] = y /\ a \in L
          BY <1>13, <1>20, <1>21, <4>1, <4>2
        <5> QED  BY <1>6, <5>1
      <4>3. CASE ~(made = 1 /\ b = b1)
        <5>1. mem[<<y, "prev">>] = b /\ mem[<<b, "next">>] = y
          BY <1>20, <4>1, <4>3
        <5> QED  BY <1>6, <5>1
      <4> QED  BY <4>2, <4>3
    <3>2. CASE y \in L
      <4>1. made = 1 /\ y = a
        BY <1>13, <3>2
      <4>2. mem[<<y, "prev">>] = b1 /\ mem[<<b1, "next">>] = y
        BY <1>11, <1>20, <1>21, <4>1
      <4> QED  BY <1>6, <1>11, <4>2
    <3> QED  BY <3>1, <3>2
  <2> QED  BY <2>1, <2>2 DEF Chained
<1>23. Memory(r)
  <2>1. \A x \in Map!Node \ (Map!Own \union L) : Off(Settled, x)
    BY <1>2, <1>6, <1>9, <1>13 DEF Off
  <2>2. ASSUME NEW x \in Obj  PROVE LinksTo(mem, x)
    <3>1. CASE x \in Heads
      <4>1. mem[<<x, "prev">>] = Map!Null /\ mem[<<x, "next">>] = IF made = 1 /\ x = b1 THEN a ELSE Map!TailOf(x)
        BY <1>2, <1>20, <3>1
      <4>2. IsAfter(x, IF made = 1 /\ x = b1 THEN a ELSE Map!TailOf(x))
        BY <1>12, <1>14, <1>18, <3>1 DEF IsAfter
      <4> QED  BY <4>1, <4>2 DEF LinksTo
    <3>2. CASE x \in Tails
      <4>1. PICK b \in Heads : x = Map!TailOf(b)
        BY <3>2, Buckets
      <4>2. mem[<<x, "next">>] = Map!Null /\ mem[<<x, "prev">>] = IF made = 1 /\ b = b1 THEN a ELSE b
        BY <1>2, <1>20, <4>1
      <4>3. IsBefore(x, IF made = 1 /\ b = b1 THEN a ELSE b)
        BY <1>12, <1>14, <1>18, <4>1 DEF IsBefore
      <4> QED  BY <4>2, <4>3 DEF LinksTo
    <3>3. CASE x \in Map!Node
      <4>1. CASE made = 1 /\ x = a
        <5>1. mem[<<x, "next">>] = Map!TailOf(b1) /\ mem[<<x, "prev">>] = b1
          BY <1>21, <4>1
        <5>2. IsAfter(x, Map!TailOf(b1)) /\ IsBefore(x, b1)
          BY <1>11, <1>14, <1>18, <4>1 DEF IsAfter, IsBefore
        <5> QED  BY <5>1, <5>2 DEF LinksTo
      <4>2. CASE ~(made = 1 /\ x = a)
        <5>1. mem[<<x, "next">>] = Map!Null /\ mem[<<x, "prev">>] = Map!Null
          BY <1>2, <1>9, <3>3, <4>2
        <5> QED  BY <5>1 DEF LinksTo
      <4> QED  BY <4>1, <4>2
    <3> QED  BY <3>1, <3>2, <3>3, Objects
  <2>3. \A x \in Allocated : mem[<<x, "key">>] \in MapKey
    BY <1>3, <1>12, <1>21
  <2>4. Len(todo) = 0
    BY <1>1
  <2> QED  BY <1>6, <1>12, <1>13, <2>1, <2>2, <2>3, <2>4 DEF Memory
<1>24. \A t \in Thread : Worker(t, r)
  BY <1>1, <1>3, <1>7 DEF Worker, Places
<1>25. Types
  <2>1. past = [t \in Thread |-> [stayed |-> {}, been |-> {}]]
    BY <1>1 DEF Map!Init
  <2>2. Map!M!MCASTypeOK /\ Map!M!LockDiscipline
    BY <1>5, TableSame
  <2>3. made \in 0 .. MapNodes
    BY <1>2, <1>3
  <2> QED  BY <1>1, <1>4, <1>7, <2>1, <2>2, <2>3 DEF Types
<1>26. Started
  BY DEF Init, Started
<1> QED  BY <1>16, <1>17, <1>22, <1>23, <1>24, <1>25, <1>26 DEF TableInv, Table

-----------------------------------------------------------------------------
\* A step of a call is at the locals of its worker.
LEMMA StepsStay ==
  ASSUME NEW t, Map!Step(t), DOMAIN loc = Thread, NEW u \in Thread, u # t
  PROVE  loc'[u] = loc[u]
<1>1. ASSUME NEW frame, Map!Go(t, frame)  PROVE loc'[u] = loc[u]
  BY <1>1 DEF Map!Go
<1>2. ASSUME NEW v, Map!Returns(t, v)  PROVE loc'[u] = loc[u]
  BY <1>1, <1>2 DEF Map!Returns
<1>3. ASSUME Map!Restart(t)  PROVE loc'[u] = loc[u]
  BY <1>3 DEF Map!Restart
<1>4. CASE Map!Walk(t)
  BY <1>1, <1>2, <1>3, <1>4, Zenon DEF Map!Walk
<1>5. CASE Map!Assign(t)
  BY <1>1, <1>2, <1>3, <1>5, Zenon DEF Map!Assign
<1>6. CASE Map!LoadLinks(t)
  BY <1>1, <1>3, <1>6, Zenon DEF Map!LoadLinks
<1>7. CASE Map!QcasSucceeds(t)
  BY <1>1, <1>7, Zenon DEF Map!QcasSucceeds
<1>8. CASE Map!QcasStores(t)
  BY <1>1, <1>8, Zenon DEF Map!QcasStores
<1>9. CASE Map!QcasFails(t)
  BY <1>3, <1>9, Zenon DEF Map!QcasFails
<1>10. CASE Map!QcasFaults(t)
  BY <1>10 DEF Map!QcasFaults
<1> QED  BY <1>4, <1>5, <1>6, <1>7, <1>8, <1>9, <1>10, Zenon DEF Map!Step

\* So is its beginning.
LEMMA CallsStay ==
  ASSUME NEW t, NEW name, NEW k, Map!Call(t, name, k), DOMAIN loc = Thread, NEW u \in Thread, u # t
  PROVE  loc'[u] = loc[u]
BY DEF Map!Call

\* What one step of the program does to the table.
LEMMA MapSteps ==
  ASSUME chosen = "hashmap", TableInv, Started, [Next]_vars
  PROVE  /\ chosen' = chosen /\ workers' = workers /\ TableInv' /\ Started'
         /\ \/ L' = L /\ \A u \in Thread : Decided(u)' <=> Decided(u)
            \/ \E t \in workers : Effect(t) /\ \A u \in Thread : u # t => (Decided(u)' <=> Decided(u))
<1>1. CASE UNCHANGED vars
  <2>1. UNCHANGED <<chosen, workers, left, mem, lock, todo, made, crashed, call, loc, past>>
    BY <1>1 DEF vars, state
  <2>2. TableInv'
    BY <2>1, TableStutters
  <2>3. Settled' = Settled
    BY <2>1, TableSame DEF Settled, H!Settled, H!Stored
  <2>4. L' = L
    BY <2>3 DEF L, InTable
  <2> QED  BY <2>1, <2>2, <2>4 DEF Started, Decided
<1>2. ASSUME NEW t \in Thread, Step(t), Map!Remember
      PROVE  /\ chosen' = chosen /\ workers' = workers /\ TableInv' /\ Started'
             /\ \E u \in workers : Effect(u) /\ \A v \in Thread : v # u => (Decided(v)' <=> Decided(v))
  <2>1. chosen' = chosen /\ workers' = workers /\ (Call(t) \/ Work(t) \/ Return(t))
    BY <1>2 DEF Step, Update, Operate
  <2>2. PICK r \in [Obj -> Nat] : Types /\ Table(r) /\ \A u \in Thread : Worker(u, r)
    BY DEF TableInv
  <2>3. DOMAIN loc = Thread /\ left \in [Thread -> Nat]
    BY <2>2 DEF Types
  <2>4. /\ TableInv' /\ Effect(t) /\ left[t] > 0 /\ (\A u \in Thread : u # t => loc'[u] = loc[u])
        /\ \A u \in Thread : left'[u] > 0 => left[u] > 0
    <3>1. CASE Call(t)
      <4>1. /\ left[t] > 0 /\ At(t, "idle") /\ UNCHANGED left
            /\ \E name \in Names, k \in MapKey : Map!Call(t, name, k)
        BY <3>1 DEF Call, Names
      <4>2. PICK name \in Names, k \in MapKey : Map!Call(t, name, k)
        BY <4>1
      <4>3. TableInv' /\ Effect(t)
        BY <1>2, <2>2, <4>1, <4>2, TableCalls
      <4> QED  BY <2>3, <4>1, <4>2, <4>3, CallsStay
    <3>2. CASE Work(t)
      <4>1. Map!Step(t) /\ UNCHANGED <<call, left>>
        BY <3>2 DEF Work
      <4>2. TableInv' /\ Effect(t) /\ left[t] > 0
        BY <1>2, <2>2, <4>1, TableSteps
      <4> QED  BY <2>3, <4>1, <4>2, StepsStay
    <3>3. CASE Return(t)
      <4>1. TableInv' /\ Effect(t)
        BY <1>2, <2>2, <3>3, TableReturns
      <4>2. loc[t].pc = "return" /\ loc' = [loc EXCEPT ![t] = Idle] /\ left' = [left EXCEPT ![t] = @ - 1]
        BY <3>3 DEF Return, Leave, At
      <4>3. \A u \in Thread : u # t => loc'[u] = loc[u]
        BY <2>3, <4>2
      <4>4. left[t] > 0
        BY <2>2, <4>2 DEF Worker
      <4>5. \A u \in Thread : left'[u] > 0 => left[u] > 0
        <5>1. \A u \in Thread : u # t => left'[u] = left[u]
          BY <2>3, <4>2
        <5> QED  BY <4>4, <5>1
      <4> QED  BY <4>1, <4>3, <4>4, <4>5
    <3> QED  BY <2>1, <3>1, <3>2, <3>3
  <2>5. t \in workers
    BY <2>4 DEF Started
  <2>6. Started'
    BY <2>1, <2>4 DEF Started
  <2>7. \A v \in Thread : v # t => (Decided(v)' <=> Decided(v))
    BY <2>4 DEF Decided
  <2> QED  BY <2>1, <2>4, <2>5, <2>6, <2>7
<1> QED  BY <1>1, <1>2, Zenon DEF Next, Terminated, Remember

-----------------------------------------------------------------------------
(***************************************************************************)
(* The program.                                                            *)
(***************************************************************************)
IInv ==
  /\ chosen = "mwobject" => ObjectOK
  /\ chosen = "arrayswap" => ArrayOK
  /\ chosen = "hashmap" => TableInv /\ Started

\* The structure of every driver is right at the start.
LEMMA Starts == Init => IInv
BY ObjectInitOK, ArrayInitOK, TableStarts DEF Init, IInv

\* A step of the program is one of the driver that was chosen.
LEMMA Moves ==
  ASSUME [Next]_vars
  PROVE  /\ chosen' = chosen
         /\ chosen = "mwobject" => ObjectNext
         /\ chosen = "arrayswap" => ArrayNext
<1>1. CASE UNCHANGED vars
  BY <1>1 DEF vars, state, ObjectNext, ArrayNext
<1>2. ASSUME NEW t \in Thread, Step(t)
      PROVE  /\ chosen' = chosen
             /\ chosen = "mwobject" => ObjectNext
             /\ chosen = "arrayswap" => ArrayNext
  BY <1>2 DEF Step, Update, Operate, ObjectNext, ArrayNext
<1> QED  BY <1>1, <1>2 DEF Next, Terminated

\* The types, and what the refinements rest on, in every reachable state.
THEOREM Invariant == Spec => []IInv
<1>1. IInv /\ [Next]_vars => IInv'
  BY Moves, ObjectNextOK, ArrayNextOK, MapSteps DEF IInv
<1> QED  BY Starts, <1>1, PTL DEF Spec

\* No load leaves a worker with a value no counter can hold, a worker holds
\* pointers of the array only while it is inside swap, and none makes more
\* updates or swaps than it has to (benchmarks.cpp:76-95, array_swap.h:57-81);
\* the words of the hash map hold nodes, values or nothing, and no two workers
\* are at the stores of a cas or qcas (lockfree-mcas/HashMap.h:23-190).
THEOREM TypeCorrect == Spec => []TypeOK
<1>1. TableInv => Map!TypeOK
  BY DEF TableInv, Types, Names, Map!TypeOK
<1>2. IInv => TypeOK
  BY <1>1, ObjectTypes, ArrayTypes DEF IInv, TypeOK
<1> QED  BY Invariant, <1>2, PTL

\* No update wins with four loads that straddled another one: a qcas that
\* succeeds has compared all four counters with what the worker loaded while
\* nobody was at its stores, and then they are equal (benchmarks.cpp:77-92).
THEOREM TornUpdatesLose == Spec => TornLoadsLose
<1>1. IInv /\ [Next]_vars =>
        [\A t \in Thread : chosen = "mwobject" /\ Object!QcasSucceeds(t) =>
           \A f, g \in Object!Field : seen[t][f] = seen[t][g]]_vars
  <2> SUFFICES ASSUME ObjectOK, NEW t \in Thread, Object!QcasSucceeds(t),
                      NEW f \in Object!Field, NEW g \in Object!Field
               PROVE  seen[t][f] = seen[t][g]
    BY DEF IInv
  <2>1. O!Settled = mem /\ mem[f] = seen[t][f] /\ mem[g] = seen[t][g]
    BY QcasStep
  <2> QED  BY <2>1 DEF ObjectOK, Together
<1> QED  BY <1>1, Invariant, PTL DEF Spec, TornLoadsLose

\* Every update adds one to all four counters at one instant and no update is
\* lost or made twice (benchmarks.cpp:76-95), whatever the interleaving of the
\* loads and of the stores of the qcas.
THEOREM NoLostUpdate == Spec => UpdatesAreAtomic
<1>1. Init => (chosen = "mwobject" => Object!Abstract!Init)
  BY ObjectRefineInit DEF Init
<1>2. IInv /\ [Next]_vars => [chosen = "mwobject" => Object!Abstract!Next]_(Object!Abstract!vars)
  BY Moves, ObjectRefineNext DEF IInv
<1> QED  BY <1>1, <1>2, Invariant, PTL DEF Spec, UpdatesAreAtomic

\* Every swap exchanges its two rows at one instant between its call and its
\* return, once (array_swap.h:57-81), whatever the interleaving of the loads
\* and of the stores of the dcas.
THEOREM SwapsTakeEffectOnce == Spec => SwapsAreAtomic
<1>1. Init => (chosen = "arrayswap" => Array!Abstract!Init)
  BY ArrayRefineInit DEF Init
<1>2. IInv /\ [Next]_vars => [chosen = "arrayswap" => Array!Abstract!Next]_(Array!Abstract!vars)
  BY Moves, ArrayRefineNext DEF IInv
<1> QED  BY <1>1, <1>2, Invariant, PTL DEF Spec, SwapsAreAtomic

\* No element is lost or in two rows once the dcas under way is over: what
\* datum_free relies on (array_swap.h:41-45).
THEOREM NoElementLost == Spec => []Permutation
<1>1. ArrayOK => Array!Abstract!Permutation
  BY ArraySame DEF ArrayOK, IsPermutation, Array!Abstract!Permutation
<1>2. IInv => Permutation
  BY <1>1 DEF IInv, Permutation
<1> QED  BY <1>2, Invariant, PTL

\* A call of the hash map sees every node that was in the map from its call to
\* its return, and assigns, removes or finds only one that was in it at some
\* moment of the call, though the walk takes no lock and the nodes it crosses
\* are unlinked under it (lockfree-mcas/HashMap.h:120-190).
THEOREM CallsSeeTheMap == Spec => []MapIsRegular
<1>1. IInv => MapIsRegular
  <2>1. ASSUME TableInv, Started, NEW t \in workers, At(t, "return")  PROVE Map!IsRegular(t)
    <3>1. PICK r \in [Obj -> Nat] : \A u \in Thread : Worker(u, r)
      BY <2>1 DEF TableInv
    <3>2. t \in Thread /\ loc[t].pc = "return"
      BY <2>1 DEF Started, At
    <3>3. Ends(t)
      BY <3>1, <3>2 DEF Worker
    <3> QED  BY <3>2, <3>3 DEF Ends
  <2> QED  BY <2>1 DEF IInv, MapIsRegular
<1> QED  BY <1>1, Invariant, PTL

\* The contents of the hash map change at one instant of a call, once, and as
\* the call says: an insert_or_assign of a new key links its node, a remove
\* unlinks one node of its key (lockfree-mcas/HashMap.h:23-190).
THEOREM CallsTakeEffect == Spec => MapTakesEffect
<1> DEFINE Held == chosen = "hashmap" =>
                     IF \E t \in workers : ~Decided(t) /\ Decided(t)'
                     THEN \E t \in workers : ~Decided(t) /\ Decided(t)' /\ Map!TakesEffect(t)
                     ELSE Map!Linked' = Map!Linked
<1>1. IInv /\ [Next]_vars => Held
  <2>1. SUFFICES ASSUME chosen = "hashmap", TableInv, Started, [Next]_vars  PROVE Held
    BY DEF IInv
  <2>2. /\ TableInv' /\ workers \subseteq Thread
        /\ \/ L' = L /\ \A u \in Thread : Decided(u)' <=> Decided(u)
           \/ \E t \in workers : Effect(t) /\ \A u \in Thread : u # t => (Decided(u)' <=> Decided(u))
    BY <2>1, MapSteps DEF Started
  <2>3. Map!Linked = L /\ Map!Linked' = L'
    BY <2>1, <2>2, TableTypes, TableTypesNext DEF TableInv
  <2> QED  BY <2>2, <2>3 DEF Effect
<1>2. IInv /\ [Next]_vars => [Held]_vars
  BY <1>1
<1> HIDE DEF Held
<1>3. Spec => [][Held]_vars
  BY <1>2, Invariant, PTL DEF Spec
<1> QED  BY <1>3 DEF Held, MapTakesEffect

-----------------------------------------------------------------------------
(***************************************************************************)
(* The lists are whole: the nodes that the links lead to from the head.    *)
(***************************************************************************)
Longest == MapNodes + 1
On(m) == [n \in Obj |-> IF n - TableSize \in Map!Buckets \/ m[<<n, "next">>] = Map!Null THEN n ELSE m[<<n, "next">>]]
IsChain(f, b, on, k) == f = [i \in 0 .. k |-> IF i = 0 THEN Map!HeadOf(b) ELSE on[f[i - 1]]]
Chain(b, on) == CHOOSE f : IsChain(f, b, on, Longest)
FromHead(b) == {Chain(b, On(Map!Memory))[i] : i \in 0 .. Longest}

\* What TableIsWhole says, with the local functions of its LET by name.
LEMMA WholeIs ==
  ASSUME \A b \in Map!Buckets :
           /\ FromHead(b) = {Map!HeadOf(b), Map!TailOf(b)} \union {n \in Map!Linked : Map!Bucket(Map!Memory[<<n, "key">>]) = b}
           /\ \A n \in FromHead(b) \ {Map!TailOf(b)} : Map!Memory[<<Map!Memory[<<n, "next">>], "prev">>] = n,
         \A n \in Map!Node \ (Map!Own \union Map!Linked) :
           Map!Memory[<<n, "next">>] = Map!Null /\ Map!Memory[<<n, "prev">>] = Map!Null
  PROVE  Map!TableIsWhole
BY DEF Map!TableIsWhole, FromHead, Chain, IsChain, On, Longest, Obj

\* Every set of naturals that is not empty has a least one.
LEMMA LeastOf ==
  ASSUME NEW S \in SUBSET Nat, S # {}
  PROVE  \E n \in S : \A k \in S : n <= k
<1> DEFINE R == OpToRel(<, Nat)
<1>1. IsWellFoundedOn(R, Nat)
  BY NatLessThanWellFounded
<1>2. ASSUME NEW i \in Nat, NEW j \in Nat, i < j PROVE <<i, j>> \in R
  BY <1>2 DEF OpToRel
<1> HIDE DEF R
<1>3. PICK n \in S : \A k \in S : ~ (<<k, n>> \in R)
  BY <1>1, WFMin
<1>4. ASSUME NEW k \in S PROVE n <= k
  <2>1. ~(k < n)
    BY <1>2, <1>3
  <2> QED  BY <2>1
<1> QED  BY <1>4

\* The function Nth of TableIsWhole does what its recursive definition says.
LEMMA ChainIs ==
  ASSUME NEW b, NEW on
  PROVE  /\ Chain(b, on)[0] = Map!HeadOf(b)
         /\ \A i \in 1 .. Longest : Chain(b, on)[i] = on[Chain(b, on)[i - 1]]
<1> DEFINE P(k) == \E f : IsChain(f, b, on, k)
           S == {k \in Nat : ~P(k)}
<1>1. S = {}
  <2> SUFFICES ASSUME S # {} PROVE FALSE
    OBVIOUS
  <2>1. PICK k \in S : \A j \in S : k <= j
    BY LeastOf
  <2>2. k \in Nat /\ ~P(k)
    BY <2>1
  <2>3. CASE k = 0
    <3> DEFINE g == [i \in 0 .. 0 |-> Map!HeadOf(b)]
    <3>1. g = [i \in 0 .. 0 |-> IF i = 0 THEN Map!HeadOf(b) ELSE on[g[i - 1]]]
      OBVIOUS
    <3>2. IsChain(g, b, on, 0)
      BY <3>1 DEF IsChain
    <3> QED  BY <2>2, <2>3, <3>2
  <2>4. CASE k # 0
    <3>1. k - 1 \in Nat /\ k - 1 \notin S
      BY <2>1, <2>2, <2>4
    <3>2. PICK f : IsChain(f, b, on, k - 1)
      BY <3>1
    <3> DEFINE g == [i \in 0 .. k |-> IF i = 0 THEN Map!HeadOf(b) ELSE on[f[i - 1]]]
    <3>3. ASSUME NEW i \in 0 .. k - 1 PROVE g[i] = f[i]
      BY <2>2, <3>2 DEF IsChain
    <3>4. ASSUME NEW i \in 0 .. k, i # 0 PROVE on[g[i - 1]] = on[f[i - 1]]
      <4>1. i - 1 \in 0 .. k - 1
        BY <2>2, <3>4
      <4> QED  BY <3>3, <4>1
    <3>5. g = [i \in 0 .. k |-> IF i = 0 THEN Map!HeadOf(b) ELSE on[g[i - 1]]]
      <4> DEFINE h == [i \in 0 .. k |-> IF i = 0 THEN Map!HeadOf(b) ELSE on[g[i - 1]]]
      <4>1. ASSUME NEW i \in 0 .. k PROVE g[i] = h[i]
        BY <3>4
      <4> QED  BY <4>1
    <3> HIDE DEF g
    <3>6. IsChain(g, b, on, k)
      BY <3>5 DEF IsChain
    <3> QED  BY <2>2, <3>6
  <2> QED  BY <2>3, <2>4
<1>2. Longest \in Nat
  BY McasMapsAssumption DEF Longest
<1>3. \E f : IsChain(f, b, on, Longest)
  BY <1>1, <1>2
<1>4. PICK f : f = Chain(b, on)
  OBVIOUS
<1>5. IsChain(f, b, on, Longest)
  BY <1>3, <1>4 DEF Chain
<1>6. \A i \in 0 .. Longest : f[i] = IF i = 0 THEN Map!HeadOf(b) ELSE on[f[i - 1]]
  BY <1>5 DEF IsChain
<1>7. f[0] = Map!HeadOf(b) /\ \A i \in 1 .. Longest : f[i] = on[f[i - 1]]
  BY <1>2, <1>6
<1> QED  BY <1>4, <1>7, Zenon

\* Below, f goes along the links of the list of bucket b.
Follows(f, b) ==
  /\ f[0] = b
  /\ \A i \in 1 .. Longest : f[i] = On(Settled)[f[i - 1]]

Listed(b) == {x \in Heads \union L : Of(x) = b}

\* The link of a node of the list leads on, to the next in rank; that of the tail stays.
LEMMA LinkFollows ==
  ASSUME Types, NEW r \in [Obj -> Nat], Table(r), NEW b \in Heads, NEW x \in Obj
  PROVE  /\ x = Map!TailOf(b) => On(Settled)[x] = x
         /\ x \in Listed(b) => /\ On(Settled)[x] = Settled[<<x, "next">>]
                                /\ On(Settled)[x] \in Listed(b) \union {Map!TailOf(b)}
                                /\ Ahead(r, x, On(Settled)[x])
<1>1. \A z : z - TableSize \in Map!Buckets /\ z \in Obj <=> z \in Tails
  <2>1. TableSize \in Nat \ {0} /\ Obj \subseteq Int /\ Tails \subseteq Obj
    BY McasMapsAssumption, Objects
  <2>2. \A z \in Obj : z - TableSize \in Map!Buckets => z \in Tails
    <3>1. \A z \in Obj : z = TableSize + (z - TableSize)
      BY <2>1
    <3> QED  BY <3>1 DEF Tails, Map!TailOf
  <2>3. \A z \in Tails : z - TableSize \in Map!Buckets
    BY <2>1 DEF Tails, Map!TailOf, Map!Buckets
  <2> QED  BY <2>1, <2>2, <2>3
<1>2. On(Settled)[x] = IF x \in Tails \/ Settled[<<x, "next">>] = Map!Null THEN x ELSE Settled[<<x, "next">>]
  BY <1>1 DEF On
<1>3. Map!TailOf(b) \in Tails
  BY Buckets
<1>4. CASE x \in Listed(b)
  <2>1. x \in Heads \union L /\ Of(x) = b
    BY <1>4 DEF Listed
  <2>2. x \notin Tails
    BY <2>1, TableTypes, Objects
  <2>3. Ahead(r, x, Settled[<<x, "next">>])
    BY <2>1 DEF Table, Chained
  <2>4. PICK y : y = Settled[<<x, "next">>]
    OBVIOUS
  <2>5. y \in Tails \union L /\ Of(y) = b
    BY <2>1, <2>3, <2>4 DEF Ahead
  <2>6. y # Map!Null
    BY <2>5, TableTypes, Objects
  <2>7. On(Settled)[x] = y
    BY <1>2, <2>2, <2>4, <2>6
  <2>8. y \in Listed(b) \union {Map!TailOf(b)}
    BY <2>5, Buckets DEF Listed
  <2>9. x # Map!TailOf(b)
    BY <1>3, <2>2
  <2> QED  BY <2>3, <2>4, <2>7, <2>8, <2>9
<1> QED  BY <1>2, <1>3, <1>4

\* The links lead from the head to every node of the list and to the tail, in as
\* many steps as there are nodes at most: the ranks rise, and there are no more nodes.
LEMMA Followed ==
  ASSUME Types, NEW r \in [Obj -> Nat], Table(r), NEW b \in Heads, NEW f, Follows(f, b)
  PROVE  {f[i] : i \in 0 .. Longest} = Listed(b) \union {Map!TailOf(b)}
<1> DEFINE T == Map!TailOf(b)
<1>1. /\ MapNodes \in Nat /\ Longest = MapNodes + 1 /\ Longest \in Nat
  BY McasMapsAssumption DEF Longest
<1>2. f[0] = b /\ \A i \in 1 .. Longest : f[i] = On(Settled)[f[i - 1]]
  BY DEF Follows
<1>3. T \in Tails /\ T \in Obj /\ T \notin Heads /\ T \notin L /\ Of(b) = b
  BY Buckets, Objects, TableTypes
<1>4. Listed(b) \subseteq Obj /\ b \in Listed(b)
  BY <1>3, Objects, TableTypes DEF Listed
<1>5. r[b] = 0 /\ \A x \in Obj : x \notin Tails => r[x] < r[T]
  BY <1>3, Objects DEF Table, Ranks
<1>6. \A x \in Listed(b) : x \notin Tails /\ x # T
  BY <1>3, Objects, TableTypes DEF Listed
\* A node of the list or its tail, and the next one.
<1> DEFINE Steps(x, y) == \/ x = T /\ y = T
                          \/ x \in Listed(b) /\ y \in Listed(b) \union {T} /\ Ahead(r, x, y)
<1> HIDE DEF T, Steps
<1>7. \A x \in Listed(b) \union {T} : Steps(x, On(Settled)[x]) /\ On(Settled)[x] \in Listed(b) \union {T}
  BY <1>3, <1>4, LinkFollows DEF T, Steps
<1>8. \A i \in 0 .. Longest : f[i] \in Listed(b) \union {T}
  <2> DEFINE S == {i \in 0 .. Longest : f[i] \notin Listed(b) \union {T}}
  <2> SUFFICES ASSUME S # {} PROVE FALSE
    OBVIOUS
  <2>1. PICK i \in S : \A j \in S : i <= j
    <3>1. S \in SUBSET Nat
      BY <1>1
    <3> QED  BY <3>1, LeastOf
  <2>2. i # 0
    BY <1>2, <1>4
  <2>3. i \in 1 .. Longest /\ i - 1 \in 0 .. Longest /\ i - 1 \notin S
    BY <1>1, <2>1, <2>2
  <2>4. f[i - 1] \in Listed(b) \union {T}
    BY <2>3
  <2> QED  BY <1>2, <1>7, <2>1, <2>3, <2>4
<1>9. \A i \in 1 .. Longest : Steps(f[i - 1], f[i])
  <2>1. ASSUME NEW i \in 1 .. Longest  PROVE Steps(f[i - 1], f[i])
    <3>1. f[i - 1] \in Listed(b) \union {T}
      BY <1>1, <1>8
    <3> QED  BY <1>2, <1>7, <3>1
  <2> QED  BY <2>1
<1>10. \A i \in 0 .. Longest : r[f[i]] \in Nat
  BY <1>3, <1>4, <1>8
<1>11. \A i \in 0 .. Longest : f[i] = T \/ \A j \in 0 .. i - 1 : f[j] # T /\ r[f[j]] < r[f[i]]
  <2> DEFINE S == {i \in 0 .. Longest : ~(f[i] = T \/ \A j \in 0 .. i - 1 : f[j] # T /\ r[f[j]] < r[f[i]])}
  <2> SUFFICES ASSUME S # {} PROVE FALSE
    OBVIOUS
  <2>1. PICK i \in S : \A j \in S : i <= j
    <3>1. S \in SUBSET Nat
      BY <1>1
    <3> QED  BY <3>1, LeastOf
  <2>2. i # 0
    BY <2>1
  <2>3. i \in 1 .. Longest /\ i - 1 \in 0 .. Longest /\ i - 1 \notin S
    BY <1>1, <2>1, <2>2
  <2>4. f[i] # T /\ i \in 0 .. Longest
    BY <2>1
  <2>5. f[i - 1] \in Listed(b) /\ f[i - 1] # T /\ r[f[i - 1]] < r[f[i]]
    BY <1>6, <1>9, <2>3, <2>4 DEF Steps, Ahead
  <2>6. \A j \in 0 .. i - 1 - 1 : f[j] # T /\ r[f[j]] < r[f[i - 1]]
    BY <2>3, <2>5
  <2>7. ASSUME NEW j \in 0 .. i - 1  PROVE f[j] # T /\ r[f[j]] < r[f[i]]
    <3>1. CASE j = i - 1
      BY <2>5, <3>1
    <3>2. CASE j # i - 1
      <4>1. j \in 0 .. i - 1 - 1 /\ j \in 0 .. Longest
        BY <1>1, <2>3, <3>2
      <4>2. f[j] # T /\ r[f[j]] < r[f[i - 1]]
        BY <2>6, <4>1
      <4>3. r[f[j]] \in Nat /\ r[f[i - 1]] \in Nat /\ r[f[i]] \in Nat
        BY <1>10, <2>3, <2>4, <4>1
      <4> QED  BY <2>5, <4>2, <4>3
    <3> QED  BY <3>1, <3>2
  <2> QED  BY <2>1, <2>4, <2>7
\* There are more places than nodes.
<1>12. f[Longest] = T
  <2> SUFFICES ASSUME f[Longest] # T PROVE FALSE
    OBVIOUS
  <2>1. \A i \in 0 .. Longest : f[i] # T
    <3>1. \A j \in 0 .. Longest - 1 : f[j] # T
      BY <1>1, <1>11
    <3> QED  BY <1>1, <3>1
  <2>2. \A i \in 1 .. Longest : f[i] \in Map!Node
    <3>1. ASSUME NEW i \in 1 .. Longest  PROVE f[i] \in Map!Node
      <4>1. i \in 0 .. Longest /\ 0 \in 0 .. i - 1
        BY <1>1
      <4>2. r[f[0]] < r[f[i]]
        BY <1>11, <2>1, <4>1
      <4>3. r[f[i]] \in Nat /\ r[f[i]] # 0
        BY <1>2, <1>5, <1>10, <4>1, <4>2
      <4>4. f[i] \in Heads \union L
        BY <1>8, <2>1, <4>1 DEF Listed
      <4>5. f[i] \notin Heads
        BY <4>3, Objects DEF Table, Ranks
      <4> QED  BY <4>4, <4>5, TableTypes
    <3> QED  BY <3>1
  <2>3. IsFiniteSet(1 .. Longest) /\ Cardinality(1 .. Longest) = Longest
    BY <1>1, FS_Interval
  <2>4. IsFiniteSet(Map!Node) /\ Cardinality(Map!Node) = MapNodes
    <3>1. Map!Node = 2 * TableSize .. 2 * TableSize + MapNodes - 1
      BY Objects
    <3>2. TableSize \in Nat
      BY McasMapsAssumption
    <3>3. PICK lo \in Int, hi \in Int : lo = 2 * TableSize /\ hi = 2 * TableSize + MapNodes - 1
      BY <1>1, <3>2
    <3>4. Map!Node = lo .. hi
      BY <3>1, <3>3
    <3> QED  BY <1>1, <3>3, <3>4, FS_Interval
  <2> DEFINE g == [i \in 1 .. Longest |-> f[i]]
  <2>5. g \in [1 .. Longest -> Map!Node]
    BY <2>2
  <2>6. PICK i, j \in 1 .. Longest : i # j /\ g[i] = g[j]
    <3> HIDE DEF g
    <3>1. Cardinality(Map!Node) < Cardinality(1 .. Longest)
      BY <1>1, <2>3, <2>4
    <3> QED  BY <2>3, <2>4, <2>5, <3>1, FS_PigeonHole
  <2>7. f[i] = f[j] /\ i \in 0 .. Longest /\ j \in 0 .. Longest /\ (i \in 0 .. j - 1 \/ j \in 0 .. i - 1)
    BY <1>1, <2>6
  <2>8. r[f[i]] < r[f[j]] \/ r[f[j]] < r[f[i]]
    BY <1>11, <2>1, <2>7
  <2> QED  BY <1>10, <2>7, <2>8
\* The links miss no node.
<1>13. ASSUME NEW z \in L, Of(z) = b  PROVE \E i \in 0 .. Longest : f[i] = z
  <2> DEFINE S == {i \in 0 .. Longest : r[z] <= r[f[i]]}
  <2>1. z \in Obj /\ z \notin Tails /\ z \notin Heads /\ r[z] \in Nat /\ r[z] # 0 /\ r[z] < r[T] /\ r[T] \in Nat
    <3>1. z \in Obj /\ z \notin Tails /\ z \notin Heads
      BY TableTypes, Objects
    <3> QED  BY <1>3, <1>5, <3>1 DEF Table, Ranks
  <2>2. Longest \in S
    BY <1>1, <1>12, <2>1
  <2>3. PICK i \in S : \A j \in S : i <= j
    <3>1. S \in SUBSET Nat
      BY <1>1
    <3> QED  BY <2>2, <3>1, LeastOf
  <2>4. i \in 0 .. Longest /\ r[z] <= r[f[i]] /\ i # 0
    BY <1>2, <1>5, <2>1, <2>3
  <2>5. i \in 1 .. Longest /\ i - 1 \in 0 .. Longest /\ i - 1 \notin S
    BY <1>1, <2>3, <2>4
  <2>6. r[f[i - 1]] \in Nat /\ r[f[i]] \in Nat /\ r[f[i - 1]] < r[z]
    BY <1>10, <2>1, <2>4, <2>5
  <2>7. f[i - 1] # T
    BY <2>1, <2>6
  <2>8. f[i - 1] \in Listed(b) /\ Ahead(r, f[i - 1], f[i])
    BY <1>9, <2>5, <2>7 DEF Steps
  <2>9. r[z] <= r[f[i - 1]] \/ r[f[i]] <= r[z]
    BY <1>13, <2>8 DEF Ahead, Listed
  <2>10. r[f[i]] = r[z]
    BY <2>1, <2>4, <2>6, <2>9
  <2>11. f[i] \in L
    <3>1. f[i] \in Listed(b) \union {T} /\ f[i] # T
      BY <1>8, <2>1, <2>4, <2>10
    <3>2. f[i] \in Heads => r[f[i]] = 0
      BY Objects DEF Table, Ranks
    <3> QED  BY <2>1, <2>10, <3>1, <3>2 DEF Listed
  <2>12. f[i] = z
    BY <2>10, <2>11 DEF Table, Ranks
  <2> QED  BY <2>4, <2>12
<1>14. \A x \in Heads : Of(x) = b => x = b
  BY Buckets
<1>15. ASSUME NEW x \in Listed(b) \union {T}  PROVE \E i \in 0 .. Longest : f[i] = x
  <2>1. CASE x = T
    BY <1>1, <1>12, <2>1
  <2>2. CASE x \in Listed(b)
    <3>1. (x \in L /\ Of(x) = b) \/ x = b
      BY <1>14, <2>2 DEF Listed
    <3> QED  BY <1>1, <1>2, <1>13, <3>1
  <2> QED  BY <1>15, <2>1, <2>2
<1> QED  BY <1>8, <1>15 DEF T

\* The invariant says more than TableIsWhole.
LEMMA TableWhole ==
  ASSUME TableInv
  PROVE  Map!TableIsWhole
<1>1. PICK r \in [Obj -> Nat] : Types /\ Table(r)
  BY DEF TableInv
<1>2. Map!Linked = L /\ L \subseteq Map!Node
  BY <1>1, TableTypes
<1>3. Map!Memory = Settled
  BY <1>1, TableTypes DEF Map!Memory, Settled
<1>4. \A n \in L : Settled[<<n, "key">>] = mem[<<n, "key">>] /\ Of(n) = Map!Bucket(mem[<<n, "key">>])
  BY <1>1, <1>2, Objects, Buckets DEF Table, Memory
<1>5. ASSUME NEW b \in Map!Buckets
      PROVE  /\ FromHead(b) = {Map!HeadOf(b), Map!TailOf(b)} \union {n \in L : Map!Bucket(Settled[<<n, "key">>]) = b}
             /\ \A n \in FromHead(b) \ {Map!TailOf(b)} : Settled[<<Settled[<<n, "next">>], "prev">>] = n
  <2>1. b \in Heads /\ Map!HeadOf(b) = b
    BY Buckets DEF Heads
  <2>2. PICK f : f = Chain(b, On(Settled))
    OBVIOUS
  <2>3. Follows(f, b)
    BY <2>1, <2>2, ChainIs, Zenon DEF Follows
  <2>4. FromHead(b) = {f[i] : i \in 0 .. Longest}
    BY <1>3, <2>2 DEF FromHead
  <2>5. FromHead(b) = Listed(b) \union {Map!TailOf(b)}
    BY <1>1, <2>1, <2>3, <2>4, Followed
  <2>6. Listed(b) = {b} \union {n \in L : Map!Bucket(Settled[<<n, "key">>]) = b}
    BY <1>4, <2>1, Buckets DEF Listed
  <2>7. \A n \in Listed(b) : Settled[<<Settled[<<n, "next">>], "prev">>] = n
    BY <1>1 DEF Listed, Table, Chained
  <2> QED  BY <2>1, <2>5, <2>6, <2>7
<1>6. \A n \in Map!Node \ (Map!Own \union L) : Settled[<<n, "next">>] = Map!Null /\ Settled[<<n, "prev">>] = Map!Null
  BY <1>1 DEF Table, Memory, Off
<1> QED  BY <1>2, <1>3, <1>5, <1>6, WholeIs

\* The list of every bucket is whole, whatever qcas is under way.
THEOREM TableStaysWhole == Spec => []TableIsWhole
<1>1. IInv => TableIsWhole
  BY TableWhole DEF IInv, TableIsWhole
<1> QED  BY <1>1, Invariant, PTL

=============================================================================
