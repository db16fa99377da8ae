---------------------------- MODULE McasMWObject ----------------------------
(***************************************************************************)
(* benchmark_mcas_mwobject (benchmarks.cpp): every worker updates the four *)
(* counters of one object.  An update loads them one after the other, with *)
(* plain loads, and adds one to all four with a qcas; if one has changed   *)
(* since it was loaded the update starts over.                             *)
(***************************************************************************)
EXTENDS Naturals, Sequences

CONSTANTS Thread,    \* the workers
          NoThread,  \* the owner of a free global_cas_lock
          Gem5,      \* the build of mcas.h
          Ops,       \* the updates each worker makes (n_ops / threadcnt)
          Modulus    \* a counter holds 0 .. Modulus - 1: 2^64 in the code

\* counters.a, .b, .c, .d, in the order they are loaded and stored.
Field == 1 .. 4

VARIABLES mem, lock, todo,  \* the counters and mcas.h: see MCAS
          seen,             \* seen[t]: old_a, old_b, ... as far as t has loaded them
          left              \* left[t]: the updates t has still to finish

M == INSTANCE MCAS WITH Addr <- Field, Val <- 0 .. Modulus - 1

\* The arguments of the qcas.
Increment(s) == [i \in Field |-> M!Word(i, s[i], (s[i] + 1) % Modulus)]

Init ==
  /\ M!InitMCAS
  /\ mem = [f \in Field |-> 0]
  /\ seen = [t \in Thread |-> <<>>]
  /\ left = [t \in Thread |-> Ops]

\* Load the next counter.
Load(t) ==
  /\ left[t] > 0
  /\ Len(seen[t]) < 4
  /\ seen' = [seen EXCEPT ![t] = Append(@, mem[Len(@) + 1])]
  /\ M!NoStore
  /\ UNCHANGED left

\* A step of a qcas that succeeds: the update is over with its last store.
Advance(t) ==
  IF M!Returns(t)
    THEN /\ seen' = [seen EXCEPT ![t] = <<>>]
         /\ left' = [left EXCEPT ![t] = @ - 1]
    ELSE UNCHANGED <<seen, left>>

QcasSucceeds(t) ==
  /\ Len(seen[t]) = 4
  /\ M!Succeed(t, Increment(seen[t]))
  /\ Advance(t)

QcasStores(t) ==
  /\ M!StoreNext(t)
  /\ Advance(t)

\* Mutant: the counters are not loaded again.
QcasFails_NoReload(t) ==
  /\ Len(seen[t]) = 4
  /\ M!Fail(t, Increment(seen[t]))
  /\ UNCHANGED <<seen, left>>

\* The loop starts over.
QcasFails(t) ==
  /\ Len(seen[t]) = 4
  /\ M!Fail(t, Increment(seen[t]))
  /\ seen' = [seen EXCEPT ![t] = <<>>]
  /\ UNCHANGED left

Step(t) == Load(t) \/ QcasSucceeds(t) \/ QcasStores(t) \/ QcasFails(t)

-----------------------------------------------------------------------------
\* Types of the object and of the workers' local variables.
TypeOK ==
  /\ M!MCASTypeOK
  /\ M!LockDiscipline
  /\ seen \in [Thread -> UNION {[1 .. n -> 0 .. Modulus - 1] : n \in 0 .. 4}]
  /\ left \in [Thread -> 0 .. Ops]

\* No update is lost, made twice or split: in the memory the qcas under way
\* leaves behind, the four counters advance together, once per update, at the
\* first store of a qcas.
Abstract == INSTANCE MWObjectSpec
  WITH counters <- M!Settled,
       left <- [t \in Thread |-> IF lock = t THEN left[t] - 1 ELSE left[t]]
=============================================================================
