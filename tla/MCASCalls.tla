----------------------------- MODULE MCASCalls ------------------------------
(***************************************************************************)
(* Threads that call cas, dcas, tcas and qcas of mcas/mcas.h with any      *)
(* arguments, over and over.  The module says what the calls guarantee to  *)
(* each other (Atomic: they implement AtomicMCAS) and what they do not     *)
(* guarantee to a thread that loads the words without calling MCAS         *)
(* (AtomicToReaders).                                                      *)
(***************************************************************************)
EXTENDS MCAS

CONSTANT MaxWords  \* the longest call: 4 in mcas.h (qcas)

ASSUME MCASCallsAssumption == MaxWords \in Nat \ {0}

VARIABLES args,    \* args[t]: the words of the call t is making, or <<>>
          status   \* status[t]: where t is in it

vars == <<mem, lock, todo, args, status>>

\* Every call with at most MaxWords words, at pairwise different addresses.
Calls == {w \in UNION {[1 .. k -> Words] : k \in 1 .. MaxWords} : Distinct(w)}

Init ==
  /\ InitMCAS
  /\ mem \in [Addr -> Val]
  /\ args = [t \in Thread |-> <<>>]
  /\ status = [t \in Thread |-> "idle"]

Invoke(t, w) ==
  /\ status[t] = "idle"
  /\ args' = [args EXCEPT ![t] = w]
  /\ status' = [status EXCEPT ![t] = "called"]
  /\ NoStore

\* A successful call returns true once its last word is stored.
Exchange(t) ==
  /\ status[t] = "called"
  /\ Succeed(t, args[t])
  /\ status' = [status EXCEPT ![t] = IF Returns(t) THEN "true" ELSE "storing"]
  /\ UNCHANGED args

Continue(t) ==
  /\ status[t] = "storing"
  /\ StoreNext(t)
  /\ status' = [status EXCEPT ![t] = IF Returns(t) THEN "true" ELSE "storing"]
  /\ UNCHANGED args

\* Mutant: the comparison is repeated until it succeeds.
Reject_Retries(t) ==
  /\ status[t] = "called"
  /\ Fail(t, args[t])
  /\ UNCHANGED <<args, status>>

Reject(t) ==
  /\ status[t] = "called"
  /\ Fail(t, args[t])
  /\ status' = [status EXCEPT ![t] = "false"]
  /\ UNCHANGED args

Return(t) ==
  /\ status[t] \in {"true", "false"}
  /\ args' = [args EXCEPT ![t] = <<>>]
  /\ status' = [status EXCEPT ![t] = "idle"]
  /\ NoStore

\* The steps of a call that has begun.
Step(t) == Exchange(t) \/ Continue(t) \/ Reject(t) \/ Return(t)

Next ==
  \E t \in Thread :
    \/ \E w \in Calls : Invoke(t, w)
    \/ Step(t)

Spec == Init /\ [][Next]_vars

(***************************************************************************)
(* Fairness: a thread that can take the next step of its call eventually   *)
(* does (the scheduler runs every thread).  Weak fairness only: std::mutex *)
(* promises no order among the threads that wait for it.                   *)
(***************************************************************************)
FairSpec == Spec /\ \A t \in Thread : WF_vars(Step(t))

-----------------------------------------------------------------------------
\* Types of the variables of mcas.h and of its callers.
TypeOK ==
  /\ MCASTypeOK
  /\ args \in [Thread -> Calls \cup {<<>>}]
  /\ status \in [Thread -> {"idle", "called", "storing", "true", "false"}]

\* A call is at its stores exactly when it owns the lock, and what it has
\* still to store is the end of the words it was called with.
OwnerStores ==
  \A t \in Thread :
    /\ status[t] = "storing" <=> lock = t
    /\ lock = t =>
         /\ Len(todo) < Len(args[t])
         /\ \A i \in DOMAIN todo : todo[i] = args[t][Len(args[t]) - Len(todo) + i]

\* The calls of mcas.h are atomic to each other: in the memory a call leaves
\* behind (Settled) each takes effect at one instant, its first store.
Abstract == INSTANCE AtomicMCAS
  WITH mem <- Settled,
       status <- [t \in Thread |-> IF status[t] = "storing" THEN "true" ELSE status[t]]
Atomic == Abstract!Spec

\* The memory before the call of t, which owns the lock, made its first store.
Before(t) == Stored(mem, [i \in DOMAIN args[t] |-> [args[t][i] EXCEPT !.new = args[t][i].old]])

\* A thread that loads words without calling MCAS sees all the stores of a
\* call or none: what the comment "atomically" of mcas.h promises.
AtomicToReaders == \A t \in Thread : lock = t => mem = Before(t) \/ mem = Settled

\* The lock is always given back, and no call waits for ever while nobody
\* returns: the emulation blocks only while the owner makes its stores.
LockComesFree == lock # NoThread ~> lock = NoThread
SomeCallReturns ==
  (\E t \in Thread : status[t] = "called") ~> (\E t \in Thread : status[t] \in {"true", "false"})
=============================================================================
