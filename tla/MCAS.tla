-------------------------------- MODULE MCAS --------------------------------
(***************************************************************************)
(* The multi-word compare-and-swap of mcas/mcas.h, as the operators a      *)
(* structure built on it uses: cas, dcas, tcas and qcas are one operation  *)
(* on a list of one to four words.  The module has no Next of its own; it  *)
(* is instantiated by MCASCalls (threads that call it and nothing else)    *)
(* and by every structure of lockfree-mcas.                                *)
(*                                                                         *)
(* The header has two builds, and Gem5 says which one is modelled:         *)
(*   Gem5 = TRUE    one instruction of the simulated processor compares    *)
(*                  and stores all the words: a single atomic step;        *)
(*   Gem5 = FALSE   global_cas_lock is taken, the words are compared, and  *)
(*                  then stored ONE AFTER THE OTHER before the lock is     *)
(*                  released.  The lock orders the MCAS operations among   *)
(*                  themselves, but the structures read their words        *)
(*                  without it: a reader can run between two stores.       *)
(*                                                                         *)
(* Grain.  Only MCAS operations store to shared words, and they do it with *)
(* the lock held, so taking the lock and comparing commute with every step *)
(* of the other threads: they are one step with the first store, and the   *)
(* release is one step with the last one.  The stores in between are steps *)
(* of their own.                                                           *)
(***************************************************************************)
EXTENDS Naturals, Sequences

CONSTANTS Thread,    \* the threads that call the operation
          NoThread,  \* the owner of a free global_cas_lock
          Addr,      \* the shared words
          Val,       \* what a word can hold
          Gem5       \* the build: see above

ASSUME MCASAssumption == NoThread \notin Thread /\ Gem5 \in BOOLEAN

VARIABLES mem,   \* the shared words: mem[a] is what a plain load of a returns
          lock,  \* the owner of global_cas_lock
          todo   \* the words its owner has still to store

\* The step neither stores to a shared word nor takes the lock.
NoStore == UNCHANGED <<mem, lock, todo>>

\* One word of the call: an address, the value expected there, the new one.
Word(a, o, n) == [addr |-> a, old |-> o, new |-> n]

Words == [addr : Addr, old : Val, new : Val]

\* The calls the callers make: all their addresses differ.
Distinct(w) == \A i, j \in DOMAIN w : w[i].addr = w[j].addr => i = j

InitMCAS == lock = NoThread /\ todo = <<>>

\* The condition of the if.
Matches(w) == \A i \in DOMAIN w : mem[w[i].addr] = w[i].old

\* The memory m once every store of w has been made.
Stored(m, w) ==
  [a \in DOMAIN m |->
     IF \E i \in DOMAIN w : w[i].addr = a
       THEN w[CHOOSE i \in DOMAIN w : w[i].addr = a].new
       ELSE m[a]]

\* The memory the threads see once the operation that holds the lock is over.
Settled == Stored(mem, todo)

\* Mutant: the address is stored in place of the new value.
StoreFirst_WrongArgument(t, w) ==
  /\ mem'  = [mem EXCEPT ![Head(w).addr] = Head(w).addr]
  /\ todo' = Tail(w)
  /\ lock' = IF Len(w) = 1 THEN NoThread ELSE t

\* Mutant: the lock is released with the first store.
StoreFirst_ReleasedEarly(t, w) ==
  /\ mem'  = [mem EXCEPT ![Head(w).addr] = Head(w).new]
  /\ todo' = Tail(w)
  /\ lock' = NoThread

\* Store the first word of w; the lock is kept while more words are to come.
StoreFirst(t, w) ==
  /\ mem'  = [mem EXCEPT ![Head(w).addr] = Head(w).new]
  /\ todo' = Tail(w)
  /\ lock' = IF Len(w) = 1 THEN NoThread ELSE t

\* Mutant: the instruction misses the last word.
StoreAll_LastWordMissed(w) ==
  /\ mem' = Stored(mem, SubSeq(w, 1, Len(w) - 1))
  /\ UNCHANGED <<lock, todo>>

\* The instruction of the simulated processor stores all the words at once.
StoreAll(w) ==
  /\ mem' = Stored(mem, w)
  /\ UNCHANGED <<lock, todo>>

\* The stores a successful call begins with.
Store(t, w) == IF Gem5 THEN StoreAll(w) ELSE StoreFirst(t, w)

\* Mutant: the last word is not compared (an && term forgotten in the if).
Succeed_LastWordIgnored(t, w) ==
  /\ lock = NoThread
  /\ \A i \in DOMAIN w : i < Len(w) => mem[w[i].addr] = w[i].old
  /\ Store(t, w)

\* Mutant: global_cas_lock is not taken.
Succeed_Unlocked(t, w) == Matches(w) /\ Store(t, w)

\* The call finds every word as expected.  Gem5: it is over, the words are
\* stored; otherwise its first store is made.
Succeed(t, w) ==
  /\ lock = NoThread
  /\ Matches(w)
  /\ Store(t, w)

\* The call finds a word changed: it stores nothing and returns false.
Fail(t, w) ==
  /\ lock = NoThread
  /\ ~Matches(w)
  /\ NoStore

\* Mutant: the index of the word to store does not advance.
StoreNext_NoAdvance(t) ==
  /\ lock = t
  /\ mem' = [mem EXCEPT ![Head(todo).addr] = Head(todo).new]
  /\ UNCHANGED <<lock, todo>>

\* The owner of the lock makes its next store.
StoreNext(t) ==
  /\ lock = t
  /\ StoreFirst(t, todo)

\* The step ends a successful call of t: no store is left to make.
Returns(t) == lock' = NoThread

\* The part of the type invariant that concerns the primitive.
MCASTypeOK ==
  /\ mem \in [Addr -> Val]
  /\ lock \in Thread \cup {NoThread}
  /\ todo \in Seq(Words)

\* The lock is held exactly while stores are pending, and they are to
\* different words.
LockDiscipline ==
  /\ lock = NoThread <=> todo = <<>>
  /\ Distinct(todo)
=============================================================================
