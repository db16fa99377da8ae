------------------------------ MODULE MSQueue ------------------------------
(***************************************************************************)
(* lockfree/Queue.h: the queue of Michael and Scott as a singly linked     *)
(* list behind a sentinel.  Nodes are never deleted, so an address is      *)
(* never seen twice.  A node stands for the data it holds; the sentinel    *)
(* holds -1.  A push takes effect when the tail is swung to its node, by   *)
(* whichever worker swings it.                                             *)
(***************************************************************************)
EXTENDS Naturals, Sequences, Frames

CONSTANTS MaxNodes,  \* how many nodes can be allocated
          Prefill,   \* how many elements the queue may hold at the start
          Void, Empty

VARIABLE mem  \* [head, tail, next, made]: made nodes have been allocated

Sentinel == 0
Null == MaxNodes + 1

Init ==
  \E k \in Prefill :
    mem = [head |-> Sentinel, tail |-> k, made |-> k,
           next |-> [n \in 0 .. MaxNodes |-> IF n < k THEN n + 1 ELSE Null]]

\* The elements: the nodes after the head up to the tail.
Items ==
  LET From[n \in 0 .. MaxNodes + 1] ==
        IF n \in {mem.tail, Null} THEN <<>> ELSE <<mem.next[n]>> \o From[mem.next[n]]
  IN  From[mem.head]

CallPush(t) ==
  /\ Enter(t, <<"push", "R", mem.made + 1>>, "push")
  /\ mem' = [mem EXCEPT !.made = @ + 1]
CallPop(t) ==
  /\ Enter(t, <<"pop", "L", 1>>, "pop")
  /\ UNCHANGED mem

\* Mutant: the push does not check that its node is the last one.
Link_Unchecked(t) ==
  /\ At(t, "link")
  /\ mem' = [mem EXCEPT !.next[loc[t].last] = call[t][3]]
  /\ Go(t, [pc |-> "swing"])

\* push: the compare-and-exchange of last->next.
Link(t) ==
  /\ At(t, "link")
  /\ \/ /\ mem.next[loc[t].last] = Null
        /\ mem' = [mem EXCEPT !.next[loc[t].last] = call[t][3]]
        /\ Go(t, [pc |-> "swing"])
     \/ /\ mem.next[loc[t].last] # Null
        /\ Go(t, [pc |-> "push"])
        /\ UNCHANGED mem

\* The compare-and-exchanges of the tail, whose results are ignored.
SwingTail(t, new) ==
  mem' = [mem EXCEPT !.tail = IF @ = loc[t].last THEN new ELSE @]

Push(t) ==
  \/ /\ At(t, "push")
     /\ Go(t, [pc |-> "push_next", last |-> mem.tail])
     /\ UNCHANGED mem
  \/ /\ At(t, "push_next")
     /\ Go(t, [pc |-> "push_check", next |-> mem.next[loc[t].last]])
     /\ UNCHANGED mem
  \/ /\ At(t, "push_check")
     /\ Go(t, [pc |-> IF loc[t].last # mem.tail THEN "push"
                      ELSE IF loc[t].next = Null THEN "link" ELSE "push_help"])
     /\ UNCHANGED mem
  \/ Link(t)
  \/ /\ At(t, "push_help")
     /\ SwingTail(t, loc[t].next)
     /\ Go(t, [pc |-> "push"])
  \/ /\ At(t, "swing")
     /\ SwingTail(t, call[t][3])
     /\ Returns(t, Void)

\* pop: the loads and the test of the head.  saw: the queue was empty when the
\* tail was loaded.
Look(t) ==
  /\ \/ At(t, "pop") /\ Go(t, [pc |-> "pop_tail", first |-> mem.head])
     \/ At(t, "pop_tail") /\ Go(t, [pc |-> "pop_next", last |-> mem.tail, saw |-> Items = <<>>])
     \/ At(t, "pop_next") /\ Go(t, [pc |-> "pop_check", next |-> mem.next[loc[t].first]])
     \/ At(t, "pop_check") /\
          IF loc[t].first = mem.head /\ loc[t].first = loc[t].last /\ loc[t].next = Null
          THEN Returns(t, Empty)
          ELSE Go(t, [pc |-> IF loc[t].first # mem.head THEN "pop"
                             ELSE IF loc[t].first = loc[t].last THEN "pop_value" ELSE "take"])
  /\ UNCHANGED mem

\* pop: behind the sentinel the queue is empty, otherwise its tail is one behind.
Help(t) ==
  \/ /\ At(t, "pop_value")
     /\ IF mem.head = Sentinel THEN Returns(t, Empty) ELSE Go(t, [pc |-> "pop_help"])
     /\ UNCHANGED mem
  \/ /\ At(t, "pop_help")
     /\ SwingTail(t, loc[t].next)
     /\ Go(t, [pc |-> "pop"])

\* pop: the compare-and-exchange of the head.
Take(t) ==
  /\ At(t, "take")
  /\ \/ /\ mem.head = loc[t].first
        /\ mem' = [mem EXCEPT !.head = loc[t].next]
        /\ Returns(t, loc[t].next)
     \/ /\ mem.head # loc[t].first
        /\ Go(t, [pc |-> "pop"])
        /\ UNCHANGED mem

Step(t) == Push(t) \/ Look(t) \/ Help(t) \/ Take(t)

\* The result of a call: a push takes effect before it returns if another
\* worker swings the tail.
ResultOf(t, pending) ==
  IF At(t, "swing") /\ mem.next[mem.tail] # call[t][3] THEN Void ELSE Result(t, pending)
=============================================================================
