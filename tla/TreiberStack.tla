---------------------------- MODULE TreiberStack ----------------------------
(***************************************************************************)
(* lockfree/Stack.h: Treiber's stack on shared pointers.  A node lives as  *)
(* long as a worker holds a pointer to it, so an address is not seen       *)
(* again.  A node stands for the data it holds.                            *)
(***************************************************************************)
EXTENDS Naturals, Sequences, Frames

CONSTANTS MaxNodes, Prefill, Void, Empty

VARIABLE mem  \* [head, next, made]: made nodes have been allocated

Null == 0

Init ==
  \E k \in Prefill :
    mem = [head |-> IF k = 0 THEN Null ELSE 1, made |-> k,
           next |-> [n \in 1 .. MaxNodes |-> IF n < k THEN n + 1 ELSE Null]]

Items ==
  LET From[n \in 0 .. MaxNodes] == IF n = Null THEN <<>> ELSE <<n>> \o From[mem.next[n]]
  IN  From[mem.head]

CallPush(t) ==
  /\ Enter(t, <<"push", "L", mem.made + 1>>, "push")
  /\ mem' = [mem EXCEPT !.made = @ + 1]
CallPop(t) ==
  /\ Enter(t, <<"pop", "L", 1>>, "pop")
  /\ UNCHANGED mem

\* push: a failed exchange has stored the head in new_node->next.
Push(t) ==
  LET n == call[t][3]
  IN  \/ /\ At(t, "push")
         /\ mem' = [mem EXCEPT !.next[n] = mem.head]
         /\ Go(t, [pc |-> "link"])
      \/ /\ At(t, "link") /\ mem.head = mem.next[n]
         /\ mem' = [mem EXCEPT !.head = n]
         /\ Returns(t, Void)
      \/ /\ At(t, "link") /\ mem.head # mem.next[n]
         /\ mem' = [mem EXCEPT !.next[n] = mem.head]
         /\ UNCHANGED loc

\* pop: old_head is the head, from the load or from a failed exchange.
HaveHead(t) ==
  IF mem.head = Null THEN Returns(t, Empty) ELSE Go(t, [pc |-> "next", first |-> mem.head])

\* Mutant: the next node is not loaded again when the exchange has failed.
Exchange_StaleNext(t) ==
  /\ At(t, "take")
  /\ \/ /\ mem.head = loc[t].first
        /\ mem' = [mem EXCEPT !.head = loc[t].next]
        /\ Go(t, [pc |-> "clear", value |-> loc[t].first])
     \/ /\ mem.head # loc[t].first
        /\ IF mem.head = Null THEN Returns(t, Empty) ELSE Go(t, [first |-> mem.head])
        /\ UNCHANGED mem

\* Mutant: the head is not loaded again when the exchange has failed.
Exchange_StaleHead(t) ==
  /\ At(t, "take")
  /\ \/ /\ mem.head = loc[t].first
        /\ mem' = [mem EXCEPT !.head = loc[t].next]
        /\ Go(t, [pc |-> "clear", value |-> loc[t].first])
     \/ /\ mem.head # loc[t].first
        /\ Go(t, [pc |-> "next"])
        /\ UNCHANGED mem

\* pop: the exchange of the head.
Exchange(t) ==
  /\ At(t, "take")
  /\ \/ /\ mem.head = loc[t].first
        /\ mem' = [mem EXCEPT !.head = loc[t].next]
        /\ Go(t, [pc |-> "clear", value |-> loc[t].first])
     \/ /\ mem.head # loc[t].first
        /\ HaveHead(t)
        /\ UNCHANGED mem

Pop(t) ==
  \/ At(t, "pop") /\ HaveHead(t) /\ UNCHANGED mem
  \/ At(t, "next") /\ Go(t, [pc |-> "take", next |-> mem.next[loc[t].first]]) /\ UNCHANGED mem
  \/ Exchange(t)
  \/ /\ At(t, "clear")
     /\ mem' = [mem EXCEPT !.next[loc[t].first] = Null]
     /\ Returns(t, loc[t].value)

Step(t) == Push(t) \/ Pop(t)
=============================================================================
