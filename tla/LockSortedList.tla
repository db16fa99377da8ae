--------------------------- MODULE LockSortedList ---------------------------
(***************************************************************************)
(* lockbased/SortedList.h: a doubly linked list in the order of its data   *)
(* between two sentinels, every operation one critical section of          *)
(* list_lock and so one step.                                              *)
(***************************************************************************)
EXTENDS Naturals, FiniteSets

CONSTANTS MaxNodes,  \* how many nodes can be allocated
          Key,       \* the data of a node
          head, tail, Null

VARIABLES mem,    \* [next, prev, data]: the fields of the nodes
          items,  \* history: items[k], how often the calls should have left k
          last    \* the count the last call returned, and the one it should have

Node == 1 .. MaxNodes

Init ==
  /\ mem = [next |-> [n \in {head, tail} \cup Node |-> IF n = head THEN tail ELSE Null],
            prev |-> [n \in {head, tail} \cup Node |-> IF n = tail THEN head ELSE Null],
            data |-> [n \in Node |-> 0]]
  /\ items = [k \in Key |-> 0]
  /\ last = <<0, 0>>

\* new Node(): an address that has not been used.
Fresh == CHOOSE n \in Node : mem.data[n] = 0 /\ \A i \in Node : mem.data[i] = 0 => n <= i

\* Mutant: the walk takes a smaller node for its place.
Parent_TooFar(k) ==
  LET step == [n \in {head} \cup Node |->
                 IF mem.next[n] = tail \/ mem.data[mem.next[n]] > k THEN n ELSE mem.next[n]]
      Nth[i \in 0 .. MaxNodes] == IF i = 0 THEN head ELSE step[Nth[i - 1]]
  IN  Nth[MaxNodes]

\* The walk of insert and remove, which stops before the first node that is
\* not smaller than k: parent.
Parent(k) ==
  LET step == [n \in {head} \cup Node |->
                 IF mem.next[n] = tail \/ mem.data[mem.next[n]] >= k THEN n ELSE mem.next[n]]
      Nth[i \in 0 .. MaxNodes] == IF i = 0 THEN head ELSE step[Nth[i - 1]]
  IN  Nth[MaxNodes]

Insert(k) ==
  LET p == Parent(k)  c == mem.next[p]  n == Fresh
  IN  /\ mem' = [mem EXCEPT !.data[n] = k, !.next[n] = c, !.prev[n] = p, !.next[p] = n, !.prev[c] = n]
      /\ items' = [items EXCEPT ![k] = @ + 1]
      /\ last' = <<0, 0>>

\* remove: nothing if the node the walk stops at is the tail or holds other data.
Remove(k) ==
  LET c == mem.next[Parent(k)]
  IN  /\ \/ ~(c # tail /\ mem.data[c] = k) /\ UNCHANGED mem
         \/ /\ c # tail /\ mem.data[c] = k
            /\ mem' = [mem EXCEPT !.prev[mem.next[c]] = mem.prev[c], !.next[mem.prev[c]] = mem.next[c]]
      /\ items' = [items EXCEPT ![k] = IF @ = 0 THEN 0 ELSE @ - 1]
      /\ last' = <<0, 0>>

\* The nodes that the walk of count meets, up to the tail.
Chain ==
  LET step == [n \in {head, tail} \cup Node |-> IF n = tail THEN tail ELSE mem.next[n]]
      Nth[i \in 0 .. MaxNodes + 1] == IF i = 0 THEN head ELSE step[Nth[i - 1]]
  IN  {Nth[i] : i \in 0 .. MaxNodes + 1}
Matching(k) == {n \in Chain \ {head, tail} : mem.data[n] = k}

Count(k) ==
  /\ last' = <<Cardinality(Matching(k)), items[k]>>
  /\ UNCHANGED <<mem, items>>

\* The links lead from the head to the tail, those back mirror those forth, the
\* list holds what the calls put in and did not take out, in order, and a count
\* has counted it.
ListIsRight ==
  /\ tail \in Chain
  /\ \A n \in Chain \ {tail} : mem.prev[mem.next[n]] = n
  /\ \A n \in Chain \ {head, tail} : mem.next[n] # tail => mem.data[n] <= mem.data[mem.next[n]]
  /\ \A k \in Key : items[k] = Cardinality(Matching(k))
  /\ last[1] = last[2]
=============================================================================
