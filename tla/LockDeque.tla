------------------------------ MODULE LockDeque ------------------------------
(***************************************************************************)
(* lockbased/Deque.h: a doubly linked list between two sentinels, every    *)
(* operation one critical section of deque_lock and so one step here.      *)
(* push_front and push_back differ in the direction of the links only, and *)
(* so do the pops: an operation takes its side.  A pop deletes its node    *)
(* and leaves the neighbour's link back to it as it is.  (The code deletes *)
(* after the unlock; nobody else may use the node from the unlock on, so   *)
(* here it is deleted with the pop.)  Using a deleted node is undefined    *)
(* behaviour, also once its address has been handed out again: here a node *)
(* is allocated once, and the process stops being described at the first   *)
(* use of a deleted one.                                                   *)
(***************************************************************************)
EXTENDS Integers, Sequences

CONSTANTS MaxNodes,  \* how many nodes can be allocated
          head, tail, Null

VARIABLES mem,       \* [link, data, freed]: the nodes' fields and the deleted nodes
          items,     \* history: what the calls should have left, from head to tail
          last,      \* the value the last call returned, and the one it should have
          undefined  \* a deleted node was used

Node == 1 .. MaxNodes
Link == ({head, tail} \cup Node) \X {"next", "prev"}

\* The end an operation works at, the links of its direction, the other end.
Sentinel(side) == IF side = "front" THEN head ELSE tail
Inward(side) == IF side = "front" THEN "next" ELSE "prev"
Outward(side) == IF side = "front" THEN "prev" ELSE "next"
Opposite(side) == IF side = "front" THEN tail ELSE head

Init ==
  /\ mem = [link |-> [a \in Link |-> CASE a = <<head, "next">> -> tail
                                       [] a = <<tail, "prev">> -> head
                                       [] OTHER -> Null],
            data |-> [n \in Node |-> 0], freed |-> {}]
  /\ items = <<>>
  /\ last = <<0, 0>>
  /\ undefined = FALSE

\* new Node(): an address that has not been used.
Fresh == CHOOSE n \in Node : mem.data[n] = 0 /\ \A i \in Node : mem.data[i] = 0 => n <= i

\* Mutant: the old end is not linked to the new node.
Push_OneLink(side, d) ==
  LET e == Sentinel(side)  o == mem.link[<<e, Inward(side)>>]  n == Fresh
  IN  /\ mem' = [mem EXCEPT !.data[n] = d, !.link[<<n, Inward(side)>>] = o, !.link[<<n, Outward(side)>>] = e,
                            !.link[<<e, Inward(side)>>] = n]
      /\ undefined' = (o \in mem.freed)
      /\ items' = IF side = "front" THEN <<d>> \o items ELSE Append(items, d)
      /\ last' = <<0, 0>>

\* push_front, push_back.
Push(side, d) ==
  LET e == Sentinel(side)  o == mem.link[<<e, Inward(side)>>]  n == Fresh
  IN  /\ mem' = [mem EXCEPT !.data[n] = d, !.link[<<n, Inward(side)>>] = o, !.link[<<n, Outward(side)>>] = e,
                            !.link[<<o, Outward(side)>>] = n, !.link[<<e, Inward(side)>>] = n]
      /\ undefined' = (o \in mem.freed)
      /\ items' = IF side = "front" THEN <<d>> \o items ELSE Append(items, d)
      /\ last' = <<0, 0>>

\* What a pop should return and leave.
Due(side) ==
  IF items = <<>> THEN -1 ELSE IF side = "front" THEN items[1] ELSE items[Len(items)]
Remaining(side) ==
  IF items = <<>> THEN <<>> ELSE IF side = "front" THEN Tail(items) ELSE SubSeq(items, 1, Len(items) - 1)

\* Mutant: the sentinel keeps its link to the node that is deleted.
Pop_KeepsLink(side) ==
  LET e == Sentinel(side)  n == mem.link[<<e, Inward(side)>>]
  IN  /\ \/ /\ n = Opposite(side)
            /\ last' = <<-1, Due(side)>>
            /\ UNCHANGED <<mem, undefined>>
         \/ /\ n # Opposite(side)
            /\ last' = <<mem.data[n], Due(side)>>
            /\ mem' = [mem EXCEPT !.freed = @ \cup {n}]
            /\ undefined' = (n \in mem.freed)
      /\ items' = Remaining(side)

\* pop_front, pop_back, which test the link of their own side for emptiness.
Pop(side) ==
  LET e == Sentinel(side)  n == mem.link[<<e, Inward(side)>>]
  IN  /\ \/ /\ n = Opposite(side)
            /\ last' = <<-1, Due(side)>>
            /\ UNCHANGED <<mem, undefined>>
         \/ /\ n # Opposite(side)
            /\ last' = <<mem.data[n], Due(side)>>
            /\ mem' = [mem EXCEPT !.link[<<e, Inward(side)>>] = mem.link[<<n, Inward(side)>>], !.freed = @ \cup {n}]
            /\ undefined' = (n \in mem.freed)
      /\ items' = Remaining(side)

\* A pop returns the element at its end, or -1 when there is none, as long as
\* no call has used a node that had been deleted.
PopsAreRight == ~undefined => last[1] = last[2]

\* The links never lead a call to a node that another one has deleted.
NoUseAfterFree == ~undefined
=============================================================================
