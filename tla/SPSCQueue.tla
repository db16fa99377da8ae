----------------------------- MODULE SPSCQueue -----------------------------
(***************************************************************************)
(* lockfree/SPSCQueue.h: the queue of one producer and one consumer.  The  *)
(* tail is an empty node whose data the next push fills in; pop deletes    *)
(* the node it has taken, after which its data reads as Garbage.           *)
(***************************************************************************)
EXTENDS Naturals, Sequences, Frames

CONSTANTS MaxNodes, Void, Empty

VARIABLE mem  \* [head, tail, next, data, made]: made nodes have been allocated

Null == 0
Garbage == 0

Init ==
  mem = [head |-> 1, tail |-> 1, made |-> 1,
         next |-> [n \in 1 .. MaxNodes + 1 |-> Null], data |-> [n \in 1 .. MaxNodes + 1 |-> Garbage]]

Items ==
  LET From[n \in 0 .. MaxNodes + 1] ==
        IF n \in {mem.tail, Null} THEN <<>> ELSE <<mem.data[n]>> \o From[mem.next[n]]
  IN  From[mem.head]

\* The element is new_data, p is the node allocated last.
CallPush(t) ==
  /\ Enter(t, <<"push", "R", mem.made>>, "push")
  /\ mem' = [mem EXCEPT !.made = @ + 1]
CallPop(t) ==
  /\ Enter(t, <<"pop", "L", 1>>, "pop")
  /\ UNCHANGED mem

\* Only the producer stores the tail, only the consumer the head.
Push(t) ==
  \/ /\ At(t, "push")
     /\ mem' = [mem EXCEPT !.data[mem.tail] = call[t][3]]
     /\ Go(t, [pc |-> "link"])
  \/ /\ At(t, "link")
     /\ mem' = [mem EXCEPT !.next[mem.tail] = mem.made]
     /\ Go(t, [pc |-> "publish"])
  \/ /\ At(t, "publish")
     /\ mem' = [mem EXCEPT !.tail = mem.made]
     /\ Returns(t, Void)

\* pop_head, and the data and the deletion of the node it returns.  The call
\* takes effect, with the data of that node, when the head is stored.
Pop(t) ==
  \/ /\ At(t, "pop")
     /\ IF mem.head = mem.tail THEN Returns(t, Empty) ELSE Go(t, [pc |-> "next", first |-> mem.head])
     /\ UNCHANGED mem
  \/ /\ At(t, "next")
     /\ mem' = [mem EXCEPT !.head = mem.next[loc[t].first]]
     /\ Go(t, [pc |-> "data", value |-> mem.data[loc[t].first]])
  \/ /\ At(t, "data")
     /\ Go(t, [pc |-> "delete", value |-> mem.data[loc[t].first]])
     /\ UNCHANGED mem
  \/ /\ At(t, "delete")
     /\ mem' = [mem EXCEPT !.data[loc[t].first] = Garbage, !.next[loc[t].first] = Null]
     /\ Returns(t, loc[t].value)

Step(t) == Push(t) \/ Pop(t)
=============================================================================
