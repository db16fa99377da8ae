-------------------------- MODULE DoublyLinkedList --------------------------
(***************************************************************************)
(* lockfree/DoublyLinkedList.h under lockfree/SortedList.h.  The word      *)
(* after of a node is a pointer with a mark, changed by one               *)
(* compare-and-swap; a marked node is deleted.  A copy of the word is two  *)
(* loads, the pointer and then the mark; they are two steps in fixforward  *)
(* and fixforwarduntil, where both are used and may belong to different    *)
(* moments.  Nodes are never freed.  before is a hint, stored plainly.     *)
(***************************************************************************)
EXTENDS Integers, FiniteSets, Frames

CONSTANTS MaxNodes,  \* how many nodes can be allocated
          Key, SentinelMin, SentinelMax,  \* the keys, between those of the dummies
          Prefill    \* how many nodes the list may hold at the start

VARIABLE mem  \* ptr, mark, before, value: the fields; made: the nodes allocated;
              \* linked: those that have been inserted; torn: a pointer and a
              \* mark of different moments were used; crashed

Head == 0
Tail == 1
Null == -1
Node == Head .. MaxNodes + 1

\* initialise, and nodes inserted in the order of their keys.
Init ==
  \E k \in Prefill :
    mem = [ptr |-> [n \in Node |-> IF n = Head THEN (IF k = 0 THEN Tail ELSE 2)
                                   ELSE IF n \in 2 .. k THEN n + 1
                                   ELSE IF n = k + 1 /\ k > 0 THEN Tail ELSE Null],
           before |-> [n \in Node |-> IF n = 2 /\ k > 0 THEN Head ELSE IF n \in 3 .. k + 1 THEN n - 1
                                      ELSE IF n # Tail THEN Null ELSE IF k = 0 THEN Head ELSE k + 1],
           mark |-> [n \in Node |-> FALSE],
           value |-> [n \in Node |-> IF n = Head THEN SentinelMin ELSE IF n = Tail THEN SentinelMax
                                     ELSE IF n \in 2 .. k + 1 THEN 2 * (n - 1) ELSE 0],
           made |-> k, linked |-> 2 .. k + 1, torn |-> FALSE, crashed |-> FALSE]

Name(t) == call[t][1]
KeyOf(t) == call[t][3]

\* insert makes its node before it walks.
Call(t, name, k) ==
  /\ call' = [call EXCEPT ![t] = <<name, "", k>>]
  /\ loc' = [loc EXCEPT ![t] = [pc |-> "walk", at |-> Head, node |-> mem.made + 2]]
  /\ mem' = IF name = "insert" THEN [mem EXCEPT !.made = @ + 1, !.value[mem.made + 2] = k] ELSE mem

\* A member of the null pointer is used.
Crash == mem' = [mem EXCEPT !.crashed = TRUE] /\ UNCHANGED loc

\* add, deleten and count walk to the first node that is not smaller, count to
\* the first that is greater.
Walk(t) ==
  LET c == mem.ptr[loc[t].at]
  IN  /\ At(t, "walk")
      /\ \/ c = Null /\ Crash
         \/ /\ c # Null /\ UNCHANGED mem
            /\ IF mem.value[c] < KeyOf(t) \/ (Name(t) = "count" /\ mem.value[c] = KeyOf(t))
               THEN Go(t, [at |-> c])
               ELSE CASE Name(t) = "insert" -> Go(t, [pc |-> "after"])
                      [] Name(t) = "remove" -> Go(t, [pc |-> "delete", ref |-> c])
                      [] Name(t) = "count" -> Returns(t, TRUE)

\* insertafter and insertBetween: unless the predecessor is marked, fixforward
\* finds the successor, and the node is linked between the two.
Insert(t) ==
  LET n == loc[t].node  p == loc[t].at
  IN  \/ /\ At(t, "after") /\ UNCHANGED mem
         /\ IF mem.mark[p] THEN Returns(t, FALSE) ELSE Go(t, [pc |-> "fix", this |-> p, then |-> "between"])
      \/ /\ At(t, "between")
         /\ IF mem.ptr[p] = loc[t].later /\ ~mem.mark[p]
            THEN /\ mem' = [mem EXCEPT !.ptr[p] = n, !.ptr[n] = loc[t].later, !.before[n] = p, !.linked = @ \cup {n}]
                 /\ Go(t, [pc |-> "reflect", this |-> n, then |-> "inserted"])
            ELSE /\ Go(t, [pc |-> "after"])
                 /\ UNCHANGED mem
      \/ At(t, "inserted") /\ Returns(t, TRUE) /\ UNCHANGED mem

\* Mutant: the successor is stored without a comparison.
Bypass_Blind(t) ==
  /\ At(t, "fix_cas")
  /\ Go(t, [pc |-> "fix_ptr", later |-> loc[t].next])
  /\ mem' = [mem EXCEPT !.ptr[loc[t].this] = loc[t].next,
                        !.torn = @ \/ loc[t].next # mem.ptr[loc[t].later]]

\* fixforward: the compare-and-swap past a marked successor, whose result is
\* ignored.
Bypass(t) ==
  /\ At(t, "fix_cas")
  /\ Go(t, [pc |-> "fix_ptr", later |-> loc[t].next])
  /\ mem' = IF mem.ptr[loc[t].this] = loc[t].later /\ ~mem.mark[loc[t].this]
            THEN [mem EXCEPT !.ptr[loc[t].this] = loc[t].next,
                             !.torn = @ \/ loc[t].next # mem.ptr[loc[t].later]]
            ELSE mem

\* fixforward(this): it ends at the first unmarked successor, by reflectforward.
FixForward(t) ==
  LET l == loc[t].later
  IN  \/ At(t, "fix") /\ Go(t, [pc |-> "fix_ptr", later |-> mem.ptr[loc[t].this]]) /\ UNCHANGED mem
      \/ At(t, "fix_ptr") /\ l = Null /\ Crash
      \/ At(t, "fix_ptr") /\ l # Null /\ Go(t, [pc |-> "fix_mark", next |-> mem.ptr[l]]) /\ UNCHANGED mem
      \/ /\ At(t, "fix_mark") /\ UNCHANGED mem
         /\ Go(t, [pc |-> IF mem.mark[l] THEN "fix_cas" ELSE "reflect"])
      \/ Bypass(t)

\* reflectforward(this): the dummy at the tail is told its predecessor.
ReflectForward(t) ==
  LET a == loc[t].next  this == loc[t].this
  IN  \/ /\ At(t, "reflect") /\ UNCHANGED mem
         /\ Go(t, [pc |-> IF mem.mark[this] THEN loc[t].then ELSE "reflect_before", next |-> mem.ptr[this]])
      \/ At(t, "reflect_before") /\ a = Null /\ Crash
      \/ /\ At(t, "reflect_before") /\ a # Null /\ UNCHANGED mem
         /\ Go(t, [pc |-> IF mem.before[a] = this THEN loc[t].then ELSE "reflect_after"])
      \/ /\ At(t, "reflect_after") /\ UNCHANGED mem
         /\ Go(t, [pc |-> IF mem.ptr[a] = Null /\ ~mem.mark[a] THEN "reflect_store" ELSE loc[t].then])
      \/ /\ At(t, "reflect_store")
         /\ mem' = [mem EXCEPT !.before[a] = this]
         /\ Go(t, [pc |-> loc[t].then])

\* deleteNode: one attempt to mark the node, whatever comes of it, then getBack.
Delete(t) ==
  LET r == loc[t].ref
  IN  \/ /\ At(t, "delete") /\ UNCHANGED mem
         /\ IF mem.mark[r] THEN Returns(t, FALSE) ELSE Go(t, [pc |-> "mark", next |-> mem.ptr[r]])
      \/ /\ At(t, "mark")
         /\ mem' = IF mem.ptr[r] = loc[t].next THEN [mem EXCEPT !.mark[r] = TRUE] ELSE mem
         /\ Go(t, [pc |-> "back", this |-> r])

\* getBack: to an unmarked node before the deleted one, from which
\* fixforwarduntil walks to it; then NULL has come back of that.
GetBack(t) ==
  LET b == loc[t].back
  IN  \/ At(t, "back") /\ Go(t, [pc |-> "back_after", back |-> mem.before[loc[t].this]]) /\ UNCHANGED mem
      \/ At(t, "back_after") /\ b = Null /\ Crash
      \/ /\ At(t, "back_after") /\ b # Null /\ UNCHANGED mem
         /\ IF mem.mark[b] THEN Go(t, [pc |-> "back", this |-> b])
            ELSE IF mem.ptr[b] = loc[t].ref THEN Returns(t, TRUE)
            ELSE Go(t, [pc |-> "until", work |-> b])
      \/ /\ At(t, "again") /\ UNCHANGED mem
         /\ IF mem.mark[b] THEN Go(t, [pc |-> "back", this |-> b]) ELSE Returns(t, TRUE)

\* fixforwarduntil(back, ref).
FixForwardUntil(t) ==
  LET w == loc[t].work  r == loc[t].ref  n == loc[t].next
  IN  \/ /\ UNCHANGED mem
         /\ \/ At(t, "until") /\ Go(t, [pc |-> IF mem.mark[loc[t].back] THEN "again" ELSE "until_ref"])
            \/ At(t, "until_ref") /\ Go(t, [pc |-> IF mem.ptr[r] # Null /\ mem.mark[r] THEN "again" ELSE "until_ptr"])
            \/ At(t, "until_ptr") /\ Go(t, [pc |-> IF mem.ptr[w] = Null THEN "again" ELSE "until_mark", next |-> mem.ptr[w]])
            \/ At(t, "until_mark") /\
                 Go(t, IF mem.mark[w] THEN [pc |-> "until_next"] ELSE [pc |-> "fix", this |-> w, then |-> "until_reload"])
            \/ At(t, "until_reload") /\ Go(t, [pc |-> "until_next", next |-> mem.ptr[w]])
            \/ At(t, "until_next") /\ n = r /\ Returns(t, TRUE)
            \/ At(t, "until_next") /\ n \notin {r, Null} /\
                 Go(t, IF mem.ptr[n] = Null /\ ~mem.mark[n] THEN [pc |-> "again"] ELSE [pc |-> "until", work |-> n])
      \/ At(t, "until_next") /\ n = Null /\ Crash

Step(t) ==
  /\ ~mem.crashed
  /\ Walk(t) \/ Insert(t) \/ FixForward(t) \/ ReflectForward(t) \/ Delete(t) \/ GetBack(t) \/ FixForwardUntil(t)

\* The nodes that can be reached from the head.
Reached ==
  LET Within[i \in 0 .. MaxNodes + 2] ==
        IF i = 0 THEN {Head} ELSE LET r == Within[i - 1] IN r \cup ({mem.ptr[n] : n \in r} \ {Null})
  IN  Within[MaxNodes + 2]

\* An inserted node stays in the list until it is marked, unless a worker has
\* used a torn word.
ListStaysWhole == ~mem.torn => \A n \in mem.linked : mem.mark[n] \/ n \in Reached
=============================================================================
