-------------------------- MODULE SplitOrderedMap --------------------------
(***************************************************************************)
(* lockfree/HashMap.h: sorted singly linked lists of bit-reversed keys.    *)
(* The mark in the next word of a node says that the node it points to is  *)
(* deleted.  Every one of the buckets is filled by the constructor, and    *)
(* bucketSize stays 2 because setSize is never stored: the two lists of    *)
(* keys with an even and an odd hash are used, and no sentinel is spliced  *)
(* in.  add makes a new node for a key that is there already.              *)
(***************************************************************************)
EXTENDS Integers, Frames

CONSTANTS MaxNodes,  \* how many nodes can be linked
          Key,       \* what is inserted
          WordSize   \* WORD_SIZE, the bits of a key

VARIABLE mem  \* ptr, mark: the next word of the nodes; key; made: the nodes linked; crashed

Null == -1
HeadOf(b) == b
TailOf(b) == b + 2
Node == 0 .. MaxNodes + 3

\* hashcode: std::hash<int> is the identity.
Hash(x) == x % 2 ^ WordSize

\* reverse: bit i goes to WordSize - 1 - i.
Reverse(key) ==
  LET From[i \in 0 .. WordSize] ==
        IF i = WordSize THEN 0 ELSE ((key \div 2 ^ i) % 2) * 2 ^ (WordSize - 1 - i) + From[i + 1]
  IN  From[0]

\* makeRegularKey: the highest bit is set before the bits are reversed.
RegularKey(x) == Reverse((Hash(x) % 2 ^ (WordSize - 1)) + 2 ^ (WordSize - 1))

Bucket(x) == Hash(x) % 2

Init ==
  mem = [ptr |-> [n \in Node |-> IF n \in {HeadOf(0), HeadOf(1)} THEN n + 2 ELSE Null],
         mark |-> [n \in Node |-> FALSE],
         key |-> [n \in Node |-> IF n \in {TailOf(0), TailOf(1)} THEN 2 ^ WordSize ELSE 0],
         made |-> 0, crashed |-> FALSE]

KeyOf(t) == RegularKey(call[t][3])

Call(t, name, x) ==
  /\ call' = [call EXCEPT ![t] = <<name, "", x>>]
  /\ loc' = [loc EXCEPT ![t] = [pc |-> "next", pred |-> HeadOf(Bucket(x))]]
  /\ UNCHANGED mem

Crash == mem' = [mem EXCEPT !.crashed = TRUE] /\ UNCHANGED loc

\* Mutant: find walks past the nodes with the key itself.
Found_Past(t) ==
  LET c == loc[t].curr
  IN  IF mem.key[c] <= KeyOf(t) THEN Go(t, [pc |-> "next", pred |-> c])
      ELSE CASE call[t][1] = "insert" -> Go(t, [pc |-> "splice"])
             [] call[t][1] = "remove" -> Returns(t, FALSE)
             [] call[t][1] = "contains" -> Returns(t, FALSE)

\* find goes on past a smaller key; at the window the operations go their ways.
Found(t) ==
  LET c == loc[t].curr
  IN  IF mem.key[c] < KeyOf(t) THEN Go(t, [pc |-> "next", pred |-> c])
      ELSE CASE call[t][1] = "insert" -> Go(t, [pc |-> "splice"])
             [] call[t][1] = "remove" /\ mem.key[c] = KeyOf(t) -> Go(t, [pc |-> "snip"])
             [] call[t][1] = "remove" /\ mem.key[c] # KeyOf(t) -> Returns(t, FALSE)
             [] call[t][1] = "contains" -> Returns(t, mem.key[c] = KeyOf(t))

\* getnext of pred: the loads of its next word, and the two loads and two plain
\* stores that skip a deleted successor.
GetNext(t) ==
  LET p == loc[t].pred  c == loc[t].curr
  IN  \/ /\ UNCHANGED mem
         /\ \/ At(t, "next") /\ Go(t, [pc |-> "next_mark", curr |-> mem.ptr[p]])
            \/ At(t, "next_mark") /\ mem.mark[p] /\ c # Null /\ Go(t, [pc |-> "succ"])
            \/ At(t, "next_mark") /\ ~mem.mark[p] /\ c # Null /\ Found(t)
            \/ At(t, "succ") /\ Go(t, [pc |-> "succ_mark", succ |-> mem.ptr[c]])
            \/ At(t, "succ_mark") /\ Go(t, [pc |-> "skip", mark |-> mem.mark[c]])
      \/ At(t, "next_mark") /\ c = Null /\ Crash
      \/ /\ At(t, "skip")
         /\ mem' = [mem EXCEPT !.ptr[p] = loc[t].succ]
         /\ Go(t, [pc |-> "skip_mark"])
      \/ /\ At(t, "skip_mark")
         /\ mem' = [mem EXCEPT !.mark[p] = loc[t].mark]
         /\ Go(t, [pc |-> "next"])

\* The compare-and-swap of the next word of pred, from curr unmarked.
Cas(t, m) ==
  IF mem.ptr[loc[t].pred] = loc[t].curr /\ ~mem.mark[loc[t].pred]
  THEN mem' = m /\ Returns(t, TRUE)
  ELSE /\ UNCHANGED mem
       /\ Go(t, [pc |-> "next", pred |-> HeadOf(Bucket(call[t][3]))])

\* add: the new node is spliced in before curr.
Splice(t) ==
  LET n == mem.made + 4
  IN  /\ At(t, "splice")
      /\ Cas(t, [mem EXCEPT !.made = @ + 1, !.key[n] = KeyOf(t), !.ptr[n] = loc[t].curr, !.ptr[loc[t].pred] = n])

\* remove: the word is marked.
Snip(t) ==
  /\ At(t, "snip")
  /\ Cas(t, [mem EXCEPT !.mark[loc[t].pred] = TRUE])

Step(t) == ~mem.crashed /\ (GetNext(t) \/ Splice(t) \/ Snip(t))

\* However stores and swaps interleave, a next word leads to a greater key, or
\* to an older node with the same one: no walk turns back or goes round, and no
\* two keys are confused.
LinksLeadOn ==
  /\ \A n \in Node : mem.ptr[n] # Null =>
       \/ mem.key[n] < mem.key[mem.ptr[n]]
       \/ mem.key[n] = mem.key[mem.ptr[n]] /\ n > mem.ptr[n]
  /\ \A x, y \in Key : RegularKey(x) = RegularKey(y) => x = y
=============================================================================
