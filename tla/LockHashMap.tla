---------------------------- MODULE LockHashMap ----------------------------
(***************************************************************************)
(* lockbased/HashMap.h: TABLE_SIZE doubly linked buckets under hm_lock,    *)
(* every operation one critical section and so one step.  The sentinels of *)
(* bucket b are the nodes HeadOf(b) and TailOf(b), below the real ones.    *)
(***************************************************************************)
EXTENDS Integers, FiniteSets

CONSTANTS MaxNodes,   \* how many nodes can be allocated
          TableSize,  \* TABLE_SIZE
          Key,        \* the keys, some in the same bucket
          Value

VARIABLES mem,    \* [next, prev, key, value]: the fields of the nodes
          items,  \* history: items[k], the value the calls should have left, or Absent
          last    \* the answer of the last call, and the one it should have given

Node == 1 .. MaxNodes
Bucket == 0 .. TableSize - 1
HeadOf(b) == -2 * b - 1
TailOf(b) == -2 * b - 2
Sentinel == {HeadOf(b) : b \in Bucket} \cup {TailOf(b) : b \in Bucket}
nullptr == 0

\* What find returns for a key that is not there.
Absent == -1

Init ==
  /\ mem = [next |-> [n \in Sentinel \cup Node |-> IF \E b \in Bucket : n = HeadOf(b) THEN n - 1 ELSE nullptr],
            prev |-> [n \in Sentinel \cup Node |-> IF \E b \in Bucket : n = TailOf(b) THEN n + 1 ELSE nullptr],
            key |-> [n \in Node |-> 0], value |-> [n \in Node |-> 0]]
  /\ items = [k \in Key |-> Absent]
  /\ last = <<0, 0>>

Fresh == CHOOSE n \in Node : mem.key[n] = 0 /\ \A i \in Node : mem.key[i] = 0 => n <= i

\* std::hash<int> is the identity.
Index(k) == k % TableSize

\* Mutant: the walk stops at the first node.
Parent_First(k) == HeadOf(Index(k))

\* The walk of every operation, which stops before the node that holds k or
\* before the tail: parent.
Parent(k) ==
  LET step == [n \in Sentinel \cup Node |->
                 IF mem.next[n] = TailOf(Index(k)) \/ mem.key[mem.next[n]] = k THEN n ELSE mem.next[n]]
      Nth[i \in 0 .. MaxNodes] == IF i = 0 THEN HeadOf(Index(k)) ELSE step[Nth[i - 1]]
  IN  Nth[MaxNodes]

Found(k) == mem.next[Parent(k)]
IsThere(k) == Found(k) # TailOf(Index(k))

InsertOrAssign(k, v) ==
  LET p == Parent(k)  c == Found(k)  n == Fresh
  IN  /\ \/ /\ ~IsThere(k)
            /\ mem' = [mem EXCEPT !.key[n] = k, !.value[n] = v, !.next[n] = c, !.prev[n] = p,
                                  !.next[p] = n, !.prev[c] = n]
         \/ /\ IsThere(k)
            /\ mem' = [mem EXCEPT !.value[c] = v]
      /\ items' = [items EXCEPT ![k] = v]
      /\ last' = <<0, 0>>

Contains(k) ==
  /\ last' = <<IsThere(k), items[k] # Absent>>
  /\ UNCHANGED <<mem, items>>

Remove(k) ==
  LET c == Found(k)
  IN  /\ \/ ~IsThere(k) /\ UNCHANGED mem
         \/ /\ IsThere(k)
            /\ mem' = [mem EXCEPT !.prev[mem.next[c]] = mem.prev[c], !.next[mem.prev[c]] = mem.next[c]]
      /\ items' = [items EXCEPT ![k] = Absent]
      /\ last' = <<0, 0>>

Find(k) ==
  /\ last' = <<IF IsThere(k) THEN mem.value[Found(k)] ELSE -1, items[k]>>
  /\ UNCHANGED <<mem, items>>

\* The nodes that the links of bucket b lead to from its head, up to its tail.
Chain(b) ==
  LET step == [n \in Sentinel \cup Node |-> IF n = TailOf(b) THEN n ELSE mem.next[n]]
      Nth[i \in 0 .. MaxNodes + 1] == IF i = 0 THEN HeadOf(b) ELSE step[Nth[i - 1]]
  IN  {Nth[i] : i \in 0 .. MaxNodes + 1}

\* The links lead from the head of every bucket to its tail, those back mirror
\* those forth, the bucket holds every key the calls left in it once, with its
\* last value, and no other, and contains and find have answered with it.
MapIsRight ==
  /\ \A b \in Bucket :
       LET between == Chain(b) \ {HeadOf(b), TailOf(b)}
       IN  /\ TailOf(b) \in Chain(b)
           /\ \A n \in Chain(b) \ {TailOf(b)} : mem.prev[mem.next[n]] = n
           /\ \A n \in between : Index(mem.key[n]) = b /\ items[mem.key[n]] = mem.value[n]
           /\ \A m, n \in between : mem.key[m] = mem.key[n] => m = n
           /\ \A k \in Key : Index(k) = b /\ items[k] # Absent => \E n \in between : mem.key[n] = k
  /\ last[1] = last[2]
=============================================================================
