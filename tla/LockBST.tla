------------------------------- MODULE LockBST -------------------------------
(***************************************************************************)
(* lockbased/BinarySearchTree.h under bst_lock.  insert and remove are     *)
(* loops down the tree; one iteration is one step, and the call that holds *)
(* the lock (holder) keeps the others out from its first step to its last. *)
(***************************************************************************)
EXTENDS Integers, FiniteSets, FiniteSetsExt

CONSTANTS MaxNodes,     \* how many nodes can be allocated
          Key,          \* the values of the nodes
          SentinelMin, SentinelMax  \* INT_MIN, INT_MAX

VARIABLES mem,    \* [root, left, right, value]
          items,  \* history: items[k], how often k was inserted and not removed
          last,   \* the answer of the last call, and the one it should have given
          holder  \* the call that holds bst_lock: [op, value, curr, prev, type, node], or Free

Node == 1 .. MaxNodes
nullptr == 0
Free == <<>>

Init ==
  /\ mem = [root |-> nullptr, left |-> [n \in Node |-> nullptr], right |-> [n \in Node |-> nullptr],
            value |-> [n \in Node |-> 0]]
  /\ items = [k \in Key |-> 0]
  /\ last = <<0, 0>>
  /\ holder = Free

Fresh == CHOOSE n \in Node : mem.value[n] = 0 /\ \A i \in Node : mem.value[i] = 0 => n <= i

\* The child of n on one side, and the memory m with that child replaced.
Child(m, n, type) == IF type = "LEFT" THEN m.left[n] ELSE m.right[n]
WithChild(m, n, type, c) ==
  IF type = "LEFT" THEN [m EXCEPT !.left[n] = c] ELSE [m EXCEPT !.right[n] = c]

\* Mutant: equal values go to the left.
Branch_EqualLeft(m, n, v) == IF v <= m.value[n] THEN "LEFT" ELSE "RIGHT"

\* The side of n on which the walk for v goes on.
Branch(m, n, v) == IF v < m.value[n] THEN "LEFT" ELSE "RIGHT"

\* The nodes that can be reached from n.
Below(n) ==
  LET step == [S \in SUBSET Node |->
                 (S \cup {mem.left[m] : m \in S} \cup {mem.right[m] : m \in S}) \ {nullptr}]
      Nth[i \in 0 .. MaxNodes] == IF i = 0 THEN {n} \ {nullptr} ELSE step[Nth[i - 1]]
  IN  Nth[MaxNodes]
Holds(k) == Cardinality({n \in Below(mem.root) : mem.value[n] = k})

\* insert begins: the first node becomes the root at once.
Insert(k) ==
  LET n == Fresh
  IN  /\ holder = Free
      /\ \/ /\ mem.root = nullptr
            /\ mem' = [mem EXCEPT !.value[n] = k, !.root = n]
            /\ UNCHANGED holder
         \/ /\ mem.root # nullptr
            /\ mem' = [mem EXCEPT !.value[n] = k]
            /\ holder' = [op |-> "insert", value |-> k, curr |-> mem.root, prev |-> nullptr, type |-> "LEFT", node |-> n]
      /\ items' = [items EXCEPT ![k] = @ + 1]
      /\ last' = <<0, 0>>

\* One iteration of the loop of insert: the child link is assigned on the way
\* down, whether a child is there or not.
InsertLoop ==
  LET c == holder.curr
      type == Branch(mem, c, holder.value)
      child == Child(mem, c, type)
  IN  /\ holder # Free /\ holder.op = "insert"
      /\ mem' = WithChild(mem, c, type, holder.node)
      /\ holder' = IF child = nullptr THEN Free ELSE [holder EXCEPT !.prev = c, !.curr = child, !.type = type]
      /\ UNCHANGED <<items, last>>

Remove(k) ==
  /\ holder = Free
  /\ holder' = IF mem.root = nullptr THEN Free
               ELSE [op |-> "remove", value |-> k, curr |-> mem.root, prev |-> nullptr, type |-> "LEFT", node |-> nullptr]
  /\ items' = [items EXCEPT ![k] = IF @ = 0 THEN 0 ELSE @ - 1]
  /\ last' = <<0, 0>>
  /\ UNCHANGED mem

\* The walk of remove goes on below curr, in the memory m.
Descend(m) ==
  LET c == holder.curr
      type == Branch(m, c, holder.value)
  IN  holder' = IF Child(m, c, type) = nullptr THEN Free
                ELSE [holder EXCEPT !.prev = c, !.curr = Child(m, c, type), !.type = type]

Removing == holder # Free /\ holder.op = "remove"
Matches == mem.value[holder.curr] = holder.value
TwoChildren(n) == mem.left[n] # nullptr /\ mem.right[n] # nullptr

Pass ==
  /\ Removing /\ ~Matches
  /\ Descend(mem)
  /\ UNCHANGED <<mem, items, last>>

\* A node with at most one child is replaced by it; the walk goes on from the
\* node that was taken out.
Unlink ==
  LET c == holder.curr
      only == IF mem.left[c] # nullptr THEN mem.left[c] ELSE mem.right[c]
      m == IF c = mem.root \/ holder.prev = nullptr THEN [mem EXCEPT !.root = only]
           ELSE WithChild(mem, holder.prev, holder.type, only)
  IN  /\ Removing /\ Matches /\ ~TwoChildren(c)
      /\ mem' = m
      /\ Descend(m)
      /\ UNCHANGED <<items, last>>

\* The values get_min_UNSAFE and get_max_UNSAFE compare: along one side, and
\* along the other where that one ends.
Path(n, first, second) ==
  LET step == [m \in Node |-> IF first[m] # nullptr THEN first[m] ELSE IF second[m] # nullptr THEN second[m] ELSE m]
      Nth[i \in 0 .. MaxNodes] == IF i = 0 THEN n ELSE step[Nth[i - 1]]
  IN  {mem.value[Nth[i]] : i \in 0 .. MaxNodes}
MinPath(n) == Path(n, mem.left, mem.right)
MaxPath(n) == Path(n, mem.right, mem.left)

\* A node with two children takes the least value on its right, which is
\* removed there.
ReplaceValue ==
  LET c == holder.curr  v == Min(MinPath(mem.right[c]))
  IN  /\ Removing /\ Matches /\ TwoChildren(c)
      /\ mem' = [mem EXCEPT !.value[c] = v]
      /\ holder' = [holder EXCEPT !.value = v, !.prev = c, !.curr = mem.right[c], !.type = "RIGHT"]
      /\ UNCHANGED <<items, last>>

\* The least and the greatest value of the tree.
Least == Min({mem.value[n] : n \in Below(mem.root)} \cup {SentinelMax})
Greatest == Max({mem.value[n] : n \in Below(mem.root)} \cup {SentinelMin})

GetMin ==
  /\ holder = Free
  /\ last' = <<IF mem.root = nullptr THEN SentinelMax ELSE Min(MinPath(mem.root)), Least>>
  /\ UNCHANGED <<mem, items, holder>>

GetMax ==
  /\ holder = Free
  /\ last' = <<IF mem.root = nullptr THEN SentinelMin ELSE Max(MaxPath(mem.root)), Greatest>>
  /\ UNCHANGED <<mem, items, holder>>

\* The steps of the call that holds the lock.
Continue == InsertLoop \/ Pass \/ Unlink \/ ReplaceValue

\* Between the calls the tree is a search tree, a value is in it no more often
\* than it was inserted and not removed, and get_min and get_max find its ends.
TreeIsRight ==
  holder = Free =>
    /\ \A n \in Below(mem.root) :
         /\ \A l \in Below(mem.left[n]) : mem.value[l] < mem.value[n]
         /\ \A r \in Below(mem.right[n]) : mem.value[r] >= mem.value[n]
    /\ \A k \in Key : Holds(k) <= items[k]
    /\ last[1] = last[2]
=============================================================================
