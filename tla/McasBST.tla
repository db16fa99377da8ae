------------------------------ MODULE McasBST ------------------------------
(***************************************************************************)
(* lockfree-mcas/BinarySearchTree.h: an internal search tree of links and  *)
(* values that are loaded plainly; a call takes effect with a cas of one   *)
(* link.  The second word of every dcas is curr, a local of the caller     *)
(* that holds what is expected, so each is a cas of the other word.  Nodes *)
(* are never freed.  A null prev, curr or root that is used as a node ends *)
(* the process.  root->left and root->right are each read in one step.     *)
(***************************************************************************)
EXTENDS Integers, Sequences, FiniteSets, Frames

CONSTANTS Thread, NoThread, Gem5,  \* see MCAS
          MaxNodes,     \* how many nodes can be allocated
          SentinelMax,  \* sentinel_max, INT_MAX
          Key

VARIABLES mem, lock, todo,  \* root, the fields of the nodes, and mcas.h: see MCAS
          made,     \* how many nodes have been allocated
          crashed,  \* a null pointer was dereferenced: the process is gone
          past      \* history: count[t], how often the tree held each key at the call
                    \* of t; overwritten, a remove has replaced the value of a node;
                    \* misled, one has linked the child of a node by what it saw before

Null == -1
Root == <<0, "root">>
Node == 1 .. MaxNodes
Side == {"left", "right"}

M == INSTANCE MCAS WITH Addr <- {Root} \union Node \X (Side \union {"value"}), Val <- Int

\* insert while no other worker runs: the memory m with the node n for key k.
Filled(m, n, k) ==
  LET next == [a \in {Root} \union Node \X Side |->
                 IF m[a] = Null THEN a ELSE <<m[a], IF k < m[m[a], "value"] THEN "left" ELSE "right">>]
      Link[i \in 0 .. MaxNodes] == IF i = 0 THEN Root ELSE next[Link[i - 1]]
  IN  [m EXCEPT ![Link[MaxNodes]] = n, ![<<n, "value">>] = k]

Blank == [a \in {Root} \union Node \X (Side \union {"value"}) |-> IF a[2] = "value" THEN 0 ELSE Null]

\* The nodes at and below a node.
Below(top) ==
  LET next == [T \in SUBSET Node |-> (T \union {mem[n, "left"] : n \in T} \union {mem[n, "right"] : n \in T}) \ {Null}]
      Down[i \in 0 .. MaxNodes] == IF i = 0 THEN {top} \ {Null} ELSE next[Down[i - 1]]
  IN  Down[MaxNodes]
InTree == Below(mem[Root])

Count == [k \in Key \union {SentinelMax} |-> Cardinality({n \in InTree : mem[n, "value"] = k})]

\* q: the keys that were inserted before.
Init(q) ==
  /\ LET Made[i \in 0 .. Len(q)] == IF i = 0 THEN Blank ELSE Filled(Made[i - 1], i, q[i])
     IN  mem = Made[Len(q)]
  /\ made = Len(q)
  /\ past = [count |-> [t \in Thread |-> <<>>], overwritten |-> FALSE, misled |-> FALSE]

Is(t, name) == call[t][1] = name

\* The remove of t links the child it saw below a node, but its link is out of
\* the tree, or the node leads to another child by now.
Misled(t) ==
  LET l == loc[t]
  IN  /\ loc'[t].pc = "return"
      /\ \/ At(t, "bypass") /\ (l.prev \notin InTree \/ mem[l.curr, l.of] # l.heir)
         \/ At(t, "swap_root") /\ l.heir # Null /\ (l.last = Null \/ mem[l.last, l.of] # l.heir)

\* The history of the callers, after each step.
Remember ==
  past' = [count |-> [t \in Thread |->
             CASE call'[t] = <<>> -> <<>> [] call[t] = <<>> /\ call'[t] # <<>> -> Count' [] OTHER -> past.count[t]],
           overwritten |-> past.overwritten \/
             \E n \in 1 .. made : mem'[n, "value"] # mem[n, "value"],
           misled |-> past.misled \/ \E t \in Thread : Misled(t)]

-----------------------------------------------------------------------------
\* insert makes its node first.  key: the value a remove looks for.
Call(t, name, k) ==
  /\ name = "insert" => made < MaxNodes
  /\ call' = [call EXCEPT ![t] = <<name, "", k>>]
  /\ IF name = "insert"
     THEN made' = made + 1 /\ mem' = [mem EXCEPT ![<<made', "value">>] = k] ELSE UNCHANGED <<made, mem>>
  /\ loc' = [loc EXCEPT ![t] =
               CASE name = "insert" -> [pc |-> "test_root", key |-> k, node |-> made']
                 [] name = "remove" -> [pc |-> "root", key |-> k]
                 [] OTHER -> [pc |-> "min_root"]]
  /\ UNCHANGED <<lock, todo, crashed>>

Quiet == M!NoStore /\ UNCHANGED <<made, crashed>>

Restart(t) ==
  loc' = [loc EXCEPT ![t] = Updated([f \in {"key", "node"} \cap DOMAIN loc[t] |-> loc[t][f]], [pc |-> "root"])]

Crash == crashed' = TRUE /\ M!NoStore /\ UNCHANGED <<loc, made>>

\* A cas of the link a; what follows if it fails.
Cas(t, a, old, new, failed) ==
  \/ M!Succeed(t, <<M!Word(a, old, new)>>) /\ Returns(t, TRUE) /\ UNCHANGED <<made, crashed>>
  \/ M!Fail(t, <<M!Word(a, old, new)>>) /\ failed /\ UNCHANGED <<made, crashed>>

\* insert into the empty tree; otherwise, and if the cas fails, the walk.
InsertRoot(t) ==
  \/ At(t, "test_root") /\ Go(t, [pc |-> IF mem[Root] = Null THEN "link_root" ELSE "root"]) /\ Quiet
  \/ At(t, "link_root") /\ Cas(t, Root, Null, loc[t].node, Go(t, [pc |-> "root"]))

\* The walk.  At a null pointer insert links its node, unless the root was null
\* already, and remove has found nothing.
Reach(t, c, frame) ==
  \/ c # Null /\ Go(t, Updated([pc |-> IF Is(t, "insert") THEN "compare" ELSE "match", curr |-> c], frame)) /\ Quiet
  \/ c = Null /\ Is(t, "insert") /\ ~At(t, "root") /\ Go(t, Updated([pc |-> "last"], frame)) /\ Quiet
  \/ c = Null /\ Is(t, "insert") /\ At(t, "root") /\ Crash
  \/ c = Null /\ Is(t, "remove") /\ Returns(t, FALSE) /\ Quiet

Walk(t) ==
  LET l == loc[t]
  IN  \/ At(t, "root") /\ Reach(t, mem[Root], [prev |-> Null, side |-> "left"])
      \/ /\ At(t, "match") /\ Quiet
         /\ Go(t, [pc |-> IF mem[l.curr, "value"] = l.key THEN "left" ELSE "compare"])
      \/ /\ At(t, "compare") /\ Quiet
         /\ Go(t, [pc |-> "child", prev |-> l.curr,
                   side |-> IF l.key < mem[l.curr, "value"] THEN "left" ELSE "right"])
      \/ At(t, "child") /\ Reach(t, mem[l.prev, l.side], [side |-> l.side])

\* Mutant: the insertion goes on after its cas.
Link_NoReturn(t) ==
  LET l == loc[t]  e == <<l.prev, l.side>>
  IN  \/ At(t, "last") /\ Go(t, [pc |-> "link", last |-> mem[e]]) /\ Quiet
      \/ /\ At(t, "link") /\ Restart(t)
         /\ M!Succeed(t, <<M!Word(e, l.last, l.node)>>)
         /\ UNCHANGED <<made, crashed>>
      \/ At(t, "link") /\ M!Fail(t, <<M!Word(e, l.last, l.node)>>) /\ Restart(t) /\ UNCHANGED <<made, crashed>>

\* The link is loaded again, and what it holds now is swapped for the node.
Link(t) ==
  LET l == loc[t]  e == <<l.prev, l.side>>
  IN  \/ At(t, "last") /\ Go(t, [pc |-> "link", last |-> mem[e]]) /\ Quiet
      \/ At(t, "link") /\ Cas(t, e, l.last, l.node, Restart(t))

\* remove: how many children curr has; each link is tested twice.
Kids(t) ==
  LET None(s) == mem[loc[t].curr, s] = Null
      Then(label) == Go(t, [pc |-> label])
  IN  /\ Quiet
      /\ \/ At(t, "left") /\ Then(IF None("left") THEN "right" ELSE "left_again")
         \/ At(t, "right") /\ Then(IF None("right") THEN "leaf" ELSE "left_again")
         \/ At(t, "left_again") /\ Then(IF None("left") THEN "only" ELSE "right_again")
         \/ At(t, "right_again") /\ Then(IF None("right") THEN "only" ELSE "two")

\* A leaf: its prev lets go of it.  A leaf that is the root, or was when it was
\* reached: whatever the root is now is dropped.
Leaf(t) ==
  LET l == loc[t]
  IN  \/ /\ At(t, "leaf") /\ Quiet
         /\ Go(t, [pc |-> IF l.curr # mem[Root] /\ l.prev # Null THEN "unlink" ELSE "drop"])
      \/ At(t, "unlink") /\ Cas(t, <<l.prev, l.side>>, l.curr, Null, Restart(t))
      \/ At(t, "drop") /\ Go(t, [pc |-> "swap_root", last |-> mem[Root], heir |-> Null]) /\ Quiet

\* Mutant: the value is taken from the right child.
Two_RightChild(t) ==
  LET l == loc[t]
  IN  \/ /\ At(t, "two") /\ Quiet
         /\ Go(t, [pc |-> "replace", min |-> IF mem[l.curr, "right"] = Null THEN SentinelMax
                                             ELSE mem[mem[l.curr, "right"], "value"]])
      \/ /\ At(t, "replace")
         /\ mem' = [mem EXCEPT ![<<l.curr, "value">>] = l.min]
         /\ Go(t, [pc |-> "reload"])
         /\ UNCHANGED <<lock, todo, made, crashed>>
      \/ At(t, "reload") /\ Go(t, [pc |-> "descend", key |-> mem[l.curr, "value"]]) /\ Quiet
      \/ At(t, "descend") /\ Reach(t, mem[l.curr, "right"], [prev |-> l.curr, side |-> "right"])

\* Two children: the least value on the right is stored in the node, and the
\* remove goes on there for the node it was in.
Two(t) ==
  LET l == loc[t]
  IN  \/ /\ At(t, "two") /\ Quiet
         /\ Go(t, IF mem[l.curr, "right"] = Null THEN [pc |-> "replace", min |-> SentinelMax]
                  ELSE [pc |-> "min", at |-> mem[l.curr, "right"]])
      \/ /\ At(t, "replace")
         /\ mem' = [mem EXCEPT ![<<l.curr, "value">>] = l.min]
         /\ Go(t, [pc |-> "reload"])
         /\ UNCHANGED <<lock, todo, made, crashed>>
      \/ At(t, "reload") /\ Go(t, [pc |-> "descend", key |-> mem[l.curr, "value"]]) /\ Quiet
      \/ At(t, "descend") /\ Reach(t, mem[l.curr, "right"], [prev |-> l.curr, side |-> "right"])

\* One child at the root: the child becomes the root.  If the cas fails the
\* walk goes on below the node.
RootWithOne(t) ==
  LET l == loc[t]  r == mem[Root]
  IN  \/ At(t, "only") /\ Go(t, [pc |-> IF l.curr = r THEN "root_left" ELSE "kid"]) /\ Quiet
      \/ /\ At(t, "root_left") /\ r # Null /\ Quiet
         /\ Go(t, [pc |-> "root_last", of |-> IF mem[r, "left"] # Null THEN "left" ELSE "right"])
      \/ At(t, "root_last") /\ Go(t, [pc |-> "root_child", last |-> r]) /\ Quiet
      \/ At(t, "root_child") /\ r # Null /\ Go(t, [pc |-> "swap_root", heir |-> mem[r, l.of]]) /\ Quiet
      \/ (At(t, "root_left") \/ At(t, "root_child")) /\ r = Null /\ Crash
      \/ At(t, "swap_root") /\ Cas(t, Root, l.last, l.heir, Go(t, [pc |-> "compare"]))

\* One child below the root: prev's link on the side of that child, whichever
\* side curr is on, is swapped for it.
InnerWithOne(t) ==
  LET l == loc[t]
  IN  \/ At(t, "kid") /\ Go(t, [pc |-> "heir", of |-> IF mem[l.curr, "left"] # Null THEN "left" ELSE "right"]) /\ Quiet
      \/ At(t, "heir") /\ Go(t, [pc |-> "bypass", heir |-> mem[l.curr, l.of]]) /\ Quiet
      \/ At(t, "bypass") /\ l.prev = Null /\ Crash
      \/ /\ At(t, "bypass") /\ l.prev # Null
         /\ Cas(t, <<l.prev, l.of>>, l.curr, l.heir,
                IF l.side = "left" /\ l.of = "left" THEN Restart(t) ELSE Go(t, [pc |-> "compare"]))

\* get_min: of the tree, or for a remove of what is on the right of curr.
Least(t, m) == IF Is(t, "remove") THEN Go(t, [pc |-> "replace", min |-> m]) ELSE Returns(t, m)
GetMin(t) ==
  LET l == loc[t]  value == mem[l.at, "value"]
  IN  /\ Quiet
      /\ \/ At(t, "min_root") /\ IF mem[Root] = Null THEN Returns(t, SentinelMax)
                                 ELSE Go(t, [pc |-> "min", at |-> mem[Root]])
         \/ At(t, "min") /\ Go(t, [pc |-> "min_value", min |-> value])
         \/ At(t, "min_value") /\ Go(t, [pc |-> IF value < l.min THEN "min_less" ELSE "min_left"])
         \/ At(t, "min_less") /\ Go(t, [pc |-> "min_left", min |-> value])
         \/ /\ At(t, "min_left")
            /\ Go(t, IF mem[l.at, "left"] = Null THEN [pc |-> "min_right"] ELSE [pc |-> "min_on", of |-> "left"])
         \/ At(t, "min_right") /\ IF mem[l.at, "right"] = Null THEN Least(t, l.min)
                                  ELSE Go(t, [pc |-> "min_on", of |-> "right"])
         \/ At(t, "min_on") /\ IF mem[l.at, l.of] = Null THEN Least(t, l.min)
                               ELSE Go(t, [pc |-> "min_value", at |-> mem[l.at, l.of]])

Step(t) ==
  \/ InsertRoot(t) \/ Walk(t) \/ Link(t)
  \/ Kids(t) \/ Leaf(t) \/ Two(t) \/ RootWithOne(t) \/ InnerWithOne(t) \/ GetMin(t)

-----------------------------------------------------------------------------
\* Every node of the tree has one link to it, from the root or from one node.
IsATree ==
  \A n \in InTree :
    Cardinality({a \in {Root} \union InTree \X Side : mem[a] = n}) = 1

\* A search for a value can find it.
InOrder ==
  \A n \in InTree :
    /\ \A i \in Below(mem[n, "left"]) : mem[i, "value"] < mem[n, "value"]
    /\ \A i \in Below(mem[n, "right"]) : mem[i, "value"] >= mem[n, "value"]

\* A node whose only child is not on its own side of its parent.
Crooked ==
  \E p, n \in InTree, s \in Side :
    mem[p, s] = n /\ mem[n, s] = Null /\ \E o \in Side : mem[n, o] # Null

\* With no other worker a call does to the tree what it says; but a remove may
\* leave a crooked node, with the value looked for or its successor, in place.
DoesWhatItSays(t) ==
  LET k == call[t][3]  before == past.count[t]
  IN  CASE Is(t, "insert") -> Count = [before EXCEPT ![k] = @ + 1]
        [] Is(t, "get_min") ->
             /\ Count = before
             /\ loc[t].value = IF InTree = {} THEN SentinelMax ELSE
                               CHOOSE m \in Key : before[m] > 0 /\ \A j \in Key : before[j] > 0 => m <= j
        [] Is(t, "remove") ->
             LET gone == [before EXCEPT ![k] = IF @ = 0 THEN 0 ELSE @ - 1]
                 Follows(j) == gone[j] > 0 /\ j >= k /\ \A i \in Key : gone[i] > 0 /\ i >= k => j <= i
             IN  \/ Count = gone
                 \/ /\ Crooked /\ before[k] > 0
                    /\ Count = before \/ \E j \in Key : Follows(j) /\ Count = [gone EXCEPT ![j] = @ + 1]
=============================================================================
