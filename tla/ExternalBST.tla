---------------------------- MODULE ExternalBST ----------------------------
(***************************************************************************)
(* lockfree/BinarySearchTree.h: an external search tree, its keys in the   *)
(* leaves.  The edge to a child is a pointer with a mark: 2 and 3 flag the *)
(* leaf for deletion, 1 and 3 tag the edge against changes.  It is changed *)
(* by one compare-and-swap of both; a copy of it is two loads.  Nodes are  *)
(* never freed.  The test whether a node is a leaf and the load of the     *)
(* child are one step: as long as no leaf gets a child (Damaged), what a   *)
(* node is never changes.                                                  *)
(***************************************************************************)
EXTENDS Integers, SequencesExt, Frames

CONSTANTS MaxNodes,     \* how many nodes can be linked
          Key,
          SentinelMax,  \* LONG_MAX, greater than the keys
          Prefilled     \* the sequences of keys that may be inserted at the start

VARIABLE mem  \* ptr, mark: the edges; key; made: the nodes linked so far

Null == -1
GrandParentHead == 0
ParentHead == 1
Node == 0 .. MaxNodes + 4
Edge == Node \X {"left", "right"}

IsLeaf(m, n) == m.ptr[n, "left"] = Null
Side(m, k, n) == IF k < m.key[n] THEN "left" ELSE "right"
Other(side) == IF side = "left" THEN "right" ELSE "left"

\* createHeadNodes.
Heads ==
  [ptr |-> [e \in Edge |-> CASE e = <<0, "left">> -> 1 [] e = <<0, "right">> -> 2
                             [] e = <<1, "left">> -> 3 [] e = <<1, "right">> -> 4 [] OTHER -> Null],
   mark |-> [e \in Edge |-> 0], key |-> [n \in Node |-> SentinelMax], made |-> 0]

\* add: the memory m with a leaf for k and the leaf n below a new inner node in
\* place of n.
WithKey(m, k, parent, n) ==
  LET leaf == m.made + 5  inner == m.made + 6
      side == IF m.key[n] < k THEN "right" ELSE "left"
  IN  [m EXCEPT !.made = @ + 2, !.key[leaf] = k, !.key[inner] = IF side = "right" THEN k ELSE m.key[n],
                !.ptr[<<inner, side>>] = leaf, !.ptr[<<inner, Other(side)>>] = n,
                !.ptr[<<parent, Side(m, k, parent)>>] = inner]

\* An insertion while no other worker runs.
Filled(m, k) ==
  LET Parent[n \in Node] == LET c == m.ptr[n, Side(m, k, n)] IN IF IsLeaf(m, c) THEN n ELSE Parent[c]
      p == Parent[ParentHead]
  IN  WithKey(m, k, p, m.ptr[p, Side(m, k, p)])

Init == \E q \in Prefilled : mem = FoldLeft(Filled, Heads, q)

KeyOf(t) == call[t][3]
EdgeOf(t, n) == <<n, Side(mem, KeyOf(t), n)>>

Call(t, name, k) ==
  /\ call' = [call EXCEPT ![t] = <<name, "", k>>]
  /\ loc' = [loc EXCEPT ![t] =
               CASE name = "insert" -> [pc |-> "add"]
                 [] name = "remove" -> [pc |-> "seek", then |-> "found"]
                 [] OTHER -> [pc |-> name, node |-> GrandParentHead, key |-> SentinelMax]]
  /\ UNCHANGED mem

\* add: the walk to a leaf.
Walk(t) ==
  LET n == loc[t].node
  IN  /\ UNCHANGED mem
      /\ \/ At(t, "add") /\ Go(t, [pc |-> "walk", parent |-> ParentHead, node |-> mem.ptr[ParentHead, "left"]])
         \/ At(t, "walk") /\ ~IsLeaf(mem, n) /\ Go(t, [parent |-> n, node |-> mem.ptr[EdgeOf(t, n)]])
         \/ At(t, "walk") /\ IsLeaf(mem, n) /\ mem.key[n] = KeyOf(t) /\ Returns(t, FALSE)
         \/ At(t, "walk") /\ IsLeaf(mem, n) /\ mem.key[n] # KeyOf(t) /\ Go(t, [pc |-> "link"])

\* add: the compare-and-swap of the edge to the leaf; if it fails while the
\* leaf is there, the deletion in its way is helped.
Link(t) ==
  LET e == EdgeOf(t, loc[t].parent)
  IN  \/ /\ At(t, "link")
         /\ IF mem.ptr[e] = loc[t].node /\ mem.mark[e] = 0
            THEN mem' = WithKey(mem, KeyOf(t), loc[t].parent, loc[t].node) /\ Returns(t, TRUE)
            ELSE UNCHANGED mem /\ Go(t, [pc |-> "help"])
      \/ /\ At(t, "help") /\ UNCHANGED mem
         /\ Go(t, IF mem.ptr[e] = loc[t].node THEN [pc |-> "seek", then |-> "clean"] ELSE [pc |-> "add"])

\* seek: the record of ancestor, parent and leaf is advanced along the path; an
\* edge with a tag keeps the ancestor where it is.
Seek(t) ==
  LET l == loc[t]
  IN  /\ UNCHANGED mem
      /\ \/ /\ At(t, "seek")
            /\ Go(t, [pc |-> "seek_ptr", ancestor |-> GrandParentHead, parent |-> ParentHead,
                      leaf |-> mem.ptr[ParentHead, "left"], at |-> <<ParentHead, "left">>,
                      stamp |-> mem.mark[GrandParentHead, "left"]])
         \/ /\ At(t, "seek_ptr")
            /\ Go(t, [pc |-> IF mem.ptr[l.at] = Null THEN l.then ELSE "seek_mark", current |-> mem.ptr[l.at]])
         \/ /\ At(t, "seek_mark")
            /\ Go(t, [pc |-> "seek_ptr", ancestor |-> IF l.stamp \in {0, 2} THEN l.parent ELSE l.ancestor,
                      parent |-> l.leaf, leaf |-> l.current, stamp |-> mem.mark[l.at],
                      at |-> EdgeOf(t, l.current)])

\* remove: the edge to the leaf is flagged, or an operation in its way helped.
\* target: the leaf that this call has flagged.
Flag(t) ==
  LET l == loc[t]  e == EdgeOf(t, l.parent)
  IN  \/ /\ At(t, "found") /\ UNCHANGED mem
         /\ IF "target" \in DOMAIN l
            THEN IF l.leaf = l.target THEN Go(t, [pc |-> "clean"]) ELSE Returns(t, TRUE)
            ELSE IF mem.key[l.leaf] = KeyOf(t) THEN Go(t, [pc |-> "flag"]) ELSE Returns(t, FALSE)
      \/ /\ At(t, "flag")
         /\ IF mem.ptr[e] = l.leaf /\ mem.mark[e] = 0
            THEN mem' = [mem EXCEPT !.mark[e] = 2] /\ Go(t, [pc |-> "clean", target |-> l.leaf])
            ELSE UNCHANGED mem /\ Go(t, [pc |-> "flag_failed"])
      \/ /\ At(t, "flag_failed") /\ UNCHANGED mem
         /\ Go(t, [pc |-> IF mem.ptr[e] = l.leaf THEN "clean" ELSE "seek"])

SetTag(stamp) == IF stamp \in {0, 2} THEN stamp + 1 ELSE stamp

\* Mutant: the tag is copied with the flag.
CopyFlag_Tag(stamp) == stamp

CopyFlag(stamp) == IF stamp \in {1, 3} THEN stamp - 1 ELSE stamp

\* cleanUp: the edge that stays, the sibling of the flagged one or the one on
\* the path, is tagged and loaded again.
Tag(t) ==
  LET l == loc[t]  path == EdgeOf(t, l.parent)
  IN  \/ /\ At(t, "clean") /\ UNCHANGED mem
         /\ Go(t, [pc |-> "tag_ptr", edge |-> IF mem.mark[path] > 1 THEN <<l.parent, Other(path[2])>> ELSE path])
      \/ At(t, "tag_ptr") /\ Go(t, [pc |-> "tag_mark", sibling |-> mem.ptr[l.edge]]) /\ UNCHANGED mem
      \/ At(t, "tag_mark") /\ Go(t, [pc |-> "tag", stamp |-> SetTag(mem.mark[l.edge])]) /\ UNCHANGED mem
      \/ /\ At(t, "tag")
         /\ mem' = IF mem.ptr[l.edge] = l.sibling /\ mem.mark[l.edge] = 0
                   THEN [mem EXCEPT !.mark[l.edge] = l.stamp] ELSE mem
         /\ Go(t, [pc |-> "sibling_ptr"])
      \/ At(t, "sibling_ptr") /\ Go(t, [pc |-> "sibling_mark", sibling |-> mem.ptr[l.edge]]) /\ UNCHANGED mem
      \/ At(t, "sibling_mark") /\ Go(t, [pc |-> "old_ptr", stamp |-> CopyFlag(mem.mark[l.edge])]) /\ UNCHANGED mem

\* cleanUp: the edge of the ancestor, whatever it holds now, is swapped for the
\* sibling.  A remove that has flagged its leaf and succeeds here returns.
Splice(t) ==
  LET l == loc[t]  e == EdgeOf(t, l.ancestor)
  IN  \/ At(t, "old_ptr") /\ Go(t, [pc |-> "old_mark", current |-> mem.ptr[e]]) /\ UNCHANGED mem
      \/ At(t, "old_mark") /\ Go(t, [pc |-> "splice", old |-> mem.mark[e]]) /\ UNCHANGED mem
      \/ /\ At(t, "splice") /\ mem.ptr[e] = l.current /\ mem.mark[e] = l.old
         /\ mem' = [mem EXCEPT !.ptr[e] = l.sibling, !.mark[e] = l.stamp]
         /\ IF "target" \in DOMAIN l THEN Returns(t, TRUE)
            ELSE Go(t, [pc |-> IF call[t][1] = "insert" THEN "add" ELSE "seek"])
      \/ /\ At(t, "splice") /\ ~(mem.ptr[e] = l.current /\ mem.mark[e] = l.old)
         /\ Go(t, [pc |-> IF call[t][1] = "insert" THEN "add" ELSE "seek"])
         /\ UNCHANGED mem

\* get_min: the least key of the inner nodes on the left.
GetMin(t) ==
  LET n == loc[t].node
  IN  /\ At(t, "get_min") /\ UNCHANGED mem
      /\ IF IsLeaf(mem, n) THEN Returns(t, loc[t].key)
         ELSE Go(t, [node |-> mem.ptr[n, "left"], key |-> IF mem.key[n] < loc[t].key THEN mem.key[n] ELSE loc[t].key])

\* A leaf has got a child: cleanUp ran with the record of a removal that was
\* over, and took the leaf for a parent.  The model ends here; in the program
\* a walk may go round in a circle or meet a null pointer from then on.
Damaged ==
  \E leaf \in (2 .. 4) \union {5 + 2 * i : i \in 0 .. MaxNodes \div 2 - 1}, side \in {"left", "right"} :
    mem.ptr[leaf, side] # Null

Step(t) == ~Damaged /\ (Walk(t) \/ Link(t) \/ Seek(t) \/ Flag(t) \/ Tag(t) \/ Splice(t) \/ GetMin(t))

\* The keys that a search finds.
Finds(k) ==
  LET Leaf[n \in Node] == IF IsLeaf(mem, n) THEN n ELSE Leaf[mem.ptr[n, Side(mem, k, n)]]
  IN  mem.key[Leaf[ParentHead]] = k
Members == {k \in Key : Finds(k)}

\* No call of remove has come to its compare-and-swap.
Unmarked == \A e \in Edge : mem.mark[e] = 0
=============================================================================
