---------------------------- MODULE McasHashMap ----------------------------
(***************************************************************************)
(* lockfree-mcas/HashMap.h: every bucket is a doubly linked list between   *)
(* two sentinels, walked with plain loads and changed with a qcas.  A new  *)
(* node goes in before the tail.  A deleted node has two null links: a     *)
(* walk of insert_or_assign or remove that runs into one starts over, one  *)
(* of contains goes round its outer loop for ever ("spins").  At the tail, *)
(* whose prev is never null, insert_before passes its tests.               *)
(***************************************************************************)
EXTENDS Integers, Sequences, FiniteSets, Frames

CONSTANTS Thread, NoThread, Gem5,  \* see MCAS
          MaxNodes,   \* how many nodes can be allocated
          TableSize,  \* TABLE_SIZE
          Key

VARIABLES mem, lock, todo,  \* the fields of the nodes, and mcas.h: see MCAS
          made,     \* how many nodes have been allocated
          crashed,  \* a null pointer was dereferenced: the process is gone
          past      \* history: past[t].stayed, the nodes with the key of the call of t
                    \* that were in the map from the call on; past[t].been, those that
                    \* were in it at some moment since

Null == -1
Bucket(k) == k % TableSize
HeadOf(b) == b
TailOf(b) == TableSize + b
Buckets == 0 .. TableSize - 1
Made(i) == 2 * TableSize + i - 1
Node == {Made(i) : i \in 1 .. MaxNodes}
Word == ({Null} \union 0 .. Made(MaxNodes)) \X {"key", "value", "next", "prev"}

M == INSTANCE MCAS WITH Addr <- Word, Val <- Int

\* The map with one key: key 1 after k calls of insert_or_assign, with a value
\* of its own, one call or none.
Init ==
  \E k \in 0 .. 1 :
    /\ mem = [w \in Word |->
         CASE w[1] \in Buckets /\ w[2] = "next" ->
                IF k = 1 /\ w[1] = Bucket(1) THEN Made(1) ELSE TailOf(w[1])
           [] w[1] - TableSize \in Buckets /\ w[2] = "prev" ->
                IF k = 1 /\ w[1] = TailOf(Bucket(1)) THEN Made(1) ELSE w[1] - TableSize
           [] k = 1 /\ w = <<Made(1), "next">> -> TailOf(Bucket(1))
           [] k = 1 /\ w = <<Made(1), "prev">> -> HeadOf(Bucket(1))
           [] w[2] \in {"key", "value"} -> IF k = 1 /\ w = <<Made(1), "key">> THEN 1 ELSE 0
           [] OTHER -> Null]
    /\ made = k
    /\ past = [t \in Thread |-> [stayed |-> {}, been |-> {}]]

KeyOf(t) == call[t][3]
Is(t, name) == call[t][1] = name

\* The memory once the stores under way are made, and the nodes of the map.
Memory == IF lock = NoThread THEN mem ELSE M!Settled
Linked ==
  LET m == Memory
  IN  {n \in Node : m[<<n, "prev">>] # Null /\ m[<<m[<<n, "prev">>], "next">>] = n}

\* The history of the callers, after each step.
Remember ==
  LET now == Linked'
      With(k) == {n \in now : mem'[<<n, "key">>] = k}
  IN  past' = [t \in Thread |->
        CASE call'[t] = <<>> -> [stayed |-> {}, been |-> {}]
          [] call[t] = <<>> /\ call'[t] # <<>> -> [stayed |-> With(call'[t][3]), been |-> With(call'[t][3])]
          [] OTHER -> [stayed |-> past[t].stayed \intersect now, been |-> past[t].been \union With(KeyOf(t))]]

-----------------------------------------------------------------------------
\* insert_or_assign makes its node first; the value is the key.
Call(t, name, k) ==
  /\ call' = [call EXCEPT ![t] = <<name, "", k>>]
  /\ IF name = "insert"
     THEN /\ made < MaxNodes
          /\ made' = made + 1
          /\ mem' = [mem EXCEPT ![<<Made(made'), "key">>] = k, ![<<Made(made'), "value">>] = k]
          /\ loc' = [loc EXCEPT ![t] = [pc |-> "first", node |-> Made(made')]]
     ELSE loc' = [loc EXCEPT ![t] = [pc |-> "first"]] /\ UNCHANGED <<made, mem>>
  /\ UNCHANGED <<lock, todo, crashed>>

\* goto retry: the node is cleared, the walk begins at the head.
Restart(t) ==
  /\ loc' = [loc EXCEPT ![t] = Updated([f \in {"node"} \cap DOMAIN loc[t] |-> loc[t][f]], [pc |-> "first"])]
  /\ mem' = IF Is(t, "insert")
            THEN [mem EXCEPT ![<<loc[t].node, "next">>] = Null, ![<<loc[t].node, "prev">>] = Null] ELSE mem
  /\ UNCHANGED <<lock, todo, made, crashed>>

Quiet == M!NoStore /\ UNCHANGED <<made, crashed>>

\* Mutant: a walk that runs into a deleted node takes it for the end.
Walk_NullIsTail(t) ==
  LET k == KeyOf(t)
      c == mem[<<IF At(t, "first") THEN HeadOf(Bucket(k)) ELSE loc[t].curr, "next">>]
      end == c \in {TailOf(Bucket(k)), Null}
      same == ~end /\ mem[<<c, "key">>] = k
      Then(label) == Go(t, [pc |-> label, curr |-> c]) /\ Quiet
  IN  /\ At(t, "first") \/ At(t, "walk")
      /\ \/ end /\ ~Is(t, "insert") /\ Returns(t, FALSE) /\ Quiet
         \/ end /\ Is(t, "insert") /\ Go(t, [pc |-> "load_prev", curr |-> TailOf(Bucket(k))]) /\ Quiet
         \/ same /\ Is(t, "insert") /\ Then("load_value")
         \/ same /\ Is(t, "remove") /\ Then("load_prev")
         \/ same /\ Is(t, "contains") /\ Go(t, [pc |-> "return", value |-> TRUE, curr |-> c]) /\ Quiet
         \/ ~end /\ ~same /\ Then("walk")

\* Load the next node of the walk, and go on with what it is.
Walk(t) ==
  LET k == KeyOf(t)
      c == mem[<<IF At(t, "first") THEN HeadOf(Bucket(k)) ELSE loc[t].curr, "next">>]
      same == c \notin {TailOf(Bucket(k)), Null} /\ mem[<<c, "key">>] = k
      Then(label) == Go(t, [pc |-> label, curr |-> c]) /\ Quiet
  IN  /\ At(t, "first") \/ At(t, "walk")
      /\ \/ c = Null /\ Is(t, "contains") /\ Then("spin")
         \/ c = Null /\ ~Is(t, "contains") /\ Restart(t)
         \/ c = TailOf(Bucket(k)) /\ Is(t, "insert") /\ Then("load_prev")
         \/ c = TailOf(Bucket(k)) /\ ~Is(t, "insert") /\ Returns(t, FALSE) /\ Quiet
         \/ same /\ Is(t, "insert") /\ Then("load_value")
         \/ same /\ Is(t, "remove") /\ Then("load_prev")
         \/ same /\ Is(t, "contains") /\ Go(t, [pc |-> "return", value |-> TRUE, curr |-> c]) /\ Quiet
         \/ c # Null /\ c # TailOf(Bucket(k)) /\ ~same /\ Then("walk")

\* insert_or_assign of a key that is there: the cas of the value.
Assign(t) ==
  LET l == loc[t]
  IN  \/ At(t, "load_value") /\ Go(t, [pc |-> "assign", old |-> mem[<<l.curr, "value">>]]) /\ Quiet
      \/ /\ At(t, "assign")
         /\ M!Succeed(t, <<M!Word(<<l.curr, "value">>, l.old, KeyOf(t))>>)
         /\ Returns(t, FALSE) /\ UNCHANGED <<made, crashed>>
      \/ /\ At(t, "assign") /\ lock = NoThread
         /\ mem[<<l.curr, "value">>] # l.old
         /\ Restart(t)

\* insert_before loads prev of the tail and sets the links of the node;
\* delete_node loads both links, and gives up if they are null.
LoadLinks(t) ==
  LET l == loc[t]
  IN  \/ /\ At(t, "load_prev") /\ Is(t, "insert")
         /\ mem' = [mem EXCEPT ![<<l.node, "next">>] = l.curr, ![<<l.node, "prev">>] = mem[<<l.curr, "prev">>]]
         /\ Go(t, [pc |-> "qcas", prev |-> mem[<<l.curr, "prev">>]])
         /\ UNCHANGED <<lock, todo, made, crashed>>
      \/ /\ At(t, "load_prev") /\ Is(t, "remove")
         /\ Go(t, [pc |-> "load_next", prev |-> mem[<<l.curr, "prev">>]]) /\ Quiet
      \/ /\ At(t, "load_next")
         /\ IF l.prev = Null /\ mem[<<l.curr, "next">>] = Null THEN Restart(t)
            ELSE Go(t, [pc |-> "qcas", next |-> mem[<<l.curr, "next">>]]) /\ Quiet

\* The arguments of the qcas of insert_before and of delete_node.
QcasWords(t) ==
  LET l == loc[t]  c == l.curr
  IN  IF Is(t, "insert")
      THEN <<M!Word(<<l.prev, "next">>, c, l.node), M!Word(<<c, "prev">>, l.prev, l.node),
             M!Word(<<l.node, "next">>, c, c), M!Word(<<l.node, "prev">>, l.prev, l.prev)>>
      ELSE <<M!Word(<<l.prev, "next">>, c, l.next), M!Word(<<l.next, "prev">>, c, l.prev),
             M!Word(<<c, "next">>, l.next, Null), M!Word(<<c, "prev">>, l.prev, Null)>>

\* The comparison reaches a word of a null node: see McasSortedList.
Faults(w) ==
  \E i \in DOMAIN w : w[i].addr[1] = Null /\ (Gem5 \/ \A j \in 1 .. i - 1 : mem[w[j].addr] = w[j].old)

\* The call takes effect with the first store of its qcas.
QcasSucceeds(t) ==
  /\ At(t, "qcas") /\ ~Faults(QcasWords(t))
  /\ M!Succeed(t, QcasWords(t))
  /\ Go(t, [pc |-> IF M!Returns(t) THEN "return" ELSE "store", value |-> TRUE])
  /\ UNCHANGED <<made, crashed>>

QcasStores(t) ==
  /\ M!StoreNext(t)
  /\ Go(t, [pc |-> IF M!Returns(t) THEN "return" ELSE "store"])
  /\ UNCHANGED <<made, crashed>>

\* Mutant: the call tries the same words again.
QcasFails_NoWalk(t) ==
  /\ At(t, "qcas") /\ ~Faults(QcasWords(t))
  /\ M!Fail(t, QcasWords(t))
  /\ UNCHANGED <<loc, made, crashed>>

\* Mutant: the result of the qcas is not looked at.
QcasFails_Returns(t) ==
  /\ At(t, "qcas") /\ ~Faults(QcasWords(t))
  /\ M!Fail(t, QcasWords(t))
  /\ Returns(t, TRUE)
  /\ UNCHANGED <<made, crashed>>

QcasFails(t) ==
  /\ At(t, "qcas") /\ lock = NoThread
  /\ ~Faults(QcasWords(t)) /\ ~M!Matches(QcasWords(t))
  /\ Restart(t)

QcasFaults(t) ==
  /\ At(t, "qcas") /\ lock = NoThread /\ Faults(QcasWords(t))
  /\ crashed' = TRUE
  /\ M!NoStore /\ UNCHANGED <<loc, made>>

Step(t) ==
  \/ Walk(t) \/ Assign(t) \/ LoadLinks(t)
  \/ QcasSucceeds(t) \/ QcasStores(t) \/ QcasFails(t) \/ QcasFaults(t)

Spins(t) == At(t, "spin")

-----------------------------------------------------------------------------
\* Types of the nodes, of the calls and of their history.
TypeOK ==
  /\ M!MCASTypeOK
  /\ M!LockDiscipline
  /\ made \in 0 .. MaxNodes
  /\ call \in [Thread -> {<<>>} \union ({"insert", "remove", "contains"} \X {""} \X Key)]
  /\ past \in [Thread -> [stayed : SUBSET Node, been : SUBSET Node]]

\* The lists of the buckets are whole: see ListIsWhole of McasSortedList.
Own == {loc[t].node : t \in {u \in Thread : "node" \in DOMAIN loc[u] /\ loc[u].pc \notin {"store", "return"}}}
TableIsWhole ==
  LET m == Memory
      linked == Linked
      on == [n \in 0 .. Made(MaxNodes) |-> IF n - TableSize \in Buckets \/ m[<<n, "next">>] = Null THEN n ELSE m[<<n, "next">>]]
      From(b) == LET Nth[i \in 0 .. MaxNodes + 1] == IF i = 0 THEN HeadOf(b) ELSE on[Nth[i - 1]]
                 IN  {Nth[i] : i \in 0 .. MaxNodes + 1}
  IN  /\ \A b \in Buckets :
           /\ From(b) = {HeadOf(b), TailOf(b)} \union {n \in linked : Bucket(m[<<n, "key">>]) = b}
           /\ \A n \in From(b) \ {TailOf(b)} : m[<<m[<<n, "next">>], "prev">>] = n
      /\ \A n \in Node \ (Own \union linked) : m[<<n, "next">>] = Null /\ m[<<n, "prev">>] = Null

\* The call of t does to the map what it says, with a value of TRUE if it links
\* or unlinks a node.
TakesEffect(t) ==
  Linked' = IF ~loc'[t].value \/ Is(t, "contains") THEN Linked
            ELSE IF Is(t, "insert") THEN Linked \union {loc[t].node} ELSE Linked \ {loc[t].curr}

\* What a call has found, judged by the nodes of its key.
IsRegular(t) ==
  LET l == loc[t]
  IN  CASE Is(t, "insert") -> IF l.value THEN past[t].stayed = {} ELSE l.curr \in past[t].been
        [] OTHER -> IF l.value THEN l.curr \in past[t].been ELSE past[t].stayed = {}
=============================================================================
