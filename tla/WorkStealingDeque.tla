------------------------- MODULE WorkStealingDeque -------------------------
(***************************************************************************)
(* lockfree/Deque.h: the work-stealing deque of Chase and Lev.  The owner  *)
(* (the main thread) pushes and pops at the bottom, the other workers      *)
(* steal at the top, each with a new Stealer.  The buffer grows and        *)
(* shrinks; the Reclaimer deletes the buffers no busy stealer has used.    *)
(* Buffers are numbered by their id, and the next of a buffer is the one   *)
(* with the next id, so that the deleted ones are those below unlinked.    *)
(* Memory is sequentially consistent.  Elements are numbered as they are   *)
(* pushed.                                                                 *)
(***************************************************************************)
EXTENDS Integers, Sequences, FiniteSetsExt, Frames

CONSTANTS LogInitial,  \* log_initial_size
          Owner,       \* the main thread
          Void, Empty

VARIABLE mem  \* top, bottom, buffer; unlinked; made: the elements made so far;
              \* seg: the segments of the buffers, at id + 1;
              \* tls: the buffer_tls records, the newest last;
              \* undefined: what a worker has read too late, a slot that holds
              \* another element by then, or a slot or the id of a deleted buffer

None == -1

Init ==
  mem = [top |-> 0, bottom |-> 0, buffer |-> 0, unlinked |-> None, made |-> 0,
         seg |-> <<[i \in 0 .. 2 ^ LogInitial - 1 |-> 0]>>,
         tls |-> <<[idle |-> TRUE, id |-> 0]>>, undefined |-> {}]

Size(id) == Cardinality(DOMAIN mem.seg[id + 1])
Get(id, i) == mem.seg[id + 1][i % Size(id)]
Deleted(id) == id < mem.unlinked

\* The elements, at the indices from the top to the bottom; a pop that has
\* lowered the bottom has not taken one before it loads the top.
Bottom == IF \E l \in {"pop_top", "race", "restore"} : At(Owner, l) THEN mem.bottom + 1 ELSE mem.bottom
Items == [i \in 1 .. Bottom - mem.top |-> Get(mem.buffer, mem.top + i - 1)]

CallPush ==
  /\ Enter(Owner, <<"push", "R", mem.made + 1>>, "push")
  /\ mem' = [mem EXCEPT !.made = @ + 1]
CallPop ==
  /\ Enter(Owner, <<"pop", "R", 1>>, "pop")
  /\ UNCHANGED mem
CallSteal(t) ==
  /\ t # Owner
  /\ Enter(t, <<"pop", "L", 1>>, "register")
  /\ UNCHANGED mem

\* resize: a buffer with size slots and the elements from t to b.
Resize(size, t, b) ==
  [i \in 0 .. size - 1 |->
     LET holds == {j \in t .. b - 1 : j % size = i}
     IN  IF holds = {} THEN 0 ELSE Get(mem.buffer, Max(holds))]

\* The owner goes on at frame, by way of reclaim_buffers if a buffer is
\* unlinked, and of resize if that is not 0.
OwnerGoes(resize, frame) ==
  LET then == Updated(frame, [after |-> frame.pc])
  IN  Go(Owner, CASE resize # 0 -> Updated(then, [pc |-> "resize", size |-> resize])
                  [] resize = 0 /\ mem.unlinked # None -> Updated(then, [pc |-> "reclaim"])
                  [] OTHER -> frame)

\* push_bottom: the load of the top.
PushTop ==
  LET grow == mem.bottom - mem.top >= Size(mem.buffer) - 1
  IN  /\ At(Owner, "push")
      /\ OwnerGoes(IF grow THEN 2 * Size(mem.buffer) ELSE 0, [pc |-> "put", top |-> mem.top, end |-> mem.bottom])
      /\ UNCHANGED mem

\* push_bottom: the element is stored, then the bottom.
PushStores ==
  \/ /\ At(Owner, "put")
     /\ mem' = [mem EXCEPT !.seg[mem.buffer + 1][mem.bottom % Size(mem.buffer)] = call[Owner][3]]
     /\ Go(Owner, [pc |-> "publish"])
  \/ /\ At(Owner, "publish")
     /\ mem' = [mem EXCEPT !.bottom = @ + 1]
     /\ Returns(Owner, Void)

\* pop_bottom: the bottom is lowered, then the top is loaded.
PopBottom ==
  \/ /\ At(Owner, "pop")
     /\ mem' = [mem EXCEPT !.bottom = @ - 1]
     /\ Go(Owner, [pc |-> "pop_top"])
  \/ LET size == mem.bottom + 1 - mem.top
         shrink == size <= Size(mem.buffer) \div 3 /\ size > 2 ^ LogInitial
     IN  /\ At(Owner, "pop_top")
         /\ CASE size <= 0 -> Go(Owner, [pc |-> "restore", value |-> Empty])
              [] size = 1 -> Go(Owner, [pc |-> "race", top |-> mem.top])
              [] OTHER -> OwnerGoes(IF shrink THEN Size(mem.buffer) \div 2 ELSE 0,
                                    [pc |-> "return", top |-> mem.top, end |-> mem.bottom + 1,
                                     value |-> Get(mem.buffer, mem.bottom)])
         /\ UNCHANGED mem

\* Mutant: the last element is popped without a race against the steals.
PopLast_Unraced ==
  \/ /\ At(Owner, "race")
     /\ mem' = [mem EXCEPT !.top = loc[Owner].top + 1]
     /\ Go(Owner, [pc |-> "restore", value |-> Get(mem.buffer, loc[Owner].top)])
  \/ /\ At(Owner, "restore")
     /\ mem' = [mem EXCEPT !.bottom = @ + 1]
     /\ Returns(Owner, loc[Owner].value)

\* pop_bottom: the race for the last element, the bottom is restored.
PopLast ==
  \/ /\ At(Owner, "race")
     /\ \/ /\ mem.top = loc[Owner].top
           /\ mem' = [mem EXCEPT !.top = @ + 1]
           /\ Go(Owner, [pc |-> "restore", value |-> Get(mem.buffer, loc[Owner].top)])
        \/ /\ mem.top # loc[Owner].top
           /\ Go(Owner, [pc |-> "restore", value |-> Empty])
           /\ UNCHANGED mem
  \/ /\ At(Owner, "restore")
     /\ mem' = [mem EXCEPT !.bottom = @ + 1]
     /\ Returns(Owner, loc[Owner].value)

\* The new buffer is filled and then stored.
StoreBuffer ==
  /\ At(Owner, "resize")
  /\ mem' = [mem EXCEPT !.seg = Append(@, Resize(loc[Owner].size, loc[Owner].top, loc[Owner].end)),
                        !.buffer = @ + 1,
                        !.unlinked = IF @ = None THEN mem.buffer ELSE @]
  /\ Go(Owner, [pc |-> "reclaim"])

\* Mutant: busy stealers keep no buffer from being deleted.
Reclaim_IgnoresBusy ==
  \/ At(Owner, "reclaim") /\ Go(Owner, [pc |-> "delete", min |-> mem.buffer]) /\ UNCHANGED mem
  \/ /\ At(Owner, "delete")
     /\ mem' = [mem EXCEPT !.unlinked = Max({@, loc[Owner].min})]
     /\ Go(Owner, [pc |-> loc[Owner].after])

\* reclaim_buffers: the list is walked from its newest record, and the buffers
\* below the least id are deleted.
Scanned(i, min) ==
  Go(Owner, [pc |-> IF i = 1 THEN "delete" ELSE "scan", tls |-> i - 1, min |-> min])
Reclaim ==
  LET i == loc[Owner].tls  min == loc[Owner].min
  IN  \/ /\ At(Owner, "reclaim")
         /\ Go(Owner, [pc |-> "scan", tls |-> Len(mem.tls), min |-> mem.buffer])
         /\ UNCHANGED mem
      \/ /\ At(Owner, "scan")
         /\ IF mem.tls[i].idle THEN Scanned(i, min) ELSE Go(Owner, [pc |-> "scan_id"])
         /\ UNCHANGED mem
      \/ /\ At(Owner, "scan_id")
         /\ Scanned(i, Min({min, mem.tls[i].id}))
         /\ UNCHANGED mem
      \/ /\ At(Owner, "delete")
         /\ mem' = [mem EXCEPT !.unlinked = Max({@, min})]
         /\ Go(Owner, [pc |-> loc[Owner].after])

\* A new Stealer puts its record at the head of the list.
Register(t) ==
  \/ /\ At(t, "register")
     /\ Go(t, [pc |-> "enlist", tls |-> Len(mem.tls) + 1])
     /\ UNCHANGED mem
  \/ /\ At(t, "enlist")
     /\ \/ /\ Len(mem.tls) + 1 = loc[t].tls
           /\ mem' = [mem EXCEPT !.tls = Append(@, [idle |-> TRUE, id |-> 0])]
           /\ Go(t, [pc |-> "busy"])
        \/ /\ Len(mem.tls) + 1 # loc[t].tls
           /\ Go(t, [pc |-> "register"])
           /\ UNCHANGED mem

\* steal: the loads of top, bottom and buffer.
Look(t) ==
  /\ \/ At(t, "steal") /\ Go(t, [pc |-> "steal_bottom", top |-> mem.top])
     \/ At(t, "steal_bottom") /\
          Go(t, IF mem.bottom - loc[t].top > 0 THEN [pc |-> "steal_buffer"]
                ELSE [pc |-> "rest", value |-> Empty])
     \/ At(t, "steal_buffer") /\ Go(t, [pc |-> "claim", buffer |-> mem.buffer])
  /\ UNCHANGED mem

\* steal: the top is advanced, then the element is read from the slot.  claim
\* is what that slot held when the top was advanced.
Claim(t) ==
  \/ /\ At(t, "claim")
     /\ \/ /\ mem.top = loc[t].top
           /\ mem' = [mem EXCEPT !.top = @ + 1]
           /\ Go(t, [pc |-> "get", value |-> Get(mem.buffer, loc[t].top)])
        \/ /\ mem.top # loc[t].top
           /\ Go(t, [pc |-> "rest", value |-> Empty])
           /\ UNCHANGED mem
  \/ LET v == Get(loc[t].buffer, loc[t].top)
     IN  /\ At(t, "get")
         /\ mem' = [mem EXCEPT !.undefined = IF Deleted(loc[t].buffer) THEN {"slot"}
                                               ELSE IF v # loc[t].value THEN {"element"} ELSE {}]
         /\ Go(t, [pc |-> "rest", value |-> v])

\* Stealer::steal: the record is set busy before the steal, idle after it, and
\* then given the id of the buffer.
Record(t) ==
  \/ /\ At(t, "busy")
     /\ mem' = [mem EXCEPT !.tls[loc[t].tls].idle = FALSE]
     /\ Go(t, [pc |-> "steal"])
  \/ /\ At(t, "rest")
     /\ mem' = [mem EXCEPT !.tls[loc[t].tls].idle = TRUE]
     /\ Go(t, [pc |-> "last"])
  \/ /\ At(t, "last")
     /\ Go(t, [pc |-> "last_id", buffer |-> mem.buffer])
     /\ UNCHANGED mem
  \/ /\ At(t, "last_id")
     /\ mem' = [mem EXCEPT !.tls[loc[t].tls].id = loc[t].buffer,
                           !.undefined = IF Deleted(loc[t].buffer) THEN {"id"} ELSE {}]
     /\ Returns(t, loc[t].value)

OwnerStep == PushTop \/ PushStores \/ PopBottom \/ PopLast \/ StoreBuffer \/ Reclaim
StealerStep(t) == Register(t) \/ Look(t) \/ Claim(t) \/ Record(t)
Step(t) == mem.undefined = {} /\ IF t = Owner THEN OwnerStep ELSE StealerStep(t)

=============================================================================
