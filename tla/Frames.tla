------------------------------- MODULE Frames -------------------------------
(***************************************************************************)
(* The stack frames of the workers: the call a worker is making and the    *)
(* local variables it has set so far, with the label of its next access to *)
(* shared memory.  An access and the local computation after it are one    *)
(* step.                                                                   *)
(***************************************************************************)

VARIABLES call,  \* call[t]: <<name, side, argument>>, or <<>> between the calls
          loc    \* loc[t]: a record of locals with the label pc

Idle == [pc |-> "idle"]

At(t, label) == loc[t].pc = label

\* t goes on at the label of frame and has set the other locals of it.
Updated(old, frame) ==
  [x \in DOMAIN frame \union DOMAIN old |-> IF x \in DOMAIN frame THEN frame[x] ELSE old[x]]
Go(t, frame) == loc' = [loc EXCEPT ![t] = Updated(@, frame)]

\* The result of the call of t, once it has taken effect.
Result(t, pending) == IF "value" \in DOMAIN loc[t] THEN loc[t].value ELSE pending

\* The call of t returns the value v.
Returns(t, v) == Go(t, [pc |-> "return", value |-> v])

Enter(t, c, label) ==
  /\ call' = [call EXCEPT ![t] = c]
  /\ loc' = [loc EXCEPT ![t] = [pc |-> label]]

Leave(t) ==
  /\ At(t, "return")
  /\ call' = [call EXCEPT ![t] = <<>>]
  /\ loc' = [loc EXCEPT ![t] = Idle]
=============================================================================
