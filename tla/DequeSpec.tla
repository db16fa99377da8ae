----------------------------- MODULE DequeSpec ------------------------------
(***************************************************************************)
(* What a concurrent deque of the repository promises: each call of        *)
(* push_front, push_back, pop_front or pop_back takes effect at one        *)
(* instant between its invocation and its return.  A pop returns the       *)
(* element at its end, or -1 when there is none.  The elements are the     *)
(* nodes that hold the data, so they all differ.  With Menu the push of    *)
(* one end and the pop of the other it is a queue, with both of one end a  *)
(* stack.                                                                  *)
(***************************************************************************)
EXTENDS Naturals, Sequences

CONSTANTS Thread,  \* the workers
          Share,   \* how many calls each worker may make (n_ops / threadcnt)
          Menu,    \* the operations they use, as <<name, side>>
          Elem,    \* what can be pushed
          Prefill, \* how many elements the deque may hold at the start
          Void,    \* the result of a push
          Empty,   \* the result -1 of a pop
          Pending  \* the result of a call that has not taken effect

VARIABLES items,   \* the deque, from left to right
          call,    \* call[t]: the call t is making, or <<>>
          result,  \* result[t]: what it is going to return
          left     \* left[t]: the calls t has still to finish

vars == <<items, call, result, left>>

\* Elements 1 .. k have been pushed at the right before the workers start.
Init ==
  /\ \E k \in Prefill : items = [i \in 1 .. k |-> i]
  /\ call = [t \in Thread |-> <<>>]
  /\ result = [t \in Thread |-> Pending]
  /\ left \in Share

\* The sequence q with e pushed at side s, with the element there popped, and
\* that element.
Pushed(q, s, e) == IF s = "L" THEN <<e>> \o q ELSE Append(q, e)
Popped(q, s) == IF s = "L" THEN SubSeq(q, 2, Len(q)) ELSE SubSeq(q, 1, Len(q) - 1)
End(q, s) == IF s = "L" THEN q[1] ELSE q[Len(q)]

Invoke(t, m, e) ==
  /\ left[t] > 0
  /\ call[t] = <<>>
  /\ call' = [call EXCEPT ![t] = <<m[1], m[2], e>>]
  /\ UNCHANGED <<items, result, left>>

\* The call of t has begun and not taken effect.
Begun(t, name) == call[t] # <<>> /\ call[t][1] = name /\ result[t] = Pending

Push(t) ==
  /\ Begun(t, "push")
  /\ items' = Pushed(items, call[t][2], call[t][3])
  /\ result' = [result EXCEPT ![t] = Void]
  /\ UNCHANGED <<call, left>>

Pop(t) ==
  /\ Begun(t, "pop")
  /\ items # <<>>
  /\ items' = Popped(items, call[t][2])
  /\ result' = [result EXCEPT ![t] = End(items, call[t][2])]
  /\ UNCHANGED <<call, left>>

PopEmpty(t) ==
  /\ Begun(t, "pop")
  /\ items = <<>>
  /\ result' = [result EXCEPT ![t] = Empty]
  /\ UNCHANGED <<items, call, left>>

Return(t) ==
  /\ result[t] # Pending
  /\ call' = [call EXCEPT ![t] = <<>>]
  /\ result' = [result EXCEPT ![t] = Pending]
  /\ left' = [left EXCEPT ![t] = @ - 1]
  /\ UNCHANGED items

Next ==
  \E t \in Thread :
    \/ \E m \in Menu, e \in Elem : Invoke(t, m, e)
    \/ Push(t)
    \/ Pop(t)
    \/ PopEmpty(t)
    \/ Return(t)

Spec == Init /\ [][Next]_vars
=============================================================================
