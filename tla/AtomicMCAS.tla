----------------------------- MODULE AtomicMCAS -----------------------------
(***************************************************************************)
(* What mcas/mcas.h promises its callers: a call compares all its words    *)
(* and stores all of them at one instant between its invocation and its    *)
(* return, or finds at one such instant that a word is not as expected and *)
(* stores nothing.  Its return value tells which.                          *)
(***************************************************************************)
EXTENDS Naturals, Sequences

CONSTANTS Thread,   \* the callers
          Addr,     \* the shared words
          Val,      \* what a word can hold
          MaxWords  \* the longest call: 4 in mcas.h (qcas)

VARIABLES mem,     \* the shared words
          args,    \* args[t]: the words of the call t is making, or <<>>
          status   \* status[t]: "idle", "called", "true" or "false"

vars == <<mem, args, status>>

\* Every call with at most MaxWords words, at pairwise different addresses.
Calls ==
  {w \in UNION {[1 .. k -> [addr : Addr, old : Val, new : Val]] : k \in 1 .. MaxWords} :
     \A i, j \in DOMAIN w : w[i].addr = w[j].addr => i = j}

Init ==
  /\ mem \in [Addr -> Val]
  /\ args = [t \in Thread |-> <<>>]
  /\ status = [t \in Thread |-> "idle"]

Invoke(t, w) ==
  /\ status[t] = "idle"
  /\ args' = [args EXCEPT ![t] = w]
  /\ status' = [status EXCEPT ![t] = "called"]
  /\ UNCHANGED mem

\* All the words are as expected: store them all, return true.
Exchange(t) ==
  /\ status[t] = "called"
  /\ \A i \in DOMAIN args[t] : mem[args[t][i].addr] = args[t][i].old
  /\ mem' = [a \in Addr |->
               IF \E i \in DOMAIN args[t] : args[t][i].addr = a
                 THEN args[t][CHOOSE i \in DOMAIN args[t] : args[t][i].addr = a].new
                 ELSE mem[a]]
  /\ status' = [status EXCEPT ![t] = "true"]
  /\ UNCHANGED args

\* Some word is not as expected: store nothing, return false.
Reject(t) ==
  /\ status[t] = "called"
  /\ \E i \in DOMAIN args[t] : mem[args[t][i].addr] # args[t][i].old
  /\ status' = [status EXCEPT ![t] = "false"]
  /\ UNCHANGED <<mem, args>>

Return(t) ==
  /\ status[t] \in {"true", "false"}
  /\ args' = [args EXCEPT ![t] = <<>>]
  /\ status' = [status EXCEPT ![t] = "idle"]
  /\ UNCHANGED mem

Next ==
  \E t \in Thread :
    \/ \E w \in Calls : Invoke(t, w)
    \/ Exchange(t)
    \/ Reject(t)
    \/ Return(t)

Spec == Init /\ [][Next]_vars
=============================================================================
