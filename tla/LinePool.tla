------------------------------ MODULE LinePool ------------------------------
(***************************************************************************)
(* What the scheduler promises to the requests that use its lines, with    *)
(* nothing of how it keeps the promise: a line (an upstream connection     *)
(* object) is opened, lent to requests and closed; it is never closed      *)
(* under a request that uses it, unless the pool was halted without a      *)
(* drain (Stop, or Retire with too short a delay).                         *)
(***************************************************************************)
EXTENDS FiniteSets

CONSTANTS Requests, Ids

VARIABLES open,     \* the lines that are open
          held,     \* request -> the lines it uses, {} when it uses none
          halted    \* the pool was stopped without waiting for requests

vars == <<open, held, halted>>

InUse == UNION {held[r] : r \in Requests}

Init == open = {} /\ held = [r \in Requests |-> {}] /\ halted = FALSE

\* New connection objects are neither open nor still referenced by a request.
OpenLines ==
  /\ \E S \in SUBSET (Ids \ (open \cup InUse)) : open' = open \cup S
  /\ UNCHANGED <<held, halted>>

CloseLines ==
  /\ \E S \in SUBSET open :
        /\ halted \/ S \cap InUse = {}
        /\ open' = open \ S
  /\ UNCHANGED <<held, halted>>

Acquire(r) ==
  /\ held[r] = {}
  /\ \E S \in SUBSET Ids :
        /\ S # {}
        /\ halted \/ S \subseteq open
        /\ held' = [held EXCEPT ![r] = S]
  /\ UNCHANGED <<open, halted>>

Release(r) ==
  /\ held' = [held EXCEPT ![r] = {}]
  /\ UNCHANGED <<open, halted>>

Halt ==
  /\ halted' = TRUE
  /\ \E S \in SUBSET open : open' = open \ S
  /\ UNCHANGED held

Next ==
  \/ OpenLines
  \/ CloseLines
  \/ Halt
  \/ \E r \in Requests : Acquire(r) \/ Release(r)

Spec == Init /\ [][Next]_vars
=============================================================================
