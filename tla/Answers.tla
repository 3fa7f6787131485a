------------------------------- MODULE Answers -------------------------------
(***************************************************************************)
(* What the service promises a client, with nothing of how it is kept: the *)
(* client gets at most one answer, and it is the answer to a question that *)
(* this client may ask and that was really put to an upstream; upstreams   *)
(* are asked nothing else.  Caching, sharing one query among clients and   *)
(* refreshing in the background are all allowed by this.                   *)
(***************************************************************************)
CONSTANTS Clients, Questions

VARIABLES allowed,   \* client -> the questions that may be put for it
          asked,     \* the questions that have been put to an upstream
          state,     \* client -> how far its request is
          answer     \* client -> {the question its answer is for}, {} before

vars == <<allowed, asked, state, answer>>

Init ==
  /\ allowed \in [Clients -> SUBSET Questions]
  /\ asked = {}
  /\ state = [c \in Clients |-> "waiting"]
  /\ answer = [c \in Clients |-> {}]

Ask(c) ==
  /\ state[c] # "diverted"
  /\ \E q \in allowed[c] : asked' = asked \cup {q}
  /\ UNCHANGED <<allowed, state, answer>>

Reply(c) ==
  /\ state[c] = "waiting"
  /\ state' = [state EXCEPT ![c] = "answered"]
  /\ \E q \in asked \cap allowed[c] : answer' = [answer EXCEPT ![c] = {q}]
  /\ UNCHANGED <<allowed, asked>>

Fail(c) ==
  /\ state[c] = "waiting"
  /\ state' = [state EXCEPT ![c] = "failed"]
  /\ UNCHANGED <<allowed, asked, answer>>

\* Without a selection the request is left to the placeholder upstream.
Divert(c) ==
  /\ state[c] = "waiting"
  /\ state' = [state EXCEPT ![c] = "diverted"]
  /\ UNCHANGED <<allowed, asked, answer>>

Next == \E c \in Clients : Ask(c) \/ Reply(c) \/ Fail(c) \/ Divert(c)

Spec == Init /\ [][Next]_vars
=============================================================================
