----------------------------- MODULE MCServing ------------------------------
(* Serving for TLC: one name, and every request a client can make of it with *)
(* at most one subnet.                                                       *)
EXTENDS Serving, FiniteSets

MCKeys == Questions
MCRequests == {m \in Messages : Cardinality(m.opt.subnets) <= 1}
\* A request that was stripped.
MCLeftovers == {[name |-> n, opt |-> NoOPT] : n \in Names}
=============================================================================
