---------------------------- MODULE MCScheduler ----------------------------
(* Scheduler for TLC: provider A has two modes, provider B one. *)
EXTENDS Scheduler, TLC

CONSTANTS A, B, a1, a2, b1

MCProviders == {A, B}
MCKeys == {a1, a2, b1}
MCProviderOf == (a1 :> A) @@ (a2 :> A) @@ (b1 :> B)
\* One provider with two modes, for the liveness properties.
MCFewKeys == {a1, a2}
MCFewProviderOf == (a1 :> A) @@ (a2 :> A)
MCDelays == {0, ProbeTimeout, CloseDelay}

Symmetry == Permutations(Ids) \cup Permutations(Requests)
=============================================================================
