------------------------------ MODULE MCRacing ------------------------------
(* Racing for TLC: two members of equal or different weight, two calls. *)
EXTENDS Racing, TLC

Symmetry == Permutations(Calls) \cup Permutations(Members)
=============================================================================
