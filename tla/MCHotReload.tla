---------------------------- MODULE MCHotReload ----------------------------
(* HotReload for TLC. *)
EXTENDS HotReload

\* Every configuration sets the same timeout, or is invalid.
MCTimeouts == {1}
\* A reload that may shrink the timeout threefold.
MCShrinking == {1, 3}
=============================================================================
