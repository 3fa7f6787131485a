---------------------------- MODULE MCResolution ----------------------------
(* Resolution for TLC: one host that is pinned to an address of each family, *)
(* and one that DNS renumbers.                                               *)
EXTENDS Resolution, TLC

CONSTANTS pinned, moving, a4, a6

MCFamilyOf == (a4 :> "ipv4") @@ (a6 :> "ipv6")
MCStatic == (pinned :> {a4, a6}) @@ (moving :> {})
=============================================================================
