------------------------------- MODULE MCCache -------------------------------
(* Cache for TLC: small, large and oversize messages, one that may be cached *)
(* only with a fixed TTL, and ones that may never be.                        *)
EXTENDS Cache, TLC

Message(size, ttl, rcode, ip, soa, truncated) ==
  [size |-> size, ttl |-> ttl, rcode |-> rcode, ip |-> ip, soa |-> soa,
   truncated |-> truncated]
MCMessages == {Message(1, 2, "success", TRUE, FALSE, FALSE),
               Message(2, 0, "nxdomain", FALSE, TRUE, FALSE),
               Message(4, 1, "servfail", FALSE, FALSE, FALSE),
               Message(1, NoRecord, "servfail", FALSE, FALSE, FALSE),
               Message(1, 2, "success", FALSE, FALSE, FALSE),
               Message(1, 2, "nxdomain", TRUE, FALSE, FALSE),
               Message(1, 2, "success", TRUE, FALSE, TRUE)}
Symmetry == Permutations(Keys)
=============================================================================
