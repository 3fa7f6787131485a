------------------------- MODULE MCCachingUpstream --------------------------
(* CachingUpstream for TLC: three calls for the same key, which the cache    *)
(* may evict at any moment.                                                  *)
EXTENDS CachingUpstream, TLC
=============================================================================
