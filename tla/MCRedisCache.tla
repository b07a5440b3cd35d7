---------------------------- MODULE MCRedisCache ----------------------------
(***************************************************************************)
(* Two calls on one instance; the other instance writes and deletes too,   *)
(* one key or both at once.                                                *)
(***************************************************************************)
EXTENDS RedisCache, TLC

CONSTANTS p1, p2, c1, c2, k1, k2

MCPod == (c1 :> p1) @@ (c2 :> p1)

MCBatches == (p1 :> {{k1}}) @@ (p2 :> {{k1}, {k1, k2}})

\* The two calls are alike.
Twins == Permutations({c1, c2})
=============================================================================
