------------------------- MODULE MCRedisRateLimiter --------------------------
(***************************************************************************)
(* Instances of RedisRateLimiter for TLC.                                   *)
(***************************************************************************)
EXTENDS RedisRateLimiter, TLC

\* Nothing chooses between requests, replicas or clients by name.
Symmetry == Permutations(Request) \cup Permutations(Replica) \cup Permutations(Key)
=============================================================================
