----------------------------- MODULE MCShardedMemo -----------------------------
(* Five keys: three compete for the two entries of one shard, one has a shard  *)
(* of its own, one fails.                                                      *)
EXTENDS ShardedMemo, TLC

CONSTANTS p, q, r, k1, k2, k3, k4, k5

MCShardOf == [k \in Keys |-> IF k = k4 THEN 2 ELSE 1]
MCValue(k) == <<"value", k>>

Symmetry == Permutations(Callers)

=============================================================================
