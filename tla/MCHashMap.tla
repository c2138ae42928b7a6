----------------------------- MODULE MCHashMap -----------------------------
(* A small instance of HashMap: colliding keys whose run of buckets wraps
   round the end of the table, with the sizes of the code scaled down. *)
EXTENDS HashIter, TLC

CONSTANTS k1, k2, k3, k4, v1, v2

MCKey == {k1, k2, k3, k4}
MCVal == {v1, v2}
\* k1 and k2 collide at every size, in the last bucket, and push k4 along.
Collide == k1 :> 7 @@ k2 :> 15 @@ k3 :> 3 @@ k4 :> 0
============================================================================
