------------------------------ MODULE MCHashmap ------------------------------
(* Four keys in two buckets: two with the same hash, one with another hash in  *)
(* the same bucket, and one with a bucket of its own, whatever the salt.       *)
EXTENDS Hashmap, Sorting, TLC

CONSTANTS k1, k2, k3, k4

MCHash == (k1 :> 4) @@ (k2 :> 4) @@ (k3 :> 2) @@ (k4 :> 3)
MCElements == 1 .. 3
MCNodes == 1 .. 4
MCInitialMax == {1, 2}
=============================================================================
