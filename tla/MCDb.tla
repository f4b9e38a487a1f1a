-------------------------------- MODULE MCDb --------------------------------
(* Model values for checking module Db with TLC. *)
EXTENDS Db

CONSTANTS s1, s2, s3, k1, k2, t1, t2
=============================================================================
