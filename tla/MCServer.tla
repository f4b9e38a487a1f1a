------------------------------ MODULE MCServer ------------------------------
(* Model values for checking module Server with TLC. *)
EXTENDS Server, TLC

CONSTANTS c1, c2, c3, p1, p2, p3

MCSymmetry == Permutations(Clients) \cup Permutations(Pids)
=============================================================================
