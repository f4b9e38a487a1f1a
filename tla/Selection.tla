------------------------------ MODULE Selection ------------------------------
(* What a loop over a sequence keeps that passes over what it does not want. *)
EXTENDS Integers, Sequences

\* The entries of s that are in S, in their order: SelectSeq, with a set for the
\* test, and as a recursive function, which proofs can be about.
Select(s, S) ==
  LET R[n \in Nat] == IF n = 0 THEN <<>>
                      ELSE IF s[n] \in S THEN Append(R[n - 1], s[n])
                      ELSE R[n - 1]
  IN  R[Len(s)]
=============================================================================
