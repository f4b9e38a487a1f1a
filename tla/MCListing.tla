------------------------------ MODULE MCListing ------------------------------
(* Names over three letters, so that nodes have low and high children. *)
EXTENDS Listing

a == 97
b == 98
c == 99
MCNames == {<<b>>, <<a>>, <<c>>, <<b, a>>, <<b, c>>, <<b, a, c>>}
MCNodes == 1 .. 6
=============================================================================
