------------------------------ MODULE MCSession ------------------------------
(* Model values for checking module Session with TLC. *)
EXTENDS Session

CONSTANTS b1, b2, b3

\* A name and two that extend it.
a   == <<1>>
ab  == <<1, 2>>
abc == <<1, 2, 3>>

MCKeys1 == {a}
MCKeys2 == {a, ab}
MCKeys3 == {a, ab, abc}
MCSamplePair == {3, 1}
MCSample == {302}
MCSamples == {302, -1}      \* 1.00666..., -0.00333...
MCSamplesHalf == {301, -1, 200}  \* with Grid = 2: 1.505 and -0.005, ties, and 1.00
MCText == [sum |-> 300, sumsq |-> 90000, n |-> 1, min |-> 300, max |-> 300]
MCOtherStores1 == {<<a, MCText>>}
MCSmallText == [sum |-> 3, sumsq |-> 0, n |-> 1, min |-> 3, max |-> 3]  \* 0.01, once
MCOtherStores3 == {<<abc, MCSmallText>>}
MCJunk == {[sum |-> 7, sumsq |-> 0, n |-> 0, min |-> 0, max |-> 0]}
MCGarbage == {3001}
MCSymmetry == Permutations({b1, b2, b3})
=============================================================================
