--------------------------- MODULE MCGraphEngine ---------------------------
(* Instances of GraphEngine for TLC.                                        *)
EXTENDS GraphEngine, TLC
CONSTANTS n0, n1, n2, n3, n4, n5, n6, r0, b1, b2, b3, b4, b5, b6, p1, p2, p3

\* A parallel of two branches, the first of which contains another one, and a
\* node where the outer branches join.
MCNodes      == {n0, n1, n2, n3, n4, n5}
MCParallels  == {p1, p2}
MCRunners    == {r0, b1, b2, b3, b4}
MCRoute      == (r0 :> <<n0, p1, n5>>) @@ (b1 :> <<n1, p2>>) @@ (b2 :> <<n2>>)
                @@ (b3 :> <<n3>>) @@ (b4 :> <<n4>>)
MCParallelOf == (b1 :> p1) @@ (b2 :> p1) @@ (b3 :> p2) @@ (b4 :> p2)
MCMayEnd     == {n1, p1}
MCHandled    == {n1}
MCLimits     == {[steps |-> 1, submit |-> 9], [steps |-> 9, submit |-> 2],
                 [steps |-> 9, submit |-> 9]}

\* Both outer branches contain another parallel.
MCTwiceNodes      == {n0, n1, n2, n3, n4, n5, n6}
MCTwiceParallels  == {p1, p2, p3}
MCTwiceRunners    == {r0, b1, b2, b3, b4, b5, b6}
MCTwiceRoute      == (r0 :> <<n0, p1>>) @@ (b1 :> <<n1, p2>>) @@ (b2 :> <<n2, p3>>)
                     @@ (b3 :> <<n3>>) @@ (b4 :> <<n4>>)
                     @@ (b5 :> <<n5>>) @@ (b6 :> <<n6>>)
MCTwiceParallelOf == (b1 :> p1) @@ (b2 :> p1) @@ (b3 :> p2) @@ (b4 :> p2)
                     @@ (b5 :> p3) @@ (b6 :> p3)
MCNoLimits        == {[steps |-> 9, submit |-> 9]}
MCNone            == {}
=============================================================================
