-------------------------- MODULE MCRiverHierarchy --------------------------
(* Five reaches, three sample points each, a confluence or a chain; a load   *)
(* with a cycle and one whose order falls downstream are refused.            *)
EXTENDS RiverHierarchy, TLC

CONSTANTS gapped, upper, lower, d1, d2

near == <<0, 0, 0>>
far == <<9, 9, 9>>
MCDistanceOf ==
    gapped :> <<near, far, near, far, near>>
    @@ upper :> <<far, <<9, 9, 1>>, near, <<0, 1, 1>>, <<1, 1, 1>>>>
    @@ lower :> <<<<1, 1, 2>>, <<2, 0, 0>>, far, <<2, 1, 0>>, far>>

Network(flows, order) == [r \in 1..5 |-> [flows |-> flows[r], order |-> order[r]]]
confluence == Network(<<Null, 1, 2, 2, 4>>, <<2, 2, 1, 1, 1>>)
line == Network(<<Null, 1, 2, 3, 4>>, <<3, 2, 2, 1, 1>>)
looped == Network(<<Null, 3, 2, 3, 4>>, <<1, 1, 1, 1, 1>>)
falling == Network(<<Null, 1, 2, 2, 4>>, <<1, 2, 1, 1, 1>>)

Ways(courses, names) == [w \in 1..Len(courses) |-> [course |-> courses[w], name |-> names[w]]]
OneName == Ways(<<gapped, lower>>, <<1, 1>>)
TwoNames == Ways(<<lower, upper>>, <<2, 1>>)
MCNetworks ==
    {[reach |-> n, way |-> OneName] : n \in {confluence, line, looped, falling}}
      \cup {[reach |-> confluence, way |-> TwoNames]}
MCBaseline == [reaches |-> 3, names |-> 1, rivers |-> 1]
MCSymmetry == Permutations(Draft)
=============================================================================
