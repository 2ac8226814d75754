--------------------------- MODULE MCNeighbourSet ---------------------------
(***************************************************************************)
(* A set that holds two of the three other nodes.                          *)
(***************************************************************************)
EXTENDS NeighbourSet

n000 == <<0, 0, 0>>
n001 == <<0, 0, 1>>
n010 == <<0, 1, 0>>
n011 == <<0, 1, 1>>

Four == {n000, n001, n010, n011}
ThreeTimes == 1 .. 3

\* Seen from n000, n001 and n010 are equally near.
Usual == [n \in Nodes |-> [x \in Nodes |-> IF x \in {n001, n010} THEN 1 ELSE 2]]
=============================================================================
