------------------------------ MODULE MCOverlay ------------------------------
(***************************************************************************)
(* Overlays of a few processes for TLC.  With Base = 4 and Rows = 3 a half *)
(* of a leaf set holds two nodes and a neighbour set four.                 *)
(***************************************************************************)
EXTENDS OverlayProperties, TLC

\* No two of these share Rows - 1 digits.
n021 == <<0, 2, 1>>
n103 == <<1, 0, 3>>
n120 == <<1, 2, 0>>
n132 == <<1, 3, 2>>
n211 == <<2, 1, 1>>
n333 == <<3, 3, 3>>
\* These share two digits with n120.
n122 == <<1, 2, 2>>
n123 == <<1, 2, 3>>

Three == {n103, n120, n211}
Four == {n103, n120, n132, n211}
Five == {n103, n120, n132, n211, n333}
SameSlot == {n021, n103, n120}
Dense == {n120, n122, n123}

\* Ping times: every process is as far from the others as their places in this
\* list are apart.
Places == <<n021, n103, n120, n122, n123, n132, n211, n333>>
Place(n) == CHOOSE i \in DOMAIN Places : Places[i] = n
Line == [n \in Nodes |-> [x \in Nodes |-> Distance(Place(n), Place(x))]]

\* Everyone joins through n120, which founds the overlay.
OneBuddy == [n \in Nodes |-> IF n = n120 THEN {} ELSE {n120}]
\* n132 may also join through n211.
TwoBuddies == [OneBuddy EXCEPT ![n132] = {n120, n211}]

Nobody == {}
Everyone == Nodes
Only103 == {n103}
Only120 == {n120}
Only211 == {n211}
=============================================================================
