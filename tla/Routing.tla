------------------------------ MODULE Routing ------------------------------
(***************************************************************************)
(* What routing promises, whatever the tables of the nodes hold and        *)
(* however they change: a packet enters at its origin, and each hop takes  *)
(* it to a node strictly better for its target, or loses it.  Packets that *)
(* agree in all of this count as one.                                      *)
(***************************************************************************)
EXTENDS NodeIds

CONSTANTS
  Nodes,    \* where packets can be
  Targets   \* where they can be bound for

VARIABLE packets

Packet == [target : Targets, origin : Nodes, at : Nodes]

Init == packets = {}

Enter(n, t) == packets' = packets \cup {[target |-> t, origin |-> n, at |-> n]}

\* p moves to n; another packet like p may stay.
Hop(p, n) ==
  /\ p \in packets /\ IsBetter(n, p.at, p.target)
  /\ packets' \in {Q \cup {[p EXCEPT !.at = n]} : Q \in {packets, packets \ {p}}}

\* Packets that have arrived or are lost.
Leave == packets' \subseteq packets

Next == Leave \/ \E n \in Nodes : (\E t \in Targets : Enter(n, t)) \/ \E p \in packets : Hop(p, n)

Spec == Init /\ [][Next]_packets

\* A packet is where it entered or strictly nearer: since IsBetter is a strict
\* order, it never comes back to a node it left.
GetsNearer ==
  \A p \in packets : p \in Packet /\ (p.at = p.origin \/ IsBetter(p.at, p.origin, p.target))
=============================================================================
