-------------------------- MODULE ClientDatabase --------------------------
(***************************************************************************)
(* The routing state of one process and the operations on it               *)
(* (pastryClient/clientDatabase.cpp).  The singleton ClientDatabase of     *)
(* process n is a record D:                                                *)
(*    left, right  the two halves of leafSet, sets of NodeIDs              *)
(*    neighbours   neighbourSet                                            *)
(*    table        routingTable, Rows rows of Base entries                 *)
(*    received     recieved_update_count                                   *)
(*    total        total_route_length                                      *)
(* Every add takes the set of nodes a handler adds in one loop: the sets   *)
(* keep the best members whatever the order, so only the choice between    *)
(* equally near entries of one table slot depends on it.                   *)
(***************************************************************************)
EXTENDS NodeIds, FiniteSets

CONSTANTS
  Nodes,      \* the NodeIDs of the processes that ever run
  Proximity,  \* Proximity[n][x]: the ping time n measures for x
  None        \* the null entry of a routing table

ASSUME NodesAssumption == IsFiniteSet(Nodes) /\ Nodes \subseteq NodeId
ASSUME ProximityAssumption == Proximity \in [Nodes -> [Nodes -> Nat]]
ASSUME NoneAssumption == None \notin NodeId

Row == 0 .. Rows - 1
Entry == Nodes \cup {None}

LeafCap == Base \div 2      \* this->col / 2
NeighbourCap == Base        \* this->col

Database == [left : SUBSET Nodes, right : SUBSET Nodes, neighbours : SUBSET Nodes,
             table : [Row -> [Digit -> Entry]], received : Nat, total : Nat]

EmptyDatabase ==
  [left |-> {}, right |-> {}, neighbours |-> {},
   table |-> [p \in Row |-> [d \in Digit |-> None]],
   received |-> 0, total |-> Rows]

RowEntries(D, p) == {D.table[p][d] : d \in Digit} \ {None}
TableEntries(D) == UNION {RowEntries(D, p) : p \in Row}
Leaves(D) == D.left \cup D.right
Known(D) == Leaves(D) \cup D.neighbours \cup TableEntries(D)
-----------------------------------------------------------------------------
\* addToLeafSet: smaller ids go left, the others right; a side that outgrows
\* its capacity drops the member farthest from n.
LargestLeaves(T) == {x \in T : Cardinality({y \in T : IdLess(x, y)}) < LeafCap}
SmallestLeaves(T) == {x \in T : Cardinality({y \in T : IdLess(y, x)}) < LeafCap}

\* Mutant: the left half drops its member nearest to n (erases rbegin).
LeftWith_DropsNearest(n, left, S) == SmallestLeaves(left \cup {x \in S : IdLess(x, n)})
\* Mutant: no side test.
LeftWith_AnySide(n, left, S) == LargestLeaves(left \cup (S \ {n}))

LeftWith(n, left, S) == LargestLeaves(left \cup {x \in S : IdLess(x, n)})
RightWith(n, right, S) == SmallestLeaves(right \cup {x \in S : IdLess(n, x)})

\* neighbourComparator: nearer first, then the smaller id.
NearerNeighbour(n, x, y) ==
  \/ Proximity[n][x] < Proximity[n][y]
  \/ Proximity[n][x] = Proximity[n][y] /\ IdLess(x, y)

\* addToNeighhbourSet: the set keeps the NeighbourCap nearest nodes.
NearestNeighbours(n, T) ==
  {x \in T : Cardinality({y \in T : NearerNeighbour(n, y, x)}) < NeighbourCap}

NeighboursWith(n, neighbours, S) == NearestNeighbours(n, neighbours \cup (S \ {n}))

\* addToRoutingTable: the slot of x is row prefixMatchLen, column the digit
\* of x that follows the shared prefix.
\* Mutant: the column is the digit of n.
Slot_OwnDigit(n, x) == <<PrefixMatchLen(n, x), n[PrefixMatchLen(n, x) + 1]>>
Slot(n, x) == <<PrefixMatchLen(n, x), x[PrefixMatchLen(n, x) + 1]>>

\* The entry a slot holds after the nodes C are offered to it in turn: an
\* offer replaces the entry only if it is strictly nearer.
SlotAfter(n, old, C) ==
  IF C = {} \/ (old # None /\ \A x \in C : Proximity[n][old] <= Proximity[n][x])
  THEN old
  ELSE CHOOSE x \in C : \A y \in C \ {x} : NearerNeighbour(n, x, y)

TableWith(n, table, S) ==
  [p \in Row |-> [d \in Digit |->
     SlotAfter(n, table[p][d], {x \in S \ {n} : Slot(n, x) = <<p, d>>})]]

AddToLeafSet(n, D, S) ==
  [D EXCEPT !.left = LeftWith(n, @, S), !.right = RightWith(n, @, S)]
AddToNeighbourSet(n, D, S) == [D EXCEPT !.neighbours = NeighboursWith(n, @, S)]
AddToRoutingTable(n, D, S) == [D EXCEPT !.table = TableWith(n, @, S)]

UpdateAllState(n, D, S) ==
  [D EXCEPT !.left = LeftWith(n, @, S), !.right = RightWith(n, @, S),
            !.neighbours = NeighboursWith(n, @, S), !.table = TableWith(n, @, S)]
-----------------------------------------------------------------------------
\* deleteFromRoutingTable: the entry is cleared by position, whichever node the
\* slot holds.
ClearSlot(table, s) == [table EXCEPT ![s[1]][s[2]] = None]

\* deleteFromLeafSet, deleteFromNeighhbourSet and deleteFromRoutingTable as
\* handleLazyUpdates calls them.
DeleteNode(n, D, x) ==
  [D EXCEPT !.left = @ \ {x}, !.right = @ \ {x}, !.neighbours = @ \ {x},
            !.table = ClearSlot(@, Slot(n, x))]
-----------------------------------------------------------------------------
\* The range test of getNextRoutingNode.  `right_most_leaf' is read from
\* right_leafSet.begin(): the nearest right leaf, not the farthest.
InLeafRange(n, D, t) ==
  /\ Leaves(D) # {}
  /\ \E x \in D.left \cup {n} : IdLeq(x, t)
  /\ IF D.right = {} THEN IdLeq(t, n) ELSE \A x \in D.right : IdLeq(t, x)

\* Mutant: the scan does not start from the listener.
ScanResults_WithoutSelf(n, C, t) ==
  IF C = {} THEN {n} ELSE {x \in C : \A y \in C : ~ IsBetter(y, x, t)}

\* The scans of getNextRoutingNode: start from the listener and keep whatever
\* is_better_node prefers.  The relation leaves ties, so which undominated
\* candidate survives depends on the iteration order, left open here; the
\* listener itself survives only if nothing beats it.
ScanResults(n, C, t) ==
  LET better == {x \in C : IsBetter(x, n, t)}
  IN  IF better = {} THEN {n}
      ELSE {x \in better : \A y \in better : ~ IsBetter(y, x, t)}

\* getNextRoutingNode(t) at n, for t that differs from n: the leaf set if t is
\* in its range, else the table entry for t's next digit, else the best of
\* all known nodes.
NextRoutingNodes(n, D, t) ==
  LET p == PrefixMatchLen(t, n)
  IN  IF InLeafRange(n, D, t) THEN ScanResults(n, Leaves(D), t)
      ELSE IF D.table[p][t[p + 1]] # None THEN {D.table[p][t[p + 1]]}
      ELSE ScanResults(n, Known(D), t)
-----------------------------------------------------------------------------
\* The tables of n hold what their places say: an entry of row p shares exactly
\* p digits with n and continues with the digit of its column (README.md:11), a
\* leaf is on its side of n, and n is not its own neighbour.
PlacedTable(n, table) ==
  \A p \in Row, d \in Digit :
    LET x == table[p][d]
    IN  x # None => SamePrefix(n, x, p) /\ x[p + 1] = d /\ n[p + 1] # d

Placed(n, D) ==
  /\ \A x \in D.left : IdLess(x, n)
  /\ \A x \in D.right : IdLess(n, x)
  /\ n \notin D.neighbours
  /\ PlacedTable(n, D.table)
=============================================================================
