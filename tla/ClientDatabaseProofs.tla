------------------------ MODULE ClientDatabaseProofs ------------------------
(***************************************************************************)
(* Facts about the operations of ClientDatabase, for all its constants:    *)
(* each keeps the tables typed and placed, and getNextRoutingNode never    *)
(* routes to a node that is no better than the listener.  At the end, that *)
(* nodes may be added one by one or all at once.                           *)
(***************************************************************************)
EXTENDS ClientDatabase, NodeIdsProofs, FiniteSetTheorems

\* A nonempty finite set has a least member under a strict total order, given
\* as a set of pairs: one with the fewest predecessors.
LEMMA FiniteLeast ==
  ASSUME NEW C, IsFiniteSet(C), C # {}, NEW R,
         \A x \in C : <<x, x>> \notin R,
         \A x, y, z \in C : <<x, y>> \in R /\ <<y, z>> \in R => <<x, z>> \in R,
         \A x, y \in C : x = y \/ <<x, y>> \in R \/ <<y, x>> \in R
  PROVE  \E x \in C : \A y \in C \ {x} : <<x, y>> \in R
<1>. DEFINE Below(x) == {y \in C : <<y, x>> \in R}
            Counts == {Cardinality(Below(x)) : x \in C}
<1>1. \A x \in C : IsFiniteSet(Below(x)) /\ Cardinality(Below(x)) \in Nat
  BY FS_Subset, FS_CardinalityType
<1>2. PICK x \in C : \A y \in C : Cardinality(Below(x)) <= Cardinality(Below(y))
  <2>. HIDE DEF Below
  <2>1. Counts \in SUBSET Nat /\ Counts # {}
    BY <1>1
  <2>2. \E c \in Counts : \A k \in Counts : c <= k
    <3>. HIDE DEF Counts
    <3>. QED
      BY <2>1, LeastNumber
  <2>3. PICK x \in C : \A k \in Counts : Cardinality(Below(x)) <= k
    BY <2>2
  <2>. QED
    BY <2>3
<1>3. \A y \in C : <<y, x>> \notin R
  <2>. SUFFICES ASSUME NEW y \in C, <<y, x>> \in R PROVE FALSE
    OBVIOUS
  <2>1. Below(y) \in SUBSET Below(x)
    OBVIOUS
  <2>2. y \in Below(x) /\ y \notin Below(y)
    OBVIOUS
  <2>3. Cardinality(Below(y)) <= Cardinality(Below(x)) /\ Cardinality(Below(x)) # Cardinality(Below(y))
    <3>. HIDE DEF Below
    <3>. QED
      BY <1>1, <1>2, <2>1, <2>2, FS_Subset
  <2>. QED
    <3>. HIDE DEF Below
    <3>. QED
      BY <1>1, <1>2, <2>3
<1>. QED
  BY <1>2, <1>3

LEMMA IdLessTransitive ==
  ASSUME NEW x \in NodeId, NEW y \in NodeId, NEW z \in NodeId,
         IdLess(x, y), IdLess(y, z)
  PROVE  IdLess(x, z)
<1>. DEFINE p == PrefixMatchLen(x, y)
            q == PrefixMatchLen(y, z)
<1>1. p \in 0 .. Rows /\ p < Rows /\ SamePrefix(x, y, p) /\ x[p + 1] < y[p + 1]
  BY PrefixMatch DEF IdLess
<1>2. q \in 0 .. Rows /\ q < Rows /\ SamePrefix(y, z, q) /\ y[q + 1] < z[q + 1]
  BY PrefixMatch DEF IdLess
<1>3. \A i \in 1 .. Rows : x[i] \in Nat /\ y[i] \in Nat /\ z[i] \in Nat
  BY DigitIsNat
<1>4. \E k \in 0 .. Rows : k < Rows /\ SamePrefix(x, z, k) /\ x[k + 1] < z[k + 1]
  <2>1. CASE p <= q
    BY <1>1, <1>2, <1>3, <2>1, RowsAssumption DEF SamePrefix
  <2>2. CASE q < p
    BY <1>1, <1>2, <1>3, <2>2, RowsAssumption DEF SamePrefix
  <2>. QED
    BY <1>1, <1>2, <2>1, <2>2
<1>5. PICK k \in 0 .. Rows : k < Rows /\ SamePrefix(x, z, k) /\ x[k + 1] < z[k + 1]
  BY <1>4
<1>6. x[k + 1] # z[k + 1]
  BY <1>3, <1>5, RowsAssumption
<1>7. PrefixMatchLen(x, z) = k
  BY <1>5, <1>6, PrefixUnique
<1>. QED
  BY <1>5, <1>7 DEF IdLess

LEMMA IdLessTotal ==
  ASSUME NEW x \in NodeId, NEW y \in NodeId, x # y
  PROVE  IdLess(x, y) \/ IdLess(y, x)
<1>. DEFINE p == PrefixMatchLen(x, y)
<1>1. p \in 0 .. Rows - 1 /\ PrefixMatchLen(y, x) = p /\ x[p + 1] # y[p + 1]
  BY PrefixOfDifferent, PrefixSymmetric, PrefixMatch, RowsAssumption
<1>2. x[p + 1] \in Nat /\ y[p + 1] \in Nat
  BY <1>1, DigitIsNat, RowsAssumption
<1>. QED
  BY <1>1, <1>2, RowsAssumption DEF IdLess

\* neighbourComparator is a strict total order on the nodes.
LEMMA NearerIrreflexive ==
  ASSUME NEW n \in Nodes, NEW x \in Nodes
  PROVE  ~ NearerNeighbour(n, x, x)
BY NodesAssumption, ProximityAssumption, IdLessIrreflexive DEF NearerNeighbour

LEMMA NearerTransitive ==
  ASSUME NEW n \in Nodes, NEW x \in Nodes, NEW y \in Nodes, NEW z \in Nodes,
         NearerNeighbour(n, x, y), NearerNeighbour(n, y, z)
  PROVE  NearerNeighbour(n, x, z)
<1>1. {x, y, z} \subseteq NodeId /\ \A w \in {x, y, z} : Proximity[n][w] \in Nat
  BY NodesAssumption, ProximityAssumption
<1>. QED
  BY <1>1, IdLessTransitive DEF NearerNeighbour

LEMMA NearerTotal ==
  ASSUME NEW n \in Nodes, NEW x \in Nodes, NEW y \in Nodes, x # y
  PROVE  NearerNeighbour(n, x, y) \/ NearerNeighbour(n, y, x)
<1>1. IdLess(x, y) \/ IdLess(y, x)
  BY NodesAssumption, IdLessTotal
<1>2. Proximity[n][x] \in Nat /\ Proximity[n][y] \in Nat
  BY ProximityAssumption
<1>. QED
  BY <1>1, <1>2 DEF NearerNeighbour

\* Some candidate of a routing table slot comes first: the choice in SlotAfter
\* is a choice of one of them.
LEMMA NearestExists ==
  ASSUME NEW n \in Nodes, NEW C \in SUBSET Nodes, C # {}
  PROVE  \E x \in C : \A y \in C \ {x} : NearerNeighbour(n, x, y)
<1>. DEFINE R == {w \in C \X C : NearerNeighbour(n, w[1], w[2])}
<1>1. IsFiniteSet(C)
  BY NodesAssumption, FS_Subset
<1>2. \A x, y \in C : <<x, y>> \in R <=> NearerNeighbour(n, x, y)
  OBVIOUS
<1>3. \A x \in C : <<x, x>> \notin R
  BY <1>2, NearerIrreflexive
<1>4. \A x, y, z \in C : <<x, y>> \in R /\ <<y, z>> \in R => <<x, z>> \in R
  BY <1>2, NearerTransitive
<1>5. \A x, y \in C : x = y \/ <<x, y>> \in R \/ <<y, x>> \in R
  BY <1>2, NearerTotal
<1>6. \E x \in C : \A y \in C \ {x} : <<x, y>> \in R
  <2>. HIDE DEF R
  <2>. QED
    BY <1>1, <1>3, <1>4, <1>5, FiniteLeast
<1>. QED
  BY <1>2, <1>6

LEMMA SlotAfterMember ==
  ASSUME NEW n \in Nodes, NEW old \in Entry, NEW C \in SUBSET Nodes
  PROVE  SlotAfter(n, old, C) \in {old} \cup C
BY NearestExists DEF SlotAfter
-----------------------------------------------------------------------------
\* A database of the right type whose tables hold what their places say.
GoodDatabase(n, D) == D \in Database /\ Placed(n, D)

LEMMA GoodEmptyDatabase ==
  ASSUME NEW n \in Nodes
  PROVE  GoodDatabase(n, EmptyDatabase)
BY RowsAssumption DEF GoodDatabase, Database, Placed, PlacedTable, EmptyDatabase, Entry

LEMMA LeavesPlaced ==
  ASSUME NEW n \in Nodes, NEW S \in SUBSET Nodes,
         NEW left \in SUBSET Nodes, \A x \in left : IdLess(x, n),
         NEW right \in SUBSET Nodes, \A x \in right : IdLess(n, x)
  PROVE  /\ LeftWith(n, left, S) \in SUBSET Nodes
         /\ RightWith(n, right, S) \in SUBSET Nodes
         /\ \A x \in LeftWith(n, left, S) : IdLess(x, n)
         /\ \A x \in RightWith(n, right, S) : IdLess(n, x)
BY DEF LeftWith, RightWith, LargestLeaves, SmallestLeaves

LEMMA NeighboursPlaced ==
  ASSUME NEW n \in Nodes, NEW S \in SUBSET Nodes,
         NEW neighbours \in SUBSET Nodes, n \notin neighbours
  PROVE  /\ NeighboursWith(n, neighbours, S) \in SUBSET Nodes
         /\ n \notin NeighboursWith(n, neighbours, S)
BY DEF NeighboursWith, NearestNeighbours

\* What addToRoutingTable puts into a slot belongs there.
LEMMA SlotPlaced ==
  ASSUME NEW n \in Nodes, NEW x \in Nodes, x # n
  PROVE  /\ Slot(n, x)[1] \in Row /\ Slot(n, x)[2] \in Digit
         /\ Slot(n, x) \in Row \X Digit
         /\ SamePrefix(n, x, Slot(n, x)[1])
         /\ x[Slot(n, x)[1] + 1] = Slot(n, x)[2] /\ n[Slot(n, x)[1] + 1] # Slot(n, x)[2]
<1>. DEFINE p == PrefixMatchLen(n, x)
<1>1. n \in NodeId /\ x \in NodeId
  BY NodesAssumption
<1>2. p \in 0 .. Rows - 1 /\ SamePrefix(n, x, p) /\ (p < Rows => n[p + 1] # x[p + 1])
  BY <1>1, PrefixOfDifferent, PrefixMatch
<1>3. x[p + 1] \in Digit
  BY <1>1, <1>2, RowsAssumption DEF NodeId
<1>. QED
  BY <1>2, <1>3, RowsAssumption DEF Slot, Row

LEMMA TablePlaced ==
  ASSUME NEW n \in Nodes, NEW S \in SUBSET Nodes,
         NEW table \in [Row -> [Digit -> Entry]], PlacedTable(n, table)
  PROVE  /\ TableWith(n, table, S) \in [Row -> [Digit -> Entry]]
         /\ PlacedTable(n, TableWith(n, table, S))
<1>. DEFINE C(p, d) == {x \in S \ {n} : Slot(n, x) = <<p, d>>}
            T == TableWith(n, table, S)
<1>1. T = [p \in Row |-> [d \in Digit |-> SlotAfter(n, table[p][d], C(p, d))]]
  BY DEF TableWith
<1>2. ASSUME NEW p \in Row, NEW d \in Digit
      PROVE  /\ C(p, d) \in SUBSET Nodes
             /\ \A x \in C(p, d) : SamePrefix(n, x, p) /\ x[p + 1] = d /\ n[p + 1] # d
  BY SlotPlaced
<1>. HIDE DEF C, T
<1>3. ASSUME NEW p \in Row, NEW d \in Digit
      PROVE  T[p][d] \in Entry /\ T[p][d] \in {table[p][d]} \cup C(p, d)
  <2>1. T[p][d] = SlotAfter(n, table[p][d], C(p, d)) /\ table[p][d] \in Entry
    BY <1>1
  <2>2. T[p][d] \in {table[p][d]} \cup C(p, d)
    BY <1>2, <2>1, SlotAfterMember
  <2>. QED
    BY <1>2, <2>1, <2>2 DEF Entry
<1>4. T \in [Row -> [Digit -> Entry]]
  <2>1. \A p \in Row : T[p] = [d \in Digit |-> T[p][d]]
    BY <1>1
  <2>. QED
    BY <1>1, <1>3, <2>1
<1>5. PlacedTable(n, T)
  BY <1>2, <1>3 DEF PlacedTable
<1>. QED
  BY <1>4, <1>5 DEF T

LEMMA GoodUpdateAllState ==
  ASSUME NEW n \in Nodes, NEW D, GoodDatabase(n, D), NEW S \in SUBSET Nodes
  PROVE  GoodDatabase(n, UpdateAllState(n, D, S))
BY LeavesPlaced, NeighboursPlaced, TablePlaced
   DEF GoodDatabase, Database, Placed, UpdateAllState

LEMMA GoodAdds ==
  ASSUME NEW n \in Nodes, NEW D, GoodDatabase(n, D), NEW S \in SUBSET Nodes
  PROVE  /\ GoodDatabase(n, AddToLeafSet(n, D, S))
         /\ GoodDatabase(n, AddToNeighbourSet(n, D, S))
         /\ GoodDatabase(n, AddToRoutingTable(n, D, S))
<1>1. GoodDatabase(n, AddToLeafSet(n, D, S))
  BY LeavesPlaced DEF GoodDatabase, Database, Placed, AddToLeafSet
<1>2. GoodDatabase(n, AddToNeighbourSet(n, D, S))
  BY NeighboursPlaced DEF GoodDatabase, Database, Placed, AddToNeighbourSet
<1>3. GoodDatabase(n, AddToRoutingTable(n, D, S))
  BY TablePlaced DEF GoodDatabase, Database, Placed, AddToRoutingTable
<1>. QED
  BY <1>1, <1>2, <1>3

LEMMA ClearSlotTyped ==
  ASSUME NEW s, NEW table \in [Row -> [Digit -> Entry]]
  PROVE  /\ ClearSlot(table, s) \in [Row -> [Digit -> Entry]]
         /\ \A p \in Row, d \in Digit : ClearSlot(table, s)[p][d] \in {None, table[p][d]}
<1>. DEFINE T == ClearSlot(table, s)
<1>1. T = [p \in Row |-> [d \in Digit |-> IF p = s[1] /\ d = s[2] THEN None ELSE table[p][d]]]
  BY DEF ClearSlot
<1>. HIDE DEF T
<1>2. \A p \in Row, d \in Digit : T[p][d] \in {None, table[p][d]}
  BY <1>1
<1>3. T \in [Row -> [Digit -> Entry]]
  BY <1>1 DEF Entry
<1>. QED
  BY <1>2, <1>3 DEF T

LEMMA GoodDeleteNode ==
  ASSUME NEW n \in Nodes, NEW D, GoodDatabase(n, D), NEW x
  PROVE  GoodDatabase(n, DeleteNode(n, D, x))
<1>. DEFINE T == ClearSlot(D.table, Slot(n, x))
<1>1. T \in [Row -> [Digit -> Entry]] /\ \A p \in Row, d \in Digit : T[p][d] \in {None, D.table[p][d]}
  BY ClearSlotTyped DEF GoodDatabase, Database
<1>. HIDE DEF T
<1>2. PlacedTable(n, T)
  BY <1>1 DEF GoodDatabase, Placed, PlacedTable
<1>. QED
  BY <1>1, <1>2 DEF GoodDatabase, Database, Placed, DeleteNode, T
LEMMA KnownAreNodes ==
  ASSUME NEW D \in Database
  PROVE  /\ Leaves(D) \in SUBSET Nodes /\ Known(D) \in SUBSET Nodes
         /\ \A p \in Row : RowEntries(D, p) \in SUBSET Nodes
<1>1. Leaves(D) \in SUBSET Nodes /\ D.neighbours \in SUBSET Nodes
  BY DEF Database, Leaves
<1>2. \A p \in Row : RowEntries(D, p) \in SUBSET Nodes
  BY DEF Database, RowEntries, Entry
<1>. QED
  BY <1>1, <1>2 DEF Known, TableEntries
-----------------------------------------------------------------------------
LEMMA ScanImproves ==
  ASSUME NEW n \in Nodes, NEW C \in SUBSET Nodes, NEW t, NEW x \in ScanResults(n, C, t)
  PROVE  x \in Nodes /\ (x = n \/ IsBetter(x, n, t))
BY DEF ScanResults

\* The node getNextRoutingNode returns is the listener or strictly better for
\* the target, whatever the tables hold in their places: the leaf set and the
\* exhaustive scan compare with the listener, and a table entry shares one more
\* digit with the target (clientDatabase.cpp:38-121).
THEOREM NextRoutingNodeImproves ==
  ASSUME NEW n \in Nodes, NEW t \in Nodes, n # t,
         NEW D, GoodDatabase(n, D), NEW x \in NextRoutingNodes(n, D, t)
  PROVE  x \in Nodes /\ (x = n \/ IsBetter(x, n, t))
<1>. DEFINE p == PrefixMatchLen(t, n)
            e == D.table[p][t[p + 1]]
<1>1. n \in NodeId /\ t \in NodeId /\ D \in Database /\ PlacedTable(n, D.table)
  BY NodesAssumption DEF GoodDatabase, Placed
<1>2. p \in 0 .. Rows - 1 /\ SamePrefix(t, n, p) /\ PrefixMatchLen(n, t) = p
  BY <1>1, PrefixOfDifferent, PrefixMatch, PrefixSymmetric
<1>3. p \in Row /\ t[p + 1] \in Digit
  BY <1>1, <1>2, RowsAssumption DEF NodeId, Row
<1>4. CASE x \in ScanResults(n, Leaves(D), t) \/ x \in ScanResults(n, Known(D), t)
  BY <1>1, <1>4, KnownAreNodes, ScanImproves
<1>5. CASE e # None /\ x = e
  <2>1. e \in Nodes
    BY <1>1, <1>3, <1>5 DEF Database, Entry
  <2>2. e \in NodeId /\ SamePrefix(n, e, p) /\ e[p + 1] = t[p + 1]
    BY <1>1, <1>3, <1>5, <2>1, NodesAssumption DEF PlacedTable
  <2>3. SamePrefix(e, t, p + 1)
    BY <1>2, <2>2, RowsAssumption DEF SamePrefix
  <2>4. /\ PrefixMatchLen(e, t) \in 0 .. Rows
        /\ PrefixMatchLen(e, t) < Rows =>
             e[PrefixMatchLen(e, t) + 1] # t[PrefixMatchLen(e, t) + 1]
    BY <1>1, <2>2, PrefixMatch
  <2>5. PrefixMatchLen(n, t) < PrefixMatchLen(e, t)
    BY <1>2, <2>3, <2>4, RowsAssumption DEF SamePrefix
  <2>. QED
    BY <1>1, <1>5, <2>1, <2>2, <2>5, LongerPrefixIsBetter
<1>. QED
  BY <1>4, <1>5 DEF NextRoutingNodes
-----------------------------------------------------------------------------
\* The members of T with fewer than c members of T before them in R: what the
\* trimmed sets keep, for the order R of each.
Best(T, R, c) == {x \in T : Cardinality({y \in T : <<y, x>> \in R}) < c}

\* R orders T strictly and totally.
Orders(R, T) ==
  /\ \A x \in T : <<x, x>> \notin R
  /\ \A x, y, z \in T : <<x, y>> \in R /\ <<y, z>> \in R => <<x, z>> \in R
  /\ \A x, y \in T : x = y \/ <<x, y>> \in R \/ <<y, x>> \in R

\* Trimming before more is added loses nothing: an element trimmed off has c
\* better ones that stay, and they keep it out later.
LEMMA BestOneByOne ==
  ASSUME NEW A, NEW B, IsFiniteSet(A), IsFiniteSet(B), NEW R, Orders(R, A \cup B), NEW c \in Nat
  PROVE  Best(Best(A, R, c) \cup B, R, c) = Best(A \cup B, R, c)
<1>. DEFINE K == Best(A, R, c) \cup B
            Pred(T, x) == {y \in T : <<y, x>> \in R}
<1>1. IsFiniteSet(A \cup B) /\ Best(A, R, c) \subseteq A /\ K \subseteq A \cup B
  BY FS_Union DEF Best
<1>2. ASSUME NEW T \in SUBSET (A \cup B), NEW x
      PROVE  IsFiniteSet(Pred(T, x)) /\ Cardinality(Pred(T, x)) \in Nat
  <2>1. Pred(T, x) \in SUBSET (A \cup B)
    OBVIOUS
  <2>. QED
    BY <1>1, <2>1, FS_Subset, FS_CardinalityType
<1>3. ASSUME NEW T \in SUBSET (A \cup B), NEW U \in SUBSET (A \cup B), NEW x, NEW y,
             Pred(T, x) \subseteq Pred(U, y)
      PROVE  Cardinality(Pred(T, x)) <= Cardinality(Pred(U, y))
  <2>. HIDE DEF Pred
  <2>. QED
    BY <1>2, <1>3, FS_Subset
<1>4. \A T, x : x \in Best(T, R, c) <=> x \in T /\ Cardinality(Pred(T, x)) < c
  BY DEF Best
<1>5. ASSUME NEW x \in Best(A \cup B, R, c) PROVE x \in Best(K, R, c)
  <2>1. x \in A \cup B /\ Cardinality(Pred(A \cup B, x)) < c
    BY <1>4, <1>5
  <2>2. ASSUME NEW T \in SUBSET (A \cup B), x \in T PROVE x \in Best(T, R, c)
    <3>1. Pred(T, x) \subseteq Pred(A \cup B, x)
      OBVIOUS
    <3>2. A \cup B \in SUBSET (A \cup B)
      OBVIOUS
    <3>. HIDE DEF Pred
    <3>3. Cardinality(Pred(T, x)) <= Cardinality(Pred(A \cup B, x))
      BY <1>3, <3>1, <3>2
    <3>. QED
      BY <1>2, <1>4, <2>1, <2>2, <3>2, <3>3
  <2>3. x \in K
    BY <2>1, <2>2
  <2>. QED
    BY <1>1, <2>2, <2>3
<1>6. ASSUME NEW x \in Best(K, R, c) PROVE x \in Best(A \cup B, R, c)
  <2>. DEFINE C == {y \in A \ Best(A, R, c) : <<y, x>> \in R}
  <2>1. x \in K /\ x \in A \cup B /\ Cardinality(Pred(K, x)) < c
    BY <1>1, <1>4, <1>6
  <2>2. CASE C = {}
    <3>1. Pred(A \cup B, x) = Pred(K, x)
      BY <1>1, <2>2
    <3>. HIDE DEF Pred
    <3>. QED
      BY <1>4, <2>1, <3>1
  <2>3. CASE C # {}
    <3>1. PICK y \in C : \A z \in C \ {y} : <<y, z>> \in R
      <4>1. IsFiniteSet(C) /\ C \subseteq A \cup B
        BY FS_Subset
      <4>2. Orders(R, C)
        BY <4>1 DEF Orders
      <4>. HIDE DEF C
      <4>. QED
        BY <2>3, <4>1, <4>2, FiniteLeast DEF Orders
    <3>2. Pred(A, y) \subseteq Pred(K, x)
      <4>. SUFFICES ASSUME NEW z \in A, <<z, y>> \in R PROVE z \in K /\ <<z, x>> \in R
        OBVIOUS
      <4>1. <<z, x>> \in R
        BY <2>1, <3>1 DEF Orders
      <4>2. z \in Best(A, R, c)
        BY <3>1, <4>1 DEF Orders
      <4>. QED
        BY <4>1, <4>2
    <3>3. ~ Cardinality(Pred(A, y)) < c
      BY <1>4, <3>1
    <3>4. A \in SUBSET (A \cup B) /\ K \in SUBSET (A \cup B)
      BY <1>1
    <3>. HIDE DEF Pred, K
    <3>5. Cardinality(Pred(A, y)) <= Cardinality(Pred(K, x))
      BY <1>3, <3>2, <3>4
    <3>6. Cardinality(Pred(A, y)) \in Nat /\ Cardinality(Pred(K, x)) \in Nat
      BY <1>2, <3>4
    <3>. QED
      BY <2>1, <3>3, <3>5, <3>6
  <2>. QED
    BY <2>2, <2>3
<1>. QED
  BY <1>5, <1>6

\* What is kept is no more than c.
LEMMA BestAtMost ==
  ASSUME NEW T, IsFiniteSet(T), NEW R, Orders(R, T), NEW c \in Nat
  PROVE  IsFiniteSet(Best(T, R, c)) /\ Cardinality(Best(T, R, c)) <= c
<1>. DEFINE K == Best(T, R, c)
            Back == {w \in K \X K : <<w[2], w[1]>> \in R}
<1>1. K \subseteq T /\ IsFiniteSet(K) /\ Cardinality(K) \in Nat
  BY FS_Subset, FS_CardinalityType DEF Best
<1>2. CASE K = {}
  BY <1>1, <1>2, FS_EmptySet
<1>3. CASE K # {}
  <2>1. \A x, y \in K : <<x, y>> \in Back <=> <<y, x>> \in R
    OBVIOUS
  <2>2. Orders(Back, K)
    <3>. HIDE DEF Back, K
    <3>. QED
      BY <1>1, <2>1 DEF Orders
  <2>3. PICK x \in K : \A y \in K \ {x} : <<x, y>> \in Back
    <3>. HIDE DEF Back, K
    <3>. QED
      BY <1>1, <1>3, <2>2, FiniteLeast DEF Orders
  <2>. DEFINE P == {y \in T : <<y, x>> \in R}
  <2>4. K \ {x} \subseteq P
    BY <1>1, <2>1, <2>3
  <2>5. Cardinality(P) < c
    BY DEF Best
  <2>6. IsFiniteSet(P)
    BY FS_Subset
  <2>. HIDE DEF K, P
  <2>7. Cardinality(P) \in Nat /\ Cardinality(K \ {x}) <= Cardinality(P)
    BY <2>4, <2>6, FS_Subset, FS_CardinalityType
  <2>8. Cardinality(K \ {x}) = Cardinality(K) - 1
    BY <1>1, FS_RemoveElement
  <2>. QED
    BY <1>1, <2>5, <2>7, <2>8 DEF K
<1>. QED
  BY <1>2, <1>3

\* The three orders as sets of pairs.
BelowPairs == {w \in Nodes \X Nodes : IdLess(w[1], w[2])}
AbovePairs == {w \in Nodes \X Nodes : IdLess(w[2], w[1])}
NearerPairs(n) == {w \in Nodes \X Nodes : NearerNeighbour(n, w[1], w[2])}

LEMMA NodesOrdered ==
  ASSUME NEW n \in Nodes
  PROVE  Orders(BelowPairs, Nodes) /\ Orders(AbovePairs, Nodes) /\ Orders(NearerPairs(n), Nodes)
<1>1. \A x, y \in Nodes : /\ <<x, y>> \in BelowPairs <=> IdLess(x, y)
                          /\ <<x, y>> \in AbovePairs <=> IdLess(y, x)
                          /\ <<x, y>> \in NearerPairs(n) <=> NearerNeighbour(n, x, y)
  BY DEF BelowPairs, AbovePairs, NearerPairs
<1>2. /\ \A x \in Nodes : ~ IdLess(x, x)
      /\ \A x, y, z \in Nodes : IdLess(x, y) /\ IdLess(y, z) => IdLess(x, z)
      /\ \A x, y \in Nodes : x = y \/ IdLess(x, y) \/ IdLess(y, x)
  BY NodesAssumption, IdLessIrreflexive, IdLessTransitive, IdLessTotal
<1>3. /\ \A x \in Nodes : ~ NearerNeighbour(n, x, x)
      /\ \A x, y, z \in Nodes :
           NearerNeighbour(n, x, y) /\ NearerNeighbour(n, y, z) => NearerNeighbour(n, x, z)
      /\ \A x, y \in Nodes : x = y \/ NearerNeighbour(n, x, y) \/ NearerNeighbour(n, y, x)
  BY NearerIrreflexive, NearerTransitive, NearerTotal
<1>4. Orders(BelowPairs, Nodes)
  BY <1>1, <1>2 DEF Orders
<1>5. Orders(AbovePairs, Nodes)
  BY <1>1, <1>2 DEF Orders
<1>6. Orders(NearerPairs(n), Nodes)
  BY <1>1, <1>3 DEF Orders
<1>. QED
  BY <1>4, <1>5, <1>6

LEMMA TrimmedSets ==
  ASSUME NEW n \in Nodes, NEW T \in SUBSET Nodes
  PROVE  /\ LargestLeaves(T) = Best(T, AbovePairs, LeafCap)
         /\ SmallestLeaves(T) = Best(T, BelowPairs, LeafCap)
         /\ NearestNeighbours(n, T) = Best(T, NearerPairs(n), NeighbourCap)
<1>1. ASSUME NEW x \in T
      PROVE  /\ {y \in T : <<y, x>> \in AbovePairs} = {y \in T : IdLess(x, y)}
             /\ {y \in T : <<y, x>> \in BelowPairs} = {y \in T : IdLess(y, x)}
             /\ {y \in T : <<y, x>> \in NearerPairs(n)} = {y \in T : NearerNeighbour(n, y, x)}
  BY DEF AbovePairs, BelowPairs, NearerPairs
<1>. QED
  BY <1>1 DEF Best, LargestLeaves, SmallestLeaves, NearestNeighbours

LEMMA CapsAreNat ==
  LeafCap \in Nat /\ NeighbourCap \in Nat
BY BaseAssumption DEF LeafCap, NeighbourCap

\* Trimming as it is used: for any part of the nodes and any of the orders.
LEMMA TrimmedOneByOne ==
  ASSUME NEW R, Orders(R, Nodes), NEW c \in Nat
  PROVE  \A A, B \in SUBSET Nodes : /\ Best(Best(A, R, c) \cup B, R, c) = Best(A \cup B, R, c)
                                    /\ Cardinality(Best(A, R, c)) <= c
<1>. SUFFICES ASSUME NEW A \in SUBSET Nodes, NEW B \in SUBSET Nodes
              PROVE  /\ Best(Best(A, R, c) \cup B, R, c) = Best(A \cup B, R, c)
                     /\ Cardinality(Best(A, R, c)) <= c
  OBVIOUS
<1>1. IsFiniteSet(A) /\ IsFiniteSet(B)
  BY NodesAssumption, FS_Subset
<1>2. Orders(R, A \cup B) /\ Orders(R, A)
  BY DEF Orders
<1>3. Best(Best(A, R, c) \cup B, R, c) = Best(A \cup B, R, c)
  BY <1>1, <1>2, BestOneByOne
<1>4. Cardinality(Best(A, R, c)) <= c
  BY <1>1, <1>2, BestAtMost
<1>. QED
  BY <1>3, <1>4

LEMMA TrimmedSetsOneByOne ==
  ASSUME NEW n \in Nodes, NEW A \in SUBSET Nodes, NEW B \in SUBSET Nodes
  PROVE  /\ LargestLeaves(LargestLeaves(A) \cup B) = LargestLeaves(A \cup B)
         /\ SmallestLeaves(SmallestLeaves(A) \cup B) = SmallestLeaves(A \cup B)
         /\ NearestNeighbours(n, NearestNeighbours(n, A) \cup B) = NearestNeighbours(n, A \cup B)
         /\ Cardinality(LargestLeaves(A)) <= LeafCap
         /\ Cardinality(SmallestLeaves(A)) <= LeafCap
         /\ Cardinality(NearestNeighbours(n, A)) <= NeighbourCap
<1>. DEFINE N == NearerPairs(n)
<1>1. A \cup B \in SUBSET Nodes
  OBVIOUS
<1>2. /\ LargestLeaves(A) \cup B \in SUBSET Nodes
      /\ SmallestLeaves(A) \cup B \in SUBSET Nodes
      /\ NearestNeighbours(n, A) \cup B \in SUBSET Nodes
  BY DEF LargestLeaves, SmallestLeaves, NearestNeighbours
<1>3. \A U \in SUBSET Nodes : /\ LargestLeaves(U) = Best(U, AbovePairs, LeafCap)
                              /\ SmallestLeaves(U) = Best(U, BelowPairs, LeafCap)
                              /\ NearestNeighbours(n, U) = Best(U, N, NeighbourCap)
  BY TrimmedSets
<1>4. Orders(BelowPairs, Nodes) /\ Orders(AbovePairs, Nodes) /\ Orders(N, Nodes)
  BY NodesOrdered
<1>. HIDE DEF N
<1>5. LeafCap \in Nat /\ NeighbourCap \in Nat
  BY CapsAreNat
<1>6. /\ LargestLeaves(LargestLeaves(A) \cup B) = LargestLeaves(A \cup B)
      /\ Cardinality(LargestLeaves(A)) <= LeafCap
  <2>1. \A X, Y \in SUBSET Nodes :
          /\ Best(Best(X, AbovePairs, LeafCap) \cup Y, AbovePairs, LeafCap)
               = Best(X \cup Y, AbovePairs, LeafCap)
          /\ Cardinality(Best(X, AbovePairs, LeafCap)) <= LeafCap
    BY <1>4, <1>5, TrimmedOneByOne
  <2>2. /\ Best(Best(A, AbovePairs, LeafCap) \cup B, AbovePairs, LeafCap)
             = Best(A \cup B, AbovePairs, LeafCap)
        /\ Cardinality(Best(A, AbovePairs, LeafCap)) <= LeafCap
    BY <2>1
  <2>3. /\ LargestLeaves(A \cup B) = Best(A \cup B, AbovePairs, LeafCap)
        /\ LargestLeaves(A) = Best(A, AbovePairs, LeafCap)
    BY <1>1, <1>3
  <2>4. LargestLeaves(LargestLeaves(A) \cup B) = Best(LargestLeaves(A) \cup B, AbovePairs, LeafCap)
    BY <1>2, <1>3
  <2>. QED
    BY <2>2, <2>3, <2>4
<1>7. /\ SmallestLeaves(SmallestLeaves(A) \cup B) = SmallestLeaves(A \cup B)
      /\ Cardinality(SmallestLeaves(A)) <= LeafCap
  <2>1. \A X, Y \in SUBSET Nodes :
          /\ Best(Best(X, BelowPairs, LeafCap) \cup Y, BelowPairs, LeafCap)
               = Best(X \cup Y, BelowPairs, LeafCap)
          /\ Cardinality(Best(X, BelowPairs, LeafCap)) <= LeafCap
    BY <1>4, <1>5, TrimmedOneByOne
  <2>2. /\ Best(Best(A, BelowPairs, LeafCap) \cup B, BelowPairs, LeafCap)
             = Best(A \cup B, BelowPairs, LeafCap)
        /\ Cardinality(Best(A, BelowPairs, LeafCap)) <= LeafCap
    BY <2>1
  <2>3. /\ SmallestLeaves(A \cup B) = Best(A \cup B, BelowPairs, LeafCap)
        /\ SmallestLeaves(A) = Best(A, BelowPairs, LeafCap)
    BY <1>1, <1>3
  <2>4. SmallestLeaves(SmallestLeaves(A) \cup B) = Best(SmallestLeaves(A) \cup B, BelowPairs, LeafCap)
    BY <1>2, <1>3
  <2>. QED
    BY <2>2, <2>3, <2>4
<1>8. /\ NearestNeighbours(n, NearestNeighbours(n, A) \cup B) = NearestNeighbours(n, A \cup B)
      /\ Cardinality(NearestNeighbours(n, A)) <= NeighbourCap
  <2>1. \A X, Y \in SUBSET Nodes :
          /\ Best(Best(X, N, NeighbourCap) \cup Y, N, NeighbourCap)
               = Best(X \cup Y, N, NeighbourCap)
          /\ Cardinality(Best(X, N, NeighbourCap)) <= NeighbourCap
    BY <1>4, <1>5, TrimmedOneByOne
  <2>2. /\ Best(Best(A, N, NeighbourCap) \cup B, N, NeighbourCap)
             = Best(A \cup B, N, NeighbourCap)
        /\ Cardinality(Best(A, N, NeighbourCap)) <= NeighbourCap
    BY <2>1
  <2>3. /\ NearestNeighbours(n, A \cup B) = Best(A \cup B, N, NeighbourCap)
        /\ NearestNeighbours(n, A) = Best(A, N, NeighbourCap)
    BY <1>1, <1>3
  <2>4. NearestNeighbours(n, NearestNeighbours(n, A) \cup B)
          = Best(NearestNeighbours(n, A) \cup B, N, NeighbourCap)
    BY <1>2, <1>3
  <2>. QED
    BY <2>2, <2>3, <2>4
<1>. QED
  BY <1>6, <1>7, <1>8

\* Offering S and then T to the leaf set leaves what offering both at once
\* does: addToLeafSet (clientDatabase.cpp) trims after every node, the model
\* after all of them, and the order in which a handler's loops offer the nodes
\* of a message does not matter.
THEOREM LeavesOneByOne ==
  ASSUME NEW n \in Nodes, NEW half \in SUBSET Nodes, NEW S \in SUBSET Nodes, NEW T \in SUBSET Nodes
  PROVE  /\ LeftWith(n, LeftWith(n, half, S), T) = LeftWith(n, half, S \cup T)
         /\ RightWith(n, RightWith(n, half, S), T) = RightWith(n, half, S \cup T)
<1>. DEFINE Low(U) == {x \in U : IdLess(x, n)}
            High(U) == {x \in U : IdLess(n, x)}
            L == half \cup Low(S)
            R == half \cup High(S)
<1>1. L \cup Low(T) = half \cup Low(S \cup T) /\ R \cup High(T) = half \cup High(S \cup T)
  OBVIOUS
<1>2. L \in SUBSET Nodes /\ Low(T) \in SUBSET Nodes /\ R \in SUBSET Nodes /\ High(T) \in SUBSET Nodes
  OBVIOUS
<1>3. /\ LeftWith(n, LeftWith(n, half, S), T) = LargestLeaves(LargestLeaves(L) \cup Low(T))
      /\ LeftWith(n, half, S \cup T) = LargestLeaves(half \cup Low(S \cup T))
      /\ RightWith(n, RightWith(n, half, S), T) = SmallestLeaves(SmallestLeaves(R) \cup High(T))
      /\ RightWith(n, half, S \cup T) = SmallestLeaves(half \cup High(S \cup T))
  BY Zenon DEF LeftWith, RightWith
<1>. HIDE DEF Low, High, L, R
<1>4. /\ LargestLeaves(LargestLeaves(L) \cup Low(T)) = LargestLeaves(L \cup Low(T))
      /\ SmallestLeaves(SmallestLeaves(R) \cup High(T)) = SmallestLeaves(R \cup High(T))
  BY <1>2, TrimmedSetsOneByOne
<1>. QED
  BY <1>1, <1>3, <1>4

\* The same of addToNeighhbourSet, as long as the pings take as long as before.
THEOREM NeighboursOneByOne ==
  ASSUME NEW n \in Nodes, NEW near \in SUBSET Nodes, NEW S \in SUBSET Nodes, NEW T \in SUBSET Nodes
  PROVE  NeighboursWith(n, NeighboursWith(n, near, S), T) = NeighboursWith(n, near, S \cup T)
<1>1. (near \cup (S \ {n})) \cup (T \ {n}) = near \cup ((S \cup T) \ {n})
  OBVIOUS
<1>. DEFINE A == near \cup (S \ {n})
            B == T \ {n}
<1>2. A \in SUBSET Nodes /\ B \in SUBSET Nodes
  OBVIOUS
<1>. HIDE DEF A, B
<1>3. NearestNeighbours(n, NearestNeighbours(n, A) \cup B) = NearestNeighbours(n, A \cup B)
  BY <1>2, TrimmedSetsOneByOne
<1>. QED
  BY <1>1, <1>3 DEF NeighboursWith, A, B

\* No half of the leaf set and no neighbour set outgrows its capacity (this->col / 2
\* and this->col, clientDatabase.cpp), however many nodes one message offers.
THEOREM SetsWithinCapacity ==
  ASSUME NEW n \in Nodes, NEW set \in SUBSET Nodes, NEW S \in SUBSET Nodes
  PROVE  /\ Cardinality(LeftWith(n, set, S)) <= LeafCap
         /\ Cardinality(RightWith(n, set, S)) <= LeafCap
         /\ Cardinality(NeighboursWith(n, set, S)) <= NeighbourCap
<1>. DEFINE U == set \cup {x \in S : IdLess(x, n)}
            V == set \cup {x \in S : IdLess(n, x)}
            W == set \cup (S \ {n})
<1>1. U \in SUBSET Nodes /\ V \in SUBSET Nodes /\ W \in SUBSET Nodes
  OBVIOUS
<1>. HIDE DEF U, V, W
<1>2. /\ Cardinality(LargestLeaves(U)) <= LeafCap
      /\ Cardinality(SmallestLeaves(V)) <= LeafCap
      /\ Cardinality(NearestNeighbours(n, W)) <= NeighbourCap
  BY <1>1, TrimmedSetsOneByOne
<1>. QED
  BY <1>2 DEF LeftWith, RightWith, NeighboursWith, U, V, W

(***************************************************************************)
(* With at most NeighbourCap + 1 processes no neighbour set overflows, and *)
(* a set only loses what is deleted from it.                               *)
(***************************************************************************)
SmallOverlay == Cardinality(Nodes) <= NeighbourCap + 1

\* Of at most cap + 1 processes, fewer than cap others are ahead of any one.
LEMMA AllButOne ==
  ASSUME NEW n \in Nodes, NEW x \in Nodes, x # n, NEW T, T \subseteq (Nodes \ {n}) \ {x},
         NEW cap \in Nat, Cardinality(Nodes) <= cap + 1
  PROVE  Cardinality(T) < cap
<1>. DEFINE rest == (Nodes \ {n}) \ {x}
<1>1. IsFiniteSet(Nodes \ {n}) /\ Cardinality(Nodes \ {n}) = Cardinality(Nodes) - 1
  BY NodesAssumption, FS_RemoveElement
<1>2. IsFiniteSet(rest) /\ Cardinality(rest) = Cardinality(Nodes \ {n}) - 1
  <2>1. x \in Nodes \ {n}
    OBVIOUS
  <2>. QED
    BY <1>1, <2>1, FS_RemoveElement
<1>3. Cardinality(T) \in Nat /\ Cardinality(T) <= Cardinality(rest)
  <2>. HIDE DEF rest
  <2>1. T \subseteq rest
    BY DEF rest
  <2>. QED
    BY <1>2, <2>1, FS_Subset, FS_CardinalityType
<1>4. Cardinality(Nodes) \in Nat /\ Cardinality(rest) = Cardinality(Nodes) - 2
  BY <1>1, <1>2, NodesAssumption, FS_CardinalityType
<1>. QED
  <2>. HIDE DEF rest
  <2>. QED
    BY <1>3, <1>4

LEMMA NothingTrimmed ==
  ASSUME SmallOverlay, NEW n \in Nodes, NEW T \in SUBSET Nodes, n \notin T
  PROVE  NearestNeighbours(n, T) = T
<1>1. ASSUME NEW x \in T
      PROVE  Cardinality({y \in T : NearerNeighbour(n, y, x)}) < NeighbourCap
  <2>1. {y \in T : NearerNeighbour(n, y, x)} \subseteq (Nodes \ {n}) \ {x}
    BY NearerIrreflexive
  <2>2. x \in Nodes /\ x # n /\ NeighbourCap \in Nat
    BY CapsAreNat
  <2>. QED
    BY <2>1, <2>2, AllButOne DEF SmallOverlay
<1>. QED
  BY <1>1 DEF NearestNeighbours

LEMMA NeighboursAll ==
  ASSUME SmallOverlay, NEW n \in Nodes, NEW N \in SUBSET Nodes, n \notin N, NEW S \in SUBSET Nodes
  PROVE  NeighboursWith(n, N, S) = N \cup (S \ {n})
<1>1. N \cup (S \ {n}) \in SUBSET Nodes /\ n \notin N \cup (S \ {n})
  OBVIOUS
<1>. QED
  BY <1>1, NothingTrimmed DEF NeighboursWith

\* What the tables hold after nodes have been offered to them.
LEMMA TableEntriesAdded ==
  ASSUME NEW n \in Nodes, NEW D \in Database, NEW S \in SUBSET Nodes, NEW E,
         E.table = TableWith(n, D.table, S)
  PROVE  TableEntries(E) \subseteq TableEntries(D) \cup S
<1>. SUFFICES ASSUME NEW p \in Row, NEW d \in Digit, E.table[p][d] # None
              PROVE  E.table[p][d] \in TableEntries(D) \cup S
  BY DEF TableEntries, RowEntries
<1>. DEFINE old == D.table[p][d]
            C == {x \in S \ {n} : Slot(n, x) = <<p, d>>}
<1>1. E.table[p][d] = SlotAfter(n, old, C)
  BY DEF TableWith
<1>2. old \in Entry /\ C \in SUBSET Nodes
  BY DEF Database
<1>3. E.table[p][d] \in {old} \cup C
  <2>. HIDE DEF old, C
  <2>. QED
    BY <1>1, <1>2, SlotAfterMember
<1>4. old # None => old \in TableEntries(D)
  BY DEF TableEntries, RowEntries
<1>. QED
  BY <1>3, <1>4

LEMMA LeavesAdded ==
  ASSUME NEW n, NEW half, NEW S
  PROVE  LeftWith(n, half, S) \subseteq half \cup S /\ RightWith(n, half, S) \subseteq half \cup S
BY DEF LeftWith, RightWith, LargestLeaves, SmallestLeaves

LEMMA KnownAdded ==
  ASSUME SmallOverlay, NEW n \in Nodes, NEW D, GoodDatabase(n, D), NEW S \in SUBSET Nodes
  PROVE  /\ Known(UpdateAllState(n, D, S)) \subseteq Known(D) \cup S
         /\ UpdateAllState(n, D, S).neighbours = D.neighbours \cup (S \ {n})
<1>. DEFINE E == UpdateAllState(n, D, S)
<1>1. D \in Database /\ D.neighbours \in SUBSET Nodes /\ n \notin D.neighbours
  BY DEF GoodDatabase, Placed, Database
<1>2. /\ E.left = LeftWith(n, D.left, S) /\ E.right = RightWith(n, D.right, S)
      /\ E.neighbours = NeighboursWith(n, D.neighbours, S)
      /\ E.table = TableWith(n, D.table, S)
  BY <1>1 DEF UpdateAllState, Database
<1>. HIDE DEF E
<1>3. E.neighbours = D.neighbours \cup (S \ {n})
  BY <1>1, <1>2, NeighboursAll
<1>4. TableEntries(E) \subseteq TableEntries(D) \cup S
  BY <1>1, <1>2, TableEntriesAdded
<1>5. Leaves(E) \subseteq Leaves(D) \cup S
  BY <1>2, LeavesAdded DEF Leaves
<1>6. Known(E) \subseteq Known(D) \cup S
  BY <1>3, <1>4, <1>5 DEF Known
<1>. QED
  BY <1>3, <1>6 DEF E

\* A process does not list itself.
LEMMA KnownAreOthers ==
  ASSUME NEW n \in Nodes, NEW D, GoodDatabase(n, D)
  PROVE  n \notin Known(D) /\ Known(D) \in SUBSET Nodes
<1>1. D \in Database /\ Placed(n, D)
  BY DEF GoodDatabase
<1>2. Known(D) \in SUBSET Nodes
  BY <1>1, KnownAreNodes
<1>3. n \notin Leaves(D) /\ n \notin D.neighbours
  BY <1>1, NodesAssumption, IdLessIrreflexive DEF Placed, Leaves
<1>4. n \notin TableEntries(D)
  <2>. SUFFICES ASSUME NEW p \in Row, NEW d \in Digit, D.table[p][d] = n
                PROVE  FALSE
    BY DEF TableEntries, RowEntries
  <2>1. n # None
    BY NodesAssumption, NoneAssumption
  <2>. QED
    BY <1>1, <2>1 DEF Placed, PlacedTable
<1>. QED
  BY <1>2, <1>3, <1>4 DEF Known

\* One table at a time, as the repair threads fill them.
LEMMA RepairAdds ==
  ASSUME SmallOverlay, NEW n \in Nodes, NEW D, GoodDatabase(n, D), NEW S \in SUBSET Nodes,
         NEW E \in {AddToLeafSet(n, D, S), AddToNeighbourSet(n, D, S), AddToRoutingTable(n, D, S)}
  PROVE  Known(E) \subseteq Known(D) \cup S /\ D.neighbours \subseteq E.neighbours
<1>1. D \in Database /\ D.neighbours \in SUBSET Nodes /\ n \notin D.neighbours
  BY DEF GoodDatabase, Placed, Database
<1>2. CASE E = AddToLeafSet(n, D, S)
  <2>1. /\ E.left = LeftWith(n, D.left, S) /\ E.right = RightWith(n, D.right, S)
        /\ E.neighbours = D.neighbours /\ E.table = D.table
    BY <1>1, <1>2 DEF AddToLeafSet, Database
  <2>2. Leaves(E) \subseteq Leaves(D) \cup S
    BY <2>1, LeavesAdded DEF Leaves
  <2>. QED
    BY <2>1, <2>2 DEF Known, TableEntries, RowEntries
<1>3. CASE E = AddToNeighbourSet(n, D, S)
  <2>1. /\ E.left = D.left /\ E.right = D.right /\ E.table = D.table
        /\ E.neighbours = NeighboursWith(n, D.neighbours, S)
    BY <1>1, <1>3 DEF AddToNeighbourSet, Database
  <2>2. E.neighbours = D.neighbours \cup (S \ {n})
    BY <1>1, <2>1, NeighboursAll
  <2>. QED
    BY <2>1, <2>2 DEF Known, Leaves, TableEntries, RowEntries
<1>4. CASE E = AddToRoutingTable(n, D, S)
  <2>1. /\ E.left = D.left /\ E.right = D.right /\ E.neighbours = D.neighbours
        /\ E.table = TableWith(n, D.table, S)
    BY <1>1, <1>4 DEF AddToRoutingTable, Database
  <2>2. TableEntries(E) \subseteq TableEntries(D) \cup S
    BY <1>1, <2>1, TableEntriesAdded
  <2>. QED
    BY <2>1, <2>2 DEF Known, Leaves
<1>. QED
  BY <1>2, <1>3, <1>4

\* handleLazyUpdates adds nothing, and takes one neighbour at most.
LEMMA DeleteTakesOne ==
  ASSUME NEW n \in Nodes, NEW D \in Database, NEW x \in Nodes, x # n
  PROVE  /\ Known(DeleteNode(n, D, x)) \subseteq Known(D)
         /\ DeleteNode(n, D, x).neighbours = D.neighbours \ {x}
<1>. DEFINE E == DeleteNode(n, D, x)
            s == Slot(n, x)
<1>1. /\ E.left = D.left \ {x} /\ E.right = D.right \ {x} /\ E.neighbours = D.neighbours \ {x}
      /\ E.table = ClearSlot(D.table, s)
  BY DEF DeleteNode, Database
<1>. HIDE DEF E, s
<1>2. \A p \in Row, d \in Digit : E.table[p][d] \in {D.table[p][d], None}
  BY <1>1 DEF ClearSlot, Database
<1>3. TableEntries(E) \subseteq TableEntries(D)
  BY <1>2 DEF TableEntries, RowEntries
<1>4. Leaves(E) \subseteq Leaves(D)
  BY <1>1 DEF Leaves
<1>. QED
  BY <1>1, <1>3, <1>4 DEF Known, E

\* With LeafCap + 1 processes no half of a leaf set overflows, either.
TinyOverlay == Cardinality(Nodes) <= LeafCap + 1

LEMMA NoLeafTrimmed ==
  ASSUME TinyOverlay, NEW n \in Nodes, NEW T \in SUBSET Nodes, n \notin T
  PROVE  LargestLeaves(T) = T /\ SmallestLeaves(T) = T
<1>1. ASSUME NEW x \in T
      PROVE  Cardinality({y \in T : IdLess(x, y)}) < LeafCap /\ Cardinality({y \in T : IdLess(y, x)}) < LeafCap
  <2>1. ~ IdLess(x, x)
    BY NodesAssumption, IdLessIrreflexive
  <2>2. {y \in T : IdLess(x, y)} \subseteq (Nodes \ {n}) \ {x} /\ {y \in T : IdLess(y, x)} \subseteq (Nodes \ {n}) \ {x}
    BY <2>1
  <2>3. x \in Nodes /\ x # n /\ LeafCap \in Nat
    BY CapsAreNat
  <2>. QED
    BY <2>2, <2>3, AllButOne DEF TinyOverlay
<1>. QED
  BY <1>1 DEF LargestLeaves, SmallestLeaves

\* A leaf set is everybody a process has been told of.
LEMMA LeavesAll ==
  ASSUME TinyOverlay, NEW n \in Nodes, NEW D, GoodDatabase(n, D), NEW S \in SUBSET Nodes
  PROVE  LeftWith(n, D.left, S) \cup RightWith(n, D.right, S) = Leaves(D) \cup (S \ {n})
<1>1. D.left \in SUBSET Nodes /\ D.right \in SUBSET Nodes /\ n \notin D.left /\ n \notin D.right
  BY NodesAssumption, IdLessIrreflexive DEF GoodDatabase, Placed, Database
<1>2. ~ IdLess(n, n) /\ \A x \in Nodes : x = n \/ IdLess(x, n) \/ IdLess(n, x)
  BY NodesAssumption, IdLessIrreflexive, IdLessTotal
<1>3. LeftWith(n, D.left, S) = D.left \cup {x \in S : IdLess(x, n)}
  <2>1. D.left \cup {x \in S : IdLess(x, n)} \in SUBSET Nodes /\ n \notin D.left \cup {x \in S : IdLess(x, n)}
    BY <1>1, <1>2
  <2>. QED
    BY <2>1, NoLeafTrimmed DEF LeftWith
<1>4. RightWith(n, D.right, S) = D.right \cup {x \in S : IdLess(n, x)}
  <2>1. D.right \cup {x \in S : IdLess(n, x)} \in SUBSET Nodes /\ n \notin D.right \cup {x \in S : IdLess(n, x)}
    BY <1>1, <1>2
  <2>. QED
    BY <2>1, NoLeafTrimmed DEF RightWith
<1>. QED
  BY <1>2, <1>3, <1>4 DEF Leaves

\* A half of the leaf set is smaller than the neighbour set.
LEMMA TinyIsSmall == TinyOverlay => SmallOverlay
<1>1. LeafCap <= NeighbourCap
  BY BaseAssumption DEF LeafCap, NeighbourCap
<1>2. Cardinality(Nodes) \in Nat
  BY NodesAssumption, FS_CardinalityType
<1>. QED
  BY <1>1, <1>2, CapsAreNat DEF TinyOverlay, SmallOverlay
=============================================================================
