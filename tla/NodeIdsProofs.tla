--------------------------- MODULE NodeIdsProofs ---------------------------
(***************************************************************************)
(* Facts about NodeIDs and the routing comparison, for every base and      *)
(* every number of digits.                                                 *)
(***************************************************************************)
EXTENDS NodeIds, TLAPS, WellFoundedInduction

\* A nonempty set of naturals has a least member.
LEMMA LeastNumber ==
  ASSUME NEW T \in SUBSET Nat, T # {}
  PROVE  \E m \in T : \A k \in T : m <= k
<1>1. IsWellFoundedOn(OpToRel(<, Nat), Nat)
  BY NatLessThanWellFounded
<1>2. PICK m \in T : \A k \in T : ~(<<k, m>> \in OpToRel(<, Nat))
  BY <1>1, WFMin
<1>3. \A k \in T : ~(k < m)
  BY <1>2 DEF OpToRel
<1>. QED
  BY <1>3

\* Two NodeIDs have a longest common prefix, the value prefixMatchLen returns.
LEMMA PrefixMatch ==
  ASSUME NEW x \in NodeId, NEW y \in NodeId
  PROVE  /\ PrefixMatchLen(x, y) \in 0 .. Rows
         /\ SamePrefix(x, y, PrefixMatchLen(x, y))
         /\ PrefixMatchLen(x, y) < Rows =>
              x[PrefixMatchLen(x, y) + 1] # y[PrefixMatchLen(x, y) + 1]
<1>. DEFINE P(k) == SamePrefix(x, y, k) /\ (k < Rows => x[k + 1] # y[k + 1])
            T == {i \in 1 .. Rows : x[i] # y[i]}
<1>1. \E k \in 0 .. Rows : P(k)
  <2>1. CASE T = {}
    BY <2>1, RowsAssumption DEF SamePrefix
  <2>2. CASE T # {}
    <3>0. T \in SUBSET Nat
      BY RowsAssumption
    <3>. HIDE DEF T
    <3>1. PICK m \in T : \A k \in T : m <= k
      BY <2>2, <3>0, LeastNumber
    <3>. USE DEF T
    <3>2. m - 1 \in 0 .. Rows /\ P(m - 1)
      BY <3>1, RowsAssumption DEF SamePrefix
    <3>. QED
      BY <3>2
  <2>. QED
    BY <2>1, <2>2
<1>. QED
  BY <1>1 DEF PrefixMatchLen

\* Only one length is the longest common prefix.
LEMMA PrefixUnique ==
  ASSUME NEW x \in NodeId, NEW y \in NodeId, NEW k \in 0 .. Rows,
         SamePrefix(x, y, k), k < Rows => x[k + 1] # y[k + 1]
  PROVE  PrefixMatchLen(x, y) = k
<1>. DEFINE p == PrefixMatchLen(x, y)
<1>1. p \in 0 .. Rows /\ SamePrefix(x, y, p) /\ (p < Rows => x[p + 1] # y[p + 1])
  BY PrefixMatch
<1>2. ~(p < k) /\ ~(k < p)
  BY <1>1, RowsAssumption DEF SamePrefix
<1>. QED
  BY <1>1, <1>2, RowsAssumption

LEMMA PrefixSymmetric ==
  ASSUME NEW x \in NodeId, NEW y \in NodeId
  PROVE  PrefixMatchLen(x, y) = PrefixMatchLen(y, x)
<1>1. /\ PrefixMatchLen(x, y) \in 0 .. Rows
      /\ SamePrefix(y, x, PrefixMatchLen(x, y))
      /\ PrefixMatchLen(x, y) < Rows =>
           y[PrefixMatchLen(x, y) + 1] # x[PrefixMatchLen(x, y) + 1]
  BY PrefixMatch DEF SamePrefix
<1>. QED
  BY <1>1, PrefixUnique

\* Different NodeIDs differ in one of their Rows digits.
LEMMA PrefixOfDifferent ==
  ASSUME NEW x \in NodeId, NEW y \in NodeId, x # y
  PROVE  PrefixMatchLen(x, y) \in 0 .. Rows - 1
<1>1. PrefixMatchLen(x, y) \in 0 .. Rows /\ SamePrefix(x, y, PrefixMatchLen(x, y))
  BY PrefixMatch
<1>2. x = [i \in 1 .. Rows |-> x[i]] /\ y = [i \in 1 .. Rows |-> y[i]]
  BY DEF NodeId
<1>3. SamePrefix(x, y, Rows) => x = y
  BY <1>2 DEF SamePrefix
<1>. QED
  BY <1>1, <1>3, RowsAssumption

LEMMA IdLessIrreflexive ==
  ASSUME NEW x \in NodeId
  PROVE  ~ IdLess(x, x)
<1>1. PrefixMatchLen(x, x) = Rows
  BY PrefixUnique, RowsAssumption DEF SamePrefix
<1>. QED
  BY <1>1, RowsAssumption DEF IdLess
-----------------------------------------------------------------------------
\* NodeIDs that agree beyond their common prefix with t share that prefix.
LEMMA SharedPrefix ==
  ASSUME NEW x \in NodeId, NEW y \in NodeId, NEW t \in NodeId,
         NEW k \in 0 .. Rows, SamePrefix(x, y, k)
  PROVE  \/ PrefixMatchLen(x, t) < k /\ PrefixMatchLen(y, t) = PrefixMatchLen(x, t)
         \/ PrefixMatchLen(x, t) >= k /\ PrefixMatchLen(y, t) >= k
<1>. DEFINE u == PrefixMatchLen(x, t)
            v == PrefixMatchLen(y, t)
<1>1. u \in 0 .. Rows /\ SamePrefix(x, t, u) /\ (u < Rows => x[u + 1] # t[u + 1])
  BY PrefixMatch
<1>2. v \in 0 .. Rows /\ SamePrefix(y, t, v) /\ (v < Rows => y[v + 1] # t[v + 1])
  BY PrefixMatch
<1>3. CASE u < k
  <2>1. SamePrefix(y, t, u) /\ (u < Rows => y[u + 1] # t[u + 1])
    BY <1>1, <1>3, RowsAssumption DEF SamePrefix
  <2>. QED
    BY <1>1, <1>3, <2>1, PrefixUnique
<1>4. CASE u >= k
  <2>1. ~(v < k)
    BY <1>1, <1>2, <1>4, RowsAssumption DEF SamePrefix
  <2>. QED
    BY <1>1, <1>2, <1>4, <2>1, RowsAssumption
<1>. QED
  BY <1>1, <1>3, <1>4, RowsAssumption

\* The digits of NodeIDs are numbers.
LEMMA DigitIsNat ==
  ASSUME NEW x \in NodeId, NEW i \in 1 .. Rows
  PROVE  x[i] \in Nat
BY BaseAssumption DEF NodeId, Digit

\* is_better_node never prefers a node to itself (utils.cpp:179-236).
THEOREM IsBetterIrreflexive ==
  ASSUME NEW x \in NodeId, NEW t \in NodeId
  PROVE  ~ IsBetter(x, x, t)
<1>1. PrefixMatchLen(x, x) = Rows
  BY PrefixUnique, RowsAssumption DEF SamePrefix
<1>. QED
  BY <1>1, RowsAssumption DEF IsBetter

\* And it is transitive: though it leaves ties, a chain of improvements never
\* returns to where it started.
THEOREM IsBetterTransitive ==
  ASSUME NEW x \in NodeId, NEW y \in NodeId, NEW z \in NodeId, NEW t \in NodeId,
         IsBetter(x, y, t), IsBetter(y, z, t)
  PROVE  IsBetter(x, z, t)
<1>. DEFINE p == PrefixMatchLen(x, y)
            q == PrefixMatchLen(y, z)
            r == PrefixMatchLen(x, z)
            u == PrefixMatchLen(x, t)
            v == PrefixMatchLen(y, t)
<1>1. p \in 0 .. Rows /\ p < Rows /\ SamePrefix(x, y, p) /\ x[p + 1] # y[p + 1]
  BY PrefixMatch, RowsAssumption DEF IsBetter
<1>2. q \in 0 .. Rows /\ q < Rows /\ SamePrefix(y, z, q) /\ y[q + 1] # z[q + 1]
  BY PrefixMatch, RowsAssumption DEF IsBetter
<1>3. u \in 0 .. Rows /\ v \in 0 .. Rows
  BY PrefixMatch
<1>4. \A i \in 1 .. Rows : x[i] \in Nat /\ y[i] \in Nat /\ z[i] \in Nat /\ t[i] \in Nat
  BY DigitIsNat
<1>5. \/ u < p /\ v = u
      \/ u >= p /\ v >= p
  BY <1>1, SharedPrefix, RowsAssumption
<1>6. /\ u >= p => Distance(x[p + 1], t[p + 1]) < Distance(y[p + 1], t[p + 1])
      /\ u < p /\ x[u + 1] > t[u + 1] => x[p + 1] < y[p + 1]
      /\ u < p /\ x[u + 1] <= t[u + 1] => x[u + 1] < t[u + 1] /\ x[p + 1] > y[p + 1]
  BY <1>1, <1>3, <1>4, RowsAssumption DEF IsBetter
<1>7. /\ v >= q => Distance(y[q + 1], t[q + 1]) < Distance(z[q + 1], t[q + 1])
      /\ v < q /\ y[v + 1] > t[v + 1] => y[q + 1] < z[q + 1]
      /\ v < q /\ y[v + 1] <= t[v + 1] => y[v + 1] < t[v + 1] /\ y[q + 1] > z[q + 1]
  BY <1>2, <1>3, <1>4, RowsAssumption DEF IsBetter
<1>8. CASE p < q
  <2>1. r = p
    <3>1. SamePrefix(x, z, p) /\ x[p + 1] # z[p + 1] /\ y[p + 1] = z[p + 1]
      BY <1>1, <1>2, <1>8, RowsAssumption DEF SamePrefix
    <3>. QED
      BY <1>1, <3>1, PrefixUnique
  <2>2. y[p + 1] = z[p + 1]
    BY <1>1, <1>2, <1>8, RowsAssumption DEF SamePrefix
  <2>. QED
    BY <1>1, <1>3, <1>4, <1>6, <2>1, <2>2, RowsAssumption DEF IsBetter
<1>9. CASE q < p
  <2>1. r = q
    <3>1. SamePrefix(x, z, q) /\ x[q + 1] # z[q + 1]
      BY <1>1, <1>2, <1>9, RowsAssumption DEF SamePrefix
    <3>. QED
      BY <1>2, <3>1, PrefixUnique
  <2>2. \A i \in 1 .. p : x[i] = y[i]
    BY <1>1 DEF SamePrefix
  <2>3. CASE u < p
    BY <1>1, <1>2, <1>3, <1>4, <1>5, <1>7, <1>9, <2>1, <2>2, <2>3, RowsAssumption DEF IsBetter
  <2>4. CASE u >= p
    BY <1>1, <1>2, <1>3, <1>4, <1>5, <1>7, <1>9, <2>1, <2>2, <2>4, RowsAssumption DEF IsBetter
  <2>. QED
    BY <1>1, <1>3, <2>3, <2>4
<1>10. CASE p = q
  <2>1. x[p + 1] # z[p + 1]
    BY <1>1, <1>2, <1>3, <1>4, <1>5, <1>6, <1>7, <1>10, RowsAssumption DEF Distance, SamePrefix
  <2>2. r = p
    <3>1. SamePrefix(x, z, p)
      BY <1>1, <1>2, <1>10 DEF SamePrefix
    <3>. QED
      BY <1>1, <2>1, <3>1, PrefixUnique
  <2>3. \A i \in 1 .. p : x[i] = y[i]
    BY <1>1 DEF SamePrefix
  <2>4. CASE u < p
    BY <1>1, <1>2, <1>3, <1>4, <1>5, <1>6, <1>7, <1>10, <2>2, <2>3, <2>4, RowsAssumption DEF IsBetter
  <2>5. CASE u >= p
    BY <1>1, <1>2, <1>3, <1>4, <1>5, <1>6, <1>7, <1>10, <2>2, <2>5, RowsAssumption DEF IsBetter, Distance
  <2>. QED
    BY <1>1, <1>3, <2>4, <2>5
<1>. QED
  BY <1>1, <1>2, <1>8, <1>9, <1>10

\* A node that shares a longer prefix with the target is better: the entry that
\* getNextRoutingNode takes from the routing table is always an improvement.
THEOREM LongerPrefixIsBetter ==
  ASSUME NEW x \in NodeId, NEW y \in NodeId, NEW t \in NodeId,
         PrefixMatchLen(y, t) < PrefixMatchLen(x, t)
  PROVE  IsBetter(x, y, t)
<1>. DEFINE u == PrefixMatchLen(x, t)
            v == PrefixMatchLen(y, t)
<1>1. u \in 0 .. Rows /\ SamePrefix(x, t, u)
  BY PrefixMatch
<1>2. v \in 0 .. Rows /\ SamePrefix(y, t, v) /\ (v < Rows => y[v + 1] # t[v + 1])
  BY PrefixMatch
<1>3. SamePrefix(x, y, v) /\ x[v + 1] # y[v + 1] /\ x[v + 1] = t[v + 1]
  BY <1>1, <1>2, RowsAssumption DEF SamePrefix
<1>4. PrefixMatchLen(x, y) = v
  BY <1>2, <1>3, PrefixUnique
<1>5. x[v + 1] \in Nat /\ y[v + 1] \in Nat /\ t[v + 1] \in Nat
  BY <1>1, <1>2, DigitIsNat, RowsAssumption
<1>6. Distance(x[v + 1], t[v + 1]) < Distance(y[v + 1], t[v + 1])
  BY <1>2, <1>3, <1>5, <1>1, RowsAssumption DEF Distance
<1>. QED
  BY <1>1, <1>2, <1>4, <1>6, RowsAssumption DEF IsBetter

\* So a better node shares at least as many digits with the target.
LEMMA BetterSharesMore ==
  ASSUME NEW x \in NodeId, NEW y \in NodeId, NEW t \in NodeId, IsBetter(x, y, t)
  PROVE  PrefixMatchLen(x, t) >= PrefixMatchLen(y, t)
<1>1. CASE PrefixMatchLen(y, t) > PrefixMatchLen(x, t)
  BY <1>1, LongerPrefixIsBetter, IsBetterTransitive, IsBetterIrreflexive
<1>. QED
  BY <1>1, PrefixMatch
=============================================================================
