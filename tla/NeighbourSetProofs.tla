------------------------- MODULE NeighbourSetProofs -------------------------
(***************************************************************************)
(* The ordered neighbour set, for every set of processes, every proximity  *)
(* and every time a ping may take: its elements and what points to them go *)
(* together, none is in it twice, a repair that walks it comes to all of   *)
(* them, and while pings take as long as usual it is in order and holds    *)
(* what module ClientDatabase says.                                        *)
(*                                                                         *)
(* Whatever tree the set is, insertion and erasure only put elements in or *)
(* take them out: one sequence is the other one thinned.  From this alone  *)
(* follows what holds under jitter; the rest needs the order as well.      *)
(***************************************************************************)
EXTENDS NeighbourSet, ClientDatabaseProofs, SequenceTheorems

\* r is s without some of its elements.
Thinned(r, s) ==
  \E f \in [DOMAIN r -> DOMAIN s] :
    /\ \A i, j \in DOMAIN r : i < j => f[i] < f[j]
    /\ \A i \in DOMAIN r : r[i] = s[f[i]]

\* No element twice; x comes before y.
Distinct(s) == \A i, j \in DOMAIN s : s[i] = s[j] => i = j
Precedes(s, x, y) == \E i, j \in DOMAIN s : i < j /\ s[i] = x /\ s[j] = y

\* insert: t is s with x in place i.
LEMMA InsertedAt ==
  ASSUME NEW S, NEW s \in Seq(S), NEW x \in S, NEW i \in 1 .. Len(s) + 1
  PROVE  /\ InsertAt(s, i, x) \in Seq(S)
         /\ Len(InsertAt(s, i, x)) = Len(s) + 1
         /\ \A k \in 1 .. Len(s) + 1 : InsertAt(s, i, x)[k] =
              IF k < i THEN s[k] ELSE IF k = i THEN x ELSE s[k - 1]
<1>. DEFINE a == SubSeq(s, 1, i - 1)
            b == SubSeq(s, i, Len(s))
            c == a \o <<x>>
<1>0. Len(s) \in Nat /\ i \in Nat
  BY LenProperties
<1>1. a \in Seq(S) /\ Len(a) = i - 1 /\ \A k \in 1 .. i - 1 : a[k] = s[k]
  BY SubSeqProperties
<1>2. b \in Seq(S) /\ Len(b) = Len(s) - i + 1 /\ \A k \in 1 .. Len(s) - i + 1 : b[k] = s[i + k - 1]
  BY SubSeqProperties
<1>. HIDE DEF a, b
<1>3. c \in Seq(S) /\ Len(c) = i /\ \A k \in 1 .. i : c[k] = IF k < i THEN s[k] ELSE x
  BY <1>1, ConcatProperties
<1>. HIDE DEF c
<1>. DEFINE t == c \o b
<1>4. t \in Seq(S) /\ Len(t) = Len(s) + 1
  <2>1. t \in Seq(S) /\ Len(t) = Len(c) + Len(b)
    BY <1>2, <1>3, ConcatProperties
  <2>. QED
    BY <1>0, <1>2, <1>3, <2>1
<1>5. ASSUME NEW k \in 1 .. Len(s) + 1
      PROVE  t[k] = IF k < i THEN s[k] ELSE IF k = i THEN x ELSE s[k - 1]
  <2>1. t[k] = IF k <= i THEN c[k] ELSE b[k - i]
    BY <1>0, <1>2, <1>3, ConcatProperties
  <2>. QED
    BY <1>2, <1>3, <2>1
<1>6. InsertAt(s, i, x) = t
  BY DEF InsertAt, a, b, c
<1>. HIDE DEF t
<1>. QED
  BY <1>4, <1>5, <1>6

\* erase: s without the places from j to k.
LEMMA ErasedBetween ==
  ASSUME NEW S, NEW s \in Seq(S), NEW j \in 1 .. Len(s), NEW k \in j .. Len(s)
  PROVE  LET r == SubSeq(s, 1, j - 1) \o SubSeq(s, k + 1, Len(s))
         IN  /\ r \in Seq(S)
             /\ Len(r) = Len(s) - (k - j + 1)
             /\ \A i \in 1 .. Len(r) : r[i] = IF i < j THEN s[i] ELSE s[i + (k - j + 1)]
<1>. DEFINE a == SubSeq(s, 1, j - 1)
            b == SubSeq(s, k + 1, Len(s))
<1>0. Len(s) \in Nat /\ j \in Nat /\ k \in Nat /\ j <= k /\ k <= Len(s)
  BY LenProperties
<1>1. a \in Seq(S) /\ Len(a) = j - 1 /\ \A i \in 1 .. j - 1 : a[i] = s[i]
  BY SubSeqProperties
<1>2. b \in Seq(S) /\ Len(b) = Len(s) - k /\ \A i \in 1 .. Len(s) - k : b[i] = s[k + i]
  BY SubSeqProperties
<1>. HIDE DEF a, b
<1>. DEFINE r == a \o b
<1>3. r \in Seq(S) /\ Len(r) = Len(s) - (k - j + 1)
  <2>1. r \in Seq(S) /\ Len(r) = Len(a) + Len(b)
    BY <1>1, <1>2, ConcatProperties
  <2>. QED
    BY <1>0, <1>1, <1>2, <2>1
<1>4. ASSUME NEW i \in 1 .. Len(r)
      PROVE  r[i] = IF i < j THEN s[i] ELSE s[i + (k - j + 1)]
  <2>1. r[i] = IF i <= j - 1 THEN a[i] ELSE b[i - (j - 1)]
    BY <1>0, <1>1, <1>2, <1>3, ConcatProperties
  <2>. HIDE DEF r
  <2>2. CASE i < j
    BY <1>0, <1>1, <2>1, <2>2
  <2>3. CASE j <= i
    <3>1. i - (j - 1) \in 1 .. Len(s) - k
      BY <1>0, <1>3, <2>3
    <3>2. b[i - (j - 1)] = s[k + (i - (j - 1))]
      BY <1>2, <3>1
    <3>3. k + (i - (j - 1)) = i + (k - j + 1)
      BY <1>0
    <3>. QED
      BY <1>0, <2>1, <2>3, <3>2, <3>3
  <2>. QED
    BY <1>0, <1>3, <2>2, <2>3
<1>. HIDE DEF r
<1>5. SubSeq(s, 1, j - 1) \o SubSeq(s, k + 1, Len(s)) = r
  BY DEF r, a, b
<1>. QED
  BY <1>3, <1>4, <1>5

\* What is left is distinct if the whole was, and comes in the same order.
LEMMA ThinnedItself ==
  ASSUME NEW s
  PROVE  Thinned(s, s)
<1>. DEFINE f == [k \in DOMAIN s |-> k]
<1>1. f \in [DOMAIN s -> DOMAIN s] /\ \A k \in DOMAIN s : f[k] = k
  OBVIOUS
<1>. HIDE DEF f
<1>. QED
  BY <1>1 DEF Thinned

LEMMA ThinnedKeeps ==
  ASSUME NEW S, NEW r \in Seq(S), NEW s \in Seq(S), Thinned(r, s)
  PROVE  /\ Range(r) \subseteq Range(s)
         /\ Distinct(s) => Distinct(r)
         /\ \A x, y : Precedes(r, x, y) => Precedes(s, x, y)
         /\ Distinct(s) => \A x, y \in Range(r) : Precedes(s, x, y) => Precedes(r, x, y)
<1>0. DOMAIN r \subseteq Int /\ DOMAIN s \subseteq Int
  BY LenProperties
<1>1. PICK f \in [DOMAIN r -> DOMAIN s] :
        /\ \A i, j \in DOMAIN r : i < j => f[i] < f[j]
        /\ \A i \in DOMAIN r : r[i] = s[f[i]]
  BY DEF Thinned
<1>2. Range(r) \subseteq Range(s)
  BY <1>1 DEF Range
<1>3. ASSUME NEW i \in DOMAIN r, NEW j \in DOMAIN r, f[i] = f[j] PROVE i = j
  <2>1. ~ i < j /\ ~ j < i
    <3>1. f[i] \in Int
      BY <1>0
    <3>. QED
      BY <1>1, <1>3, <3>1
  <2>. QED
    BY <1>0, <2>1
<1>4. Distinct(s) => Distinct(r)
  BY <1>1, <1>3 DEF Distinct
<1>5. ASSUME NEW x, NEW y, Precedes(r, x, y) PROVE Precedes(s, x, y)
  BY <1>1, <1>5 DEF Precedes
<1>6. ASSUME Distinct(s), NEW x \in Range(r), NEW y \in Range(r), Precedes(s, x, y)
      PROVE  Precedes(r, x, y)
  <2>1. PICK i, j \in DOMAIN r : r[i] = x /\ r[j] = y
    BY DEF Range
  <2>2. f[i] < f[j]
    BY <1>1, <1>6, <2>1 DEF Distinct, Precedes
  <2>3. i < j
    <3>1. i # j /\ ~ j < i
      BY <1>0, <1>1, <2>2
    <3>. QED
      BY <1>0, <3>1
  <2>. QED
    BY <2>1, <2>3 DEF Precedes
<1>. QED
  BY <1>2, <1>4, <1>5, <1>6

LEMMA InsertThins ==
  ASSUME NEW S, NEW s \in Seq(S), NEW x \in S, NEW i \in 1 .. Len(s) + 1
  PROVE  /\ Thinned(s, InsertAt(s, i, x))
         /\ Range(InsertAt(s, i, x)) = Range(s) \cup {x}
         /\ Distinct(s) /\ x \notin Range(s) => Distinct(InsertAt(s, i, x))
<1>. DEFINE t == InsertAt(s, i, x)
            f == [k \in DOMAIN s |-> IF k < i THEN k ELSE k + 1]
<1>0. Len(s) \in Nat /\ i \in Nat /\ DOMAIN s = 1 .. Len(s)
  BY LenProperties
<1>1. t \in Seq(S) /\ Len(t) = Len(s) + 1
      /\ \A k \in 1 .. Len(s) + 1 : t[k] = IF k < i THEN s[k] ELSE IF k = i THEN x ELSE s[k - 1]
  BY InsertedAt
<1>2. DOMAIN t = 1 .. Len(s) + 1
  BY <1>1, LenProperties
<1>. HIDE DEF t
<1>3. f \in [DOMAIN s -> DOMAIN t]
  BY <1>0, <1>2
<1>4. \A k \in DOMAIN s : t[f[k]] = s[k]
  <2>. SUFFICES ASSUME NEW k \in DOMAIN s PROVE t[f[k]] = s[k]
    OBVIOUS
  <2>1. CASE k < i
    BY <1>0, <1>1, <2>1
  <2>2. CASE ~ k < i
    <3>1. f[k] = k + 1 /\ k + 1 \in 1 .. Len(s) + 1 /\ ~ k + 1 < i /\ k + 1 # i
      BY <1>0, <2>2
    <3>. QED
      BY <1>0, <1>1, <3>1
  <2>. QED
    BY <2>1, <2>2
<1>5. Thinned(s, t)
  <2>1. \A k, l \in DOMAIN s : k < l => f[k] < f[l]
    BY <1>0
  <2>. HIDE DEF f
  <2>. QED
    BY <1>3, <1>4, <2>1 DEF Thinned
<1>6. ASSUME NEW k \in DOMAIN t PROVE t[k] = IF k = i THEN x ELSE s[IF k < i THEN k ELSE k - 1]
  BY <1>0, <1>1, <1>2
<1>7. \A k \in DOMAIN t : k # i => (IF k < i THEN k ELSE k - 1) \in DOMAIN s
  BY <1>0, <1>2
<1>8. i \in DOMAIN t
  BY <1>0, <1>2
<1>9. Range(t) = Range(s) \cup {x}
  <2>1. Range(s) \subseteq Range(t)
    BY <1>3, <1>4 DEF Range
  <2>. QED
    BY <1>6, <1>7, <1>8, <2>1 DEF Range
<1>10. ASSUME Distinct(s), x \notin Range(s) PROVE Distinct(t)
  <2>. SUFFICES ASSUME NEW k \in DOMAIN t, NEW l \in DOMAIN t, t[k] = t[l] PROVE k = l
    BY DEF Distinct
  <2>. DEFINE g(m) == IF m < i THEN m ELSE m - 1
  <2>1. k = i <=> l = i
    BY <1>6, <1>7, <1>10 DEF Range
  <2>2. CASE k # i
    <3>1. g(k) = g(l)
      BY <1>6, <1>7, <1>10, <2>1, <2>2 DEF Distinct
    <3>. QED
      BY <1>0, <1>2, <2>1, <2>2, <3>1
  <2>. QED
    BY <2>1, <2>2
<1>. QED
  BY <1>5, <1>9, <1>10 DEF t

LEMMA EraseThins ==
  ASSUME NEW S, NEW s \in Seq(S), NEW tm, NEW i \in DOMAIN s, NEW r \in EraseOutcomes(s, tm, i)
  PROVE  r \in Seq(S) /\ Thinned(r, s)
<1>0. Len(s) \in Nat /\ DOMAIN s = 1 .. Len(s)
  BY LenProperties
<1>1. CASE r = s
  BY <1>1, ThinnedItself
<1>2. CASE \E j \in 1 .. i, k \in i .. Len(s) : r = SubSeq(s, 1, j - 1) \o SubSeq(s, k + 1, Len(s))
  <2>1. PICK j \in 1 .. i, k \in i .. Len(s) : r = SubSeq(s, 1, j - 1) \o SubSeq(s, k + 1, Len(s))
    BY <1>2
  <2>. DEFINE f == [l \in DOMAIN r |-> IF l < j THEN l ELSE l + (k - j + 1)]
  <2>2. j \in 1 .. Len(s) /\ k \in j .. Len(s)
    BY <1>0
  <2>3. /\ r \in Seq(S) /\ Len(r) = Len(s) - (k - j + 1)
        /\ \A l \in 1 .. Len(r) : r[l] = IF l < j THEN s[l] ELSE s[l + (k - j + 1)]
    BY <2>1, <2>2, ErasedBetween
  <2>4. DOMAIN r = 1 .. Len(r)
    BY <2>3, LenProperties
  <2>5. f \in [DOMAIN r -> DOMAIN s]
    BY <1>0, <2>2, <2>3, <2>4
  <2>6. \A l \in DOMAIN r : r[l] = s[f[l]]
    BY <2>3, <2>4
  <2>7. \A l, m \in DOMAIN r : l < m => f[l] < f[m]
    BY <1>0, <2>2, <2>3, <2>4
  <2>. HIDE DEF f
  <2>. QED
    BY <2>3, <2>5, <2>6, <2>7 DEF Thinned
<1>. QED
  <2>. DEFINE first == {i} \cup {j \in 1 .. i - 1 : Before(tm, s[i], s[j])}
              last == {i} \cup {k \in i + 1 .. Len(s) : Before(tm, s[k], s[i])}
  <2>1. first \subseteq 1 .. i /\ last \subseteq i .. Len(s)
    BY <1>0
  <2>2. r = s \/ \E b \in first \X last : r = SubSeq(s, 1, b[1] - 1) \o SubSeq(s, b[2] + 1, Len(s))
    BY DEF EraseOutcomes
  <2>. HIDE DEF first, last
  <2>3. \A b \in first \X last : b[1] \in 1 .. i /\ b[2] \in i .. Len(s)
    BY <2>1
  <2>. QED
    BY <1>1, <1>2, <2>2, <2>3
-----------------------------------------------------------------------------
\* The elements of s are in order, and tm has the usual times of T.
Ordered(s) == \A i, j \in DOMAIN s : i < j => NearerNeighbour(Me, s[i], s[j])
UsualTimes(tm, T) == \A x \in T : tm[x] = Proximity[Me][x]

\* At the usual times the two comparators agree.
LEMMA UsualOrder ==
  ASSUME NEW tm, NEW x, NEW y, tm[x] = Proximity[Me][x], tm[y] = Proximity[Me][y]
  PROVE  Before(tm, x, y) <=> NearerNeighbour(Me, x, y)
BY DEF Before, NearerNeighbour

LEMMA OrderedThinned ==
  ASSUME NEW S, NEW r \in Seq(S), NEW s \in Seq(S), Thinned(r, s), Ordered(s)
  PROVE  Ordered(r)
BY DEF Thinned, Ordered

LEMMA OrderedInsert ==
  ASSUME NEW s \in Seq(Nodes), Ordered(s), NEW x \in Nodes, NEW tm,
         UsualTimes(tm, Range(s) \cup {x}), NEW i \in Gaps(s, tm, x)
  PROVE  Ordered(InsertAt(s, i, x))
<1>. DEFINE t == InsertAt(s, i, x)
<1>0. Len(s) \in Nat /\ DOMAIN s = 1 .. Len(s) /\ i \in 1 .. Len(s) + 1
  BY LenProperties DEF Gaps
<1>1. t \in Seq(Nodes) /\ Len(t) = Len(s) + 1
      /\ \A k \in 1 .. Len(s) + 1 : t[k] = IF k < i THEN s[k] ELSE IF k = i THEN x ELSE s[k - 1]
  BY <1>0, InsertedAt
<1>2. DOMAIN t = 1 .. Len(s) + 1
  BY <1>1, LenProperties
<1>. HIDE DEF t
<1>3. \A k \in 1 .. Len(s) : s[k] \in Nodes /\ s[k] \in Range(s)
  BY <1>0, ElementOfSeq DEF Range
<1>4. ASSUME NEW k \in 1 .. i - 1 PROVE NearerNeighbour(Me, s[k], x)
  <2>1. i - 1 \in 1 .. Len(s) /\ k \in 1 .. Len(s) /\ i > 1
    BY <1>0
  <2>2. NearerNeighbour(Me, s[i - 1], x)
    BY <1>3, <2>1, UsualOrder DEF Gaps, UsualTimes
  <2>3. k = i - 1 \/ NearerNeighbour(Me, s[k], s[i - 1])
    BY <1>0, <2>1 DEF Ordered
  <2>. QED
    BY <1>3, <2>1, <2>2, <2>3, NearerTransitive, MeAssumption
<1>5. ASSUME NEW k \in i .. Len(s) PROVE NearerNeighbour(Me, x, s[k])
  <2>1. i \in 1 .. Len(s) /\ k \in 1 .. Len(s)
    BY <1>0
  <2>2. NearerNeighbour(Me, x, s[i])
    BY <1>0, <1>3, <2>1, UsualOrder DEF Gaps, UsualTimes
  <2>3. k = i \/ NearerNeighbour(Me, s[i], s[k])
    BY <1>0, <2>1 DEF Ordered
  <2>. QED
    BY <1>3, <2>1, <2>2, <2>3, NearerTransitive, MeAssumption
<1>6. ASSUME NEW k \in DOMAIN t, NEW l \in DOMAIN t, k < l PROVE NearerNeighbour(Me, t[k], t[l])
  <2>1. CASE k = i
    <3>1. t[k] = x /\ t[l] = s[l - 1] /\ l - 1 \in i .. Len(s)
      BY <1>0, <1>1, <1>2, <1>6, <2>1
    <3>. QED
      BY <1>5, <3>1
  <2>2. CASE l = i
    <3>1. t[k] = s[k] /\ t[l] = x /\ k \in 1 .. i - 1
      BY <1>0, <1>1, <1>2, <1>6, <2>2
    <3>. QED
      BY <1>4, <3>1
  <2>3. CASE k # i /\ l # i
    <3>. DEFINE g(m) == IF m < i THEN m ELSE m - 1
    <3>1. t[k] = s[g(k)] /\ t[l] = s[g(l)]
      BY <1>1, <1>2, <2>3
    <3>2. g(k) \in 1 .. Len(s) /\ g(l) \in 1 .. Len(s) /\ g(k) < g(l)
      BY <1>0, <1>2, <1>6, <2>3
    <3>. HIDE DEF g
    <3>. QED
      BY <1>0, <3>1, <3>2 DEF Ordered
  <2>. QED
    BY <2>1, <2>2, <2>3
<1>. QED
  BY <1>6 DEF Ordered, t

\* Among elements in order an erasure takes just the one.
LEMMA OrderedErase ==
  ASSUME NEW s \in Seq(Nodes), Ordered(s), NEW tm, UsualTimes(tm, Range(s)),
         NEW i \in DOMAIN s, NEW r \in EraseOutcomes(s, tm, i)
  PROVE  /\ Len(r) = Len(s) - 1
         /\ \A k \in 1 .. Len(r) : r[k] = IF k < i THEN s[k] ELSE s[k + 1]
         /\ Range(r) = Range(s) \ {s[i]}
<1>. DEFINE first == {i} \cup {j \in 1 .. i - 1 : Before(tm, s[i], s[j])}
            last == {i} \cup {k \in i + 1 .. Len(s) : Before(tm, s[k], s[i])}
<1>0. Len(s) \in Nat /\ DOMAIN s = 1 .. Len(s)
  BY LenProperties
<1>1. ASSUME NEW k \in DOMAIN s, NEW l \in DOMAIN s, k < l PROVE ~ Before(tm, s[l], s[k]) /\ s[k] # s[l]
  <2>1. s[k] \in Nodes /\ s[l] \in Nodes /\ s[k] \in Range(s) /\ s[l] \in Range(s)
    BY <1>0, ElementOfSeq DEF Range
  <2>2. NearerNeighbour(Me, s[k], s[l])
    BY <1>1 DEF Ordered
  <2>3. Before(tm, s[l], s[k]) => NearerNeighbour(Me, s[l], s[k])
    BY <2>1, UsualOrder DEF UsualTimes
  <2>. QED
    BY <2>1, <2>2, <2>3, NearerTransitive, NearerIrreflexive, MeAssumption
<1>2. first = {i} /\ last = {i}
  BY <1>0, <1>1
<1>3. r = SubSeq(s, 1, i - 1) \o SubSeq(s, i + 1, Len(s))
  <2>1. r \in {SubSeq(s, 1, b[1] - 1) \o SubSeq(s, b[2] + 1, Len(s)) : b \in first \X last}
    BY <1>2 DEF EraseOutcomes
  <2>. HIDE DEF first, last
  <2>. QED
    BY <1>2, <2>1
<1>4. /\ r \in Seq(Nodes) /\ Len(r) = Len(s) - (i - i + 1)
      /\ \A k \in 1 .. Len(r) : r[k] = IF k < i THEN s[k] ELSE s[k + (i - i + 1)]
  <2>1. i \in 1 .. Len(s) /\ i \in i .. Len(s)
    BY <1>0
  <2>. QED
    BY <1>3, <2>1, ErasedBetween
<1>5. Len(r) = Len(s) - 1 /\ \A k \in 1 .. Len(s) - 1 : r[k] = IF k < i THEN s[k] ELSE s[k + 1]
  BY <1>0, <1>4
<1>6. DOMAIN r = 1 .. Len(s) - 1
  BY <1>4, <1>5, LenProperties
<1>7. Range(r) \subseteq Range(s) \ {s[i]}
  <2>. SUFFICES ASSUME NEW k \in DOMAIN r PROVE r[k] \in Range(s) \ {s[i]}
    BY DEF Range
  <2>. DEFINE l == IF k < i THEN k ELSE k + 1
  <2>1. r[k] = s[l] /\ l \in DOMAIN s /\ (l < i \/ i < l)
    BY <1>0, <1>5, <1>6
  <2>. QED
    BY <1>1, <2>1 DEF Range
<1>8. Range(s) \ {s[i]} \subseteq Range(r)
  <2>. SUFFICES ASSUME NEW l \in DOMAIN s, l # i PROVE s[l] \in Range(r)
    BY DEF Range
  <2>. DEFINE k == IF l < i THEN l ELSE l - 1
  <2>1. k \in DOMAIN r /\ l = (IF k < i THEN k ELSE k + 1)
    BY <1>0, <1>6
  <2>. QED
    BY <1>5, <1>6, <2>1 DEF Range
<1>. QED
  BY <1>5, <1>7, <1>8

\* Of elements in order the k-th has k - 1 before it.
LEMMA OrderedCount ==
  ASSUME NEW s \in Seq(Nodes), Ordered(s), NEW k \in DOMAIN s
  PROVE  Cardinality({y \in Range(s) : NearerNeighbour(Me, y, s[k])}) = k - 1
<1>. DEFINE T == {y \in Range(s) : NearerNeighbour(Me, y, s[k])}
            f == [i \in 1 .. k - 1 |-> s[i]]
<1>0. Len(s) \in Nat /\ DOMAIN s = 1 .. Len(s) /\ \A i \in DOMAIN s : s[i] \in Nodes
  BY LenProperties, ElementOfSeq
<1>1. ASSUME NEW i \in DOMAIN s, NEW j \in DOMAIN s
      PROVE  (NearerNeighbour(Me, s[i], s[j]) <=> i < j) /\ (s[i] = s[j] => i = j)
  <2>1. i < j \/ i = j \/ j < i
    BY <1>0
  <2>2. /\ i < j => NearerNeighbour(Me, s[i], s[j])
        /\ j < i => NearerNeighbour(Me, s[j], s[i])
    BY DEF Ordered
  <2>. QED
    BY <1>0, <2>1, <2>2, NearerTransitive, NearerIrreflexive, MeAssumption
<1>2. f \in Bijection(1 .. k - 1, T)
  <2>1. f \in [1 .. k - 1 -> T]
    BY <1>0, <1>1 DEF Range
  <2>2. \A i, j \in 1 .. k - 1 : f[i] = f[j] => i = j
    BY <1>0, <1>1
  <2>3. \A y \in T : \E i \in 1 .. k - 1 : f[i] = y
    BY <1>0, <1>1 DEF Range
  <2>. QED
    BY <2>1, <2>2, <2>3 DEF Bijection, Injection, Surjection, IsInjective
<1>3. IsFiniteSet(1 .. k - 1) /\ Cardinality(1 .. k - 1) = k - 1
  <2>1. 1 \in Int /\ k - 1 \in Nat
    BY <1>0
  <2>2. \A m \in Int : IsFiniteSet(1 .. m) /\ Cardinality(1 .. m) = IF 1 > m THEN 0 ELSE m - 1 + 1
    BY FS_Interval
  <2>. QED
    BY <2>1, <2>2
<1>. QED
  BY <1>2, <1>3, FS_Bijection DEF ExistsBijection

\* What NearestNeighbours keeps of elements in order are the first ones.
LEMMA OrderedNearest ==
  ASSUME NEW s \in Seq(Nodes), Ordered(s)
  PROVE  NearestNeighbours(Me, Range(s)) = {s[k] : k \in {l \in DOMAIN s : l <= NeighbourCap}}
<1>1. DOMAIN s \subseteq Nat /\ NeighbourCap \in Nat
  BY LenProperties, BaseAssumption DEF NeighbourCap
<1>2. \A k \in DOMAIN s : Cardinality({y \in Range(s) : NearerNeighbour(Me, y, s[k])}) < NeighbourCap
                          <=> k <= NeighbourCap
  BY <1>1, OrderedCount
<1>. QED
  BY <1>2 DEF NearestNeighbours, Range
-----------------------------------------------------------------------------
\* What the repair has still to come to is its element or behind it; once it
\* has asked, behind it, and when it is over, nothing.
RepairPosition ==
  /\ repair.step = "none" => unasked = {}
  /\ repair.step = "fetch" /\ repair.it # None =>
       \A y \in unasked : y = repair.it \/ Precedes(set, repair.it, y)
  /\ repair.step = "ask" /\ ~ repair.update /\ repair.it # None =>
       \A y \in unasked : Precedes(set, repair.it, y)

\* While every ping has taken its usual time.
InUsualOrder == UsualTimes(time, Elements) /\ Ordered(set) /\ Len(set) <= NeighbourCap

SetIInv == TypeOK /\ NoDuplicates /\ RepairPosition /\ (jittered \/ InUsualOrder)

\* The elements that are left come in the order they had.
OrderKept ==
  \A x, y \in Elements' : Precedes(set, x, y) => Precedes(set', x, y)

\* TypeOK, the set and the repair apart.
SetTyped ==
  /\ set \in Seq(Others)
  /\ time \in [Nodes -> Times \cup {None}]
  /\ \A x \in Nodes : time[x] = None <=> x \notin Elements
  /\ announced \subseteq Elements /\ unasked \subseteq Elements

IteratorTyped == repair \in Repair /\ (repair.it # None => repair.it \in Elements)

LEMMA TypeParts == TypeOK => SetTyped /\ IteratorTyped /\ jittered \in BOOLEAN
BY DEF TypeOK, SetTyped, IteratorTyped

LEMMA PartsTyped ==
  ASSUME SetTyped', IteratorTyped', jittered' \in BOOLEAN
  PROVE  TypeOK'
<1>1. Elements' \subseteq Nodes
  BY RangeOfSeq DEF SetTyped, Elements, Others
<1>. QED
  BY <1>1 DEF TypeOK, SetTyped, IteratorTyped

\* Whatever insertion and erasure leave of the set, its times, its
\* measurements and the history go with it.
LEMMA BecomesTyped ==
  ASSUME SetTyped, NEW s \in Seq(Others), NEW tm \in [Nodes -> Times \cup {None}],
         \A y \in Range(s) : tm[y] # None, NEW measured, Becomes(s, tm, measured)
  PROVE  /\ SetTyped' /\ set' = s /\ Elements' = Range(s)
         /\ unasked' = unasked \cap Elements'
         /\ \A y \in Elements' : time'[y] = tm[y]
<1>1. Elements' = Range(s)
  BY DEF Becomes, Elements
<1>2. Range(s) \subseteq Nodes
  BY RangeOfSeq DEF Others
<1>. QED
  BY <1>1, <1>2 DEF SetTyped, Becomes

LEMMA EraseKeeps ==
  ASSUME SetTyped, NEW s \in Seq(Others), Distinct(s), Thinned(set, s),
         NEW tm, NEW i \in DOMAIN s, set' \in EraseOutcomes(s, tm, i)
  PROVE  set' \in Seq(Others) /\ NoDuplicates' /\ OrderKept /\ Elements' \subseteq Range(s)
<1>1. set' \in Seq(Others) /\ Thinned(set', s)
  BY EraseThins
<1>2. Distinct(set') /\ Elements' \subseteq Range(s)
  BY <1>1, ThinnedKeeps DEF Elements
<1>3. \A x, y : Precedes(set, x, y) => Precedes(s, x, y)
  BY ThinnedKeeps DEF SetTyped
<1>4. \A x, y \in Range(set') : Precedes(s, x, y) => Precedes(set', x, y)
  BY <1>1, ThinnedKeeps
<1>. QED
  BY <1>1, <1>2, <1>3, <1>4 DEF NoDuplicates, Distinct, OrderKept, Elements

\* Entering x takes the set to t, the old one with x in it, and the overflow
\* may take elements from there.
LEMMA EnterThrough ==
  ASSUME SetTyped, NoDuplicates, NEW x \in Others, NEW p \in Times, NEW measured,
         Enter(x, p, measured)
  PROVE  LET tm == [time EXCEPT ![x] = p]
         IN  \E t \in Seq(Others) :
               /\ Distinct(t) /\ Thinned(set, t) /\ Range(t) = Elements \cup {x}
               /\ t = set \/ \E i \in Gaps(set, tm, x) : t = InsertAt(set, i, x)
               /\ set' \in Trimmed(t, tm) /\ Becomes(set', tm, measured)
<1>. DEFINE tm == [time EXCEPT ![x] = p]
            inserted == {InsertAt(set, i, x) : i \in Gaps(set, tm, x)}
            good(t) == /\ t \in Seq(Others) /\ Distinct(t) /\ Thinned(set, t)
                       /\ Range(t) = Elements \cup {x}
<1>1. PICK t \in IF x \in Elements THEN {set} ELSE inserted :
        \E s \in Trimmed(t, tm) : Becomes(s, tm, measured)
  BY DEF Enter
<1>2. set' \in Trimmed(t, tm) /\ Becomes(set', tm, measured)
  BY <1>1 DEF Becomes
<1>3. Distinct(set) /\ set \in Seq(Others)
  BY DEF NoDuplicates, Distinct, SetTyped
<1>4. CASE x \in Elements
  <2>1. t = set
    BY <1>1, <1>4
  <2>2. good(t)
    BY <1>3, <1>4, <2>1, ThinnedItself DEF Elements
  <2>. QED
    BY <1>2, <2>1, <2>2
<1>5. CASE x \notin Elements
  <2>1. PICK i \in Gaps(set, tm, x) : t = InsertAt(set, i, x)
    BY <1>1, <1>5
  <2>2. i \in 1 .. Len(set) + 1
    BY DEF Gaps
  <2>3. good(t)
    BY <1>3, <1>5, <2>1, <2>2, InsertThins, InsertedAt DEF Elements
  <2>. QED
    BY <1>2, <2>1, <2>3
<1>. QED
  BY <1>4, <1>5

\* With or without jitter, entering x leaves the others where they are.
LEMMA EnterKeeps ==
  ASSUME SetTyped, NoDuplicates, NEW x \in Others, NEW p \in Times, NEW measured,
         Enter(x, p, measured)
  PROVE  /\ SetTyped' /\ NoDuplicates' /\ OrderKept
         /\ unasked' = unasked \cap Elements' /\ jittered' \in BOOLEAN
<1>. DEFINE tm == [time EXCEPT ![x] = p]
<1>1. PICK t \in Seq(Others) :
        /\ Distinct(t) /\ Thinned(set, t) /\ Range(t) = Elements \cup {x}
        /\ set' \in Trimmed(t, tm) /\ Becomes(set', tm, measured)
  BY EnterThrough
<1>2. set' \in Seq(Others) /\ NoDuplicates' /\ OrderKept /\ Elements' \subseteq Range(t)
  <2>1. CASE Len(t) > NeighbourCap
    <3>1. Len(t) \in DOMAIN t
      BY <2>1, LenProperties, BaseAssumption DEF NeighbourCap
    <3>2. set' \in EraseOutcomes(t, tm, Len(t))
      BY <1>1, <2>1 DEF Trimmed
    <3>. QED
      BY <1>1, <3>1, <3>2, EraseKeeps
  <2>2. CASE ~ Len(t) > NeighbourCap
    <3>1. set' = t
      BY <1>1, <2>2 DEF Trimmed
    <3>2. \A a, b : Precedes(set, a, b) => Precedes(t, a, b)
      BY <1>1, ThinnedKeeps DEF SetTyped
    <3>. QED
      BY <1>1, <3>1, <3>2 DEF NoDuplicates, Distinct, OrderKept, Elements
  <2>. QED
    BY <2>1, <2>2
<1>3. tm \in [Nodes -> Times \cup {None}]
  BY DEF SetTyped
<1>4. \A y \in Range(set') : tm[y] # None
  <2>1. Range(set') \subseteq Elements \cup {x} /\ Range(set') \subseteq Nodes
    BY <1>1, <1>2, RangeOfSeq DEF Elements, Others
  <2>. QED
    BY <2>1, TimesAssumption DEF SetTyped
<1>. HIDE DEF tm
<1>5. jittered' \in BOOLEAN
  BY Zenon DEF Enter, Measure
<1>. QED
  BY <1>1, <1>2, <1>3, <1>4, <1>5, BecomesTyped

\* Without jitter entering x is what NeighboursWith says.
LEMMA EnterFollows ==
  ASSUME SetTyped, NoDuplicates, InUsualOrder, NEW x \in Others, NEW p \in Times, NEW measured,
         Enter(x, p, measured), ~ jittered'
  PROVE  InUsualOrder' /\ Elements' = NeighboursWith(Me, Elements, {x})
<1>. DEFINE tm == [time EXCEPT ![x] = p]
<1>1. PICK t \in Seq(Others) :
        /\ Thinned(set, t) /\ Range(t) = Elements \cup {x}
        /\ t = set \/ \E i \in Gaps(set, tm, x) : t = InsertAt(set, i, x)
        /\ set' \in Trimmed(t, tm) /\ Becomes(set', tm, measured)
  BY EnterThrough
<1>2. /\ set \in Seq(Others) /\ set \in Seq(Nodes) /\ t \in Seq(Nodes) /\ x \in Nodes
      /\ Elements \subseteq Nodes
  <2>1. set \in Seq(Others) /\ Others \subseteq Nodes
    BY DEF SetTyped, Others
  <2>. QED
    BY <1>1, <2>1, LenProperties, RangeOfSeq DEF Elements
<1>3. UsualTimes(tm, Elements \cup {x})
  <2>1. p = Proximity[Me][x]
    BY DEF Enter, Measure
  <2>. QED
    BY <1>2, <2>1 DEF InUsualOrder, UsualTimes, SetTyped
<1>4. Ordered(t)
  <2>1. CASE t = set
    BY <2>1 DEF InUsualOrder
  <2>2. ASSUME NEW i \in Gaps(set, tm, x), t = InsertAt(set, i, x) PROVE Ordered(t)
    <3>. HIDE DEF tm
    <3>. QED
      BY <1>2, <1>3, <2>2, OrderedInsert DEF InUsualOrder, Elements
  <2>. QED
    BY <1>1, <2>1, <2>2
<1>5. Len(t) \in Nat /\ NeighbourCap \in Nat /\ DOMAIN t = 1 .. Len(t)
      /\ Len(t) <= NeighbourCap + 1
  <2>1. Len(t) = Len(set) \/ Len(t) = Len(set) + 1
    <3>1. \A i \in Gaps(set, tm, x) : i \in 1 .. Len(set) + 1
      BY DEF Gaps
    <3>. HIDE DEF tm
    <3>. QED
      BY <1>1, <1>2, <3>1, InsertedAt
  <2>. QED
    BY <1>2, <2>1, LenProperties, BaseAssumption DEF InUsualOrder, NeighbourCap
<1>6. NeighboursWith(Me, Elements, {x}) = {t[k] : k \in {l \in DOMAIN t : l <= NeighbourCap}}
  <2>1. Elements \cup ({x} \ {Me}) = Range(t)
    BY <1>1 DEF Others
  <2>. QED
    BY <1>2, <1>4, <2>1, OrderedNearest DEF NeighboursWith
<1>7. /\ Ordered(set') /\ Len(set') <= NeighbourCap /\ Elements' \subseteq Range(t)
      /\ Elements' = {t[k] : k \in {l \in DOMAIN t : l <= NeighbourCap}}
  <2>1. CASE Len(t) > NeighbourCap
    <3>0. Len(t) = NeighbourCap + 1
      <4>1. \A a, b \in Nat : a > b /\ a <= b + 1 => a = b + 1
        OBVIOUS
      <4>. QED
        BY <1>5, <2>1, <4>1, Zenon
    <3>1. Len(t) \in DOMAIN t
      BY <1>5, <3>0
    <3>2. set' \in EraseOutcomes(t, tm, Len(t))
      BY <1>1, <2>1 DEF Trimmed
    <3>3. set' \in Seq(Others) /\ Ordered(set')
      BY <1>2, <1>4, <3>1, <3>2, EraseThins, OrderedThinned
    <3>4. /\ Len(set') = Len(t) - 1
          /\ \A k \in 1 .. Len(set') : set'[k] = IF k < Len(t) THEN t[k] ELSE t[k + 1]
          /\ Range(set') = Range(t) \ {t[Len(t)]}
      <4>1. UsualTimes(tm, Range(t)) /\ t \in Seq(Nodes)
        BY <1>1, <1>2, <1>3
      <4>. HIDE DEF tm
      <4>2. ASSUME NEW r \in EraseOutcomes(t, tm, Len(t))
            PROVE  /\ Len(r) = Len(t) - 1
                   /\ \A k \in 1 .. Len(r) : r[k] = IF k < Len(t) THEN t[k] ELSE t[k + 1]
                   /\ Range(r) = Range(t) \ {t[Len(t)]}
        BY <1>4, <3>1, <4>1, OrderedErase
      <4>. QED
        BY <3>2, <4>2
    <3>5. DOMAIN set' = 1 .. NeighbourCap /\ \A k \in 1 .. NeighbourCap : set'[k] = t[k]
      BY <1>5, <3>0, <3>3, <3>4, LenProperties
    <3>6. {l \in DOMAIN t : l <= NeighbourCap} = 1 .. NeighbourCap
      BY <1>5, <3>0
    <3>. QED
      BY <1>5, <3>0, <3>3, <3>4, <3>5, <3>6 DEF Elements, Range
  <2>2. CASE ~ Len(t) > NeighbourCap
    <3>1. set' = t
      BY <1>1, <2>2 DEF Trimmed
    <3>2. {l \in DOMAIN t : l <= NeighbourCap} = DOMAIN t
      BY <1>5, <2>2
    <3>. QED
      BY <1>4, <1>5, <2>2, <3>1, <3>2 DEF Elements, Range
  <2>. QED
    BY <2>1, <2>2
<1>8. UsualTimes(time', Elements')
  <2>1. \A y \in Elements' : y \in Nodes /\ time'[y] = tm[y]
    BY <1>1, <1>2, <1>7 DEF Becomes, Elements
  <2>. HIDE DEF tm
  <2>. QED
    BY <1>1, <1>3, <1>7, <2>1 DEF UsualTimes
<1>. QED
  BY <1>6, <1>7, <1>8 DEF InUsualOrder

\* The same for an erasure, ...
LEMMA DeleteKeeps ==
  ASSUME SetTyped, NoDuplicates, NEW x \in Others, DeleteFromNeighbourSet(x)
  PROVE  SetTyped' /\ NoDuplicates' /\ OrderKept /\ unasked' = unasked \cap Elements'
<1>1. PICK i \in DOMAIN set : set[i] = x /\ \E s \in EraseOutcomes(set, time, i) :
        Becomes(s, time, announced)
  BY DEF DeleteFromNeighbourSet
<1>2. set' \in EraseOutcomes(set, time, i) /\ Becomes(set', time, announced)
  BY <1>1 DEF Becomes
<1>3. Distinct(set) /\ set \in Seq(Others)
  BY DEF NoDuplicates, Distinct, SetTyped
<1>4. set' \in Seq(Others) /\ NoDuplicates' /\ OrderKept /\ Elements' \subseteq Elements
  BY <1>2, <1>3, EraseKeeps, ThinnedItself DEF Elements
<1>5. time \in [Nodes -> Times \cup {None}] /\ \A y \in Range(set') : time[y] # None
  <2>1. Range(set') \subseteq Elements /\ Elements \subseteq Nodes
    BY <1>3, <1>4, RangeOfSeq DEF Elements, Others
  <2>. QED
    BY <2>1 DEF SetTyped
<1>. QED
  BY <1>2, <1>4, <1>5, BecomesTyped

\* ... which without jitter takes x and nothing else.
LEMMA DeleteFollows ==
  ASSUME SetTyped, InUsualOrder, NEW x \in Others, DeleteFromNeighbourSet(x)
  PROVE  InUsualOrder' /\ Elements' = Elements \ {x}
<1>1. PICK i \in DOMAIN set : set[i] = x /\ \E s \in EraseOutcomes(set, time, i) :
        Becomes(s, time, announced)
  BY DEF DeleteFromNeighbourSet
<1>2. set' \in EraseOutcomes(set, time, i) /\ Becomes(set', time, announced)
  BY <1>1 DEF Becomes
<1>3. set \in Seq(Nodes) /\ UsualTimes(time, Range(set)) /\ Ordered(set) /\ Len(set) <= NeighbourCap
  BY DEF SetTyped, Others, InUsualOrder, Elements
<1>4. /\ Len(set') = Len(set) - 1
      /\ Range(set') = Range(set) \ {set[i]}
  <2>1. ASSUME NEW r \in EraseOutcomes(set, time, i)
        PROVE  Len(r) = Len(set) - 1 /\ Range(r) = Range(set) \ {set[i]}
    BY <1>3, OrderedErase
  <2>. QED
    BY <1>2, <2>1
<1>5. Ordered(set')
  BY <1>2, <1>3, EraseThins, OrderedThinned
<1>6. UsualTimes(time', Elements')
  <2>1. Elements' \subseteq Elements /\ Elements \subseteq Nodes
    BY <1>3, <1>4, RangeOfSeq DEF Elements
  <2>. QED
    BY <1>2, <1>3, <2>1 DEF UsualTimes, Becomes, Elements
<1>7. Len(set') <= NeighbourCap
  BY <1>3, <1>4, LenProperties, BaseAssumption DEF NeighbourCap
<1>. QED
  BY <1>1, <1>4, <1>5, <1>6, <1>7 DEF InUsualOrder, Elements

\* The iterator stays where it is, or loses its element; what comes after it
\* still comes after it.
LEMMA PositionKept ==
  ASSUME RepairPosition, IteratorTyped, unasked' = unasked \cap Elements', OrderKept,
         repair' = [repair EXCEPT !.it = IteratorAfter(set', @)]
  PROVE  RepairPosition' /\ IteratorTyped'
<1>1. /\ repair'.step = repair.step /\ repair'.update = repair.update /\ repair' \in Repair
      /\ repair'.it # None => repair'.it = repair.it /\ repair'.it \in Elements'
  BY DEF IteratorTyped, Repair, IteratorAfter, Entry, Elements
<1>. QED
  BY <1>1 DEF IteratorTyped, RepairPosition, OrderKept
-----------------------------------------------------------------------------
LEMMA AnnounceStep ==
  ASSUME SetIInv, NEW x \in Others, NEW p \in Times, Announce(x, p)
  PROVE  SetIInv'
<1>1. SetTyped /\ NoDuplicates /\ IteratorTyped /\ RepairPosition
  BY TypeParts DEF SetIInv
<1>2. PICK measured : Enter(x, p, measured)
  BY DEF Announce
<1>3. SetTyped' /\ NoDuplicates' /\ OrderKept /\ unasked' = unasked \cap Elements' /\ jittered' \in BOOLEAN
  BY <1>1, <1>2, EnterKeeps
<1>4. RepairPosition' /\ IteratorTyped'
  BY <1>1, <1>3, PositionKept DEF Announce, KeepIterator
<1>5. jittered' \/ InUsualOrder'
  BY <1>1, <1>2, EnterFollows DEF SetIInv, Enter, Measure
<1>6. TypeOK'
  BY <1>3, <1>4, PartsTyped
<1>. QED
  BY <1>3, <1>4, <1>5, <1>6 DEF SetIInv

LEMMA RepairAddStep ==
  ASSUME SetIInv, NEW x \in Others, NEW p \in Times, RepairAdd(x, p)
  PROVE  SetIInv'
<1>1. SetTyped /\ NoDuplicates /\ IteratorTyped
  BY TypeParts DEF SetIInv
<1>2. Enter(x, p, announced)
  BY DEF RepairAdd
<1>3. SetTyped' /\ NoDuplicates' /\ jittered' \in BOOLEAN
  BY <1>1, <1>2, EnterKeeps
<1>4. repair'.step = "ask" /\ repair'.update /\ IteratorTyped'
  BY <1>1 DEF RepairAdd, IteratorTyped, Repair, IteratorAfter, Entry, Elements
<1>5. jittered' \/ InUsualOrder'
  BY <1>1, <1>2, EnterFollows DEF SetIInv, Enter, Measure
<1>6. TypeOK'
  BY <1>3, <1>4, PartsTyped
<1>7. RepairPosition'
  BY <1>4 DEF RepairPosition
<1>. QED
  BY <1>3, <1>5, <1>6, <1>7 DEF SetIInv

LEMMA RemeasureStep ==
  ASSUME SetIInv, NEW x \in Others, NEW p \in Times, Remeasure(x, p)
  PROVE  SetIInv'
<1>1. /\ x \in Elements /\ x \in Nodes /\ p # None
      /\ set' = set /\ Elements' = Elements /\ unasked' = unasked /\ repair' = repair
      /\ time' = [time EXCEPT ![x] = p] /\ announced' \subseteq announced
  BY TimesAssumption DEF Remeasure, SetIInv, TypeOK, Elements, Others
<1>2. Elements \subseteq Nodes
  BY RangeOfSeq DEF SetIInv, TypeOK, Elements, Others
<1>3. jittered' \in BOOLEAN
  BY Zenon DEF Remeasure, Measure
<1>4. TypeOK'
  BY <1>1, <1>2, <1>3 DEF SetIInv, TypeOK
<1>5. NoDuplicates' /\ RepairPosition'
  BY <1>1 DEF SetIInv, NoDuplicates, RepairPosition
<1>6. ASSUME ~ jittered' PROVE InUsualOrder'
  <2>1. p = Proximity[Me][x] /\ InUsualOrder
    BY <1>6 DEF Remeasure, Measure, SetIInv
  <2>. QED
    BY <1>1, <1>2, <2>1 DEF InUsualOrder, UsualTimes, SetIInv, TypeOK
<1>. QED
  BY <1>4, <1>5, <1>6 DEF SetIInv

LEMMA DeleteStep ==
  ASSUME SetIInv, NEW x \in Others, DeleteFromNeighbourSet(x)
  PROVE  SetIInv'
<1>1. SetTyped /\ NoDuplicates /\ IteratorTyped /\ RepairPosition /\ jittered \in BOOLEAN
  BY TypeParts DEF SetIInv
<1>2. SetTyped' /\ NoDuplicates' /\ OrderKept /\ unasked' = unasked \cap Elements'
  BY <1>1, DeleteKeeps
<1>3. RepairPosition' /\ IteratorTyped'
  <2>1. CASE repair.step = "none"
    <3>1. repair' = [NoRepair EXCEPT !.step = "begin"]
      BY <2>1 DEF DeleteFromNeighbourSet
    <3>. QED
      BY <3>1 DEF RepairPosition, IteratorTyped, NoRepair, Repair, Steps, Entry
  <2>2. CASE repair.step # "none"
    BY <1>1, <1>2, <2>2, PositionKept DEF DeleteFromNeighbourSet
  <2>. QED
    BY <2>1, <2>2
<1>4. jittered' = jittered
  BY DEF DeleteFromNeighbourSet
<1>5. jittered' \/ InUsualOrder'
  BY <1>1, <1>4, DeleteFollows DEF SetIInv
<1>6. TypeOK'
  BY <1>1, <1>2, <1>3, <1>4, PartsTyped
<1>. QED
  BY <1>2, <1>3, <1>5, <1>6 DEF SetIInv

\* The walk: what is unasked lies ahead of the iterator.
LEMMA WalkStep ==
  ASSUME SetIInv, RepairBegin \/ RepairFetch \/ RepairDone \/ RepairAdvance \/ UseErased
  PROVE  SetIInv'
<1>1. UNCHANGED <<set, time, announced, jittered>>
  BY DEF RepairBegin, RepairFetch, RepairDone, RepairAdvance, UseErased
<1>2. Elements' = Elements /\ NoDuplicates' /\ (jittered' \/ InUsualOrder')
  BY <1>1 DEF SetIInv, NoDuplicates, InUsualOrder, Elements
<1>3. SetTyped /\ NoDuplicates /\ RepairPosition
      /\ repair \in Repair /\ (repair.it # None => repair.it \in Elements)
  BY TypeParts DEF SetIInv, IteratorTyped
<1>4. Len(set) \in Nat /\ DOMAIN set = 1 .. Len(set) /\ \A i \in DOMAIN set : set[i] \in Nodes
  BY <1>3, LenProperties, ElementOfSeq DEF SetTyped, Others
<1>5. \A y \in unasked : \E j \in DOMAIN set : set[j] = y
  BY <1>3 DEF SetTyped, Elements, Range
<1>6. /\ repair' \in Repair /\ (repair'.it # None => repair'.it \in Elements)
      /\ unasked' \subseteq Elements /\ RepairPosition'
  <2>1. CASE RepairBegin
    <3>1. CASE set = <<>>
      <4>1. Elements = {}
        BY <3>1 DEF Elements, Range
      <4>. QED
        BY <2>1, <3>1, <4>1 DEF RepairBegin, NoRepair, Repair, Steps, Entry, RepairPosition
    <3>2. CASE set # <<>>
      <4>1. 1 \in DOMAIN set
        BY <1>3, <1>4, <3>2, EmptySeq DEF SetTyped
      <4>2. repair' = [step |-> "fetch", it |-> set[1], update |-> FALSE] /\ unasked' = Elements
        BY <2>1, <3>2 DEF RepairBegin
      <4>3. set[1] \in Elements /\ set[1] \in Nodes
        BY <1>4, <4>1 DEF Elements, Range
      <4>4. \A y \in Elements : y = set[1] \/ Precedes(set, set[1], y)
        <5>. SUFFICES ASSUME NEW j \in DOMAIN set, j # 1 PROVE Precedes(set, set[1], set[j])
          BY DEF Elements, Range
        <5>1. 1 < j
          BY <1>4
        <5>. QED
          BY <4>1, <5>1 DEF Precedes
      <4>. QED
        BY <1>1, <4>2, <4>3, <4>4 DEF Repair, Steps, Entry, RepairPosition
    <3>. QED
      BY <3>1, <3>2
  <2>2. CASE RepairFetch
    <3>1. /\ repair' = [repair EXCEPT !.step = "ask"] /\ unasked' = unasked \ {repair.it}
          /\ \A y \in unasked' : Precedes(set, repair.it, y)
      BY <1>3, <2>2 DEF RepairFetch, RepairPosition
    <3>. QED
      BY <1>1, <1>3, <3>1 DEF Repair, Steps, RepairPosition, SetTyped
  <2>3. CASE RepairDone
    BY <2>3 DEF RepairDone, NoRepair, Repair, Steps, Entry, RepairPosition
  <2>4. CASE RepairAdvance
    <3>1. PICK i \in DOMAIN set :
            /\ set[i] = repair.it
            /\ repair' = IF i = Len(set) THEN NoRepair
                         ELSE [repair EXCEPT !.step = "fetch", !.it = set[i + 1]]
      BY <2>4 DEF RepairAdvance
    <3>2. \A y \in unasked : \E j \in DOMAIN set : i < j /\ set[j] = y
      <4>1. \A y \in unasked : Precedes(set, repair.it, y)
        BY <1>3, <2>4 DEF RepairAdvance, RepairPosition
      <4>2. \A k \in DOMAIN set : set[k] = repair.it => k = i
        BY <1>3, <3>1 DEF NoDuplicates
      <4>. QED
        BY <4>1, <4>2 DEF Precedes
    <3>3. unasked' = unasked /\ unasked \subseteq Elements
      BY <1>3, <2>4 DEF RepairAdvance, SetTyped
    <3>4. CASE i = Len(set)
      <4>1. unasked = {}
        BY <1>4, <3>2, <3>4
      <4>. QED
        BY <3>1, <3>3, <3>4, <4>1 DEF NoRepair, Repair, Steps, Entry, RepairPosition
    <3>5. CASE i # Len(set)
      <4>1. i + 1 \in DOMAIN set
        BY <1>4, <3>5
      <4>2. repair' = [repair EXCEPT !.step = "fetch", !.it = set[i + 1]]
        BY <3>1, <3>5
      <4>3. set[i + 1] \in Elements /\ set[i + 1] \in Nodes
        BY <1>4, <4>1 DEF Elements, Range
      <4>4. \A y \in unasked : y = set[i + 1] \/ Precedes(set, set[i + 1], y)
        <5>. SUFFICES ASSUME NEW j \in DOMAIN set, i < j, j # i + 1
                      PROVE  Precedes(set, set[i + 1], set[j])
          BY <3>2
        <5>1. i + 1 < j
          BY <1>4
        <5>. QED
          BY <4>1, <5>1 DEF Precedes
      <4>. QED
        BY <1>1, <1>3, <3>3, <4>2, <4>3, <4>4 DEF Repair, Steps, Entry, RepairPosition
    <3>. QED
      BY <3>4, <3>5
  <2>5. CASE UseErased
    BY <1>3, <2>5 DEF UseErased, Repair, Steps, RepairPosition, SetTyped
  <2>. QED
    BY <2>1, <2>2, <2>3, <2>4, <2>5
<1>7. SetTyped'
  BY <1>1, <1>2, <1>3, <1>6 DEF SetTyped
<1>8. jittered' \in BOOLEAN
  BY <1>1 DEF SetIInv, TypeOK
<1>9. TypeOK'
  <2>1. IteratorTyped'
    BY <1>2, <1>6 DEF IteratorTyped
  <2>. QED
    BY <1>7, <1>8, <2>1, PartsTyped
<1>. QED
  BY <1>2, <1>6, <1>9 DEF SetIInv
-----------------------------------------------------------------------------
LEMMA SetIInvInit == Init => SetIInv
<1>. SUFFICES ASSUME Init PROVE SetIInv
  OBVIOUS
<1>1. set = <<>> /\ DOMAIN set = {} /\ Elements = {} /\ set \in Seq(Others) /\ Len(set) = 0
  BY EmptySeq DEF Init, Elements, Range
<1>2. TypeOK
  BY <1>1 DEF Init, TypeOK, NoRepair, Repair, Steps, Entry
<1>3. InUsualOrder
  BY <1>1, BaseAssumption DEF InUsualOrder, UsualTimes, Ordered, NeighbourCap
<1>. QED
  BY <1>1, <1>2, <1>3 DEF Init, SetIInv, NoDuplicates, RepairPosition, NoRepair

LEMMA SetIInvStep == SetIInv /\ [Next]_vars => SetIInv'
<1>. SUFFICES ASSUME SetIInv, [Next]_vars PROVE SetIInv'
  OBVIOUS
<1>1. CASE UNCHANGED vars
  <2>1. Elements' = Elements
    BY <1>1 DEF vars, Elements
  <2>. QED
    BY <1>1, <2>1 DEF vars, SetIInv, TypeOK, NoDuplicates, RepairPosition, InUsualOrder
<1>. QED
  BY <1>1, AnnounceStep, RemeasureStep, DeleteStep, RepairAddStep, WalkStep DEF Next, RepairThread

LEMMA SetInductive == Spec => []SetIInv
BY SetIInvInit, SetIInvStep, PTL DEF Spec

\* The elements, their times, the measurements under way and the iterator of the
\* repair go together, whatever the erasures take along (clientDatabase.cpp:
\* 204-237, 625-690).
THEOREM TypeCorrect == Spec => []TypeOK
<1>1. SetIInv => TypeOK
  BY DEF SetIInv
<1>. QED
  BY <1>1, SetInductive, PTL

\* No process is in the set twice, although the comparator may lead insertion
\* and erasure astray.
THEOREM NoDuplicatesHolds == Spec => []NoDuplicates
<1>1. SetIInv => NoDuplicates
  BY DEF SetIInv
<1>. QED
  BY <1>1, SetInductive, PTL

\* A repair that ends without an entry has come to every element that was there
\* when it began and still is, at whatever places others were entered and erased
\* between its locked sections (clientDatabase.cpp:625-690).
THEOREM RepairAsksAllHolds == Spec => []RepairAsksAll
<1>1. SetIInv => RepairAsksAll
  BY DEF SetIInv, RepairPosition, RepairAsksAll
<1>. QED
  BY <1>1, SetInductive, PTL

\* While pings take as long as usual, the elements are nearest first.
THEOREM InOrderHolds == Spec => []InOrder
<1>1. SetIInv => InOrder
  <2>. SUFFICES ASSUME SetIInv, ~ jittered, NEW i \in DOMAIN set, NEW j \in DOMAIN set, i < j
                PROVE  Before(time, set[i], set[j])
    BY DEF InOrder
  <2>1. NearerNeighbour(Me, set[i], set[j]) /\ UsualTimes(time, Elements)
    BY DEF SetIInv, InUsualOrder, Ordered
  <2>2. set[i] \in Elements /\ set[j] \in Elements
    BY DEF Elements, Range
  <2>. QED
    BY <2>1, <2>2, UsualOrder DEF UsualTimes
<1>. QED
  BY <1>1, SetInductive, PTL

\* And the ordered set implements the table of module ClientDatabase: entering,
\* with the overflow, keeps the nearest, and erasing takes just the one.
THEOREM FollowsDatabaseHolds == Spec => FollowsDatabase
<1>1. SetIInv /\ [Next]_vars => jittered' \/ DatabaseStep \/ UNCHANGED vars
  <2>. SUFFICES ASSUME SetIInv, ~ jittered', [Next]_vars PROVE DatabaseStep \/ UNCHANGED vars
    OBVIOUS
  <2>1. SetTyped /\ NoDuplicates /\ (jittered \/ InUsualOrder)
    BY TypeParts DEF SetIInv
  <2>2. ASSUME NEW x \in Others, NEW p \in Times, NEW measured, Enter(x, p, measured)
        PROVE  Elements' = NeighboursWith(Me, Elements, {x})
    <3>1. ~ jittered
      BY <2>2 DEF Enter, Measure
    <3>. QED
      BY <2>1, <2>2, <3>1, EnterFollows
  <2>3. ASSUME NEW x \in Others, DeleteFromNeighbourSet(x)
        PROVE  Elements' = Elements \ {x}
    <3>1. ~ jittered
      BY <2>3 DEF DeleteFromNeighbourSet
    <3>. QED
      BY <2>1, <2>3, <3>1, DeleteFollows
  <2>. QED
    BY <2>2, <2>3 DEF DatabaseStep, Announce, RepairAdd
<1>. QED
  BY <1>1, SetInductive, PTL DEF Spec, FollowsDatabase
=============================================================================
