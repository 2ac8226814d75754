------------------------ MODULE BetterNodeLoopProofs ------------------------
(***************************************************************************)
(* The loop of is_better_node computes IsBetter, for every base, every     *)
(* number of digits and all arguments.                                     *)
(***************************************************************************)
EXTENDS BetterNodeLoop, NodeIdsProofs

\* The inductive invariant: the two named parts need one another.
LoopIInv == TypeOK /\ LoopInv /\ LoopComputesIsBetter

LEMMA LoopInit == Init => LoopIInv
<1>. SUFFICES ASSUME Init PROVE LoopIInv
  OBVIOUS
<1>1. TypeOK
  <2>1. i \in 1 .. Rows + 1
    BY RowsAssumption DEF Init
  <2>. QED
    BY <2>1, Zenon DEF Init, TypeOK
<1>2. LoopInv /\ LoopComputesIsBetter
  BY RowsAssumption DEF Init, LoopInv, LoopComputesIsBetter, SamePrefix
<1>. QED
  BY <1>1, <1>2 DEF LoopIInv

\* The first digit in which the candidates differ fixes their common prefix.
LEMMA LoopPrefix ==
  ASSUME TypeOK, LoopInv, i <= Rows, new_node[i] # current_node[i]
  PROVE  PrefixMatchLen(new_node, current_node) = i - 1
<1>1. i - 1 \in 0 .. Rows /\ SamePrefix(new_node, current_node, i - 1)
  BY RowsAssumption DEF TypeOK, LoopInv
<1>. QED
  BY <1>1, PrefixUnique, RowsAssumption DEF TypeOK

\* The flags say where the common prefix of the candidates leaves the target.
LEMMA LoopFlags ==
  ASSUME TypeOK, LoopInv, i <= Rows
  PROVE  LET u == PrefixMatchLen(new_node, target)
         IN  /\ u \in 0 .. Rows
             /\ lesser  => u + 1 < i /\ new_node[u + 1] > target[u + 1]
             /\ greater => u + 1 < i /\ new_node[u + 1] < target[u + 1]
             /\ ~lesser /\ ~greater => u + 1 >= i
<1>. DEFINE u == PrefixMatchLen(new_node, target)
<1>1. u \in 0 .. Rows /\ (u < Rows => new_node[u + 1] # target[u + 1])
  BY PrefixMatch DEF TypeOK
<1>2. ~lesser /\ ~greater => u + 1 >= i
  BY <1>1, RowsAssumption DEF TypeOK, LoopInv, SamePrefix
<1>. QED
  BY <1>1, <1>2 DEF LoopInv

LEMMA LoopDecide ==
  ASSUME LoopIInv, Decide
  PROVE  LoopIInv'
<1>1. TypeOK'
  BY DEF LoopIInv, TypeOK, Decide, Return, args
<1>2. LoopInv'
  BY DEF LoopIInv, LoopInv, Decide, args
<1>3. LoopComputesIsBetter'
  <2>. DEFINE u == PrefixMatchLen(new_node, target)
  <2>1. i \in 1 .. Rows /\ PrefixMatchLen(new_node, current_node) = i - 1
    BY LoopPrefix DEF LoopIInv, Decide, TypeOK
  <2>2. /\ u \in 0 .. Rows
        /\ lesser  => u + 1 < i /\ new_node[u + 1] > target[u + 1]
        /\ greater => u + 1 < i /\ new_node[u + 1] < target[u + 1]
        /\ ~lesser /\ ~greater => u + 1 >= i
    BY LoopFlags DEF LoopIInv, Decide
  <2>3. \A k \in 1 .. Rows : new_node[k] \in Nat /\ current_node[k] \in Nat /\ target[k] \in Nat
    BY DigitIsNat DEF LoopIInv, TypeOK
  <2>4. IsBetter(new_node, current_node, target) <=>
          \/ lesser /\ new_node[i] < current_node[i]
          \/ ~lesser /\ greater /\ new_node[i] > current_node[i]
          \/ ~lesser /\ ~greater
               /\ Distance(new_node[i], target[i]) < Distance(current_node[i], target[i])
    BY <2>1, <2>2, <2>3, RowsAssumption DEF IsBetter, LoopIInv, TypeOK
  <2>5. result' = "true" <=> IsBetter(new_node, current_node, target)
    BY <2>4 DEF Decide, Return
  <2>. QED
    BY <2>5 DEF LoopComputesIsBetter, Decide, args
<1>. QED
  BY <1>1, <1>2, <1>3 DEF LoopIInv

LEMMA LoopAdvance ==
  ASSUME LoopIInv, Advance
  PROVE  LoopIInv'
<1>. DEFINE u == PrefixMatchLen(new_node, target)
<1>0. /\ new_node' = new_node /\ current_node' = current_node /\ target' = target
      /\ i \in 1 .. Rows /\ i' = i + 1 /\ result' = result
      /\ result = "none" /\ new_node[i] = current_node[i]
  BY DEF LoopIInv, TypeOK, Advance, args
<1>1. TypeOK'
  BY <1>0, RowsAssumption DEF LoopIInv, TypeOK, Advance
<1>2. LoopInv'
  <2>1. SamePrefix(new_node, current_node, i)
    BY <1>0 DEF LoopIInv, LoopInv, SamePrefix
  <2>2. new_node[i] \in Nat /\ target[i] \in Nat
    BY <1>0, DigitIsNat DEF LoopIInv, TypeOK
  <2>3. /\ u \in 0 .. Rows
        /\ lesser  => u + 1 < i /\ new_node[u + 1] > target[u + 1]
        /\ greater => u + 1 < i /\ new_node[u + 1] < target[u + 1]
        /\ ~lesser /\ ~greater => u + 1 >= i
    BY <1>0, LoopFlags DEF LoopIInv
  <2>4. (lesser' <=> lesser \/ (new_node[i] > target[i] /\ ~greater))
    BY Zenon DEF Advance
  <2>5. (greater' <=> greater \/ (new_node[i] < target[i] /\ ~lesser))
    BY Zenon DEF Advance
  <2>6. ~lesser /\ ~greater /\ new_node[i] # target[i] => u + 1 = i
    <3>. SUFFICES ASSUME ~lesser, ~greater, new_node[i] # target[i] PROVE u + 1 = i
      OBVIOUS
    <3>1. i - 1 \in 0 .. Rows /\ SamePrefix(new_node, target, i - 1)
      BY <1>0, RowsAssumption DEF LoopIInv, LoopInv
    <3>. QED
      BY <1>0, <3>1, PrefixUnique, RowsAssumption DEF LoopIInv, TypeOK
  <2>7. ~(lesser' /\ greater')
    BY <2>2, <2>4, <2>5 DEF LoopIInv, LoopInv
  <2>8. ~lesser' /\ ~greater' => SamePrefix(new_node, target, i)
    BY <1>0, <2>2, <2>4, <2>5 DEF LoopIInv, LoopInv, SamePrefix
  <2>9. /\ lesser' => u + 1 < i + 1 /\ new_node[u + 1] > target[u + 1]
        /\ greater' => u + 1 < i + 1 /\ new_node[u + 1] < target[u + 1]
    BY <1>0, <2>2, <2>3, <2>4, <2>5, <2>6
  <2>10. i' - 1 = i
    BY <1>0
  <2>. QED
    BY <1>0, <2>1, <2>7, <2>8, <2>9, <2>10 DEF LoopInv
<1>3. LoopComputesIsBetter'
  BY <1>0 DEF LoopComputesIsBetter
<1>. QED
  BY <1>1, <1>2, <1>3 DEF LoopIInv

LEMMA LoopFallThrough ==
  ASSUME LoopIInv, FallThrough
  PROVE  LoopIInv'
<1>1. new_node \in NodeId /\ current_node \in NodeId /\ i = Rows + 1
  BY RowsAssumption DEF LoopIInv, TypeOK, FallThrough
<1>2. SamePrefix(new_node, current_node, Rows)
  BY <1>1, RowsAssumption DEF LoopIInv, LoopInv
<1>3. PrefixMatchLen(new_node, current_node) = Rows
  BY <1>1, <1>2, PrefixUnique, RowsAssumption
<1>4. ~ IsBetter(new_node, current_node, target)
  BY <1>3, RowsAssumption DEF IsBetter
<1>5. TypeOK' /\ LoopInv'
  BY DEF LoopIInv, TypeOK, LoopInv, FallThrough, Return, args
<1>6. LoopComputesIsBetter'
  BY <1>4 DEF LoopComputesIsBetter, FallThrough, Return, args
<1>. QED
  BY <1>5, <1>6 DEF LoopIInv

LEMMA LoopStep == LoopIInv /\ [Next]_vars => LoopIInv'
<1>. SUFFICES ASSUME LoopIInv, [Next]_vars PROVE LoopIInv'
  OBVIOUS
<1>1. CASE UNCHANGED vars
  BY <1>1 DEF vars, LoopIInv, TypeOK, LoopInv, LoopComputesIsBetter
<1>. QED
  BY <1>1, LoopDecide, LoopAdvance, LoopFallThrough DEF Next

\* The arguments stay NodeIDs and the index never runs past the digits
\* (utils.cpp:199-235).
THEOREM LoopTypeCorrect == Spec => []TypeOK
<1>1. LoopIInv => TypeOK
  BY DEF LoopIInv
<1>. QED
  BY LoopInit, LoopStep, <1>1, PTL DEF Spec

\* The verdict the loop of is_better_node returns is the relation IsBetter, on
\* which the routing model and its proofs rest.
THEOREM LoopCorrect == Spec => []LoopComputesIsBetter
<1>1. LoopIInv => LoopComputesIsBetter
  BY DEF LoopIInv
<1>. QED
  BY LoopInit, LoopStep, <1>1, PTL DEF Spec

\* At every index the loop comes to, its flags say on which side of the target
\* the common prefix of the candidates lies (utils.cpp:204-228): this is what
\* lets it decide without looking back.
THEOREM LoopFlagsTell == Spec => []LoopInv
<1>1. LoopIInv => LoopInv
  BY DEF LoopIInv
<1>. QED
  BY LoopInit, LoopStep, <1>1, PTL DEF Spec
=============================================================================
