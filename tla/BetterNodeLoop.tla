--------------------------- MODULE BetterNodeLoop ---------------------------
(***************************************************************************)
(* The loop of is_better_node (common/utils.cpp:199-235), one iteration    *)
(* per step, for every pair of candidates and every target.  The same loop *)
(* is repeated in is_better_node_for_message (utils.cpp:252-286).          *)
(***************************************************************************)
EXTENDS NodeIds

VARIABLES
  new_node, current_node, target,   \* the arguments
  i,                                \* loop index, 1-based
  lesser, greater,                  \* the two flags
  result                            \* "none" until the function returns

vars == <<new_node, current_node, target, i, lesser, greater, result>>
args == <<new_node, current_node, target>>

Init ==
  /\ new_node \in NodeId /\ current_node \in NodeId /\ target \in NodeId
  /\ i = 1
  /\ lesser = FALSE /\ greater = FALSE
  /\ result = "none"

Return(b) == result' = IF b THEN "true" ELSE "false"

\* Mutant: a common prefix below the target's lets the smaller digit win.
Decide_GreaterSwapped ==
  /\ result = "none" /\ i <= Rows
  /\ new_node[i] # current_node[i]
  /\ \/ (lesser \/ greater) /\ Return(new_node[i] < current_node[i])
     \/ /\ ~lesser /\ ~greater
        /\ Return(Distance(new_node[i], target[i]) < Distance(current_node[i], target[i]))
  /\ UNCHANGED <<args, i, lesser, greater>>

\* The two candidates differ in digit i: the flags decide.
Decide ==
  /\ result = "none" /\ i <= Rows
  /\ new_node[i] # current_node[i]
  /\ \/ lesser /\ Return(new_node[i] < current_node[i])
     \/ ~lesser /\ greater /\ Return(new_node[i] > current_node[i])
     \/ /\ ~lesser /\ ~greater
        /\ Return(Distance(new_node[i], target[i]) < Distance(current_node[i], target[i]))
  /\ UNCHANGED <<args, i, lesser, greater>>

\* Mutant: two digits per iteration.
Advance_SkipsOne ==
  /\ result = "none" /\ i <= Rows
  /\ new_node[i] = current_node[i]
  /\ i' = i + 2
  /\ UNCHANGED <<args, lesser, greater, result>>
\* Mutant: a later digit can raise the second flag.
Advance_BothFlags ==
  /\ result = "none" /\ i <= Rows
  /\ new_node[i] = current_node[i]
  /\ lesser' = (lesser \/ new_node[i] > target[i])
  /\ greater' = (greater \/ new_node[i] < target[i])
  /\ i' = i + 1
  /\ UNCHANGED <<args, result>>

\* They agree in digit i: the first digit that leaves the target sets a flag.
Advance ==
  /\ result = "none" /\ i <= Rows
  /\ new_node[i] = current_node[i]
  /\ lesser' = (lesser \/ (new_node[i] > target[i] /\ ~greater))
  /\ greater' = (greater \/ (new_node[i] < target[i] /\ ~lesser))
  /\ i' = i + 1
  /\ UNCHANGED <<args, result>>

\* Mutant: no verdict for equal candidates.
FallThrough_Missing ==
  /\ result = "none" /\ i > Rows + 1
  /\ Return(FALSE)
  /\ UNCHANGED <<args, i, lesser, greater>>

\* The loop ran to the end: equal candidates are not better.
FallThrough ==
  /\ result = "none" /\ i > Rows
  /\ Return(FALSE)
  /\ UNCHANGED <<args, i, lesser, greater>>

Next == Decide \/ Advance \/ FallThrough

Spec == Init /\ [][Next]_vars /\ WF_vars(Next)
-----------------------------------------------------------------------------
\* The arguments are NodeIDs, the index stays within one step of the string.
TypeOK ==
  /\ new_node \in NodeId /\ current_node \in NodeId /\ target \in NodeId
  /\ i \in 1 .. Rows + 1
  /\ lesser \in BOOLEAN /\ greater \in BOOLEAN
  /\ result \in {"none", "true", "false"}

\* What the loop has established at the head of iteration i.
LoopInv ==
  /\ SamePrefix(new_node, current_node, i - 1)
  /\ ~(lesser /\ greater)
  /\ ~lesser /\ ~greater => SamePrefix(new_node, target, i - 1)
  /\ lesser => LET j == PrefixMatchLen(new_node, target) + 1
               IN  j < i /\ new_node[j] > target[j]
  /\ greater => LET j == PrefixMatchLen(new_node, target) + 1
                IN  j < i /\ new_node[j] < target[j]

\* The digit loop with its two flags computes the relation IsBetter that the
\* routing specification uses: it never returns a verdict IsBetter denies.
LoopComputesIsBetter ==
  /\ result = "true"  => IsBetter(new_node, current_node, target)
  /\ result = "false" => ~IsBetter(new_node, current_node, target)

\* The function returns on every input.
LoopReturns == <>(result # "none")
-----------------------------------------------------------------------------
\* The value of an identifier read as a number in base Base.
Value(x) ==
  LET v[k \in 0 .. Rows] == IF k = 0 THEN 0 ELSE v[k - 1] * Base + x[k]
  IN  v[Rows]

\* What include/utils.h:30 says of is_better_node, "is node1 more closer to
\* nodeID than node2", read numerically where the prefix does not decide: of two
\* nodes that share equally many digits with the target it never prefers the
\* one that is strictly farther.
NeverPrefersFarther ==
  /\ result = "true"
  /\ PrefixMatchLen(new_node, target) = PrefixMatchLen(current_node, target)
  => Distance(Value(new_node), Value(target)) <= Distance(Value(current_node), Value(target))
=============================================================================
