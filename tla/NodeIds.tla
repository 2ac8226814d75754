------------------------------ MODULE NodeIds ------------------------------
(***************************************************************************)
(* Identifiers of the overlay and the two comparisons routing is built on  *)
(* (common/utils.cpp): prefixMatchLen and is_better_node.                  *)
(*                                                                         *)
(* A NodeID is the first `row' digits of a hash, each digit below          *)
(* 2^config_parameter_b (commandHandler.cpp:44-45, clientDatabase.cpp:12). *)
(* Here it is a sequence of Rows digits below Base.                        *)
(***************************************************************************)
EXTENDS Integers

CONSTANTS
  Base,   \* number of values of a digit: `col' = 2^b
  Rows    \* number of digits of a NodeID: `row'

ASSUME BaseAssumption == Base \in Nat /\ Base >= 2
ASSUME RowsAssumption == Rows \in Nat /\ Rows >= 1

Digit == 0 .. Base - 1
NodeId == [1 .. Rows -> Digit]

\* The first k digits of x and y agree.
SamePrefix(x, y, k) == \A i \in 1 .. k : x[i] = y[i]

\* prefixMatchLen: the number of leading digits x and y share.
PrefixMatchLen(x, y) ==
  CHOOSE k \in 0 .. Rows :
    SamePrefix(x, y, k) /\ (k < Rows => x[k + 1] # y[k + 1])

\* operator< of std::string on two NodeIDs (both have Rows digits).
IdLess(x, y) ==
  LET p == PrefixMatchLen(x, y)
  IN  p < Rows /\ x[p + 1] < y[p + 1]

IdLeq(x, y) == ~ IdLess(y, x)

Distance(a, b) == IF a < b THEN b - a ELSE a - b

(***************************************************************************)
(* is_better_node(x, y, t): is x strictly better than y for target t?  The *)
(* decision falls at the first digit d where x and y differ.  If they      *)
(* agree with t before d the digit nearer to t's wins; if their common     *)
(* prefix already exceeds t's (`lesser') the smaller digit wins, and if it *)
(* is below t's (`greater') the larger one.                                *)
(***************************************************************************)
IsBetter(x, y, t) ==
  LET d == PrefixMatchLen(x, y) + 1
      j == PrefixMatchLen(x, t) + 1   \* where x leaves t
  IN  /\ d <= Rows
      /\ \/ j >= d /\ Distance(x[d], t[d]) < Distance(y[d], t[d])
         \/ j < d  /\ x[j] > t[j] /\ x[d] < y[d]
         \/ j < d  /\ x[j] < t[j] /\ x[d] > y[d]
=============================================================================
