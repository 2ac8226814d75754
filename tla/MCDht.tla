-------------------------------- MODULE MCDht --------------------------------
(***************************************************************************)
(* The key-value store on the small overlays of MCOverlay.                 *)
(***************************************************************************)
EXTENDS DhtProperties, MCOverlay

\* No two of the processes are equally near to these keys: n120 is the best
\* node for the first, n211, once it has joined, for the second.
k121 == <<1, 2, 1>>
k210 == <<2, 1, 0>>
OneKey == {k210}
Key131 == {<<1, 3, 1>>}
TwoKeys == {k121, k210}
\* n211 is the best node for both of these.
SameOwner == {k210, <<2, 1, 3>>}
\* n103 and n120 are equally near to this key.
TiedKey == {<<1, 1, 3>>}
\* These keys start with the NodeIDs of n211 and n123.
OwnKey == {n211}
DenseOwnKey == {n123}

Only122 == {n122}

\* With eight digits: w5000 is the best node for the key once it has joined the
\* network of w0000, and w2000 when it has joined too; the best node for w2000
\* before that is w0000.
w0000 == <<0, 0, 0, 0>>
w2000 == <<2, 0, 0, 0>>
w5000 == <<5, 0, 0, 0>>
EightDigits == {w0000, w2000, w5000}
Key3000 == {<<3, 0, 0, 0>>}
Evenly == [n \in Nodes |-> [x \in Nodes |-> 1]]
ThroughW0000 == [n \in Nodes |-> IF n = w0000 THEN {} ELSE {w0000}]
=============================================================================
