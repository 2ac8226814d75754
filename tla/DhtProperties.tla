---------------------------- MODULE DhtProperties ----------------------------
(***************************************************************************)
(* What is expected of the key-value store of module Dht.  The first part  *)
(* holds of the code under the conditions each property names; the second  *)
(* part is what README.md says and the code does not do.                   *)
(***************************************************************************)
EXTENDS Dht, OverlayProperties

\* Where a get of k may end.
Owners(k) == {n \in Members : n \in NextKeyNodes(n, db[n], k)}

\* What carries a pair for k from one process to another.
Carried(k) ==
  \/ \E m \in kvs : \/ m.type = "SetVal" /\ m.key = k
                    \/ m.type = "AddToHashTable" /\ m.map[k] # NotPresent
  \/ \E th \in kvthreads : th.kind \in {"insert", "replicate"} /\ th.msg.key = k

\* No process has ended but by a quit.
NobodyCrashed == Mortal \subseteq live /\ NobodyRestarted
-----------------------------------------------------------------------------
\* While no process has ended, a key that was put stays somewhere, however
\* puts, joins and the handoffs they cause interleave: getRelevantKeyValuePairs
\* deletes at one process what AddToHashTable brings to another, and neither a
\* handoff of the same pair by two join handlers nor a put in between loses it.
PairsKept ==
  NobodyEnded =>
    \A k \in Keys : puts[k] > 0 => Carried(k) \/ \E n \in Nodes : store[n][k] # NotPresent

\* When processes join and quit one at a time and none crashes, a get of a key
\* that was put finds it wherever it ends: the pairs a newcomer has become the
\* best node for reached it on the way of its Join, and those of a leaver
\* reached the next best node.  This takes keys that no two processes are
\* equally near to, and overlays in which the process that is best for a key is
\* on the way of the Join of the one that becomes better for it: those with at
\* most five digits, where that process is also the best one for the newcomer.
KeysFound ==
  DhtSettled /\ NobodyCrashed =>
    \A k \in Keys : puts[k] > 0 => \A n \in Owners(k) : store[n][k] # NotPresent

\* The puts and gets that are being routed, by the key they look for and the
\* process they were typed at.
Requests == {m \in kvs : m.type = "GetVal" \/ (m.type = "SetVal" /\ ~ m.terminal)}
Origin(m) == IF m.type = "GetVal" THEN m.node ELSE m.sender

AsPacket(m) == [target |-> m.key, origin |-> Origin(m), at |-> m.to]

Routed == INSTANCE Routing WITH
  Targets <- Keys, packets <- {AsPacket(m) : m \in Requests}

\* The store implements Routing: the handlers choose the next node from tables
\* that joins, deletions and repairs change between two hops, and still no put
\* and no get is ever handed to a process that is no better for its key.
RoutesToBetter == Routed!Spec

\* Every get is answered while no process has ended: a GetVal gets nearer to
\* its key at every hop, however the tables change under it, so it arrives.
GetAnswered == \A n \in Nodes : shown[n] = Waiting ~> (shown[n] # Waiting \/ ~ NobodyEnded)

\* Once users stop, what they started in the overlay and in the store comes to
\* an end, though processes crash with pairs and messages in hand.
DhtComesToRest == []<>DhtSettled
-----------------------------------------------------------------------------
\* README.md:73, "get <key> : Fetching the value of the input key": when
\* everything has settled, the value a get finds is the one put last.
LatestFound ==
  DhtSettled => \A k \in Keys : \A n \in Owners(k) : store[n][k] \in {NotPresent, puts[k]}

\* README.md:30, "GetValue: Get Value of the given key": as KeysFound, for a
\* key two processes are equally near to.
TiedKeysFound == KeysFound

\* README.md:61, "When a new node joins, data relevant to that node is sent
\* while routing": as KeysFound, with the eight digits of the code: the Join of
\* a newcomer does not pass the process that has the pairs it is to have.
KeysFollowOwner == KeysFound

\* README.md:61, "When a new node joins, data relevant to that node is sent
\* while routing": as KeysFound, when a put and a join run at the same time.
KeysFoundAfterJoin == KeysFound

\* README.md:60, "All the stored data is replicated at 3 different Nodes": of a
\* key put when the overlay had three members, three processes have a copy.
Copies(k) == {n \in live : store[n][k] # NotPresent}
ThreeCopies ==
  \A k \in Keys :
    [](DhtSettled /\ puts[k] = 0 /\ Cardinality(Members) >= 3 =>
         [](DhtSettled /\ puts[k] > 0 => Cardinality(Copies(k)) >= 3))

\* README.md:72, "put <Key> <Value>: Store the key, value pair in the network".
PutStored ==
  DhtSettled => \A k \in Keys : puts[k] > 0 => \E n \in live : store[n][k] # NotPresent
=============================================================================
