------------------------------ MODULE DhtProofs ------------------------------
(***************************************************************************)
(* The key-value store, for every set of processes and keys and every      *)
(* pattern of puts, gets, joins, departures, crashes and restarts: type    *)
(* correctness, that it implements Routing, that no pair is lost while no  *)
(* process has ended, and that handing pairs over leaves the count of a    *)
(* join's rows exact.                                                      *)
(*                                                                         *)
(* A step of the store is a step of Overlay, or removes a process that did *)
(* not answer from the tables, or drops messages: each keeps the invariant *)
(* of Overlay, and with it the placement that makes the next node for a    *)
(* key an improvement.  At the end, that in small overlays which grow one  *)
(* process at a time a put or a get ends at the best process for its key.  *)
(***************************************************************************)
EXTENDS DhtProperties, OverlayProofs

\* A replica is terminal, and the leaves it may be sent to are other processes.
GoodReplicate(th) ==
  th.kind = "replicate" =>
    th.msg.terminal /\ th.at \notin th.left /\ th.at \notin th.right

KvIInv ==
  /\ IInv /\ KvTypeOK
  /\ \A th \in kvthreads : GoodReplicate(th)
-----------------------------------------------------------------------------
\* As NextRoutingNodeImproves, for a key: the node that comes next is the
\* process itself or strictly better for the key.
LEMMA NextKeyNodeImproves ==
  ASSUME NEW n \in Nodes, NEW k \in NodeId,
         NEW D, GoodDatabase(n, D), NEW x \in NextKeyNodes(n, D, k)
  PROVE  x \in Nodes /\ (x = n \/ IsBetter(x, n, k))
<1>. DEFINE p == PrefixMatchLen(k, n)
            e == D.table[p][k[p + 1]]
<1>1. n \in NodeId /\ D \in Database /\ PlacedTable(n, D.table)
  BY NodesAssumption DEF GoodDatabase, Placed
<1>2. p \in 0 .. Rows /\ SamePrefix(k, n, p) /\ PrefixMatchLen(n, k) = p
  BY <1>1, PrefixMatch, PrefixSymmetric
<1>3. CASE x \in ScanResults(n, Leaves(D), k) \/ x \in ScanResults(n, Known(D), k)
  BY <1>1, <1>3, KnownAreNodes, ScanImproves
<1>4. CASE p < Rows /\ e # None /\ x = e
  <2>0. p \in Row /\ p \in 0 .. Rows - 1 /\ k[p + 1] \in Digit
    BY <1>2, <1>4, RowsAssumption DEF NodeId, Row
  <2>1. e \in Nodes
    BY <1>1, <2>0, <1>4 DEF Database, Entry
  <2>2. e \in NodeId /\ SamePrefix(n, e, p) /\ e[p + 1] = k[p + 1]
    BY <1>1, <2>0, <1>4, <2>1, NodesAssumption DEF PlacedTable
  <2>3. SamePrefix(e, k, p + 1)
    BY <1>2, <2>0, <2>2, RowsAssumption DEF SamePrefix
  <2>4. /\ PrefixMatchLen(e, k) \in 0 .. Rows
        /\ PrefixMatchLen(e, k) < Rows =>
             e[PrefixMatchLen(e, k) + 1] # k[PrefixMatchLen(e, k) + 1]
    BY <1>1, <2>2, PrefixMatch
  <2>5. PrefixMatchLen(n, k) < PrefixMatchLen(e, k)
    BY <1>2, <2>0, <2>3, <2>4, RowsAssumption DEF SamePrefix
  <2>. QED
    BY <1>1, <1>4, <2>1, <2>2, <2>5, LongerPrefixIsBetter
<1>. QED
  BY <1>3, <1>4 DEF NextKeyNodes

\* The messages of the store by type, and its threads by kind.
LEMMA KvMessageTypes ==
  ASSUME NEW m \in KvMessage
  PROVE  /\ m.to \in Nodes
         /\ m.type = "SetVal" => m \in SetValMessage
         /\ m.type = "GetVal" => m \in GetValMessage
         /\ m.type = "GetValResponse" => m \in GetValResponseMessage
         /\ m.type = "AddToHashTable" => m \in AddToHashTableMessage
BY DEF KvMessage, SetValMessage, GetValMessage, GetValResponseMessage, AddToHashTableMessage

LEMMA KvThreadTypes ==
  ASSUME NEW th \in KvThread
  PROVE  /\ th.at \in Nodes
         /\ th.kind = "handoff" => th \in HandoffThread
         /\ th.kind = "insert" => th \in InsertThread
         /\ th.kind = "replicate" => th \in ReplicateThread
         /\ th.kind = "leave" => th \in LeaveThread
BY DEF KvThread, HandoffThread, InsertThread, ReplicateThread, LeaveThread

LEMMA RelevantPairsTyped ==
  ASSUME KvTypeOK, NEW n \in Nodes, NEW x
  PROVE  RelevantPairs(n, x) \in HashMap
<1>1. NotPresent \in Version
  BY MaxPutsAssumption DEF NotPresent, Version
<1>. QED
  BY <1>1 DEF RelevantPairs, HashMap, KvTypeOK

\* The threads that replicate a pair from n.
LEMMA ReplicateGood ==
  ASSUME NEW n \in Nodes, NEW m \in SetValMessage,
         NEW left \in SUBSET Nodes, NEW right \in SUBSET Nodes, n \notin left, n \notin right,
         NEW th \in Replicate(n, m, left, right)
  PROVE  th \in KvThread /\ GoodReplicate(th)
<1>1. LET r == [m EXCEPT !.terminal = TRUE] IN r \in SetValMessage /\ r.terminal
  BY DEF SetValMessage
<1>2. th = [kind |-> "replicate", at |-> n, msg |-> [m EXCEPT !.terminal = TRUE],
            left |-> left, right |-> right]
  BY DEF Replicate
<1>. QED
  BY <1>1, <1>2 DEF KvThread, ReplicateThread, GoodReplicate

LEMMA LeavesAreOthers ==
  ASSUME IInv, NEW n \in Nodes
  PROVE  /\ db[n].left \in SUBSET Nodes /\ db[n].right \in SUBSET Nodes
         /\ n \notin db[n].left /\ n \notin db[n].right
<1>1. GoodDatabase(n, db[n]) /\ n \in NodeId
  BY NodesAssumption DEF IInv, GoodDatabases
<1>. QED
  BY <1>1, IdLessIrreflexive DEF GoodDatabase, Database, Placed
-----------------------------------------------------------------------------

\* What the steps of the store do to the overlay keeps its invariant.
LEMMA OverlayUnchanged ==
  ASSUME IInv, UNCHANGED vars
  PROVE  IInv'
BY DEF vars, IInv, GoodProcesses, GoodDatabases

LEMMA LazyUpdatesStep ==
  ASSUME IInv, NEW n \in Nodes, NEW x \in Nodes, x # n, HandleLazyUpdates(n, x),
         UNCHANGED <<live, joined, quitting, restarts, msgs>>
  PROVE  IInv'
<1>1. GoodDatabases' /\ \A th \in threads' : GoodThread(th)
  BY LazyUpdatesGood
<1>. QED
  BY <1>1 DEF IInv, GoodProcesses

LEMMA JoinHandlerStep ==
  ASSUME IInv, NEW m, m.to \in Nodes, JoinHandler(m)
  PROVE  IInv'
BY HandleJoinMeGood, HandleJoinGood DEF JoinHandler

\* Type and goodness of the pairs, when a step changes nothing of a kind.
LEMMA KvUnchanged ==
  ASSUME KvIInv, IInv', UNCHANGED kvVars
  PROVE  KvIInv'
BY DEF KvIInv, KvTypeOK, kvVars

LEMMA ForgetGood ==
  ASSUME KvIInv, NEW n \in Nodes, IInv', Forget(n)
  PROVE  KvIInv'
<1>1. EmptyMap \in HashMap /\ Nothing \in Version \cup {Waiting, Nothing}
  BY MaxPutsAssumption DEF EmptyMap, HashMap, NotPresent, Version
<1>2. store' \in [Nodes -> HashMap]
  BY <1>1 DEF KvIInv, KvTypeOK, Forget
<1>3. shown' \in [Nodes -> Version \cup {Waiting, Nothing}]
  BY <1>1 DEF KvIInv, KvTypeOK, Forget
<1>. QED
  BY <1>2, <1>3 DEF KvIInv, KvTypeOK, Forget

\* A value that was put is one of a key-value message.
LEMMA PutCommandGood ==
  ASSUME KvIInv, NEW n \in Nodes, NEW k \in Keys, PutCommand(n, k)
  PROVE  KvIInv'
<1>1. IInv'
  BY OverlayUnchanged DEF KvIInv, PutCommand
<1>2. puts' \in [Keys -> Version] /\ puts'[k] \in Version \ {NotPresent}
  BY MaxPutsAssumption DEF KvIInv, KvTypeOK, PutCommand, Version, NotPresent
<1>3. [type |-> "SetVal", to |-> n, sender |-> n, key |-> k, val |-> puts'[k],
       terminal |-> FALSE] \in KvMessage
  BY <1>2 DEF KvMessage, SetValMessage
<1>. QED
  BY <1>1, <1>2, <1>3 DEF KvIInv, KvTypeOK, PutCommand

LEMMA GetCommandGood ==
  ASSUME KvIInv, NEW n \in Nodes, NEW k \in Keys, GetCommand(n, k)
  PROVE  KvIInv'
<1>1. IInv'
  BY OverlayUnchanged DEF KvIInv, GetCommand
<1>2. [type |-> "GetVal", to |-> n, node |-> n, key |-> k] \in KvMessage
  BY DEF KvMessage, GetValMessage
<1>3. shown' \in [Nodes -> Version \cup {Waiting, Nothing}]
  BY DEF KvIInv, KvTypeOK, GetCommand
<1>. QED
  BY <1>1, <1>2, <1>3 DEF KvIInv, KvTypeOK, GetCommand

\* The next node for a key at the receiver of a request.
LEMMA RequestNext ==
  ASSUME KvIInv, NEW m \in kvs, m.type \in {"SetVal", "GetVal"},
         NEW next \in NextKeyNodes(m.to, db[m.to], m.key)
  PROVE  /\ m.to \in Nodes /\ m.key \in Keys /\ m.key \in NodeId /\ next \in Nodes
         /\ m.to \in NodeId /\ next \in NodeId
         /\ next = m.to \/ IsBetter(next, m.to, m.key)
<1>1. m.to \in Nodes /\ m.key \in Keys
  BY KvMessageTypes DEF KvIInv, KvTypeOK, SetValMessage, GetValMessage
<1>2. GoodDatabase(m.to, db[m.to])
  BY <1>1 DEF KvIInv, IInv, GoodDatabases
<1>. QED
  BY <1>1, <1>2, NextKeyNodeImproves, KeysAssumption, NodesAssumption

LEMMA PassOnGood ==
  ASSUME KvIInv, NEW m \in kvs, m.type \in {"SetVal", "GetVal"},
         NEW next \in NextKeyNodes(m.to, db[m.to], m.key), PassOn(m, next)
  PROVE  KvIInv'
<1>1. m.to \in Nodes /\ next \in Nodes /\ next # m.to
  BY RequestNext DEF PassOn
<1>2. CASE next \in live /\ kvs' = (kvs \ {m}) \cup {[m EXCEPT !.to = next]} /\ UNCHANGED vars
  <2>1. IInv'
    BY <1>2, OverlayUnchanged DEF KvIInv
  <2>2. m \in SetValMessage \/ m \in GetValMessage
    BY KvMessageTypes DEF KvIInv, KvTypeOK
  <2>3. [m EXCEPT !.to = next] \in KvMessage
    BY <1>1, <2>2 DEF KvMessage, SetValMessage, GetValMessage
  <2>. QED
    BY <1>2, <2>1, <2>3 DEF KvIInv, KvTypeOK, PassOn
<1>3. CASE /\ HandleLazyUpdates(m.to, next)
           /\ UNCHANGED <<kvs, live, joined, quitting, restarts, msgs>>
  <2>1. IInv'
    BY <1>1, <1>3, LazyUpdatesStep DEF KvIInv
  <2>. QED
    BY <1>3, <2>1 DEF KvIInv, KvTypeOK, PassOn
<1>. QED
  BY <1>2, <1>3 DEF PassOn

LEMMA PairTyped ==
  ASSUME KvTypeOK, NEW n \in Nodes, NEW k \in Keys, NEW v \in Version,
         store' = [store EXCEPT ![n] = WithPair(store[n], k, v)]
  PROVE  store' \in [Nodes -> HashMap]
<1>1. WithPair(store[n], k, v) \in HashMap
  BY DEF KvTypeOK, WithPair, HashMap
<1>. QED
  BY <1>1 DEF KvTypeOK

LEMMA HandleSetValGood ==
  ASSUME KvIInv, NEW m, HandleSetVal(m)
  PROVE  KvIInv'
<1>. DEFINE n == m.to
<1>1. m \in kvs /\ m.type = "SetVal" /\ m \in SetValMessage
  BY KvMessageTypes DEF KvIInv, KvTypeOK, HandleSetVal
<1>2. PICK next \in NextKeyNodes(n, db[n], m.key) :
        \/ PassOn(m, next)
        \/ /\ next = n
           /\ store' = [store EXCEPT ![n] = WithPair(store[n], m.key, m.val)]
           /\ kvs' = kvs \ {m}
           /\ kvthreads' = kvthreads \cup Replicate(n, m, db[n].left, db[n].right)
           /\ UNCHANGED <<vars, puts, shown>>
  BY DEF HandleSetVal
<1>3. CASE PassOn(m, next)
  BY <1>1, <1>2, <1>3, PassOnGood
<1>4. CASE ~ PassOn(m, next)
  <2>1. n \in Nodes /\ m.key \in Keys /\ m.val \in Version
    BY <1>1 DEF SetValMessage
  <2>2. IInv'
    BY <1>2, <1>4, OverlayUnchanged DEF KvIInv
  <2>3. \A th \in Replicate(n, m, db[n].left, db[n].right) : th \in KvThread /\ GoodReplicate(th)
    BY <1>1, <2>1, LeavesAreOthers, ReplicateGood DEF KvIInv
  <2>4. store' \in [Nodes -> HashMap]
    BY <1>2, <1>4, <2>1, PairTyped DEF KvIInv
  <2>. QED
    BY <1>2, <1>4, <2>2, <2>3, <2>4 DEF KvIInv, KvTypeOK
<1>. QED
  BY <1>3, <1>4

LEMMA HandleTerminalSetValGood ==
  ASSUME KvIInv, NEW m, HandleTerminalSetVal(m)
  PROVE  KvIInv'
<1>. DEFINE n == m.to
            left == IF IdLess(n, m.sender) THEN db[n].left ELSE {}
            right == IF IdLess(n, m.sender) THEN {} ELSE db[n].right
            insert == [kind |-> "insert", at |-> n, msg |-> m]
<1>1. m \in kvs /\ m \in SetValMessage /\ n \in Nodes
  BY KvMessageTypes DEF KvIInv, KvTypeOK, HandleTerminalSetVal
<1>2. IInv'
  BY OverlayUnchanged DEF KvIInv, HandleTerminalSetVal
<1>3. left \in SUBSET Nodes /\ right \in SUBSET Nodes /\ n \notin left /\ n \notin right
  BY <1>1, LeavesAreOthers DEF KvIInv
<1>4. \A th \in Replicate(n, m, left, right) : th \in KvThread /\ GoodReplicate(th)
  <2>. HIDE DEF left, right, n
  <2>. QED
    BY <1>1, <1>3, ReplicateGood
<1>5. insert \in KvThread /\ GoodReplicate(insert)
  BY <1>1 DEF KvThread, InsertThread, GoodReplicate
<1>6. kvthreads' \subseteq kvthreads \cup {insert} \cup Replicate(n, m, left, right)
  BY DEF HandleTerminalSetVal
<1>. QED
  <2>. HIDE DEF left, right, n, insert
  <2>. QED
    BY <1>2, <1>4, <1>5, <1>6 DEF KvIInv, KvTypeOK, HandleTerminalSetVal

LEMMA InsertReplicaGood ==
  ASSUME KvIInv, NEW th, InsertReplica(th)
  PROVE  KvIInv'
<1>1. th \in InsertThread
  BY KvThreadTypes DEF KvIInv, KvTypeOK, InsertReplica
<1>2. th.at \in Nodes /\ th.msg.key \in Keys /\ th.msg.val \in Version
  BY <1>1 DEF InsertThread, SetValMessage
<1>3. store' \in [Nodes -> HashMap]
  BY <1>2, PairTyped DEF KvIInv, InsertReplica
<1>4. IInv'
  BY OverlayUnchanged DEF KvIInv, InsertReplica
<1>. QED
  BY <1>3, <1>4 DEF KvIInv, KvTypeOK, InsertReplica

LEMMA SendReplicaGood ==
  ASSUME KvIInv, NEW th, SendReplica(th)
  PROVE  KvIInv'
<1>. DEFINE n == th.at
            leftwards == th.left # {}
            side == IF leftwards THEN th.left ELSE th.right
            left(x) == IF ~leftwards \/ x \in live THEN {} ELSE side \ {x}
            right(x) == IF leftwards THEN th.right
                        ELSE IF x \in live THEN {} ELSE side \ {x}
<1>1. th \in kvthreads /\ th \in ReplicateThread /\ GoodReplicate(th) /\ th.kind = "replicate"
  BY KvThreadTypes DEF KvIInv, KvTypeOK, SendReplica
<1>2. /\ n \in Nodes /\ th.msg \in SetValMessage
      /\ th.left \in SUBSET Nodes /\ th.right \in SUBSET Nodes
      /\ n \notin th.left /\ n \notin th.right
  BY <1>1 DEF ReplicateThread, GoodReplicate
<1>3. PICK x \in side :
        /\ kvthreads' = (kvthreads \ {th}) \cup Replicate(n, th.msg, left(x), right(x))
        /\ \/ /\ x \in live
              /\ kvs' = kvs \cup {[th.msg EXCEPT !.to = x]}
              /\ UNCHANGED vars
           \/ /\ x \notin live
              /\ HandleLazyUpdates(n, x)
              /\ UNCHANGED <<kvs, live, joined, quitting, restarts, msgs>>
  BY DEF SendReplica
<1>4. x \in Nodes /\ x # n
  BY <1>2
<1>5. \A r \in Replicate(n, th.msg, left(x), right(x)) : r \in KvThread /\ GoodReplicate(r)
  <2>1. /\ left(x) \in SUBSET Nodes /\ right(x) \in SUBSET Nodes
        /\ n \notin left(x) /\ n \notin right(x)
    BY <1>2
  <2>. HIDE DEF left, right, n
  <2>. QED
    BY <1>2, <2>1, ReplicateGood
<1>6. IInv'
  BY <1>2, <1>3, <1>4, OverlayUnchanged, LazyUpdatesStep DEF KvIInv
<1>7. [th.msg EXCEPT !.to = x] \in KvMessage
  BY <1>2, <1>4 DEF KvMessage, SetValMessage
<1>8. UNCHANGED <<store, puts, shown>>
  BY DEF SendReplica
<1>. QED
  <2>. HIDE DEF left, right, n, side
  <2>. QED
    BY <1>3, <1>5, <1>6, <1>7, <1>8 DEF KvIInv, KvTypeOK

LEMMA HandleGetValGood ==
  ASSUME KvIInv, NEW m, HandleGetVal(m)
  PROVE  KvIInv'
<1>. DEFINE n == m.to
<1>1. m \in kvs /\ m.type = "GetVal" /\ m \in GetValMessage
  BY KvMessageTypes DEF KvIInv, KvTypeOK, HandleGetVal
<1>2. n \in Nodes /\ m.node \in Nodes /\ m.key \in Keys
  BY <1>1 DEF GetValMessage
<1>3. store[n][m.key] \in Version
  BY <1>2 DEF KvIInv, KvTypeOK, HashMap
<1>4. CASE \E next \in NextKeyNodes(n, db[n], m.key) : PassOn(m, next)
  BY <1>1, <1>4, PassOnGood
<1>5. CASE /\ shown' = [shown EXCEPT ![n] = store[n][m.key]]
           /\ kvs' = kvs \ {m}
           /\ UNCHANGED <<vars, store, kvthreads, puts>>
  <2>1. shown' \in [Nodes -> Version \cup {Waiting, Nothing}]
    BY <1>2, <1>3, <1>5 DEF KvIInv, KvTypeOK
  <2>2. IInv'
    BY <1>5, OverlayUnchanged DEF KvIInv
  <2>. QED
    BY <1>5, <2>1, <2>2 DEF KvIInv, KvTypeOK
<1>6. CASE /\ kvs' = (kvs \ {m}) \cup KvReachable(
                {[type |-> "GetValResponse", to |-> m.node, value |-> store[n][m.key]]})
           /\ UNCHANGED <<vars, store, kvthreads, puts, shown>>
  <2>1. [type |-> "GetValResponse", to |-> m.node, value |-> store[n][m.key]] \in KvMessage
    BY <1>2, <1>3 DEF KvMessage, GetValResponseMessage
  <2>2. IInv'
    BY <1>6, OverlayUnchanged DEF KvIInv
  <2>. QED
    BY <1>6, <2>1, <2>2 DEF KvIInv, KvTypeOK, KvReachable
<1>. QED
  BY <1>4, <1>5, <1>6 DEF HandleGetVal

LEMMA HandleGetValResponseGood ==
  ASSUME KvIInv, NEW m, HandleGetValResponse(m)
  PROVE  KvIInv'
<1>1. m \in GetValResponseMessage
  BY KvMessageTypes DEF KvIInv, KvTypeOK, HandleGetValResponse
<1>2. shown' \in [Nodes -> Version \cup {Waiting, Nothing}]
  BY <1>1 DEF KvIInv, KvTypeOK, HandleGetValResponse, GetValResponseMessage
<1>3. IInv'
  BY OverlayUnchanged DEF KvIInv, HandleGetValResponse
<1>. QED
  BY <1>2, <1>3 DEF KvIInv, KvTypeOK, HandleGetValResponse

LEMMA HandleAddToHashTableGood ==
  ASSUME KvIInv, NEW m, HandleAddToHashTable(m)
  PROVE  KvIInv'
<1>1. m \in AddToHashTableMessage
  BY KvMessageTypes DEF KvIInv, KvTypeOK, HandleAddToHashTable
<1>2. m.to \in Nodes /\ m.map \in HashMap /\ store[m.to] \in HashMap
  BY <1>1 DEF AddToHashTableMessage, KvIInv, KvTypeOK
<1>3. WithPairs(store[m.to], m.map) \in HashMap
  BY <1>2 DEF WithPairs, HashMap
<1>4. store' \in [Nodes -> HashMap]
  BY <1>2, <1>3 DEF KvIInv, KvTypeOK, HandleAddToHashTable
<1>5. IInv'
  BY OverlayUnchanged DEF KvIInv, HandleAddToHashTable
<1>. QED
  BY <1>4, <1>5 DEF KvIInv, KvTypeOK, HandleAddToHashTable

LEMMA StartJoinGood ==
  ASSUME KvIInv, NEW m, m.to \in Nodes, StartJoin(m)
  PROVE  KvIInv'
<1>. DEFINE map == RelevantPairs(m.to, m.newcomer)
            th == [kind |-> "handoff", at |-> m.to, join |-> m, map |-> map]
<1>1. CASE JoinHandler(m) /\ UNCHANGED kvVars
  BY <1>1, JoinHandlerStep, KvUnchanged DEF KvIInv
<1>2. CASE kvthreads' = kvthreads \cup {th} /\ UNCHANGED <<vars, store, kvs, puts, shown>>
  <2>1. m \in JoinMeMessage \cup JoinMessage
    BY MessageTypes DEF KvIInv, IInv, StartJoin
  <2>2. map \in HashMap
    BY RelevantPairsTyped DEF KvIInv
  <2>3. th \in KvThread /\ GoodReplicate(th)
    <3>. HIDE DEF map
    <3>. QED
      BY <2>1, <2>2 DEF KvThread, HandoffThread, GoodReplicate
  <2>4. IInv'
    BY <1>2, OverlayUnchanged DEF KvIInv
  <2>. HIDE DEF th
  <2>. QED
    BY <1>2, <2>3, <2>4 DEF KvIInv, KvTypeOK
<1>. QED
  BY <1>1, <1>2 DEF StartJoin

LEMMA HandoffGood ==
  ASSUME KvIInv, NEW th, Handoff(th)
  PROVE  KvIInv'
<1>. DEFINE n == th.at
            x == th.join.newcomer
            add == [type |-> "AddToHashTable", to |-> x, map |-> th.map]
<1>1. th \in HandoffThread
  BY KvThreadTypes DEF KvIInv, KvTypeOK, Handoff
<1>2. n \in Nodes /\ x \in Nodes /\ th.join.to \in Nodes /\ th.map \in HashMap
  BY <1>1 DEF HandoffThread, JoinMeMessage, JoinMessage
<1>3. IInv'
  <2>1. CASE JoinHandler(th.join)
    BY <1>2, <2>1, JoinHandlerStep DEF KvIInv
  <2>2. CASE msgs' = msgs \ {th.join} /\ UNCHANGED <<live, joined, quitting, restarts, db, threads>>
    BY <2>2 DEF KvIInv, IInv, GoodProcesses, GoodDatabases
  <2>. QED
    BY <2>1, <2>2 DEF Handoff
<1>4. add \in KvMessage
  BY <1>2 DEF KvMessage, AddToHashTableMessage
<1>5. store' \in [Nodes -> HashMap]
  <2>1. WithoutPairs(store[n], th.map) \in HashMap
    BY <1>2, MaxPutsAssumption DEF KvIInv, KvTypeOK, WithoutPairs, HashMap, NotPresent, Version
  <2>. QED
    BY <1>2, <2>1 DEF KvIInv, KvTypeOK, Handoff
<1>6. kvs' \subseteq kvs \cup {add} /\ kvthreads' \subseteq kvthreads
  BY DEF Handoff, KvReachable
<1>. QED
  <2>. HIDE DEF add
  <2>. QED
    BY <1>3, <1>4, <1>5, <1>6 DEF KvIInv, KvTypeOK, Handoff

LEMMA QuitStoreGood ==
  ASSUME KvIInv, NEW n \in Nodes, QuitStore(n)
  PROVE  KvIInv'
<1>1. IInv'
  BY QuitGood DEF KvIInv, QuitStore
<1>2. \A th \in LeaveThreads(n) : th \in KvThread /\ GoodReplicate(th)
  <2>1. \A x \in BestLeaves(n) : x \in Nodes
    BY LeavesAreOthers DEF KvIInv, BestLeaves, Leaves
  <2>. QED
    BY <2>1 DEF LeaveThreads, KvThread, LeaveThread, GoodReplicate
<1>3. \A th \in kvthreads' : th \in kvthreads \/ th \in LeaveThreads(n)
  BY DEF QuitStore
<1>. QED
  BY <1>1, <1>2, <1>3 DEF KvIInv, KvTypeOK, QuitStore

LEMMA HandOverGood ==
  ASSUME KvIInv, NEW th, HandOver(th)
  PROVE  KvIInv'
<1>1. th \in LeaveThread
  BY KvThreadTypes DEF KvIInv, KvTypeOK, HandOver
<1>2. [type |-> "AddToHashTable", to |-> th.leaf, map |-> store[th.at]] \in KvMessage
  BY <1>1 DEF KvIInv, KvTypeOK, LeaveThread, KvMessage, AddToHashTableMessage
<1>3. IInv'
  BY OverlayUnchanged DEF KvIInv, HandOver
<1>. QED
  BY <1>2, <1>3 DEF KvIInv, KvTypeOK, HandOver, KvReachable
-----------------------------------------------------------------------------
LEMMA KvIInvInit == DhtInit => KvIInv
<1>1. EmptyMap \in HashMap /\ 0 \in Version
  BY MaxPutsAssumption DEF EmptyMap, HashMap, NotPresent, Version
<1>. QED
  BY <1>1, IInvInit DEF DhtInit, KvInit, KvIInv, KvTypeOK

LEMMA MembershipGood ==
  ASSUME KvIInv, NEW n \in Nodes, MembershipStep(n) \/ MembershipCommand(n)
  PROVE  KvIInv'
<1>1. Process(n) \/ Environment(n)
  BY DEF MembershipStep, MembershipCommand, Process, HandleMessage, Environment
<1>2. IInv'
  BY <1>1, IInvStep DEF KvIInv, Next
<1>. QED
  BY <1>2, KvUnchanged DEF MembershipStep, MembershipCommand

LEMMA EndAndForgetGood ==
  ASSUME KvIInv, NEW n \in Nodes, End(n), Forget(n)
  PROVE  KvIInv'
BY EndGood, ForgetGood DEF KvIInv

LEMMA KvHandlerGood ==
  ASSUME KvIInv, NEW m \in kvs, KvHandler(m)
  PROVE  KvIInv'
<1>1. m.to \in Nodes
  BY KvMessageTypes DEF KvIInv, KvTypeOK
<1>. QED
  BY <1>1, HandleSetValGood, HandleTerminalSetValGood, HandleGetValGood,
     HandleGetValResponseGood, HandleAddToHashTableGood, EndAndForgetGood
     DEF KvHandler, RoutePastTable

LEMMA KvIInvStep == KvIInv /\ [DhtNext]_dhtVars => KvIInv'
<1>. SUFFICES ASSUME KvIInv, [DhtNext]_dhtVars PROVE KvIInv'
  OBVIOUS
<1>1. CASE UNCHANGED dhtVars
  BY <1>1, OverlayUnchanged, KvUnchanged DEF dhtVars, KvIInv
<1>2. ASSUME NEW n \in Nodes, DhtEnvironment(n) PROVE KvIInv'
  BY <1>2, MembershipGood, QuitStoreGood, EndAndForgetGood, PutCommandGood, GetCommandGood
     DEF DhtEnvironment, Crash
<1>3. ASSUME NEW n \in Nodes, DhtProcess(n) PROVE KvIInv'
  <2>1. CASE MembershipStep(n)
    BY <2>1, MembershipGood
  <2>2. CASE ExitStore(n)
    BY <2>2, EndAndForgetGood DEF ExitStore, Exit
  <2>3. ASSUME NEW m \in msgs, m.to = n, StartJoin(m) \/ (HandleOwnJoin(m) /\ Forget(n))
        PROVE  KvIInv'
    BY <2>3, StartJoinGood, EndAndForgetGood DEF HandleOwnJoin
  <2>4. ASSUME NEW m \in kvs, KvHandler(m) PROVE KvIInv'
    BY <2>4, KvHandlerGood
  <2>5. ASSUME NEW th, InsertReplica(th) \/ SendReplica(th) \/ Handoff(th) \/ HandOver(th)
        PROVE  KvIInv'
    BY <2>5, InsertReplicaGood, SendReplicaGood, HandoffGood, HandOverGood
  <2>. QED
    BY <1>3, <2>1, <2>2, <2>3, <2>4, <2>5 DEF DhtProcess
<1>. QED
  BY <1>1, <1>2, <1>3 DEF DhtNext

\* Stores, key-value messages and threads keep their types in every
\* interleaving; in particular best_leaf of a process that quits is never null
\* when it is used (commandHandler.cpp:326-360).
THEOREM KvTypeCorrect == DhtSpec => []KvTypeOK
<1>1. KvIInv => KvTypeOK
  BY DEF KvIInv
<1>. QED
  BY <1>1, KvIInvInit, KvIInvStep, PTL DEF DhtSpec
-----------------------------------------------------------------------------
\* Routing.
LEMMA RoutedIsBetter ==
  \A x, y, t : Routed!IsBetter(x, y, t) = IsBetter(x, y, t)
BY DEF Routed!IsBetter, IsBetter, Routed!PrefixMatchLen, PrefixMatchLen,
       Routed!SamePrefix, SamePrefix, Routed!Distance, Distance

Packets == {AsPacket(m) : m \in Requests}

IsRequest(m) == m.type = "GetVal" \/ (m.type = "SetVal" /\ ~ m.terminal)

LEMMA NoNewRequest ==
  ASSUME \A m \in kvs' : IsRequest(m) => m \in kvs
  PROVE  Routed!Leave
BY DEF IsRequest, Routed!Leave, Requests

\* A command starts a packet where it is typed.
LEMMA CommandEnters ==
  ASSUME NEW n \in Nodes, NEW k \in Keys, PutCommand(n, k) \/ GetCommand(n, k)
  PROVE  Routed!Enter(n, k)
<1>1. \E m : /\ kvs' = kvs \cup {m} /\ IsRequest(m)
             /\ AsPacket(m) = [target |-> k, origin |-> n, at |-> n]
  <2>1. CASE PutCommand(n, k)
    <3>. DEFINE m == [type |-> "SetVal", to |-> n, sender |-> n, key |-> k,
                      val |-> puts'[k], terminal |-> FALSE]
    <3>1. kvs' = kvs \cup {m} /\ IsRequest(m)
      BY <2>1 DEF PutCommand, IsRequest
    <3>2. AsPacket(m) = [target |-> k, origin |-> n, at |-> n]
      BY DEF AsPacket, Origin
    <3>. QED
      BY <3>1, <3>2
  <2>2. CASE GetCommand(n, k)
    <3>. DEFINE m == [type |-> "GetVal", to |-> n, node |-> n, key |-> k]
    <3>1. kvs' = kvs \cup {m} /\ IsRequest(m)
      BY <2>2 DEF GetCommand, IsRequest
    <3>2. AsPacket(m) = [target |-> k, origin |-> n, at |-> n]
      BY DEF AsPacket, Origin
    <3>. QED
      BY <3>1, <3>2
  <2>. QED
    BY <2>1, <2>2
<1>2. PICK m : /\ kvs' = kvs \cup {m} /\ IsRequest(m)
               /\ AsPacket(m) = [target |-> k, origin |-> n, at |-> n]
  BY <1>1
<1>3. Requests' = Requests \cup {m}
  BY <1>2 DEF Requests, IsRequest
<1>4. Packets' = Packets \cup {AsPacket(m)}
  BY <1>3 DEF Packets
<1>. QED
  BY <1>2, <1>4 DEF Routed!Enter, Packets

\* A request that is passed on hops to a better node.
LEMMA PassOnHops ==
  ASSUME KvIInv, NEW m \in kvs, IsRequest(m),
         NEW next \in NextKeyNodes(m.to, db[m.to], m.key), PassOn(m, next)
  PROVE  Routed!Leave \/ \E n \in Nodes : \E p \in Packets : Routed!Hop(p, n)
<1>. DEFINE m2 == [m EXCEPT !.to = next]
            p == AsPacket(m)
            rest == {AsPacket(r) : r \in Requests \ {m}}
<1>1. CASE UNCHANGED kvs
  BY <1>1, NoNewRequest
<1>2. CASE kvs' = (kvs \ {m}) \cup {m2}
  <2>1. next \in Nodes /\ IsBetter(next, m.to, m.key)
    BY RequestNext DEF IsRequest, PassOn
  <2>2. m \in Requests /\ p \in Packets /\ p.at = m.to /\ p.target = m.key
    BY DEF Requests, IsRequest, Packets, AsPacket
  <2>3. IsRequest(m2) /\ AsPacket(m2) = [p EXCEPT !.at = next]
    <3>1. m \in SetValMessage \/ m \in GetValMessage
      BY KvMessageTypes DEF KvIInv, KvTypeOK, IsRequest
    <3>. QED
      BY <3>1 DEF IsRequest, AsPacket, Origin, SetValMessage, GetValMessage
  <2>4. Requests' = (Requests \ {m}) \cup {m2}
    BY <1>2, <2>3 DEF Requests, IsRequest
  <2>5. Packets' = rest \cup {AsPacket(m2)}
    <3>. HIDE DEF m2
    <3>. QED
      BY <2>4 DEF Packets
  <2>6. rest = Packets \/ rest = Packets \ {p}
    BY <2>2 DEF Packets
  <2>7. Packets' \in {Q \cup {[p EXCEPT !.at = next]} : Q \in {Packets, Packets \ {p}}}
    <3>. HIDE DEF rest, m2, p
    <3>. QED
      BY <2>3, <2>5, <2>6
  <2>8. Routed!Hop(p, next)
    BY <2>1, <2>2, <2>7, RoutedIsBetter DEF Routed!Hop, Packets
  <2>. QED
    BY <2>1, <2>2, <2>8
<1>. QED
  BY <1>1, <1>2 DEF PassOn

LEMMA RequestRouted ==
  ASSUME KvIInv, NEW m, HandleSetVal(m) \/ HandleGetVal(m)
  PROVE  Routed!Leave \/ \E n \in Nodes : \E p \in Packets : Routed!Hop(p, n)
<1>1. m \in kvs /\ IsRequest(m)
  BY DEF HandleSetVal, HandleGetVal, IsRequest
<1>2. CASE \E next \in NextKeyNodes(m.to, db[m.to], m.key) : PassOn(m, next)
  BY <1>1, <1>2, PassOnHops
<1>3. CASE ~ \E next \in NextKeyNodes(m.to, db[m.to], m.key) : PassOn(m, next)
  <2>1. \A r \in kvs' : IsRequest(r) => r \in kvs
    BY <1>3 DEF HandleSetVal, HandleGetVal, IsRequest, KvReachable
  <2>. QED
    BY <2>1, NoNewRequest
<1>. QED
  BY <1>2, <1>3

\* Every other step adds messages to the receiver alone, if any.
LEMMA OthersAddNoRequest ==
  ASSUME KvIInv, NEW n \in Nodes,
         \/ MembershipStep(n) \/ MembershipCommand(n) \/ QuitStore(n) \/ Forget(n)
         \/ \E m : \/ HandleTerminalSetVal(m) \/ HandleGetValResponse(m)
                   \/ HandleAddToHashTable(m) \/ RoutePastTable(m) \/ StartJoin(m)
         \/ \E th : InsertReplica(th) \/ Handoff(th) \/ HandOver(th)
  PROVE  Routed!Leave
<1>1. \A r \in kvs' : IsRequest(r) => r \in kvs
  BY DEF MembershipStep, MembershipCommand, QuitStore, Forget, HandleTerminalSetVal,
         HandleGetValResponse, HandleAddToHashTable, RoutePastTable, StartJoin,
         InsertReplica, Handoff, HandOver, kvVars, IsRequest, KvReachable
<1>. QED
  BY <1>1, NoNewRequest

\* A replica is terminal: it is not routed.
LEMMA ReplicaAddsNoRequest ==
  ASSUME KvIInv, NEW th, SendReplica(th)
  PROVE  Routed!Leave
<1>1. th.msg \in SetValMessage /\ th.msg.terminal
  BY KvThreadTypes DEF KvIInv, KvTypeOK, SendReplica, GoodReplicate, ReplicateThread
<1>2. \A x : ~ IsRequest([th.msg EXCEPT !.to = x])
  BY <1>1 DEF IsRequest, SetValMessage
<1>3. \A r \in kvs' : IsRequest(r) => r \in kvs
  <2>1. \A r \in kvs' : r \in kvs \/ \E x : r = [th.msg EXCEPT !.to = x]
    BY DEF SendReplica
  <2>. QED
    BY <1>2, <2>1
<1>. QED
  BY <1>3, NoNewRequest

LEMMA RoutedStep ==
  KvIInv /\ [DhtNext]_dhtVars => [Routed!Next]_Packets
<1>. SUFFICES ASSUME KvIInv, [DhtNext]_dhtVars PROVE Routed!Next \/ UNCHANGED Packets
  OBVIOUS
<1>1. CASE UNCHANGED dhtVars
  BY <1>1 DEF dhtVars, kvVars, Packets, Requests
<1>2. ASSUME NEW n \in Nodes, DhtEnvironment(n) PROVE Routed!Next
  <2>1. \/ Routed!Leave \/ \E k \in Keys : Routed!Enter(n, k)
    BY <1>2, OthersAddNoRequest, CommandEnters DEF DhtEnvironment
  <2>. QED
    BY <2>1 DEF Routed!Next
<1>3. ASSUME NEW n \in Nodes, DhtProcess(n) PROVE Routed!Next
  <2>1. Routed!Leave \/ \E x \in Nodes : \E p \in Packets : Routed!Hop(p, x)
    <3>1. CASE MembershipStep(n) \/ ExitStore(n)
      BY <3>1, OthersAddNoRequest DEF ExitStore
    <3>2. CASE \E m \in msgs : StartJoin(m) \/ (HandleOwnJoin(m) /\ Forget(n))
      BY <3>2, OthersAddNoRequest
    <3>3. ASSUME NEW m \in kvs, KvHandler(m)
          PROVE  Routed!Leave \/ \E x \in Nodes : \E p \in Packets : Routed!Hop(p, x)
      BY <3>3, OthersAddNoRequest, RequestRouted DEF KvHandler
    <3>4. ASSUME NEW th, InsertReplica(th) \/ SendReplica(th) \/ Handoff(th) \/ HandOver(th)
          PROVE  Routed!Leave
      BY <3>4, OthersAddNoRequest, ReplicaAddsNoRequest
    <3>. QED
      BY <1>3, <3>1, <3>2, <3>3, <3>4 DEF DhtProcess
  <2>. QED
    BY <2>1 DEF Routed!Next, Packets
<1>. QED
  BY <1>1, <1>2, <1>3 DEF DhtNext

\* The store implements Routing: between two hops tables change in any way joins,
\* deletions and repairs change them, and yet every request is only ever handed
\* to a node better for its key (clientDatabase.cpp:38-121,
\* peerMessageHandler.cpp:556-610 and 690-764).
THEOREM DhtImplementsRouting == DhtSpec => RoutesToBetter
<1>1. DhtInit => Packets = {}
  BY DEF DhtInit, KvInit, Packets, Requests
<1>2. (Packets = {} /\ [][Routed!Next]_Packets) => RoutesToBetter
  BY DEF RoutesToBetter, Routed!Spec, Routed!Init, Packets
<1>. QED
  BY <1>1, <1>2, KvIInvInit, KvIInvStep, RoutedStep, PTL DEF DhtSpec

\* No request comes back to where it was typed: after every sequence of hops it
\* is at its origin or strictly nearer to its key.
THEOREM RequestsGetNearer == DhtSpec => []Routed!GetsNearer
<1>1. Routed!Init => Routed!GetsNearer
  BY DEF Routed!Init, Routed!GetsNearer
<1>2. Routed!GetsNearer /\ [Routed!Next]_Packets => Routed!GetsNearer'
  <2>. SUFFICES ASSUME Routed!GetsNearer, [Routed!Next]_Packets,
                       NEW q \in Packets'
                PROVE  /\ q \in Routed!Packet
                       /\ q.at = q.origin \/ IsBetter(q.at, q.origin, q.target)
    BY RoutedIsBetter DEF Routed!GetsNearer, Packets
  <2>1. CASE q \in Packets
    BY <2>1, RoutedIsBetter DEF Routed!GetsNearer, Packets
  <2>2. ASSUME NEW n \in Nodes, NEW k \in Keys, Routed!Enter(n, k), q \notin Packets
        PROVE  q \in Routed!Packet /\ q.at = q.origin
    BY <2>2 DEF Routed!Enter, Routed!Packet, Packets
  <2>3. ASSUME NEW n \in Nodes, NEW p \in Packets, Routed!Hop(p, n), q \notin Packets
        PROVE  q \in Routed!Packet /\ IsBetter(q.at, q.origin, q.target)
    <3>1. /\ p \in Routed!Packet /\ IsBetter(n, p.at, p.target)
          /\ p.at = p.origin \/ IsBetter(p.at, p.origin, p.target)
      BY <2>3, RoutedIsBetter DEF Routed!GetsNearer, Routed!Hop, Packets
    <3>2. q = [p EXCEPT !.at = n]
      BY <2>3 DEF Routed!Hop, Packets
    <3>3. q \in Routed!Packet /\ q.at = n /\ q.origin = p.origin /\ q.target = p.target
      BY <3>1, <3>2 DEF Routed!Packet
    <3>4. n \in NodeId /\ p.at \in NodeId /\ p.origin \in NodeId /\ p.target \in NodeId
      BY <3>1, NodesAssumption, KeysAssumption DEF Routed!Packet
    <3>. QED
      BY <3>1, <3>3, <3>4, IsBetterTransitive
  <2>. QED
    BY <2>1, <2>2, <2>3 DEF Routed!Next, Routed!Leave, Packets
<1>3. DhtInit => Packets = {}
  BY DEF DhtInit, KvInit, Packets, Requests
<1>4. Packets = {} => Routed!Init
  BY DEF Routed!Init, Packets
<1>. QED
  BY <1>1, <1>2, <1>3, <1>4, KvIInvInit, KvIInvStep, RoutedStep, PTL DEF DhtSpec
-----------------------------------------------------------------------------
\* Pairs.  No handler removes one that it has not brought elsewhere.
Kept(k) == Carried(k) \/ \E n \in Nodes : store[n][k] # NotPresent

\* A process that ends or starts again has ended for good.
LEMMA EndIsRemembered ==
  ASSUME KvIInv, NEW n \in Nodes, End(n) \/ Restart(n), NobodyEnded'
  PROVE  FALSE
<1>1. CASE End(n)
  BY <1>1 DEF End, NobodyEnded
<1>2. CASE Restart(n)
  <2>1. restarts[n] \in Nat /\ restarts'[n] = restarts[n] + 1
    BY <1>2 DEF KvIInv, IInv, GoodProcesses, Restart
  <2>. QED
    BY <2>1 DEF NobodyEnded, NobodyRestarted
<1>. QED
  BY <1>1, <1>2

\* A step that leaves the stores and takes away no message and no thread.
LEMMA NothingTaken ==
  ASSUME NEW k \in Keys, Kept(k), UNCHANGED store, kvs \subseteq kvs',
         kvthreads \subseteq kvthreads'
  PROVE  Kept(k)'
BY DEF Kept, Carried

LEMMA PutKept ==
  ASSUME NEW n \in Nodes, NEW k \in Keys, PutCommand(n, k)
  PROVE  Kept(k)'
<1>. DEFINE m == [type |-> "SetVal", to |-> n, sender |-> n, key |-> k,
                  val |-> puts'[k], terminal |-> FALSE]
<1>1. m \in kvs' /\ m.type = "SetVal" /\ m.key = k
  BY DEF PutCommand
<1>. QED
  BY <1>1 DEF Kept, Carried

\* A pair that n stores, by one key or with others.
LEMMA StoredIsKept ==
  ASSUME KvIInv, NEW n \in Nodes, NEW k \in Keys,
         store'[n][k] # NotPresent
  PROVE  Kept(k)'
BY DEF Kept

LEMMA PassOnKept ==
  ASSUME KvIInv, NEW k \in Keys, Kept(k), NEW m \in kvs, m.type \in {"SetVal", "GetVal"},
         NEW next, PassOn(m, next)
  PROVE  Kept(k)'
<1>1. CASE UNCHANGED kvs
  BY <1>1, NothingTaken DEF PassOn
<1>2. CASE kvs' = (kvs \ {m}) \cup {[m EXCEPT !.to = next]}
  <2>1. m \in SetValMessage \/ m \in GetValMessage
    BY KvMessageTypes DEF KvIInv, KvTypeOK
  <2>2. LET r == [m EXCEPT !.to = next] IN r.type = m.type /\ r.key = m.key
    BY <2>1 DEF SetValMessage, GetValMessage
  <2>3. UNCHANGED <<store, kvthreads>>
    BY DEF PassOn
  <2>. QED
    BY <1>2, <2>2, <2>3 DEF Kept, Carried
<1>. QED
  BY <1>1, <1>2 DEF PassOn

LEMMA HandleSetValKept ==
  ASSUME KvIInv, NEW k \in Keys, Kept(k), NEW m, HandleSetVal(m)
  PROVE  Kept(k)'
<1>. DEFINE n == m.to
<1>1. m \in kvs /\ m.type = "SetVal" /\ m \in SetValMessage
  BY KvMessageTypes DEF KvIInv, KvTypeOK, HandleSetVal
<1>2. CASE \E next : PassOn(m, next)
  BY <1>1, <1>2, PassOnKept
<1>3. CASE /\ store' = [store EXCEPT ![n] = WithPair(store[n], m.key, m.val)]
           /\ kvs' = kvs \ {m} /\ kvthreads \subseteq kvthreads'
  <2>1. n \in Nodes /\ m.key \in Keys /\ m.val # NotPresent
    BY <1>1 DEF SetValMessage
  <2>2. /\ \A x \in Nodes : x # n => store'[x] = store[x]
        /\ store'[n] = WithPair(store[n], m.key, m.val) /\ store[n] \in HashMap
    BY <1>3, <2>1 DEF KvIInv, KvTypeOK
  <2>3. store'[n][m.key] # NotPresent /\ \A j \in Keys : j # m.key => store'[n][j] = store[n][j]
    BY <2>1, <2>2 DEF WithPair, HashMap
  <2>4. CASE m.key = k
    BY <2>1, <2>3, <2>4 DEF Kept
  <2>5. CASE m.key # k
    BY <1>1, <1>3, <2>2, <2>3, <2>5 DEF Kept, Carried
  <2>. QED
    BY <2>4, <2>5
<1>. QED
  BY <1>2, <1>3 DEF HandleSetVal

LEMMA HandleTerminalSetValKept ==
  ASSUME KvIInv, NEW k \in Keys, Kept(k), NEW m, HandleTerminalSetVal(m)
  PROVE  Kept(k)'
<1>1. m \in kvs /\ m.type = "SetVal" /\ m.to \in Nodes
  BY KvMessageTypes DEF KvIInv, KvTypeOK, HandleTerminalSetVal
<1>2. /\ UNCHANGED store /\ kvs' = kvs \ {m} /\ kvthreads \subseteq kvthreads'
  BY DEF HandleTerminalSetVal
<1>3. CASE store[m.to][m.key] # NotPresent
  BY <1>1, <1>2, <1>3 DEF Kept, Carried
<1>4. CASE store[m.to][m.key] = NotPresent
  <2>. DEFINE th == [kind |-> "insert", at |-> m.to, msg |-> m]
  <2>1. th \in kvthreads' /\ th.kind = "insert" /\ th.msg = m
    BY <1>4 DEF HandleTerminalSetVal
  <2>. HIDE DEF th
  <2>. QED
    BY <1>1, <1>2, <2>1 DEF Kept, Carried
<1>. QED
  BY <1>3, <1>4

LEMMA InsertReplicaKept ==
  ASSUME KvIInv, NEW k \in Keys, Kept(k), NEW th, InsertReplica(th)
  PROVE  Kept(k)'
<1>. DEFINE n == th.at
            m == th.msg
<1>1. th \in kvthreads /\ th.kind = "insert" /\ th \in InsertThread
  BY KvThreadTypes DEF KvIInv, KvTypeOK, InsertReplica
<1>2. n \in Nodes /\ m.key \in Keys /\ m.val # NotPresent
  BY <1>1 DEF InsertThread, SetValMessage
<1>3. /\ \A x \in Nodes : x # n => store'[x] = store[x]
      /\ store'[n] = WithPair(store[n], m.key, m.val) /\ store[n] \in HashMap
      /\ kvs' = kvs /\ kvthreads' = kvthreads \ {th}
  BY <1>2 DEF KvIInv, KvTypeOK, InsertReplica
<1>4. store'[n][m.key] # NotPresent /\ \A j \in Keys : j # m.key => store'[n][j] = store[n][j]
  BY <1>2, <1>3 DEF WithPair, HashMap
<1>5. CASE m.key = k
  BY <1>2, <1>4, <1>5 DEF Kept
<1>6. CASE m.key # k
  BY <1>1, <1>3, <1>4, <1>6 DEF Kept, Carried
<1>. QED
  BY <1>5, <1>6

\* While every process is live, the first leaf tried answers.
LEMMA SendReplicaKept ==
  ASSUME KvIInv, NobodyEnded, NEW k \in Keys, Kept(k), NEW th, SendReplica(th)
  PROVE  Kept(k)'
<1>1. th \in kvthreads /\ th.kind = "replicate" /\ th \in ReplicateThread
  BY KvThreadTypes DEF KvIInv, KvTypeOK, SendReplica
<1>2. th.msg \in SetValMessage /\ th.left \in SUBSET Nodes /\ th.right \in SUBSET Nodes
  BY <1>1 DEF ReplicateThread
<1>3. PICK x : kvs' = kvs \cup {[th.msg EXCEPT !.to = x]}
  BY <1>2 DEF SendReplica, NobodyEnded
<1>4. LET r == [th.msg EXCEPT !.to = x] IN r.type = "SetVal" /\ r.key = th.msg.key
  BY <1>2 DEF SetValMessage
<1>5. kvthreads \ {th} \subseteq kvthreads' /\ UNCHANGED store
  BY DEF SendReplica
<1>. QED
  BY <1>1, <1>3, <1>4, <1>5 DEF Kept, Carried

LEMMA OtherMessagesKept ==
  ASSUME KvIInv, NEW k \in Keys, Kept(k), NEW m, HandleGetVal(m) \/ HandleGetValResponse(m)
  PROVE  Kept(k)'
<1>1. CASE m \in kvs /\ m.type = "GetVal" /\ \E next : PassOn(m, next)
  BY <1>1, PassOnKept
<1>2. CASE /\ UNCHANGED <<store, kvthreads>> /\ kvs \ {m} \subseteq kvs'
           /\ m.type \in {"GetVal", "GetValResponse"}
  BY <1>2 DEF Kept, Carried
<1>. QED
  BY <1>1, <1>2 DEF HandleGetVal, HandleGetValResponse

LEMMA HandleAddToHashTableKept ==
  ASSUME KvIInv, NEW k \in Keys, Kept(k), NEW m, HandleAddToHashTable(m)
  PROVE  Kept(k)'
<1>1. m \in kvs /\ m.type = "AddToHashTable" /\ m.to \in Nodes
  BY KvMessageTypes DEF KvIInv, KvTypeOK, HandleAddToHashTable
<1>2. /\ \A x \in Nodes : x # m.to => store'[x] = store[x]
      /\ store'[m.to][k] = IF m.map[k] # NotPresent THEN m.map[k] ELSE store[m.to][k]
      /\ kvs' = kvs \ {m} /\ kvthreads' = kvthreads
  BY <1>1 DEF KvIInv, KvTypeOK, HandleAddToHashTable, WithPairs
<1>. QED
  BY <1>1, <1>2 DEF Kept, Carried

\* What a handoff deletes it sends.
LEMMA HandoffKept ==
  ASSUME KvIInv, NobodyEnded, NEW k \in Keys, Kept(k), NEW th, Handoff(th)
  PROVE  Kept(k)'
<1>. DEFINE add == [type |-> "AddToHashTable", to |-> th.join.newcomer, map |-> th.map]
<1>1. th \in HandoffThread /\ th.kind = "handoff"
  BY KvThreadTypes DEF KvIInv, KvTypeOK, Handoff
<1>2. th.at \in Nodes /\ th.join.newcomer \in Nodes
  BY <1>1 DEF HandoffThread, JoinMeMessage, JoinMessage
<1>3. /\ \A x \in Nodes : x # th.at => store'[x] = store[x]
      /\ store'[th.at][k] = IF th.map[k] # NotPresent THEN NotPresent ELSE store[th.at][k]
      /\ kvthreads' = kvthreads \ {th}
  BY <1>2 DEF KvIInv, KvTypeOK, Handoff, WithoutPairs
<1>4. kvs' = kvs \cup {add}
  BY <1>2 DEF Handoff, KvReachable, NobodyEnded
<1>5. CASE th.map[k] # NotPresent
  <2>1. add \in kvs' /\ add.type = "AddToHashTable" /\ add.map = th.map
    BY <1>4
  <2>. HIDE DEF add
  <2>. QED
    BY <1>5, <2>1 DEF Kept, Carried
<1>6. CASE th.map[k] = NotPresent
  BY <1>1, <1>3, <1>4, <1>6 DEF Kept, Carried
<1>. QED
  BY <1>5, <1>6

LEMMA HandOverKept ==
  ASSUME NEW k \in Keys, Kept(k), NEW th, HandOver(th)
  PROVE  Kept(k)'
BY DEF HandOver, Kept, Carried
-----------------------------------------------------------------------------
LEMMA KvHandlerKept ==
  ASSUME KvIInv, NobodyEnded', NEW k \in Keys, Kept(k), NEW m \in kvs, KvHandler(m)
  PROVE  Kept(k)'
<1>1. m.to \in Nodes
  BY KvMessageTypes DEF KvIInv, KvTypeOK
<1>. QED
  BY <1>1, HandleSetValKept, HandleTerminalSetValKept, OtherMessagesKept,
     HandleAddToHashTableKept, EndIsRemembered DEF KvHandler, RoutePastTable

\* Every step but a put keeps what is kept.
LEMMA KeptStep ==
  ASSUME KvIInv, NobodyEnded, NobodyEnded', NEW k \in Keys, Kept(k), [DhtNext]_dhtVars
  PROVE  Kept(k)'
<1>1. CASE UNCHANGED dhtVars
  BY <1>1, NothingTaken DEF dhtVars, kvVars
<1>2. ASSUME NEW n \in Nodes, DhtEnvironment(n) PROVE Kept(k)'
  BY <1>2, EndIsRemembered, NothingTaken
     DEF DhtEnvironment, MembershipCommand, QuitStore, Crash, PutCommand, GetCommand, kvVars
<1>3. ASSUME NEW n \in Nodes, DhtProcess(n) PROVE Kept(k)'
  <2>1. CASE MembershipStep(n)
    BY <2>1, NothingTaken DEF MembershipStep, kvVars
  <2>2. CASE ExitStore(n)
    BY <2>2, EndIsRemembered DEF ExitStore, Exit
  <2>3. ASSUME NEW m, m.to = n, StartJoin(m) \/ HandleOwnJoin(m) PROVE Kept(k)'
    BY <2>3, EndIsRemembered, NothingTaken DEF StartJoin, HandleOwnJoin, kvVars
  <2>4. ASSUME NEW th, InsertReplica(th) \/ SendReplica(th) \/ Handoff(th) \/ HandOver(th)
        PROVE  Kept(k)'
    BY <2>4, InsertReplicaKept, SendReplicaKept, HandoffKept, HandOverKept
  <2>. QED
    BY <1>3, <2>1, <2>2, <2>3, <2>4, KvHandlerKept DEF DhtProcess
<1>. QED
  BY <1>1, <1>2, <1>3 DEF DhtNext
\* Nothing but an end or a restart changes who is live.
LEMMA MembershipKeepsLive ==
  ASSUME NEW n \in Nodes,
         \/ \E m : HandleMessage(m) /\ ~ End(m.to)
         \/ \E th : RunThread(th)
         \/ \E x : TimerRepair(n, x) \/ JoinCommand(n, x)
         \/ Quit(n)
  PROVE  UNCHANGED <<live, restarts>>
<1>1. ASSUME NEW m, HandleMessage(m), ~ End(m.to) PROVE UNCHANGED <<live, restarts>>
  BY <1>1 DEF HandleMessage, HandleJoinMe, HandleJoin, HandleOwnJoin, HandleRoutingUpdate,
     HandleAllStateUpdate, HandleDeleteNode
<1>2. ASSUME NEW th, RunThread(th) PROVE UNCHANGED <<live, restarts>>
  BY <1>2 DEF RunThread, ForwardJoin, RetryJoin, AnswerJoin, MergeRoutingUpdate,
     CheckRoutingUpdate, RepairLeafSet, RepairNeighbourSet, RepairRoutingTable, StopRepair
<1>. QED
  BY <1>1, <1>2 DEF TimerRepair, JoinCommand, Quit

LEMMA StoreKeepsLive ==
  ASSUME NEW m, NEW th, NEW n, NEW k,
         \/ PutCommand(n, k) \/ GetCommand(n, k)
         \/ KvHandler(m) /\ ~ RoutePastTable(m)
         \/ InsertReplica(th) \/ SendReplica(th) \/ HandOver(th)
  PROVE  UNCHANGED <<live, restarts>>
BY DEF PutCommand, GetCommand, KvHandler, HandleSetVal, PassOn, HandleTerminalSetVal,
       HandleGetVal, HandleGetValResponse, HandleAddToHashTable, InsertReplica,
       SendReplica, HandOver, vars

LEMMA JoinsKeepLive ==
  ASSUME NEW m, NEW th, StartJoin(m) \/ Handoff(th)
  PROVE  UNCHANGED <<live, restarts>>
BY DEF StartJoin, Handoff, JoinHandler, HandleJoinMe, HandleJoin, vars

LEMMA NobodyEndedBefore ==
  ASSUME KvIInv, [DhtNext]_dhtVars, NobodyEnded'
  PROVE  NobodyEnded
<1>1. SUFFICES UNCHANGED <<live, restarts>>
  BY DEF NobodyEnded, NobodyRestarted
<1>2. CASE UNCHANGED dhtVars
  BY <1>2 DEF dhtVars, vars
<1>3. ASSUME NEW n \in Nodes, DhtEnvironment(n) PROVE UNCHANGED <<live, restarts>>
  BY <1>3, EndIsRemembered, MembershipKeepsLive, StoreKeepsLive
     DEF DhtEnvironment, MembershipCommand, QuitStore, Crash
<1>4. ASSUME NEW n \in Nodes, DhtProcess(n) PROVE UNCHANGED <<live, restarts>>
  <2>1. CASE MembershipStep(n)
    BY <2>1, EndIsRemembered, MembershipKeepsLive DEF MembershipStep, HandleMessage
  <2>2. CASE ExitStore(n)
    BY <2>2, EndIsRemembered DEF ExitStore, Exit
  <2>3. ASSUME NEW m \in msgs, m.to = n, StartJoin(m) \/ HandleOwnJoin(m)
        PROVE  UNCHANGED <<live, restarts>>
    BY <2>3, EndIsRemembered, JoinsKeepLive DEF HandleOwnJoin
  <2>4. ASSUME NEW m \in kvs, m.to = n, KvHandler(m) PROVE UNCHANGED <<live, restarts>>
    BY <2>4, EndIsRemembered, StoreKeepsLive DEF RoutePastTable
  <2>5. ASSUME NEW th, InsertReplica(th) \/ SendReplica(th) \/ Handoff(th) \/ HandOver(th)
        PROVE  UNCHANGED <<live, restarts>>
    BY <2>5, JoinsKeepLive, StoreKeepsLive
  <2>. QED
    BY <1>4, <2>1, <2>2, <2>3, <2>4, <2>5 DEF DhtProcess
<1>. QED
  BY <1>2, <1>3, <1>4 DEF DhtNext

\* Only a put counts a put.
LEMMA PutsStep ==
  ASSUME KvTypeOK, [DhtNext]_dhtVars, NEW k \in Keys, ~ \E n \in Nodes : PutCommand(n, k)
  PROVE  puts'[k] = puts[k]
<1>1. CASE UNCHANGED dhtVars
  BY <1>1 DEF dhtVars, kvVars
<1>2. ASSUME NEW n \in Nodes, NEW j \in Keys, PutCommand(n, j) PROVE puts'[k] = puts[k]
  BY <1>2 DEF KvTypeOK, PutCommand
<1>3. ASSUME NEW n \in Nodes, DhtEnvironment(n), ~ \E j \in Keys : PutCommand(n, j)
      PROVE  UNCHANGED puts
  BY <1>3 DEF DhtEnvironment, MembershipCommand, QuitStore, Forget, GetCommand, kvVars
<1>4. ASSUME NEW m, KvHandler(m) PROVE UNCHANGED puts
  BY <1>4 DEF KvHandler, HandleSetVal, PassOn, HandleTerminalSetVal, HandleGetVal,
     HandleGetValResponse, HandleAddToHashTable, RoutePastTable, Forget
<1>5. ASSUME NEW n \in Nodes, DhtProcess(n) PROVE UNCHANGED puts
  <2>1. ASSUME NEW th, InsertReplica(th) \/ SendReplica(th) \/ Handoff(th) \/ HandOver(th)
        PROVE  UNCHANGED puts
    BY <2>1 DEF InsertReplica, SendReplica, Handoff, HandOver
  <2>2. ASSUME MembershipStep(n) \/ ExitStore(n) \/ (\E m \in msgs : StartJoin(m) \/ Forget(n))
        PROVE  UNCHANGED puts
    BY <2>2 DEF MembershipStep, ExitStore, StartJoin, Forget, kvVars
  <2>. QED
    BY <1>4, <1>5, <2>1, <2>2 DEF DhtProcess
<1>. QED
  BY <1>1, <1>2, <1>3, <1>5 DEF DhtNext

LEMMA PairsKeptStep == KvIInv /\ PairsKept /\ [DhtNext]_dhtVars => PairsKept'
<1>. SUFFICES ASSUME KvIInv, PairsKept, [DhtNext]_dhtVars, NobodyEnded',
                     NEW k \in Keys, puts'[k] > 0
              PROVE  Kept(k)'
  BY DEF PairsKept, Kept
<1>1. NobodyEnded
  BY NobodyEndedBefore
<1>2. CASE \E n \in Nodes : PutCommand(n, k)
  BY <1>2, PutKept
<1>3. CASE ~ \E n \in Nodes : PutCommand(n, k)
  <2>1. Kept(k)
    BY <1>1, <1>3, PutsStep DEF KvIInv, PairsKept, Kept
  <2>. QED
    BY <1>1, <2>1, KeptStep
<1>. QED
  BY <1>2, <1>3

\* While no process has ended, no interleaving of puts, joins and handoffs loses
\* a pair (peerMessageHandler.cpp:622-795).
THEOREM PairsKeptHolds == DhtSpec => []PairsKept
<1>1. DhtInit => PairsKept
  BY DEF DhtInit, KvInit, PairsKept
<1>. QED
  BY <1>1, KvIInvInit, KvIInvStep, PairsKeptStep, PTL DEF DhtSpec
-----------------------------------------------------------------------------
\* The routing loops of the store remove a node from the tables.
LEMMA ForgottenNodeRows ==
  ASSUME IInv, RowsIInv, NEW n \in Nodes, NEW x, HandleLazyUpdates(n, x),
         UNCHANGED <<live, joined, quitting, restarts, msgs>>
  PROVE  RowsIInv'
BY LazyUpdatesRows

LEMMA OverlayUnchangedRows ==
  ASSUME IInv, RowsIInv, UNCHANGED vars
  PROVE  RowsIInv'
BY RowsIInvStep

\* A join handler that cannot hand over its pairs ends, and the join of a
\* newcomer that does not answer with it.
LEMMA HandoffRows ==
  ASSUME KvIInv, RowsIInv, NEW th, Handoff(th)
  PROVE  RowsIInv'
<1>. DEFINE x == th.join.newcomer
<1>1. th.join \in JoinMeMessage \cup JoinMessage
  BY KvThreadTypes DEF KvIInv, KvTypeOK, Handoff, HandoffThread
<1>2. CASE JoinHandler(th.join)
  BY <1>2, JoinHandlerRows DEF KvIInv, JoinHandler
<1>3. CASE /\ x \notin live /\ msgs' = msgs \ {th.join}
           /\ UNCHANGED <<live, joined, quitting, restarts, db, threads>>
  <2>. SUFFICES ASSUME NEW n \in Nodes, FirstLife(n)' PROVE Counted(n)' /\ Complete(n)'
    BY <1>3 DEF RowsIInv
  <2>1. FirstLife(n) /\ n # x
    BY <1>3 DEF FirstLife
  <2>2. Counted(n) /\ Complete(n)
    BY <2>1 DEF RowsIInv
  <2>3. OtherMessage(n, th.join)
    BY <1>1, <2>1 DEF OtherMessage, JoinMeMessage, JoinMessage
  <2>4. SameJoin(n)
    BY <1>3, <2>3, OthersKeepJoin
  <2>. QED
    BY <1>3, <2>2, <2>4, SameJoinKept DEF NobodyEnded, NobodyRestarted
<1>. QED
  BY <1>2, <1>3 DEF Handoff

LEMMA PassOnRows ==
  ASSUME KvIInv, RowsIInv, NEW m, m.to \in Nodes, NEW next, PassOn(m, next)
  PROVE  RowsIInv'
BY ForgottenNodeRows, OverlayUnchangedRows DEF PassOn, KvIInv

LEMMA KvHandlerRows ==
  ASSUME KvIInv, RowsIInv, NEW m \in kvs, KvHandler(m)
  PROVE  RowsIInv'
<1>1. m.to \in Nodes
  BY KvMessageTypes DEF KvIInv, KvTypeOK
<1>2. CASE HandleSetVal(m) \/ HandleGetVal(m)
  BY <1>1, <1>2, PassOnRows, OverlayUnchangedRows DEF HandleSetVal, HandleGetVal, KvIInv
<1>3. CASE HandleTerminalSetVal(m) \/ HandleGetValResponse(m) \/ HandleAddToHashTable(m)
  BY <1>3, OverlayUnchangedRows
     DEF HandleTerminalSetVal, HandleGetValResponse, HandleAddToHashTable, KvIInv
<1>4. CASE RoutePastTable(m)
  BY <1>1, <1>4, EndKeepsRows DEF RoutePastTable
<1>. QED
  BY <1>2, <1>3, <1>4 DEF KvHandler

LEMMA KvThreadRows ==
  ASSUME KvIInv, RowsIInv, NEW th,
         InsertReplica(th) \/ SendReplica(th) \/ Handoff(th) \/ HandOver(th)
  PROVE  RowsIInv'
<1>1. CASE InsertReplica(th) \/ HandOver(th)
  BY <1>1, OverlayUnchangedRows DEF InsertReplica, HandOver, KvIInv
<1>2. CASE SendReplica(th)
  <2>1. th.at \in Nodes
    BY <1>2, KvThreadTypes DEF SendReplica, KvIInv, KvTypeOK, ReplicateThread
  <2>2. \/ UNCHANGED vars
        \/ \E x : HandleLazyUpdates(th.at, x) /\ UNCHANGED <<live, joined, quitting, restarts, msgs>>
    BY <1>2 DEF SendReplica
  <2>. QED
    BY <2>1, <2>2, OverlayUnchangedRows, ForgottenNodeRows DEF KvIInv
<1>. QED
  BY <1>1, <1>2, HandoffRows

LEMMA DhtRowsStep == KvIInv /\ RowsIInv /\ [DhtNext]_dhtVars => RowsIInv'
<1>. SUFFICES ASSUME KvIInv, RowsIInv, [DhtNext]_dhtVars PROVE RowsIInv'
  OBVIOUS
<1>0. IInv
  BY DEF KvIInv
<1>1. CASE UNCHANGED dhtVars
  BY <1>0, <1>1, OverlayUnchangedRows DEF dhtVars
<1>2. ASSUME NEW n \in Nodes, MembershipStep(n) \/ MembershipCommand(n) PROVE RowsIInv'
  <2>1. Process(n) \/ Environment(n)
    BY <1>2 DEF MembershipStep, MembershipCommand, Process, HandleMessage, Environment
  <2>. QED
    BY <1>0, <2>1, RowsIInvStep DEF Next
<1>3. ASSUME NEW n \in Nodes, DhtEnvironment(n) PROVE RowsIInv'
  <2>1. CASE QuitStore(n)
    BY <1>0, <2>1, QuitRows DEF QuitStore
  <2>2. CASE Crash(n)
    BY <2>2, EndKeepsRows DEF Crash
  <2>3. ASSUME NEW k \in Keys, PutCommand(n, k) \/ GetCommand(n, k) PROVE RowsIInv'
    BY <1>0, <2>3, OverlayUnchangedRows DEF PutCommand, GetCommand
  <2>. QED
    BY <1>2, <1>3, <2>1, <2>2, <2>3 DEF DhtEnvironment
<1>4. ASSUME NEW n \in Nodes, DhtProcess(n) PROVE RowsIInv'
  <2>1. CASE ExitStore(n)
    BY <2>1, EndKeepsRows DEF ExitStore, Exit
  <2>2. ASSUME NEW m \in msgs, m.to = n, StartJoin(m) PROVE RowsIInv'
    BY <1>0, <2>2, JoinHandlerRows, OverlayUnchangedRows DEF StartJoin, JoinHandler
  <2>3. ASSUME NEW m \in msgs, m.to = n, HandleOwnJoin(m) PROVE RowsIInv'
    BY <2>3, EndKeepsRows DEF HandleOwnJoin
  <2>. QED
    BY <1>2, <1>4, <2>1, <2>2, <2>3, KvHandlerRows, KvThreadRows DEF DhtProcess
<1>. QED
  BY <1>1, <1>3, <1>4 DEF DhtNext

\* The pairs a join hands over do not disturb the count of its rows.
THEOREM DhtRowsAccounted == DhtSpec => [](RowsAccounted /\ CountsComplete)
<1>1. DhtInit => RowsIInv
  BY RowsIInvInit DEF DhtInit
<1>2. KvIInv /\ RowsIInv => RowsAccounted /\ CountsComplete
  BY RowsIInvImplies DEF KvIInv
<1>. QED
  BY <1>1, <1>2, KvIInvInit, KvIInvStep, DhtRowsStep, PTL DEF DhtSpec
-----------------------------------------------------------------------------
(***************************************************************************)
(* Joins that follow one another, with the store beside them.  While       *)
(* nobody leaves, the handlers of the store change no table, and a handoff *)
(* only delays the join handler it is part of, so the invariants of        *)
(* OverlayProofs carry over; what they say of the leaf sets then says      *)
(* where a put or a get may end.                                           *)
(***************************************************************************)
\* While everybody is running the handlers of the store leave the overlay alone.
LEMMA StoreStaysPut ==
  ASSUME KvIInv, NobodyLeft',
         \/ \E m \in kvs : KvHandler(m)
         \/ \E th : InsertReplica(th) \/ SendReplica(th) \/ HandOver(th)
  PROVE  UNCHANGED vars
<1>2. live' = Nodes /\ \A n \in Nodes : ~ End(n)
  BY EndLeaves DEF NobodyLeft, NobodyEnded
<1>4. ASSUME NEW m \in kvs, KvHandler(m) PROVE UNCHANGED vars
  <2>1. ASSUME NEW next \in NextKeyNodes(m.to, db[m.to], m.key), PassOn(m, next),
               m.type \in {"SetVal", "GetVal"}
        PROVE  UNCHANGED vars
    BY <1>2, <2>1, RequestNext DEF PassOn, vars
  <2>2. CASE RoutePastTable(m)
    BY <1>2, <2>2, KvMessageTypes DEF RoutePastTable, KvIInv, KvTypeOK
  <2>3. CASE HandleSetVal(m) \/ HandleGetVal(m)
    BY <2>1, <2>3 DEF HandleSetVal, HandleGetVal
  <2>4. CASE HandleTerminalSetVal(m) \/ HandleGetValResponse(m) \/ HandleAddToHashTable(m)
    BY <2>4 DEF HandleTerminalSetVal, HandleGetValResponse, HandleAddToHashTable
  <2>. QED
    BY <1>4, <2>2, <2>3, <2>4 DEF KvHandler
<1>5. ASSUME NEW th, InsertReplica(th) \/ SendReplica(th) \/ HandOver(th) PROVE UNCHANGED vars
  <2>1. CASE SendReplica(th)
    <3>1. th.left \subseteq Nodes /\ th.right \subseteq Nodes
      BY <2>1, KvThreadTypes DEF SendReplica, KvIInv, KvTypeOK, ReplicateThread
    <3>2. \A x \in Nodes : x \in live'
      BY <1>2
    <3>. QED
      BY <2>1, <3>1, <3>2 DEF SendReplica, vars
  <2>. QED
    BY <1>5, <2>1 DEF InsertReplica, HandOver
<1>. QED
  BY <1>4, <1>5

\* While nobody leaves, a step of the store is one of the overlay, or none.
LEMMA DhtStayOrNext ==
  ASSUME KvIInv, [DhtNext]_dhtVars, NobodyLeft'
  PROVE  [Next]_vars
<1>1. CASE UNCHANGED dhtVars
  BY <1>1 DEF dhtVars
<1>2. live' = Nodes /\ \A n \in Nodes : ~ End(n)
  BY EndLeaves DEF NobodyLeft, NobodyEnded
<1>3. ASSUME NEW n \in Nodes, DhtEnvironment(n) PROVE [Next]_vars
  BY <1>3 DEF DhtEnvironment, MembershipCommand, QuitStore, PutCommand, GetCommand, Next, Environment
<1>6. ASSUME NEW th, Handoff(th) PROVE \E n \in Nodes : Process(n)
  <2>1. th.join \in JoinMeMessage \cup JoinMessage
    BY <1>6, KvThreadTypes DEF KvIInv, KvTypeOK, Handoff, HandoffThread
  <2>2. th.join.to \in Nodes /\ th.join.newcomer \in live'
    BY <1>2, <2>1 DEF JoinMeMessage, JoinMessage
  <2>3. JoinHandler(th.join)
    BY <1>6, <2>2 DEF Handoff
  <2>4. th.join \in msgs
    BY <2>3 DEF JoinHandler, HandleJoinMe, HandleJoin
  <2>. QED
    BY <2>2, <2>3, <2>4 DEF JoinHandler, Process, HandleMessage
<1>7. ASSUME NEW n \in Nodes, DhtProcess(n) PROVE [Next]_vars
  <2>1. CASE MembershipStep(n) \/ ExitStore(n)
    BY <2>1 DEF MembershipStep, ExitStore, Next, Process, HandleMessage
  <2>2. ASSUME NEW m \in msgs, m.to = n, StartJoin(m) \/ HandleOwnJoin(m) PROVE [Next]_vars
    BY <2>2 DEF StartJoin, JoinHandler, Next, Process, HandleMessage
  <2>. QED
    BY <1>6, <1>7, <2>1, <2>2, StoreStaysPut DEF DhtProcess, Next
<1>. QED
  BY <1>1, <1>3, <1>7 DEF DhtNext

\* The invariants of joins that follow one another hold with the store beside them.
DhtJoinsIInv == RowsIInv /\ ToldIInv /\ QuietIInv /\ LeafIInv /\ SlotIInv /\ TwoHosts

LEMMA DhtJoinsInit ==
  ASSUME QuietOverlay
  PROVE  DhtInit => DhtJoinsIInv
<1>1. Init => TwoHosts
  BY DEF Init, TwoHosts
<1>. QED
  BY <1>1, RowsIInvInit, ToldIInvInit, QuietIInvInit, LeafIInvInit, SlotIInvInit
     DEF DhtInit, DhtJoinsIInv

LEMMA DhtJoinsStep ==
  ASSUME QuietOverlay, TinyOverlay
  PROVE  KvIInv /\ DhtJoinsIInv /\ [DhtNext]_dhtVars => DhtJoinsIInv'
<1>. SUFFICES ASSUME KvIInv, DhtJoinsIInv, [DhtNext]_dhtVars PROVE DhtJoinsIInv'
  OBVIOUS
<1>1. SmallOverlay /\ IInv
  BY DEF QuietOverlay, KvIInv
<1>2. RowsIInv /\ ToldIInv /\ QuietIInv /\ LeafIInv /\ SlotIInv /\ TwoHosts
  BY DEF DhtJoinsIInv
<1>3. RowsIInv'
  BY <1>2, DhtRowsStep
<1>4. CASE NobodyLeft'
  <2>1. [Next]_vars
    BY <1>4, DhtStayOrNext
  <2>. QED
    BY <1>1, <1>2, <1>3, <2>1, ToldIInvStep, QuietIInvStep, LeafIInvStep, SlotIInvStep, TwoHostsStep
       DEF DhtJoinsIInv
<1>5. CASE ~ NobodyLeft'
  BY <1>3, <1>5 DEF DhtJoinsIInv, ToldIInv, QuietIInv, LeafIInv, SlotIInv, TwoHosts
<1>. QED
  BY <1>4, <1>5

\* LeafSetsClosest and RoutingTableFilled hold with puts, gets and handoffs
\* between the joins and inside them (handleJoinRequest,
\* peerMessageHandler.cpp:154): as long as nobody leaves, small overlays that
\* grow one process at a time end each join with the nearest nodes in every
\* leaf set and an entry in every slot that some process fits.
THEOREM DhtJoinsOneByOne ==
  ASSUME QuietOverlay, TinyOverlay
  PROVE  DhtSpec => [](NobodyLeft => LeafSetsClosest /\ RoutingTableFilled)
<1>1. DhtInit => DhtJoinsIInv
  BY DhtJoinsInit
<1>2. KvIInv /\ DhtJoinsIInv /\ [DhtNext]_dhtVars => DhtJoinsIInv'
  BY DhtJoinsStep
<1>3. KvIInv /\ DhtJoinsIInv => (NobodyLeft => LeafSetsClosest /\ RoutingTableFilled)
  BY LeafIInvImplies, SlotIInvImplies DEF KvIInv, DhtJoinsIInv
<1>. QED
  BY <1>1, <1>2, <1>3, KvIInvInit, KvIInvStep, PTL DEF DhtSpec

\* The next node for a key is the process itself or in its tables.
LEMMA NextKeyIsKnown ==
  ASSUME NEW n \in Nodes, NEW k \in NodeId, NEW D, NEW x \in NextKeyNodes(n, D, k)
  PROVE  x \in {n} \cup Known(D)
<1>. DEFINE p == PrefixMatchLen(k, n)
            e == D.table[p][k[p + 1]]
<1>1. p \in 0 .. Rows
  BY NodesAssumption, PrefixMatch
<1>2. p < Rows => p \in Row /\ k[p + 1] \in Digit
  BY <1>1, RowsAssumption DEF Row, NodeId
<1>3. \A C : \A y \in ScanResults(n, C, k) : y \in {n} \cup C
  BY DEF ScanResults
<1>4. \/ x \in ScanResults(n, Leaves(D), k) \/ x \in ScanResults(n, Known(D), k)
      \/ p < Rows /\ e # None /\ x = e
  BY DEF NextKeyNodes
<1>. HIDE DEF p
<1>5. p < Rows /\ e # None => e \in TableEntries(D)
  BY <1>2 DEF TableEntries, RowEntries
<1>6. Leaves(D) \subseteq Known(D) /\ TableEntries(D) \subseteq Known(D)
  BY DEF Known
<1>. QED
  BY <1>3, <1>4, <1>5, <1>6

\* A process is its own next node for a key only if nothing in its leaf set is
\* better for it: never by an entry of its table.
LEMMA OwnNextNode ==
  ASSUME NEW n \in Nodes, NEW k \in NodeId, NEW D, GoodDatabase(n, D), n \in NextKeyNodes(n, D, k),
         NEW y \in Leaves(D)
  PROVE  ~ IsBetter(y, n, k)
<1>. DEFINE p == PrefixMatchLen(k, n)
            e == D.table[p][k[p + 1]]
<1>1. n \in NodeId /\ ~ IsBetter(n, n, k) /\ PlacedTable(n, D.table)
  BY NodesAssumption, IsBetterIrreflexive DEF GoodDatabase, Placed
<1>2. p \in 0 .. Rows /\ (p < Rows => p \in Row /\ k[p + 1] \in Digit)
  BY <1>1, PrefixMatch, RowsAssumption DEF Row, NodeId
<1>3. ~ (p < Rows /\ e # None /\ n = e)
  <2>1. ASSUME p < Rows, e # None, n = e PROVE FALSE
    <3>1. p \in Row /\ k[p + 1] \in Digit
      BY <1>2, <2>1
    <3>. HIDE DEF p
    <3>2. n[p + 1] = k[p + 1] /\ n[p + 1] # k[p + 1]
      BY <1>1, <2>1, <3>1 DEF PlacedTable
    <3>. QED
      BY <3>2
  <2>. QED
    BY <2>1
<1>4. n \in ScanResults(n, Leaves(D), k) \/ n \in ScanResults(n, Known(D), k)
  BY <1>3 DEF NextKeyNodes
<1>5. \A C : n \in ScanResults(n, C, k) => \A z \in C : ~ IsBetter(z, n, k)
  BY <1>1 DEF ScanResults
<1>6. y \in Known(D)
  BY DEF Known
<1>. QED
  BY <1>4, <1>5, <1>6

\* A put or a get is routed while nothing of the overlay is under way, among
\* processes of the network.
RequestsIInv ==
  NobodyLeft => (Requests = {} \/ Settled) /\ \A r \in Requests : r.to \in Hosts

\* While nobody leaves, a put or a get whose next node is the process it is at
\* (handleSetValRequest, handleGetValRequest, peerMessageHandler.cpp:556) is at
\* a process no member is better than for its key.
RequestsEndNearest ==
  NobodyLeft => \A m \in Requests : m.to \in NextKeyNodes(m.to, db[m.to], m.key) =>
                  \A y \in Members : ~ IsBetter(y, m.to, m.key)

\* At rest everybody is in everybody's leaf set, which the last hop looks at.
LEMMA RequestsIInvImplies ==
  KvIInv /\ QuietIInv /\ LeafIInv /\ RequestsIInv => RequestsEndNearest
<1>. SUFFICES ASSUME KvIInv, QuietIInv, LeafIInv, RequestsIInv, NobodyLeft, NEW m \in Requests,
                     m.to \in NextKeyNodes(m.to, db[m.to], m.key), NEW y \in Members
              PROVE  ~ IsBetter(y, m.to, m.key)
  BY DEF RequestsEndNearest
<1>. DEFINE n == m.to
<1>1. Settled /\ n \in Hosts
  BY DEF RequestsIInv
<1>2. n \in Nodes /\ m.key \in NodeId /\ m.to \in NextKeyNodes(m.to, db[m.to], m.key)
  BY KvMessageTypes, KeysAssumption DEF Requests, KvIInv, KvTypeOK, SetValMessage, GetValMessage
<1>3. OneByOne
  BY DEF QuietIInv
<1>4. AllMet /\ AmongHosts
  BY <1>1, <1>3, SettledAllMet DEF OneByOne
<1>5. LeavesMet(n)
  BY <1>1, <1>2 DEF LeafIInv, LeavesFollow, JoinUnderWay, JoinMessagesOf, JoinThreadsOf, LeavesSent,
              TerminalUpdates, UpdatesTo, MergesAt, Settled
<1>6. Hosts \ {n} \subseteq Leaves(db[n])
  BY <1>1, <1>4, <1>5 DEF AllMet, LeavesMet
<1>7. y \in Hosts
  BY <1>4 DEF Members, AmongHosts, Hosts, KvIInv, IInv, GoodProcesses
<1>8. GoodDatabase(n, db[n]) /\ ~ IsBetter(n, n, m.key)
  BY <1>2, NodesAssumption, IsBetterIrreflexive DEF KvIInv, IInv, GoodDatabases
<1>. HIDE DEF n
<1>9. CASE y = n
  BY <1>8, <1>9 DEF n
<1>10. CASE y # n
  <2>1. y \in Leaves(db[n])
    BY <1>6, <1>7, <1>10
  <2>. QED
    BY <1>2, <1>8, <2>1, OwnNextNode DEF n
<1>. QED
  BY <1>9, <1>10

LEMMA RequestsIInvInit == DhtInit => RequestsIInv
BY DEF DhtInit, KvInit, RequestsIInv, Requests

\* Handlers of the store start no request, and send one on to a process the
\* receiver knows.
LEMMA RequestsPassedOn ==
  ASSUME KvIInv, AmongHosts, \A r \in Requests : r.to \in Hosts, UNCHANGED vars,
         \/ \E m \in kvs : KvHandler(m)
         \/ \E th : InsertReplica(th) \/ SendReplica(th) \/ HandOver(th)
  PROVE  /\ Requests = {} => Requests' = {}
         /\ \A r \in Requests' : r.to \in Hosts
<1>. SUFFICES ASSUME NEW r \in kvs', IsRequest(r) PROVE Requests # {} /\ r.to \in Hosts
  BY DEF Requests, IsRequest
<1>1. CASE r \in kvs
  BY <1>1 DEF Requests, IsRequest
<1>2. ASSUME NEW m \in kvs, m.type \in {"SetVal", "GetVal"}, IsRequest(m),
             NEW next \in NextKeyNodes(m.to, db[m.to], m.key), PassOn(m, next)
      PROVE  Requests # {} /\ r.to \in Hosts
  <2>1. m \in Requests /\ m.to \in Hosts
    BY <1>2 DEF Requests, IsRequest
  <2>2. m.to \in Nodes /\ m.key \in NodeId
    BY <1>2, RequestNext
  <2>3. next \in {m.to} \cup Known(db[m.to])
    BY <1>2, <2>2, NextKeyIsKnown
  <2>4. next \in Hosts
    BY <2>1, <2>2, <2>3 DEF AmongHosts
  <2>. DEFINE sent == [m EXCEPT !.to = next]
  <2>5. sent.to = next
    BY <1>2, KvMessageTypes DEF KvIInv, KvTypeOK, SetValMessage, GetValMessage
  <2>6. kvs' \subseteq kvs \cup {sent}
    BY <1>2 DEF PassOn
  <2>. HIDE DEF sent
  <2>7. r \in kvs \/ r = sent
    BY <2>6
  <2>. QED
    BY <1>1, <2>1, <2>4, <2>5, <2>7
<1>3. ASSUME NEW m \in kvs, KvHandler(m), r \notin kvs PROVE Requests # {} /\ r.to \in Hosts
  <2>1. HandleSetVal(m) \/ HandleGetVal(m)
    BY <1>3 DEF KvHandler, HandleTerminalSetVal, HandleGetValResponse, HandleAddToHashTable,
                RoutePastTable, Forget
  <2>2. m.type \in {"SetVal", "GetVal"} /\ IsRequest(m)
    BY <2>1 DEF HandleSetVal, HandleGetVal, IsRequest
  <2>3. \E next \in NextKeyNodes(m.to, db[m.to], m.key) : PassOn(m, next)
    BY <1>3, <2>1 DEF HandleSetVal, HandleGetVal, KvReachable, IsRequest
  <2>. QED
    BY <1>2, <2>2, <2>3
<1>4. ASSUME NEW th, InsertReplica(th) \/ HandOver(th) PROVE r \in kvs
  BY <1>4 DEF InsertReplica, HandOver, KvReachable, IsRequest
<1>5. ASSUME NEW th, SendReplica(th) PROVE r \in kvs
  <2>1. th.msg \in SetValMessage /\ th.msg.terminal
    BY <1>5, KvThreadTypes DEF KvIInv, KvTypeOK, SendReplica, GoodReplicate, ReplicateThread
  <2>2. \A x : ~ IsRequest([th.msg EXCEPT !.to = x])
    BY <2>1 DEF IsRequest, SetValMessage
  <2>3. r \in kvs \/ \E x : r = [th.msg EXCEPT !.to = x]
    BY <1>5 DEF SendReplica
  <2>. QED
    BY <2>2, <2>3
<1>. QED
  BY <1>1, <1>3, <1>4, <1>5

\* A command starts a request where nothing is under way, and no join starts
\* before it has ended.
LEMMA RequestsIInvStep ==
  ASSUME QuietOverlay
  PROVE  KvIInv /\ ToldIInv /\ QuietIInv /\ RequestsIInv /\ [DhtNext]_dhtVars => RequestsIInv'
<1>. SUFFICES ASSUME KvIInv, ToldIInv, QuietIInv, RequestsIInv, [DhtNext]_dhtVars, NobodyLeft'
              PROVE  (Requests' = {} \/ Settled') /\ \A r \in Requests' : r.to \in Hosts'
  BY DEF RequestsIInv
<1>1. [Next]_vars
  BY DhtStayOrNext
<1>2. NobodyLeft /\ live = Nodes
  <2>1. CASE UNCHANGED vars
    BY <2>1 DEF vars, NobodyLeft, NobodyEnded, NobodyRestarted
  <2>2. CASE Next
    <3>1. NobodyLeft => OnlyJoins
      BY DEF ToldIInv, AllTold
    <3>. QED
      BY <2>2, <3>1, StayingSteps DEF KvIInv, NobodyLeft, NobodyEnded
  <2>. QED
    BY <1>1, <2>1, <2>2 DEF NobodyLeft, NobodyEnded
<1>3. AmongHosts /\ (Requests = {} \/ Settled) /\ \A r \in Requests : r.to \in Hosts
  BY <1>2 DEF QuietIInv, OneByOne, RequestsIInv
<1>4. UNCHANGED vars => Hosts' = Hosts /\ Settled' = Settled
  BY DEF vars, Hosts, Settled
<1>5. \A n \in Nodes : ~ End(n) /\ ~ Quit(n) /\ ~ Restart(n)
  BY EndLeaves, RestartAndQuitLeave DEF KvIInv
<1>6. CASE UNCHANGED dhtVars
  BY <1>3, <1>4, <1>6 DEF dhtVars, kvVars, Requests
<1>7. ASSUME NEW n \in Nodes, DhtEnvironment(n)
      PROVE  (Requests' = {} \/ Settled') /\ \A r \in Requests' : r.to \in Hosts'
  <2>1. CASE MembershipCommand(n)
    BY <1>5, <2>1 DEF MembershipCommand, QuietOverlay, DhtSettled, kvVars, Requests
  <2>2. ASSUME NEW k \in Keys, PutCommand(n, k) \/ GetCommand(n, k)
        PROVE  Settled' /\ \A r \in Requests' : r.to \in Hosts'
    <3>1. Settled /\ n \in Hosts /\ UNCHANGED vars
      BY <2>2 DEF PutCommand, GetCommand, MayUse, QuietOverlay, DhtSettled, Hosts
    <3>2. \A r \in kvs' : r \in kvs \/ r.to = n
      BY <2>2 DEF PutCommand, GetCommand
    <3>. QED
      BY <1>3, <1>4, <3>1, <3>2 DEF Requests
  <2>. QED
    BY <1>5, <1>7, <2>1, <2>2 DEF DhtEnvironment, QuitStore, Crash
<1>8. ASSUME NEW n \in Nodes, DhtProcess(n)
      PROVE  (Requests' = {} \/ Settled') /\ \A r \in Requests' : r.to \in Hosts'
  <2>1. CASE MembershipStep(n)
    <3>1. Requests' = Requests
      BY <2>1 DEF MembershipStep, kvVars, Requests
    <3>2. ~ Settled
      <4>1. \A x \in Nodes : ~ TimerRepair(n, x)
        BY <1>2 DEF TimerRepair
      <4>. QED
        BY <2>1, <4>1 DEF MembershipStep, Settled
    <3>. QED
      BY <1>3, <3>1, <3>2
  <2>2. ASSUME NEW m \in msgs, StartJoin(m) PROVE Requests' = {}
    <3>1. Requests = {}
      BY <1>3, <2>2 DEF Settled
    <3>. QED
      BY <2>2, <3>1 DEF StartJoin, kvVars, Requests
  <2>3. ASSUME NEW m \in msgs, m.to = n, HandleOwnJoin(m) PROVE FALSE
    BY <1>5, <2>3 DEF HandleOwnJoin
  <2>4. CASE ExitStore(n)
    BY <1>5, <2>4 DEF ExitStore, Exit
  <2>5. ASSUME NEW th, Handoff(th) PROVE Requests' = {}
    <3>1. th.join \in JoinMeMessage \cup JoinMessage
      BY <2>5, KvThreadTypes DEF KvIInv, KvTypeOK, Handoff, HandoffThread
    <3>2. JoinHandler(th.join)
      BY <1>2, <2>5, <3>1 DEF Handoff, JoinMeMessage, JoinMessage
    <3>3. Requests = {}
      BY <1>3, <3>2 DEF Settled, JoinHandler, HandleJoinMe, HandleJoin
    <3>. QED
      BY <2>5, <3>3 DEF Handoff, Requests, KvReachable
  <2>6. CASE \/ \E m \in kvs : KvHandler(m)
             \/ \E th : InsertReplica(th) \/ SendReplica(th) \/ HandOver(th)
    <3>1. UNCHANGED vars
      BY <2>6, StoreStaysPut
    <3>. QED
      BY <1>3, <1>4, <2>6, <3>1, RequestsPassedOn
  <2>. QED
    BY <1>8, <2>1, <2>2, <2>3, <2>4, <2>5, <2>6 DEF DhtProcess
<1>. QED
  BY <1>6, <1>7, <1>8 DEF DhtNext

\* In small overlays that grow one process at a time puts and gets end at the
\* process that is best for the key among all members, whatever tables they
\* were routed by: getNextRoutingNode stops at no local optimum.
THEOREM RequestsEndNearestHolds ==
  ASSUME QuietOverlay, TinyOverlay
  PROVE  DhtSpec => []RequestsEndNearest
<1>1. DhtInit => DhtJoinsIInv
  BY DhtJoinsInit
<1>2. KvIInv /\ DhtJoinsIInv /\ [DhtNext]_dhtVars => DhtJoinsIInv'
  BY DhtJoinsStep
<1>3. KvIInv /\ DhtJoinsIInv /\ RequestsIInv /\ [DhtNext]_dhtVars => RequestsIInv'
  BY RequestsIInvStep DEF DhtJoinsIInv
<1>4. KvIInv /\ DhtJoinsIInv /\ RequestsIInv => RequestsEndNearest
  BY RequestsIInvImplies DEF DhtJoinsIInv
<1>. QED
  BY <1>1, <1>2, <1>3, <1>4, RequestsIInvInit, KvIInvInit, KvIInvStep, PTL DEF DhtSpec
=============================================================================
