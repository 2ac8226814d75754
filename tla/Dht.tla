-------------------------------- MODULE Dht --------------------------------
(***************************************************************************)
(* The key-value store on top of the overlay: put and get                  *)
(* (commandHandler.cpp), SetVal, GetVal, GetValResponse and AddToHashTable *)
(* (peerMessageHandler.cpp), the handoff of pairs inside the join handlers *)
(* and the data a process that quits leaves behind.  Every step is a step  *)
(* of Overlay with its effect on the pairs, or a step of its own.          *)
(*                                                                         *)
(* A key is the hash of a word, a string of digits longer than a NodeID.   *)
(* Routing looks at its first Rows digits, which stand for it here, and    *)
(* the digits after them make it larger than the NodeID it starts with.    *)
(* The n-th put of a key stores the value n: a value says how old it is.   *)
(***************************************************************************)
EXTENDS Overlay

CONSTANTS
  Keys,     \* the keys users put and get
  Putters,  \* processes whose user may type `put'
  Getters,  \* processes whose user may type `get'
  MaxPuts   \* bound: how often each key is put

ASSUME KeysAssumption == Keys \subseteq NodeId
ASSUME UsersAssumption == Putters \subseteq Nodes /\ Getters \subseteq Nodes
ASSUME MaxPutsAssumption == MaxPuts \in Nat

VARIABLES
  store,      \* store[n]: hashMap of process n
  kvs,        \* key-value messages sent and not yet handled, and put and get
              \* commands that have not found their next node: messages to oneself
  kvthreads,  \* key-value threads that are under way
  puts,       \* puts[k]: how often k was put
  shown       \* shown[n]: what the console of n shows for its last get

kvVars == <<store, kvs, kvthreads, puts, shown>>
dhtVars == <<vars, kvVars>>

NotPresent == 0             \* the key is not in the map: "Key not present"
Version == 0 .. MaxPuts
HashMap == [Keys -> Version]
EmptyMap == [k \in Keys |-> NotPresent]

\* insertIntoHashMap for the pairs of `new', deleteFromHashMap for those of `gone'.
WithPairs(map, new) == [k \in Keys |-> IF new[k] # NotPresent THEN new[k] ELSE map[k]]
WithoutPairs(map, gone) == [k \in Keys |-> IF gone[k] # NotPresent THEN NotPresent ELSE map[k]]
WithPair(map, k, val) == [map EXCEPT ![k] = val]

SetValMessage == [type : {"SetVal"}, to : Nodes, sender : Nodes, key : Keys,
                  val : Version \ {NotPresent}, terminal : BOOLEAN]
GetValMessage == [type : {"GetVal"}, to : Nodes, node : Nodes, key : Keys]
GetValResponseMessage == [type : {"GetValResponse"}, to : Nodes, value : Version]
AddToHashTableMessage == [type : {"AddToHashTable"}, to : Nodes, map : HashMap]
KvMessage == SetValMessage \cup GetValMessage \cup GetValResponseMessage
               \cup AddToHashTableMessage

\* A join handler between its copy of the pairs it will hand over and their
\* deletion.
HandoffThread == [kind : {"handoff"}, at : Nodes, join : JoinMeMessage \cup JoinMessage,
                  map : HashMap]
\* A terminal SetVal that did not find its key, before the insertion.
InsertThread == [kind : {"insert"}, at : Nodes, msg : SetValMessage]
\* The loops that send a terminal SetVal to the first leaf of a side that
\* answers: the leaves still to try.
ReplicateThread == [kind : {"replicate"}, at : Nodes, msg : SetValMessage,
                    left : SUBSET Nodes, right : SUBSET Nodes]
\* quit, before it sends its pairs to best_leaf.
LeaveThread == [kind : {"leave"}, at : Nodes, leaf : Nodes]
KvThread == HandoffThread \cup InsertThread \cup ReplicateThread \cup LeaveThread

Waiting == -1
Nothing == -2

KvTypeOK ==
  /\ store \in [Nodes -> HashMap]
  /\ kvs \subseteq KvMessage
  /\ kvthreads \subseteq KvThread
  /\ puts \in [Keys -> Version]
  /\ shown \in [Nodes -> Version \cup {Waiting, Nothing}]

KvInit ==
  /\ store = [n \in Nodes |-> EmptyMap]
  /\ kvs = {} /\ kvthreads = {}
  /\ puts = [k \in Keys |-> 0]
  /\ shown = [n \in Nodes |-> Nothing]

DhtInit == Init /\ KvInit
-----------------------------------------------------------------------------
\* The range test of getNextRoutingNode for a key, which equals no NodeID.
KeyInLeafRange(n, D, k) ==
  /\ Leaves(D) # {}
  /\ \E x \in D.left \cup {n} : ~ IdLess(k, x)
  /\ \A x \in (IF D.right = {} THEN {n} ELSE D.right) : IdLess(k, x)

\* The key starts with the process's own NodeID and lies outside the leaf range:
\* routingTable[row] is one past the last row (clientDatabase.cpp:78).
ReadsPastTable(n, D, k) == PrefixMatchLen(k, n) = Rows /\ ~ KeyInLeafRange(n, D, k)

\* Mutant: outside the leaf range the listener itself is not a candidate.
NextKeyNodes_WithoutSelf(n, D, k) ==
  LET p == PrefixMatchLen(k, n)
  IN  IF KeyInLeafRange(n, D, k) THEN ScanResults(n, Leaves(D), k)
      ELSE IF p < Rows /\ D.table[p][k[p + 1]] # None THEN {D.table[p][k[p + 1]]}
      ELSE ScanResults_WithoutSelf(n, Known(D), k)

NextKeyNodes(n, D, k) ==
  LET p == PrefixMatchLen(k, n)
  IN  IF KeyInLeafRange(n, D, k) THEN ScanResults(n, Leaves(D), k)
      ELSE IF p < Rows /\ D.table[p][k[p + 1]] # None THEN {D.table[p][k[p + 1]]}
      ELSE ScanResults(n, Known(D), k)

\* Nothing of the overlay and nothing of the store is under way.
DhtSettled == Settled /\ quitting = {} /\ kvs = {} /\ kvthreads = {}

\* A quiet user uses the store of a process that founds or has joined the overlay.
MayUse(n) == n \in QuietUsers => DhtSettled /\ (n \in joined \/ Buddies[n] = {})

KvReachable(ms) == {m \in ms : m.to \in live}
-----------------------------------------------------------------------------
PutCommand(n, k) ==
  /\ n \in live \cap Putters /\ MayUse(n) /\ puts[k] < MaxPuts
  /\ puts' = [puts EXCEPT ![k] = @ + 1]
  /\ kvs' = kvs \cup {[type |-> "SetVal", to |-> n, sender |-> n, key |-> k,
                       val |-> puts'[k], terminal |-> FALSE]}
  /\ UNCHANGED <<vars, store, kvthreads, shown>>

\* Bound: one get per process and life.
GetCommand(n, k) ==
  /\ n \in live \cap Getters /\ MayUse(n) /\ shown[n] = Nothing
  /\ shown' = [shown EXCEPT ![n] = Waiting]
  /\ kvs' = kvs \cup {[type |-> "GetVal", to |-> n, node |-> n, key |-> k]}
  /\ UNCHANGED <<vars, store, kvthreads, puts>>

\* Mutant: a node that does not answer stays in the tables.
PassOn_KeepsDead(m, next) ==
  /\ next # m.to
  /\ \/ next \in live /\ kvs' = (kvs \ {m}) \cup {[m EXCEPT !.to = next]}
     \/ next \notin live /\ UNCHANGED kvs
  /\ UNCHANGED <<vars, store, kvthreads, puts, shown>>

\* The routing loop of a SetVal or GetVal m at its receiver, next node `next':
\* one attempt to pass m on.  A node that does not answer is removed from the
\* tables and the loop goes on.
PassOn(m, next) ==
  /\ next # m.to
  /\ \/ /\ next \in live
        /\ kvs' = (kvs \ {m}) \cup {[m EXCEPT !.to = next]}
        /\ UNCHANGED vars
     \/ /\ next \notin live
        /\ HandleLazyUpdates(m.to, next)
        /\ UNCHANGED <<kvs, live, joined, quitting, restarts, msgs>>
  /\ UNCHANGED <<store, kvthreads, puts, shown>>

Replicate(n, m, left, right) ==
  {[kind |-> "replicate", at |-> n, msg |-> [m EXCEPT !.terminal = TRUE],
    left |-> left, right |-> right] : x \in {n : y \in left \cup right}}

\* handleSetValRequest, not terminal: the process for which there is no better
\* one stores the pair and sends a replica to each side.
HandleSetVal(m) ==
  LET n == m.to
  IN  /\ m \in kvs /\ m.type = "SetVal" /\ ~ m.terminal
      /\ \E next \in NextKeyNodes(n, db[n], m.key) :
           \/ PassOn(m, next)
           \/ /\ next = n
              /\ store' = [store EXCEPT ![n] = WithPair(store[n], m.key, m.val)]
              /\ kvs' = kvs \ {m}
              /\ kvthreads' = kvthreads \cup Replicate(n, m, db[n].left, db[n].right)
              /\ UNCHANGED <<vars, puts, shown>>

\* Terminal: a process that has the key leaves its value and passes the message
\* on, away from the process the put was typed at; one that lacks it inserts it.
HandleTerminalSetVal(m) ==
  LET n == m.to
      D == db[n]
      leftwards == IdLess(n, m.sender)
  IN  /\ m \in kvs /\ m.type = "SetVal" /\ m.terminal
      /\ kvs' = kvs \ {m}
      /\ kvthreads' = kvthreads \cup
           IF store[n][m.key] = NotPresent
           THEN {[kind |-> "insert", at |-> n, msg |-> m]}
           ELSE Replicate(n, m, IF leftwards THEN D.left ELSE {},
                                IF leftwards THEN {} ELSE D.right)
      /\ UNCHANGED <<vars, store, puts, shown>>

InsertReplica(th) ==
  /\ th \in kvthreads /\ th.kind = "insert"
  /\ store' = [store EXCEPT ![th.at] = WithPair(store[th.at], th.msg.key, th.msg.val)]
  /\ kvthreads' = kvthreads \ {th}
  /\ UNCHANGED <<vars, kvs, puts, shown>>

\* One attempt of the replication loops: the nearest left leaf not yet tried,
\* and when one answered or none is left, the nearest right leaf.
SendReplica(th) ==
  LET n == th.at
      leftwards == th.left # {}
      Nearer(x, y) == IF leftwards THEN IdLess(y, x) ELSE IdLess(x, y)
      side == IF leftwards THEN th.left ELSE th.right
  IN  /\ th \in kvthreads /\ th.kind = "replicate"
      /\ \E x \in side :
           LET left == IF ~leftwards \/ x \in live THEN {} ELSE side \ {x}
               right == IF leftwards THEN th.right
                        ELSE IF x \in live THEN {} ELSE side \ {x}
           IN  /\ \A y \in side : ~ Nearer(y, x)
               /\ kvthreads' = (kvthreads \ {th}) \cup Replicate(n, th.msg, left, right)
               /\ \/ /\ x \in live
                     /\ kvs' = kvs \cup {[th.msg EXCEPT !.to = x]}
                     /\ UNCHANGED vars
                  \/ /\ x \notin live
                     /\ HandleLazyUpdates(n, x)
                     /\ UNCHANGED <<kvs, live, joined, quitting, restarts, msgs>>
      /\ UNCHANGED <<store, puts, shown>>

\* Mutant: the exception for a missing key is not caught and ends the handler.
HandleGetVal_Uncaught(m) ==
  LET n == m.to
  IN  /\ m \in kvs /\ m.type = "GetVal"
      /\ \E next \in NextKeyNodes(n, db[n], m.key) :
           \/ PassOn(m, next)
           \/ /\ next = n
              /\ kvs' = (kvs \ {m}) \cup
                   {[type |-> "GetValResponse", to |-> m.node, value |-> store[n][m.key]] :
                      k \in {j \in {m.key} : store[n][j] # NotPresent}}
              /\ UNCHANGED <<vars, store, kvthreads, puts, shown>>

\* handleGetValRequest, and the loop of the get command, which prints the value
\* itself when it ends where it started.
HandleGetVal(m) ==
  LET n == m.to
  IN  /\ m \in kvs /\ m.type = "GetVal"
      /\ \E next \in NextKeyNodes(n, db[n], m.key) :
           \/ PassOn(m, next)
           \/ /\ next = n /\ m.node = n
              /\ shown' = [shown EXCEPT ![n] = store[n][m.key]]
              /\ kvs' = kvs \ {m}
              /\ UNCHANGED <<vars, store, kvthreads, puts>>
           \/ /\ next = n /\ m.node # n
              /\ kvs' = (kvs \ {m}) \cup KvReachable(
                   {[type |-> "GetValResponse", to |-> m.node, value |-> store[n][m.key]]})
              /\ UNCHANGED <<vars, store, kvthreads, puts, shown>>

HandleGetValResponse(m) ==
  /\ m \in kvs /\ m.type = "GetValResponse"
  /\ shown' = [shown EXCEPT ![m.to] = m.value]
  /\ kvs' = kvs \ {m}
  /\ UNCHANGED <<vars, store, kvthreads, puts>>

\* The pairs of `map' overwrite those of the receiver.
HandleAddToHashTable(m) ==
  /\ m \in kvs /\ m.type = "AddToHashTable"
  /\ store' = [store EXCEPT ![m.to] = WithPairs(store[m.to], m.map)]
  /\ kvs' = kvs \ {m}
  /\ UNCHANGED <<vars, kvthreads, puts, shown>>
-----------------------------------------------------------------------------
\* What the end of process n takes with it.
Forget(n) ==
  /\ store' = [store EXCEPT ![n] = EmptyMap]
  /\ kvs' = {m \in kvs : m.to # n}
  /\ kvthreads' = {th \in kvthreads : th.at # n}
  /\ shown' = [shown EXCEPT ![n] = Nothing]
  /\ UNCHANGED puts

\* A routing loop for a key that reads past the table: the process faults.  The
\* read may also find a null entry, and the loop goes on as NextKeyNodes says.
RoutePastTable(m) ==
  /\ m \in kvs /\ m.type \in {"SetVal", "GetVal"}
  /\ m.type = "SetVal" => ~ m.terminal
  /\ ReadsPastTable(m.to, db[m.to], m.key)
  /\ End(m.to) /\ Forget(m.to)

\* Mutant: the pairs the newcomer is worse for are handed over.
RelevantPairs_Swapped(n, x) ==
  [k \in Keys |-> IF IsBetter(n, x, k) THEN store[n][k] ELSE NotPresent]

\* getRelevantKeyValuePairs: the pairs of n for whose keys x is better.
RelevantPairs(n, x) ==
  [k \in Keys |-> IF IsBetter(x, n, k) THEN store[n][k] ELSE NotPresent]

JoinHandler(m) == HandleJoinMe(m) \/ HandleJoin(m)

\* A join handler: with pairs to hand over it first copies them.
StartJoin(m) ==
  LET map == RelevantPairs(m.to, m.newcomer)
  IN  /\ m \in msgs /\ m.type \in {"JoinMe", "Join"} /\ m.newcomer # m.to
      /\ \A th \in kvthreads : th.kind = "handoff" => th.join # m
      /\ \/ map = EmptyMap /\ JoinHandler(m) /\ UNCHANGED kvVars
         \/ /\ map # EmptyMap
            /\ kvthreads' = kvthreads \cup
                 {[kind |-> "handoff", at |-> m.to, join |-> m, map |-> map]}
            /\ UNCHANGED <<vars, store, kvs, puts, shown>>

\* Mutant: every pair the newcomer is better for is deleted, copied or not.
Handoff_DeletesAll(th) ==
  LET n == th.at
      x == th.join.newcomer
  IN  /\ th \in kvthreads /\ th.kind = "handoff"
      /\ store' = [store EXCEPT ![n] = WithoutPairs(store[n], RelevantPairs(n, x))]
      /\ kvs' = kvs \cup KvReachable({[type |-> "AddToHashTable", to |-> x, map |-> th.map]})
      /\ kvthreads' = kvthreads \ {th}
      /\ x \in live /\ JoinHandler(th.join)
      /\ UNCHANGED <<puts, shown>>

\* The pairs are deleted by key and the copy is sent; if the newcomer does not
\* answer the exception ends the handler and the join with it.
Handoff(th) ==
  LET n == th.at
      x == th.join.newcomer
  IN  /\ th \in kvthreads /\ th.kind = "handoff"
      /\ store' = [store EXCEPT ![n] = WithoutPairs(store[n], th.map)]
      /\ kvs' = kvs \cup KvReachable({[type |-> "AddToHashTable", to |-> x, map |-> th.map]})
      /\ kvthreads' = kvthreads \ {th}
      /\ \/ x \in live /\ JoinHandler(th.join)
         \/ /\ x \notin live /\ msgs' = msgs \ {th.join}
            /\ UNCHANGED <<live, joined, quitting, restarts, db, threads>>
      /\ UNCHANGED <<puts, shown>>

\* best_leaf of quit: it starts as the first leaf, whether or not that answers,
\* and becomes any leaf that answers and is better for the own NodeID.
BestLeaves(n) ==
  LET D == db[n]
      side == IF D.left # {} THEN D.left ELSE D.right
      better(x) == {y \in Leaves(D) \cap live : IsBetter(y, x, n)}
  IN  UNION {IF better(x) = {} THEN {x}
             ELSE {y \in better(x) : \A z \in better(x) : ~ IsBetter(z, y, n)} :
               x \in {y \in side : \A z \in side : IdLeq(y, z)}}

\* Mutant: best_leaf is used without the test that there is one.
LeaveThreads_Null(n) ==
  {[kind |-> "leave", at |-> n, leaf |-> x] :
     x \in IF Leaves(db[n]) = {} THEN {None} ELSE BestLeaves(n)}

LeaveThreads(n) == {[kind |-> "leave", at |-> n, leaf |-> x] : x \in BestLeaves(n)}

QuitStore(n) ==
  /\ Quit(n)
  /\ n \in QuietUsers => DhtSettled
  /\ \/ LeaveThreads(n) = {} /\ UNCHANGED kvthreads
     \/ \E th \in LeaveThreads(n) : kvthreads' = kvthreads \cup {th}
  /\ UNCHANGED <<store, kvs, puts, shown>>

\* Mutant: only the pairs best_leaf is better for are sent, as in a join.
HandOver_Relevant(th) ==
  /\ th \in kvthreads /\ th.kind = "leave"
  /\ kvs' = kvs \cup KvReachable({[type |-> "AddToHashTable", to |-> th.leaf,
                                   map |-> RelevantPairs(th.at, th.leaf)]})
  /\ kvthreads' = kvthreads \ {th}
  /\ UNCHANGED <<vars, store, puts, shown>>

\* The pairs of a process that quits go to best_leaf alone.
HandOver(th) ==
  /\ th \in kvthreads /\ th.kind = "leave"
  /\ kvs' = kvs \cup KvReachable({[type |-> "AddToHashTable", to |-> th.leaf,
                                   map |-> store[th.at]]})
  /\ kvthreads' = kvthreads \ {th}
  /\ UNCHANGED <<vars, store, puts, shown>>

ExitStore(n) ==
  /\ \A th \in kvthreads : ~ (th.kind = "leave" /\ th.at = n)
  /\ Exit(n) /\ Forget(n)
-----------------------------------------------------------------------------
\* The steps of Overlay that leave the pairs alone.
MembershipStep(n) ==
  /\ UNCHANGED kvVars
  /\ \/ \E m \in msgs : m.to = n /\ ( \/ HandleRoutingUpdate(m)
                                      \/ HandleAllStateUpdate(m)
                                      \/ HandleDeleteNode(m) )
     \/ \E th \in threads : th.at = n /\ RunThread(th)
     \/ \E x \in Nodes : TimerRepair(n, x)

MembershipCommand(n) ==
  /\ Restart(n) \/ \E b \in Nodes : JoinCommand(n, b) /\ (n \in QuietUsers => DhtSettled)
  /\ UNCHANGED kvVars

DhtEnvironment(n) ==
  \/ MembershipCommand(n) \/ QuitStore(n)
  \/ Crash(n) /\ Forget(n)
  \/ \E k \in Keys : PutCommand(n, k) \/ GetCommand(n, k)

KvHandler(m) ==
  \/ HandleSetVal(m) \/ HandleTerminalSetVal(m) \/ HandleGetVal(m)
  \/ HandleGetValResponse(m) \/ HandleAddToHashTable(m) \/ RoutePastTable(m)

DhtProcess(n) ==
  \/ MembershipStep(n) \/ ExitStore(n)
  \/ \E m \in msgs : m.to = n /\ (StartJoin(m) \/ (HandleOwnJoin(m) /\ Forget(n)))
  \/ \E m \in kvs : m.to = n /\ KvHandler(m)
  \/ \E th \in kvthreads :
       th.at = n /\ (InsertReplica(th) \/ SendReplica(th) \/ Handoff(th) \/ HandOver(th))

DhtNext == \E n \in Nodes : DhtEnvironment(n) \/ DhtProcess(n)

DhtSpec == DhtInit /\ [][DhtNext]_dhtVars

DhtFairSpec == DhtSpec /\ WF_dhtVars(\E n \in Nodes : DhtProcess(n))
=============================================================================
