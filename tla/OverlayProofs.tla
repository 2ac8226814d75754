---------------------------- MODULE OverlayProofs ----------------------------
(***************************************************************************)
(* Type correctness, Placement and JoinProgress of the overlay, and then   *)
(* RowsAccounted and CountsComplete, for every set of processes,           *)
(* identifier length and base, proximity, and pattern of joins,            *)
(* departures, crashes and restarts; JoinsAnnounced, while nobody leaves,  *)
(* for overlays whose neighbour sets hold every other process; and for     *)
(* joins that follow one another LeafSetsClosest and RoutingTableFilled.   *)
(*                                                                         *)
(* The inductive invariant of the first part says of every database,       *)
(* message and thread on its own that it is well formed; no two of them    *)
(* are related, which is why it survives every interleaving.               *)
(***************************************************************************)
EXTENDS OverlayProperties, ClientDatabaseProofs

GoodMessage(m) ==
  /\ m \in Message
  /\ m.type = "JoinMe" => m.newcomer # m.to
  /\ m.type = "Join" => IsBetter(m.to, m.sender, m.newcomer)
  /\ m.type = "DeleteNode" => m.node # m.to

\* A join handler serves another process, and the next node it has chosen is
\* itself or an improvement.
GoodThread(th) ==
  /\ th \in Thread
  /\ th.kind \in JoinKinds =>
       /\ th.update.to # th.at
       /\ th.next = th.at \/ IsBetter(th.next, th.at, th.update.to)

GoodDatabases ==
  /\ db \in [Nodes -> Database]
  /\ \A n \in Nodes : GoodDatabase(n, db[n])

GoodProcesses ==
  /\ live \subseteq Nodes /\ joined \subseteq Nodes /\ quitting \subseteq Nodes
  /\ restarts \in [Nodes -> Nat]

IInv ==
  /\ GoodProcesses /\ GoodDatabases
  /\ \A m \in msgs : GoodMessage(m)
  /\ \A th \in threads : GoodThread(th)

LEMMA IInvImplies == IInv => TypeOK /\ Placement /\ JoinProgress
BY DEF IInv, GoodProcesses, GoodDatabases, GoodDatabase, GoodMessage, GoodThread,
       TypeOK, Placement, JoinProgress

LEMMA IInvInit == Init => IInv
<1>. SUFFICES ASSUME Init PROVE IInv
  OBVIOUS
<1>1. GoodProcesses
  BY DEF Init, GoodProcesses
<1>2. GoodDatabases
  BY GoodEmptyDatabase DEF Init, GoodDatabases, GoodDatabase
<1>. QED
  BY <1>1, <1>2 DEF Init, IInv
-----------------------------------------------------------------------------
\* A step that gives one process a good database keeps all of them good.
LEMMA GoodDatabaseStep ==
  ASSUME GoodDatabases, NEW n \in Nodes, NEW D, GoodDatabase(n, D),
         db' = [db EXCEPT ![n] = D]
  PROVE  GoodDatabases'
BY DEF GoodDatabases, GoodDatabase

\* The messages by type, and the threads by kind.
LEMMA MessageTypes ==
  ASSUME NEW m, GoodMessage(m)
  PROVE  /\ m.to \in Nodes
         /\ m.type = "JoinMe" => m \in JoinMeMessage
         /\ m.type = "Join" => m \in JoinMessage
         /\ m.type = "RoutingUpdate" => m \in RoutingUpdateMessage
         /\ m.type = "AllStateUpdate" => m \in AllStateUpdateMessage
         /\ m.type = "DeleteNode" => m \in DeleteNodeMessage
BY DEF GoodMessage, Message, JoinMeMessage, JoinMessage, RoutingUpdateMessage,
       AllStateUpdateMessage, DeleteNodeMessage

LEMMA ThreadTypes ==
  ASSUME NEW th, GoodThread(th)
  PROVE  /\ th.at \in Nodes
         /\ th.kind \in JoinKinds => th \in JoinThread
         /\ th.kind \in {"merge", "check"} => th \in UpdateThread
         /\ th.kind \in {"left", "right", "neighbours"} => th \in RepairThread
         /\ th.kind = "table" => th \in RepairTableThread
BY DEF GoodThread, Thread, JoinThread, UpdateThread, RepairThread, RepairTableThread,
       JoinKinds

\* Messages and threads of these type are good as soon as they are typed.
LEMMA TypedIsGood ==
  /\ \A m \in RoutingUpdateMessage \cup AllStateUpdateMessage : GoodMessage(m)
  /\ \A th \in UpdateThread \cup RepairThread \cup RepairTableThread : GoodThread(th)
BY DEF GoodMessage, Message, RoutingUpdateMessage, AllStateUpdateMessage,
       GoodThread, Thread, UpdateThread, RepairThread, RepairTableThread, JoinKinds
LEMMA RepairThreadsGood ==
  ASSUME NEW n \in Nodes, NEW D \in Database, NEW x \in Nodes, x # n,
         NEW th \in RepairThreads(n, D, x)
  PROVE  GoodThread(th)
<1>. DEFINE s == Slot(n, x)
            E == DeleteNode(n, D, x)
            ask == {SlotEntry(E, r) : r \in (s[1] .. Rows - 1) \X (Digit \ {s[2]})} \ {None}
<1>1. CASE \E k \in {"left", "right", "neighbours"} :
             th = [kind |-> k, at |-> n, last |-> None]
  BY <1>1, TypedIsGood DEF RepairThread, Entry
<1>2. CASE th = [kind |-> "table", at |-> n, slot |-> s, ask |-> ask]
  <2>1. s \in Row \X Digit
    BY SlotPlaced
  <2>2. ask \in SUBSET Nodes
    <3>1. E.table \in [Row -> [Digit -> Entry]]
      BY ClearSlotTyped DEF DeleteNode, Database
    <3>2. \A r \in (s[1] .. Rows - 1) \X (Digit \ {s[2]}) : r[1] \in Row /\ r[2] \in Digit
      BY <2>1, RowsAssumption DEF Row
    <3>3. \A r \in (s[1] .. Rows - 1) \X (Digit \ {s[2]}) : SlotEntry(E, r) \in Entry
      <4>. HIDE DEF E, s
      <4>. QED
        BY <3>1, <3>2 DEF SlotEntry
    <3>. QED
      BY <3>3 DEF Entry
  <2>. HIDE DEF s, ask
  <2>3. th \in RepairTableThread
    BY <1>2, <2>1, <2>2 DEF RepairTableThread
  <2>. QED
    BY <2>3, TypedIsGood
<1>. QED
  BY <1>1, <1>2 DEF RepairThreads

\* handleLazyUpdates for another process.
LEMMA LazyUpdatesGood ==
  ASSUME IInv, NEW n \in Nodes, NEW x \in Nodes, x # n, HandleLazyUpdates(n, x)
  PROVE  GoodDatabases' /\ \A th \in threads' : GoodThread(th)
<1>1. db[n] \in Database /\ GoodDatabase(n, DeleteNode(n, db[n], x))
  BY GoodDeleteNode DEF IInv, GoodDatabases, GoodDatabase
<1>2. GoodDatabases'
  <2>1. db' = [db EXCEPT ![n] = DeleteNode(n, db[n], x)]
    BY DEF HandleLazyUpdates
  <2>. QED
    BY <1>1, <2>1, GoodDatabaseStep DEF IInv
<1>3. ASSUME NEW th \in threads' PROVE GoodThread(th)
  BY <1>1, RepairThreadsGood DEF IInv, HandleLazyUpdates
<1>. QED
  BY <1>2, <1>3

LEMMA RowsUpdateTyped ==
  ASSUME GoodDatabases, NEW n \in Nodes, NEW newcomer \in Nodes,
         NEW first \in 0 .. Rows, NEW last \in 0 .. Rows - 1, NEW prefix_match \in 1 .. Rows
  PROVE  RowsUpdate(n, newcomer, first, last, prefix_match) \in RoutingUpdateMessage
<1>1. Larger(0, last - first + 1) \in 0 .. Rows
  BY RowsAssumption DEF Larger
<1>2. UNION {RowEntries(db[n], p) : p \in first .. last} \in SUBSET Nodes
  <2>1. \A p \in first .. last : RowEntries(db[n], p) \in SUBSET Nodes
    BY KnownAreNodes, RowsAssumption DEF GoodDatabases, Row
  <2>. QED
    BY <2>1
<1>. QED
  BY <1>1, <1>2 DEF RowsUpdate, RoutingUpdateMessage
-----------------------------------------------------------------------------
\* The commands and the handlers of joins.
LEMMA JoinCommandGood ==
  ASSUME IInv, NEW n \in Nodes, NEW b \in Nodes, JoinCommand(n, b)
  PROVE  IInv'
<1>1. GoodMessage([type |-> "JoinMe", to |-> b, newcomer |-> n])
  BY DEF JoinCommand, GoodMessage, Message, JoinMeMessage
<1>2. GoodProcesses' /\ GoodDatabases'
  BY DEF IInv, JoinCommand, GoodProcesses, GoodDatabases
<1>. QED
  BY <1>1, <1>2 DEF IInv, JoinCommand

\* A process that ends leaves good messages and threads behind.
LEMMA EndGood ==
  ASSUME IInv, NEW n, End(n)
  PROVE  IInv'
BY DEF IInv, End, GoodProcesses, GoodDatabases

\* A thread a join handler starts with.
LEMMA JoinThreadGood ==
  ASSUME NEW kind \in JoinKinds, NEW n \in Nodes, NEW t \in Nodes, n # t,
         NEW next \in Nodes, next = n \/ IsBetter(next, n, t),
         NEW row \in 1 .. Rows, NEW update \in RoutingUpdateMessage, update.to = t
  PROVE  GoodThread([kind |-> kind, at |-> n, next |-> next, row |-> row, update |-> update])
BY DEF GoodThread, Thread, JoinThread

LEMMA HandleJoinMeGood ==
  ASSUME IInv, NEW m, HandleJoinMe(m)
  PROVE  IInv'
<1>. DEFINE n == m.to
            t == m.newcomer
            p == PrefixMatchLen(t, n)
            update == [RowsUpdate(n, t, 0, p, p + 1) EXCEPT !.neighbours = db[n].neighbours]
<1>1. n \in Nodes /\ t \in Nodes /\ n # t /\ GoodDatabase(n, db[n])
  BY MessageTypes DEF IInv, HandleJoinMe, GoodMessage, JoinMeMessage, GoodDatabases
<1>2. p \in 0 .. Rows - 1
  BY <1>1, PrefixOfDifferent, NodesAssumption
<1>3. update \in RoutingUpdateMessage /\ update.to = t
  <2>1. RowsUpdate(n, t, 0, p, p + 1) \in RoutingUpdateMessage
    BY <1>1, <1>2, RowsUpdateTyped, RowsAssumption DEF IInv
  <2>2. RowsUpdate(n, t, 0, p, p + 1).to = t
    BY DEF RowsUpdate
  <2>3. db[n].neighbours \in SUBSET Nodes
    BY <1>1 DEF GoodDatabase, Database
  <2>. HIDE DEF n, t, p
  <2>. QED
    BY <2>1, <2>2, <2>3 DEF RoutingUpdateMessage
<1>4. PICK next \in NextRoutingNodes(n, db[n], t) :
        threads' = threads \cup
          {[kind |-> "joinMe", at |-> n, next |-> next, row |-> p + 1, update |-> update]}
  BY DEF HandleJoinMe
<1>5. next \in Nodes /\ (next = n \/ IsBetter(next, n, t))
  BY <1>1, NextRoutingNodeImproves
<1>6. GoodThread([kind |-> "joinMe", at |-> n, next |-> next, row |-> p + 1, update |-> update])
  <2>. HIDE DEF update, p
  <2>. QED
    BY <1>1, <1>2, <1>3, <1>5, JoinThreadGood, RowsAssumption DEF JoinKinds
<1>7. GoodProcesses' /\ GoodDatabases' /\ msgs' \subseteq msgs
  BY DEF IInv, HandleJoinMe, GoodProcesses, GoodDatabases
<1>. QED
  <2>. HIDE DEF update
  <2>. QED
    BY <1>4, <1>6, <1>7 DEF IInv

LEMMA HandleJoinGood ==
  ASSUME IInv, NEW m, HandleJoin(m)
  PROVE  IInv'
<1>. DEFINE n == m.to
            t == m.newcomer
            p == PrefixMatchLen(t, n)
            update == RowsUpdate(n, t, m.row_index, p, Larger(p + 1, m.row_index))
<1>1. n \in Nodes /\ t \in Nodes /\ n # t /\ GoodDatabase(n, db[n]) /\ m.row_index \in 1 .. Rows
  BY MessageTypes DEF IInv, HandleJoin, JoinMessage, GoodDatabases
<1>2. p \in 0 .. Rows - 1 /\ Larger(p + 1, m.row_index) \in 1 .. Rows
  BY <1>1, PrefixOfDifferent, NodesAssumption, RowsAssumption DEF Larger
<1>3. update \in RoutingUpdateMessage /\ update.to = t
  BY <1>1, <1>2, RowsUpdateTyped, RowsAssumption DEF IInv, RowsUpdate
<1>4. PICK next \in NextRoutingNodes(n, db[n], t) :
        threads' = threads \cup
          {[kind |-> "join", at |-> n, next |-> next, row |-> p + 1, update |-> update]}
  BY DEF HandleJoin
<1>5. next \in Nodes /\ (next = n \/ IsBetter(next, n, t))
  BY <1>1, NextRoutingNodeImproves
<1>6. GoodThread([kind |-> "join", at |-> n, next |-> next, row |-> p + 1, update |-> update])
  <2>. HIDE DEF update, p
  <2>. QED
    BY <1>1, <1>2, <1>3, <1>5, JoinThreadGood, RowsAssumption DEF JoinKinds
<1>7. GoodProcesses' /\ GoodDatabases' /\ msgs' \subseteq msgs
  BY DEF IInv, HandleJoin, GoodProcesses, GoodDatabases
<1>. QED
  <2>. HIDE DEF update
  <2>. QED
    BY <1>4, <1>6, <1>7 DEF IInv
\* A join thread's fields, and the RoutingUpdate it sends.
LEMMA JoinThreadFields ==
  ASSUME NEW th, GoodThread(th), th.kind \in JoinKinds
  PROVE  /\ th.at \in Nodes /\ th.next \in Nodes /\ th.update.to \in Nodes
         /\ th.row \in 1 .. Rows /\ th.update \in RoutingUpdateMessage
         /\ th.kind \in JoinKinds /\ th.update.to # th.at
         /\ th.next = th.at \/ IsBetter(th.next, th.at, th.update.to)
         /\ Signed(th) \in RoutingUpdateMessage
         /\ \A next : [th EXCEPT !.next = next] =
              [kind |-> th.kind, at |-> th.at, next |-> next, row |-> th.row, update |-> th.update]
<1>1. th \in JoinThread
  BY ThreadTypes
<1>2. th.update \in RoutingUpdateMessage /\ th.at \in Nodes /\ th.next \in Nodes
  BY <1>1 DEF JoinThread
<1>3. Signed(th) \in RoutingUpdateMessage
  BY <1>2 DEF Signed, RoutingUpdateMessage
<1>4. th.update.to \in Nodes
  BY <1>2 DEF RoutingUpdateMessage
<1>. QED
  BY <1>1, <1>2, <1>3, <1>4 DEF JoinThread, GoodThread

LEMMA ForwardJoinGood ==
  ASSUME IInv, NEW th, ForwardJoin(th)
  PROVE  IInv'
<1>. DEFINE join == [type |-> "Join", to |-> th.next, sender |-> th.at,
                     newcomer |-> th.update.to, row_index |-> th.row]
<1>1. th \in threads /\ GoodThread(th) /\ th.kind \in JoinKinds /\ th.next # th.at
  BY DEF ForwardJoin, IInv
<1>2. GoodMessage(join)
  BY <1>1, JoinThreadFields DEF GoodMessage, Message, JoinMessage
<1>3. GoodMessage(Signed(th))
  BY <1>1, JoinThreadFields, TypedIsGood
<1>4. msgs' \subseteq msgs \cup {join, Signed(th)} /\ threads' \subseteq threads
  BY DEF ForwardJoin, Reachable
<1>5. GoodProcesses' /\ GoodDatabases'
  BY DEF IInv, ForwardJoin, GoodProcesses, GoodDatabases
<1>. QED
  <2>. HIDE DEF join
  <2>. QED
    BY <1>2, <1>3, <1>4, <1>5 DEF IInv

LEMMA RetryJoinGood ==
  ASSUME IInv, NEW th, RetryJoin(th)
  PROVE  IInv'
<1>. DEFINE n == th.at
            D == DeleteNode(n, db[n], th.next)
<1>1. GoodThread(th) /\ th.kind \in JoinKinds /\ th.next # n
  BY DEF RetryJoin, IInv
<1>2. n \in Nodes /\ th.next \in Nodes /\ GoodDatabase(n, db[n]) /\ db[n] \in Database
  BY <1>1, JoinThreadFields DEF IInv, GoodDatabases, GoodDatabase
<1>3. GoodDatabase(n, D)
  BY <1>2, GoodDeleteNode
<1>4. GoodDatabases'
  <2>1. db' = [db EXCEPT ![n] = D]
    BY DEF RetryJoin
  <2>. QED
    BY <1>2, <1>3, <2>1, GoodDatabaseStep DEF IInv
<1>5. PICK next \in NextRoutingNodes(n, D, th.update.to) :
        threads' = (threads \ {th}) \cup RepairThreads(n, db[n], th.next)
                     \cup {[th EXCEPT !.next = next]}
  BY DEF RetryJoin
<1>6. GoodThread([th EXCEPT !.next = next])
  <2>1. next \in Nodes /\ (next = n \/ IsBetter(next, n, th.update.to))
    BY <1>1, <1>2, <1>3, JoinThreadFields, NextRoutingNodeImproves
  <2>2. [th EXCEPT !.next = next] =
          [kind |-> th.kind, at |-> n, next |-> next, row |-> th.row, update |-> th.update]
    BY <1>1, JoinThreadFields
  <2>3. /\ th.kind \in JoinKinds /\ th.row \in 1 .. Rows /\ th.update \in RoutingUpdateMessage
        /\ th.update.to \in Nodes /\ n # th.update.to
    BY <1>1, JoinThreadFields
  <2>4. GoodThread([kind |-> th.kind, at |-> n, next |-> next, row |-> th.row, update |-> th.update])
    <3>. HIDE DEF n
    <3>. QED
      BY <1>2, <2>1, <2>3, JoinThreadGood
  <2>. QED
    BY <2>2, <2>4
<1>7. \A r \in RepairThreads(n, db[n], th.next) : GoodThread(r)
  BY <1>1, <1>2, RepairThreadsGood
<1>8. GoodProcesses' /\ msgs' = msgs
  BY DEF IInv, RetryJoin, GoodProcesses
<1>. QED
  BY <1>4, <1>5, <1>6, <1>7, <1>8 DEF IInv

LEMMA AnswerJoinGood ==
  ASSUME IInv, NEW th, AnswerJoin(th)
  PROVE  IInv'
<1>. DEFINE answer == [Signed(th) EXCEPT !.terminal = TRUE, !.leaf = Leaves(db[th.at])]
<1>1. GoodThread(th) /\ th.kind \in JoinKinds
  BY DEF AnswerJoin, IInv
<1>2. Leaves(db[th.at]) \in SUBSET Nodes
  BY <1>1, JoinThreadFields, KnownAreNodes DEF IInv, GoodDatabases
<1>3. GoodMessage(answer)
  <2>1. answer \in RoutingUpdateMessage
    BY <1>1, <1>2, JoinThreadFields DEF RoutingUpdateMessage
  <2>. QED
    BY <2>1, TypedIsGood
<1>4. msgs' \subseteq msgs \cup {answer} /\ threads' \subseteq threads
  BY DEF AnswerJoin, Reachable
<1>5. GoodProcesses' /\ GoodDatabases'
  BY DEF IInv, AnswerJoin, GoodProcesses, GoodDatabases
<1>. QED
  <2>. HIDE DEF answer
  <2>. QED
    BY <1>3, <1>4, <1>5 DEF IInv
-----------------------------------------------------------------------------
\* The handlers of RoutingUpdate and AllStateUpdate.
LEMMA HandleRoutingUpdateGood ==
  ASSUME IInv, NEW m, HandleRoutingUpdate(m)
  PROVE  IInv'
<1>. DEFINE n == m.to
            U == UpdateAllState(n, db[n], {m.sender})
            D == [U EXCEPT !.received = U.received + m.rows]
            th == [kind |-> "merge", at |-> n, update |-> m]
<1>1. /\ m \in RoutingUpdateMessage /\ n \in Nodes /\ m.sender \in Nodes /\ m.rows \in Nat
      /\ GoodDatabase(n, db[n])
  BY MessageTypes DEF IInv, HandleRoutingUpdate, RoutingUpdateMessage, GoodDatabases
<1>2. GoodDatabase(n, U)
  BY <1>1, GoodUpdateAllState
<1>3. GoodDatabase(n, D)
  <2>. HIDE DEF U
  <2>. QED
    BY <1>1, <1>2 DEF GoodDatabase, Database, Placed
<1>4. db' = [db EXCEPT ![n] = D] /\ threads' = threads \cup {th} /\ msgs' \subseteq msgs
  BY DEF HandleRoutingUpdate
<1>5. GoodThread(th)
  BY <1>1, TypedIsGood DEF UpdateThread
<1>6. GoodDatabases'
  <2>. HIDE DEF D
  <2>. QED
    BY <1>1, <1>3, <1>4, GoodDatabaseStep DEF IInv
<1>7. GoodProcesses'
  BY DEF IInv, HandleRoutingUpdate, GoodProcesses
<1>. QED
  <2>. HIDE DEF th
  <2>. QED
    BY <1>4, <1>5, <1>6, <1>7 DEF IInv

LEMMA MergeRoutingUpdateGood ==
  ASSUME IInv, NEW th, MergeRoutingUpdate(th)
  PROVE  IInv'
<1>. DEFINE n == th.at
            m == th.update
            leaves == IF m.terminal THEN {m.sender} \cup m.leaf ELSE {}
            D == [db[n] EXCEPT !.table = TableWith(n, @, m.entries),
                               !.neighbours = NeighboursWith(n, @, m.neighbours),
                               !.left = LeftWith(n, @, leaves),
                               !.right = RightWith(n, @, leaves),
                               !.total = IF m.terminal THEN m.prefix_match ELSE @]
<1>1. th \in UpdateThread /\ th.kind = "merge"
  BY ThreadTypes DEF IInv, MergeRoutingUpdate
<1>2. n \in Nodes /\ GoodDatabase(n, db[n]) /\ m \in RoutingUpdateMessage
  BY <1>1 DEF UpdateThread, IInv, GoodDatabases
<1>3. /\ m.entries \in SUBSET Nodes /\ m.neighbours \in SUBSET Nodes
      /\ leaves \in SUBSET Nodes /\ m.prefix_match \in Nat
  BY <1>2, RowsAssumption DEF RoutingUpdateMessage
<1>4. GoodDatabase(n, D)
  <2>. HIDE DEF n, m, leaves
  <2>1. /\ db[n].left \in SUBSET Nodes /\ db[n].right \in SUBSET Nodes
        /\ db[n].neighbours \in SUBSET Nodes /\ n \notin db[n].neighbours
        /\ \A x \in db[n].left : IdLess(x, n)
        /\ \A x \in db[n].right : IdLess(n, x)
        /\ db[n].table \in [Row -> [Digit -> Entry]] /\ PlacedTable(n, db[n].table)
    BY <1>2 DEF GoodDatabase, Database, Placed
  <2>2. /\ TableWith(n, db[n].table, m.entries) \in [Row -> [Digit -> Entry]]
        /\ PlacedTable(n, TableWith(n, db[n].table, m.entries))
    BY <1>2, <1>3, <2>1, TablePlaced
  <2>3. /\ NeighboursWith(n, db[n].neighbours, m.neighbours) \in SUBSET Nodes
        /\ n \notin NeighboursWith(n, db[n].neighbours, m.neighbours)
    BY <1>2, <1>3, <2>1, NeighboursPlaced
  <2>4. /\ LeftWith(n, db[n].left, leaves) \in SUBSET Nodes
        /\ RightWith(n, db[n].right, leaves) \in SUBSET Nodes
        /\ \A x \in LeftWith(n, db[n].left, leaves) : IdLess(x, n)
        /\ \A x \in RightWith(n, db[n].right, leaves) : IdLess(n, x)
    BY <1>2, <1>3, <2>1, LeavesPlaced
  <2>. QED
    BY <1>2, <1>3, <2>2, <2>3, <2>4 DEF GoodDatabase, Database, Placed
<1>5. GoodDatabases'
  <2>1. db' = [db EXCEPT ![n] = D]
    BY <1>2 DEF MergeRoutingUpdate, IInv, GoodDatabases
  <2>. HIDE DEF D
  <2>. QED
    BY <1>2, <1>4, <2>1, GoodDatabaseStep DEF IInv
<1>6. GoodThread([th EXCEPT !.kind = "check"])
  BY <1>1, TypedIsGood DEF UpdateThread
<1>7. GoodProcesses'
  BY DEF IInv, MergeRoutingUpdate, GoodProcesses
<1>. QED
  BY <1>5, <1>6, <1>7 DEF IInv, MergeRoutingUpdate

LEMMA CheckRoutingUpdateGood ==
  ASSUME IInv, NEW th, CheckRoutingUpdate(th)
  PROVE  IInv'
<1>1. th.at \in Nodes /\ db[th.at] \in Database
  BY ThreadTypes DEF IInv, CheckRoutingUpdate, GoodDatabases
<1>2. ASSUME NEW m \in StateUpdates(th.at) PROVE GoodMessage(m)
  <2>1. Known(db[th.at]) \in SUBSET Nodes
    BY <1>1, KnownAreNodes
  <2>2. m \in AllStateUpdateMessage
    BY <1>1, <2>1 DEF StateUpdates, Reachable, AllStateUpdateMessage
  <2>. QED
    BY <2>2, TypedIsGood
<1>3. msgs' \subseteq msgs \cup StateUpdates(th.at) /\ threads' \subseteq threads
  BY DEF CheckRoutingUpdate
<1>4. GoodProcesses' /\ GoodDatabases'
  BY DEF IInv, CheckRoutingUpdate, GoodProcesses, GoodDatabases
<1>. QED
  BY <1>2, <1>3, <1>4 DEF IInv

LEMMA HandleAllStateUpdateGood ==
  ASSUME IInv, NEW m, HandleAllStateUpdate(m)
  PROVE  IInv'
<1>. DEFINE n == m.to
            S == {m.sender} \cup m.nodes
<1>1. n \in Nodes /\ S \in SUBSET Nodes /\ GoodDatabase(n, db[n])
  BY MessageTypes DEF IInv, HandleAllStateUpdate, AllStateUpdateMessage, GoodDatabases
<1>2. GoodDatabase(n, UpdateAllState(n, db[n], S))
  BY <1>1, GoodUpdateAllState
<1>3. db' = [db EXCEPT ![n] = UpdateAllState(n, db[n], S)]
  BY DEF HandleAllStateUpdate
<1>4. GoodDatabases'
  BY <1>1, <1>2, <1>3, GoodDatabaseStep DEF IInv
<1>. QED
  BY <1>4 DEF IInv, HandleAllStateUpdate, GoodProcesses
-----------------------------------------------------------------------------
\* Departures and repairs.
LEMMA QuitGood ==
  ASSUME IInv, NEW n \in Nodes, Quit(n)
  PROVE  IInv'
<1>. DEFINE tell == Leaves(db[n]) \cup db[n].neighbours
            sent == {[type |-> "DeleteNode", to |-> x, node |-> n] : x \in tell}
<1>1. \A x \in tell : x \in Nodes /\ x # n
  <2>1. db[n] \in Database /\ Placed(n, db[n])
    BY DEF IInv, GoodDatabases, GoodDatabase
  <2>. QED
    BY <2>1, NodesAssumption, IdLessIrreflexive DEF Database, Placed, Leaves
<1>2. ASSUME NEW m \in sent PROVE GoodMessage(m)
  <2>. HIDE DEF tell
  <2>. QED
    BY <1>1 DEF GoodMessage, Message, DeleteNodeMessage
<1>3. msgs' \subseteq msgs \cup sent /\ threads' = threads
  BY DEF Quit, Reachable
<1>4. GoodProcesses' /\ GoodDatabases'
  BY DEF IInv, Quit, GoodProcesses, GoodDatabases
<1>. QED
  <2>. HIDE DEF sent
  <2>. QED
    BY <1>2, <1>3, <1>4 DEF IInv

LEMMA HandleDeleteNodeGood ==
  ASSUME IInv, NEW m, HandleDeleteNode(m)
  PROVE  IInv'
<1>1. m.to \in Nodes /\ m.node \in Nodes /\ m.node # m.to
  BY MessageTypes DEF IInv, HandleDeleteNode, DeleteNodeMessage, GoodMessage
<1>2. GoodDatabases' /\ \A th \in threads' : GoodThread(th)
  BY <1>1, LazyUpdatesGood DEF HandleDeleteNode
<1>. QED
  BY <1>2 DEF IInv, HandleDeleteNode, GoodProcesses

LEMMA TimerRepairGood ==
  ASSUME IInv, NEW n \in Nodes, NEW x \in Nodes, TimerRepair(n, x)
  PROVE  IInv'
<1>1. x # n
  BY DEF TimerRepair
<1>2. GoodDatabases' /\ \A th \in threads' : GoodThread(th)
  BY <1>1, LazyUpdatesGood DEF TimerRepair
<1>. QED
  BY <1>2 DEF IInv, TimerRepair, GoodProcesses

LEMMA StopRepairGood ==
  ASSUME IInv, NEW th, StopRepair(th)
  PROVE  IInv'
BY DEF IInv, StopRepair, GoodProcesses, GoodDatabases

\* A repair thread that asked a node: its database and what it becomes are good.
LEMMA RepairStepGood ==
  ASSUME IInv, NEW n \in Nodes, NEW D, GoodDatabase(n, D), db' = [db EXCEPT ![n] = D],
         NEW th, NEW found, NEW th2, GoodThread(th2), AfterAnswer(th, found, th2),
         UNCHANGED <<live, joined, quitting, restarts, msgs>>
  PROVE  IInv'
<1>1. GoodDatabases'
  BY GoodDatabaseStep DEF IInv
<1>2. threads' \subseteq threads \cup {th2}
  BY DEF AfterAnswer
<1>. QED
  BY <1>1, <1>2 DEF IInv, GoodProcesses

LEMMA RepairLeafSetGood ==
  ASSUME IInv, NEW th, RepairLeafSet(th)
  PROVE  IInv'
<1>. DEFINE n == th.at
            Before(x, y) == IF th.kind = "left" THEN IdLess(x, y) ELSE IdLess(y, x)
            side == IF th.kind = "left" THEN db[n].left ELSE db[n].right
            found(x) == {y \in Answer(x, Leaves(db[x])) : Before(y, n)}
<1>1. th \in RepairThread /\ n \in Nodes /\ GoodDatabase(n, db[n])
  BY ThreadTypes DEF IInv, RepairLeafSet, GoodDatabases
<1>2. side \in SUBSET Nodes
  BY <1>1 DEF GoodDatabase, Database
<1>3. CASE StopRepair(th)
  BY <1>3, StopRepairGood
<1>4. ASSUME NEW x \in side,
             db' = [db EXCEPT ![n] = AddToLeafSet(n, db[n], found(x))],
             AfterAnswer(th, found(x), [th EXCEPT !.last = x]),
             UNCHANGED <<live, joined, quitting, restarts, msgs>>
      PROVE  IInv'
  <2>1. x \in Nodes
    BY <1>2
  <2>2. found(x) \in SUBSET Nodes
    BY <2>1, KnownAreNodes DEF IInv, GoodDatabases, Answer
  <2>3. GoodDatabase(n, AddToLeafSet(n, db[n], found(x)))
    <3>. HIDE DEF found
    <3>. QED
      BY <1>1, <2>2, GoodAdds
  <2>4. GoodThread([th EXCEPT !.last = x])
    BY <1>1, <2>1, TypedIsGood DEF RepairThread, Entry
  <2>. HIDE DEF found, n
  <2>. QED
    BY <1>1, <1>4, <2>3, <2>4, RepairStepGood
<1>. QED
  BY <1>3, <1>4 DEF RepairLeafSet

LEMMA RepairNeighbourSetGood ==
  ASSUME IInv, NEW th, RepairNeighbourSet(th)
  PROVE  IInv'
<1>. DEFINE n == th.at
            found(x) == Answer(x, db[x].neighbours)
<1>1. th \in RepairThread /\ n \in Nodes /\ GoodDatabase(n, db[n])
  BY ThreadTypes DEF IInv, RepairNeighbourSet, GoodDatabases
<1>2. \A x \in Nodes : db[x].neighbours \in SUBSET Nodes
  BY DEF IInv, GoodDatabases, Database
<1>3. CASE StopRepair(th)
  BY <1>3, StopRepairGood
<1>4. ASSUME NEW x \in db[n].neighbours,
             db' = [db EXCEPT ![n] = AddToNeighbourSet(n, db[n], found(x))],
             AfterAnswer(th, found(x), [th EXCEPT !.last = x]),
             UNCHANGED <<live, joined, quitting, restarts, msgs>>
      PROVE  IInv'
  <2>1. x \in Nodes
    BY <1>1, <1>2
  <2>2. found(x) \in SUBSET Nodes
    BY <1>2, <2>1 DEF Answer
  <2>3. GoodDatabase(n, AddToNeighbourSet(n, db[n], found(x)))
    <3>. HIDE DEF found
    <3>. QED
      BY <1>1, <2>2, GoodAdds
  <2>4. GoodThread([th EXCEPT !.last = x])
    BY <1>1, <2>1, TypedIsGood DEF RepairThread, Entry
  <2>. HIDE DEF found, n
  <2>. QED
    BY <1>1, <1>4, <2>3, <2>4, RepairStepGood
<1>. QED
  BY <1>3, <1>4 DEF RepairNeighbourSet

LEMMA RepairRoutingTableGood ==
  ASSUME IInv, NEW th, RepairRoutingTable(th)
  PROVE  IInv'
<1>. DEFINE n == th.at
            found(x) == Answer(x, {SlotEntry(db[x], th.slot)} \ {None})
<1>1. th \in RepairTableThread /\ n \in Nodes /\ GoodDatabase(n, db[n])
  BY ThreadTypes DEF IInv, RepairRoutingTable, GoodDatabases
<1>2. th.ask \in SUBSET Nodes /\ th.slot[1] \in Row /\ th.slot[2] \in Digit
  BY <1>1 DEF RepairTableThread
<1>3. CASE StopRepair(th)
  BY <1>3, StopRepairGood
<1>4. ASSUME NEW x \in th.ask,
             db' = [db EXCEPT ![n] = AddToRoutingTable(n, db[n], found(x))],
             AfterAnswer(th, found(x), [th EXCEPT !.ask = th.ask \ {x}]),
             UNCHANGED <<live, joined, quitting, restarts, msgs>>
      PROVE  IInv'
  <2>1. x \in Nodes
    BY <1>2
  <2>2. found(x) \in SUBSET Nodes
    <3>1. SlotEntry(db[x], th.slot) \in Entry
      BY <1>2, <2>1 DEF IInv, GoodDatabases, Database, SlotEntry
    <3>. QED
      BY <3>1 DEF Answer, Entry
  <2>3. GoodDatabase(n, AddToRoutingTable(n, db[n], found(x)))
    <3>. HIDE DEF found
    <3>. QED
      BY <1>1, <2>2, GoodAdds
  <2>4. GoodThread([th EXCEPT !.ask = th.ask \ {x}])
    BY <1>1, <1>2, TypedIsGood DEF RepairTableThread
  <2>. HIDE DEF found, n
  <2>. QED
    BY <1>1, <1>4, <2>3, <2>4, RepairStepGood
<1>. QED
  BY <1>3, <1>4 DEF RepairRoutingTable

LEMMA RestartGood ==
  ASSUME IInv, NEW n \in Nodes, Restart(n)
  PROVE  IInv'
<1>1. GoodDatabases'
  BY GoodDatabaseStep, GoodEmptyDatabase DEF IInv, Restart
<1>. QED
  BY <1>1 DEF IInv, Restart, GoodProcesses
-----------------------------------------------------------------------------
LEMMA IInvStep == IInv /\ [Next]_vars => IInv'
<1>. SUFFICES ASSUME IInv, [Next]_vars PROVE IInv'
  OBVIOUS
<1>1. CASE UNCHANGED vars
  BY <1>1 DEF vars, IInv, GoodProcesses, GoodDatabases
<1>2. ASSUME NEW n \in Nodes, Environment(n) PROVE IInv'
  BY <1>2, QuitGood, EndGood, RestartGood, JoinCommandGood DEF Environment, Crash
<1>3. ASSUME NEW m, HandleMessage(m) PROVE IInv'
  BY <1>3, HandleJoinMeGood, HandleJoinGood, EndGood, HandleRoutingUpdateGood,
     HandleAllStateUpdateGood, HandleDeleteNodeGood DEF HandleMessage, HandleOwnJoin
<1>4. ASSUME NEW th, RunThread(th) PROVE IInv'
  BY <1>4, ForwardJoinGood, RetryJoinGood, AnswerJoinGood, MergeRoutingUpdateGood,
     CheckRoutingUpdateGood, RepairLeafSetGood, RepairNeighbourSetGood,
     RepairRoutingTableGood DEF RunThread
<1>5. ASSUME NEW n \in Nodes, Process(n) PROVE IInv'
  BY <1>3, <1>4, <1>5, TimerRepairGood, EndGood DEF Process, Exit
<1>. QED
  BY <1>1, <1>2, <1>5 DEF Next

\* Databases, messages and threads keep their types in every interleaving.
THEOREM TypeCorrect == Spec => []TypeOK
BY IInvInit, IInvStep, IInvImplies, PTL DEF Spec

\* No sequence of joins, announcements, deletions and repairs puts a node into
\* a place of a table it does not belong to (clientDatabase.cpp:141-294).
THEOREM PlacementHolds == Spec => []Placement
BY IInvInit, IInvStep, IInvImplies, PTL DEF Spec

\* Every Join that is forwarded goes to a node strictly better for the newcomer
\* than its sender (peerMessageHandler.cpp:91-121, 219-248); with
\* IsBetterTransitive and IsBetterIrreflexive, no Join visits a node twice.
THEOREM JoinProgressHolds == Spec => []JoinProgress
BY IInvInit, IInvStep, IInvImplies, PTL DEF Spec
-----------------------------------------------------------------------------
(***************************************************************************)
(* The rows of a join.  RowsAccounted relates a newcomer's count to the    *)
(* messages on their way to it and to the handlers that carry its join,    *)
(* so it needs an invariant of its own: in the newcomer's first life its   *)
(* join is carried by one message or one handler; it stands exactly where  *)
(* the rows sent so far end, at a node that shares these rows; every       *)
(* update on its way was sent before that place; and once the terminal     *)
(* update is out, nothing carries the join any more.  That a Join goes to  *)
(* a better node makes the rows of consecutive handlers fit: a better node *)
(* shares at least as long a prefix (BetterSharesMore).                    *)
(***************************************************************************)

\* Counting the rows of a set of RoutingUpdates.
LEMMA CountTo ==
  ASSUME NEW k \in Nat
  PROVE  IsFiniteSet(1 .. k) /\ Cardinality(1 .. k) = k
BY FS_Interval

LEMMA RowsInEmpty == RowsIn({}) = {} /\ Cardinality(RowsIn({})) = 0
BY FS_EmptySet DEF RowsIn

LEMMA RowsInFinite ==
  ASSUME NEW U, IsFiniteSet(U)
  PROVE  IsFiniteSet(RowsIn(U)) /\ Cardinality(RowsIn(U)) \in Nat
<1>1. IsFiniteSet(1 .. Rows)
  BY RowsAssumption, FS_Interval
<1>2. IsFiniteSet(U \X (1 .. Rows))
  BY <1>1, FS_Product
<1>3. RowsIn(U) \in SUBSET (U \X (1 .. Rows))
  BY DEF RowsIn
<1>4. IsFiniteSet(RowsIn(U))
  BY <1>2, <1>3, FS_Subset
<1>. QED
  BY <1>4, FS_CardinalityType

LEMMA RowsInAdded ==
  ASSUME NEW U, IsFiniteSet(U), NEW m, m \notin U, m.rows \in 0 .. Rows
  PROVE  /\ IsFiniteSet(U \cup {m})
         /\ Cardinality(RowsIn(U \cup {m})) = Cardinality(RowsIn(U)) + m.rows
<1>. DEFINE own == {m} \X (1 .. m.rows)
<1>1. IsFiniteSet(own) /\ Cardinality(own) = m.rows
  <2>0. m.rows \in Nat
    BY RowsAssumption
  <2>1. IsFiniteSet(1 .. m.rows) /\ Cardinality(1 .. m.rows) = m.rows
    BY <2>0, CountTo
  <2>2. IsFiniteSet({m}) /\ Cardinality({m}) = 1
    BY FS_Singleton
  <2>3. IsFiniteSet(own) /\ Cardinality(own) = Cardinality({m}) * Cardinality(1 .. m.rows)
    BY <2>1, <2>2, FS_Product
  <2>. QED
    BY <2>0, <2>1, <2>2, <2>3
<1>2. RowsIn(U \cup {m}) = RowsIn(U) \cup own
  BY RowsAssumption DEF RowsIn
<1>3. RowsIn(U) \cap own = {}
  BY DEF RowsIn
<1>4. IsFiniteSet(RowsIn(U)) /\ Cardinality(RowsIn(U)) \in Nat
  BY RowsInFinite
<1>5. Cardinality(RowsIn(U) \cup own)
        = Cardinality(RowsIn(U)) + Cardinality(own) - Cardinality(RowsIn(U) \cap own)
  <2>. HIDE DEF own
  <2>. QED
    BY <1>1, <1>4, FS_Union
<1>6. Cardinality(RowsIn(U) \cap own) = 0
  BY <1>3, FS_EmptySet
<1>. QED
  <2>. HIDE DEF own
  <2>1. m.rows \in Nat
    BY RowsAssumption
  <2>2. IsFiniteSet(U \cup {m})
    BY FS_AddElement
  <2>3. Cardinality(RowsIn(U \cup {m})) = Cardinality(RowsIn(U)) + Cardinality(own) - 0
    BY <1>2, <1>5, <1>6
  <2>4. Cardinality(own) \in Nat
    BY <1>1, <2>1
  <2>5. Cardinality(RowsIn(U)) + Cardinality(own) - 0 = Cardinality(RowsIn(U)) + m.rows
    BY <1>1, <1>4, <2>4
  <2>. QED
    BY <2>2, <2>3, <2>5
-----------------------------------------------------------------------------
\* n runs for the first time.
FirstLife(n) == n \in live /\ restarts[n] = 0

JoinUnderWay(n) == JoinMessagesOf(n) # {} \/ JoinThreadsOf(n) # {}

\* One message or one handler carries a join.
OneCarrier(n) ==
  /\ \A a, b \in JoinMessagesOf(n) : a = b
  /\ \A a, b \in JoinThreadsOf(n) : a = b
  /\ JoinMessagesOf(n) = {} \/ JoinThreadsOf(n) = {}

\* It stands where the rows sent so far end, at a node that shares them.
CarrierCounts(n) ==
  /\ \A m \in JoinMessagesOf(n) :
       /\ m.type = "JoinMe" => RowsSent(n) = 0
       /\ m.type = "Join" => RowsSent(n) = m.row_index /\ m.row_index <= PrefixMatchLen(n, m.to) + 1
  /\ \A th \in JoinThreadsOf(n) :
       /\ RowsSent(n) + th.update.rows = th.row
       /\ th.row = PrefixMatchLen(n, th.at) + 1
       /\ th.update.prefix_match = th.row /\ ~ th.update.terminal

Counted(n) ==
  /\ IsFiniteSet(UpdatesTo(n))
  /\ OneCarrier(n) /\ CarrierCounts(n)
  /\ JoinUnderWay(n) => TerminalUpdates(n) = {}
  /\ n \notin joined => ~ JoinUnderWay(n) /\ TerminalUpdates(n) = {} /\ RowsSent(n) = 0
  /\ \A m \in UpdatesTo(n) : m.prefix_match <= RowsSent(n)
  /\ \A m \in TerminalUpdates(n) : m.prefix_match = RowsSent(n)

Complete(n) ==
  NobodyEnded /\ n \in joined =>
    JoinUnderWay(n) \/ TerminalUpdates(n) # {} \/ db[n].total = RowsSent(n)

RowsIInv ==
  /\ joined \subseteq live
  /\ \A n \in Nodes : FirstLife(n) => Counted(n) /\ Complete(n)

LEMMA RowsSentNat ==
  ASSUME IInv, NEW n \in Nodes, IsFiniteSet(UpdatesTo(n))
  PROVE  RowsSent(n) \in Nat /\ db[n].received \in Nat
<1>1. db[n].received \in Nat
  BY DEF IInv, GoodDatabases, Database
<1>2. Cardinality(RowsIn(UpdatesTo(n))) \in Nat
  BY RowsInFinite
<1>. QED
  BY <1>1, <1>2 DEF RowsSent

LEMMA RowsIInvInit == Init => RowsIInv
<1>. SUFFICES ASSUME Init, NEW n \in Nodes PROVE Counted(n) /\ Complete(n)
  BY DEF Init, RowsIInv
<1>1. JoinMessagesOf(n) = {} /\ JoinThreadsOf(n) = {} /\ UpdatesTo(n) = {} /\ TerminalUpdates(n) = {}
  BY DEF Init, JoinMessagesOf, JoinThreadsOf, UpdatesTo, TerminalUpdates, MergesAt
<1>2. RowsSent(n) = 0
  BY <1>1, RowsInEmpty DEF Init, EmptyDatabase, RowsSent
<1>. QED
  BY <1>1, <1>2, FS_EmptySet DEF Init, Counted, Complete, OneCarrier, CarrierCounts, JoinUnderWay

LEMMA RowsIInvImplies == IInv /\ RowsIInv => RowsAccounted /\ CountsComplete
<1>. SUFFICES ASSUME IInv, RowsIInv PROVE RowsAccounted /\ CountsComplete
  OBVIOUS
<1>1. ASSUME NEW n \in joined, restarts[n] = 0 PROVE n \in Nodes /\ Counted(n) /\ Complete(n)
  BY <1>1 DEF RowsIInv, FirstLife, IInv, GoodProcesses
<1>2. RowsAccounted
  <2>1. \A n \in joined : \A m \in JoinMessagesOf(n) : m.type \in {"JoinMe", "Join"}
    BY DEF JoinMessagesOf
  <2>. QED
    BY <1>1, <2>1 DEF RowsAccounted, Counted, CarrierCounts
<1>3. CountsComplete
  <2>. SUFFICES ASSUME Settled, NobodyEnded, NEW n \in joined
                PROVE  db[n].received = db[n].total
    BY DEF CountsComplete
  <2>1. n \in Nodes /\ Complete(n)
    BY <1>1 DEF NobodyEnded, NobodyRestarted, IInv, GoodProcesses
  <2>2. JoinMessagesOf(n) = {} /\ JoinThreadsOf(n) = {} /\ UpdatesTo(n) = {} /\ TerminalUpdates(n) = {}
    BY DEF Settled, JoinMessagesOf, JoinThreadsOf, UpdatesTo, TerminalUpdates, MergesAt
  <2>3. db[n].received \in Nat
    BY <2>1 DEF IInv, GoodDatabases, Database
  <2>4. RowsSent(n) = db[n].received
    BY <2>2, <2>3, RowsInEmpty DEF RowsSent
  <2>. QED
    BY <2>1, <2>2, <2>4 DEF Complete, JoinUnderWay
<1>. QED
  BY <1>2, <1>3
-----------------------------------------------------------------------------
\* What a step leaves alone when it has no part in the join of n.
OtherMessage(n, m) ==
  /\ ~ (m.type \in {"JoinMe", "Join"} /\ m.newcomer = n)
  /\ ~ (m.type = "RoutingUpdate" /\ m.to = n)
OtherThread(n, th) ==
  /\ ~ (th.kind \in JoinKinds /\ th.update.to = n)
  /\ ~ (th.kind = "merge" /\ th.at = n)

SameJoin(n) ==
  /\ JoinMessagesOf(n)' = JoinMessagesOf(n) /\ JoinThreadsOf(n)' = JoinThreadsOf(n)
  /\ UpdatesTo(n)' \subseteq UpdatesTo(n) /\ RowsSent(n)' = RowsSent(n)
  /\ TerminalUpdates(n)' = TerminalUpdates(n)
  /\ db'[n].total = db[n].total
  /\ n \in joined' <=> n \in joined

LEMMA OthersKeepJoin ==
  ASSUME NEW n,
         \A m \in msgs' : m \in msgs \/ OtherMessage(n, m),
         \A m \in msgs : m \in msgs' \/ OtherMessage(n, m),
         \A th \in threads' : th \in threads \/ OtherThread(n, th),
         \A th \in threads : th \in threads' \/ OtherThread(n, th),
         db'[n].received = db[n].received, db'[n].total = db[n].total,
         n \in joined' <=> n \in joined
  PROVE  SameJoin(n)
<1>1. JoinMessagesOf(n)' = JoinMessagesOf(n)
  BY DEF JoinMessagesOf, OtherMessage
<1>2. JoinThreadsOf(n)' = JoinThreadsOf(n)
  BY DEF JoinThreadsOf, OtherThread
<1>3. UpdatesTo(n)' = UpdatesTo(n)
  BY DEF UpdatesTo, OtherMessage
<1>4. MergesAt(n)' = MergesAt(n)
  BY DEF MergesAt, OtherThread
<1>5. TerminalUpdates(n)' = TerminalUpdates(n)
  BY <1>3, <1>4 DEF TerminalUpdates
<1>6. RowsSent(n)' = RowsSent(n)
  BY <1>3 DEF RowsSent
<1>. QED
  BY <1>1, <1>2, <1>3, <1>5, <1>6 DEF SameJoin

LEMMA CountedShrinks ==
  ASSUME NEW n, Counted(n),
         JoinMessagesOf(n)' \subseteq JoinMessagesOf(n), JoinThreadsOf(n)' \subseteq JoinThreadsOf(n),
         UpdatesTo(n)' \subseteq UpdatesTo(n), RowsSent(n)' = RowsSent(n),
         TerminalUpdates(n)' \subseteq TerminalUpdates(n),
         n \in joined => n \in joined'
  PROVE  Counted(n)'
<1>1. IsFiniteSet(UpdatesTo(n)')
  BY FS_Subset DEF Counted
<1>2. OneCarrier(n)' /\ CarrierCounts(n)'
  BY DEF Counted, OneCarrier, CarrierCounts
<1>. QED
  BY <1>1, <1>2 DEF Counted, JoinUnderWay

LEMMA SameJoinKept ==
  ASSUME NEW n, Counted(n), Complete(n), SameJoin(n), NobodyEnded' => NobodyEnded
  PROVE  Counted(n)' /\ Complete(n)'
<1>1. Counted(n)'
  BY CountedShrinks DEF SameJoin
<1>2. Complete(n)'
  BY DEF Complete, SameJoin, JoinUnderWay
<1>. QED
  BY <1>1, <1>2

LEMMA EndKeepsRows ==
  ASSUME RowsIInv, NEW k \in Nodes, End(k)
  PROVE  RowsIInv'
<1>. SUFFICES ASSUME NEW n \in Nodes, FirstLife(n)' PROVE Counted(n)' /\ Complete(n)'
  BY DEF RowsIInv, End
<1>1. FirstLife(n) /\ n # k
  BY DEF FirstLife, End
<1>2. Counted(n)
  BY <1>1 DEF RowsIInv
<1>3. /\ JoinMessagesOf(n)' \subseteq JoinMessagesOf(n)
      /\ JoinThreadsOf(n)' \subseteq JoinThreadsOf(n)
  BY DEF End, JoinMessagesOf, JoinThreadsOf
<1>4. UpdatesTo(n)' = UpdatesTo(n) /\ MergesAt(n)' = MergesAt(n)
  BY <1>1 DEF End, UpdatesTo, MergesAt
<1>5. TerminalUpdates(n)' = TerminalUpdates(n) /\ RowsSent(n)' = RowsSent(n)
  BY <1>4 DEF TerminalUpdates, RowsSent, End
<1>6. Counted(n)'
  BY <1>1, <1>2, <1>3, <1>4, <1>5, CountedShrinks DEF End
<1>7. ~ NobodyEnded'
  BY <1>1 DEF NobodyEnded, End, RowsIInv
<1>. QED
  BY <1>6, <1>7 DEF Complete

\* A JoinMe or a Join becomes the handler that carries the join on.
LEMMA HandlerTakesOver ==
  ASSUME NEW n, Counted(n), NEW m \in JoinMessagesOf(n), NEW th,
         JoinMessagesOf(n)' = JoinMessagesOf(n) \ {m},
         JoinThreadsOf(n)' = JoinThreadsOf(n) \cup {th},
         UpdatesTo(n)' = UpdatesTo(n), RowsSent(n)' = RowsSent(n),
         TerminalUpdates(n)' = TerminalUpdates(n), n \in joined' <=> n \in joined,
         RowsSent(n) + th.update.rows = th.row, th.row = PrefixMatchLen(n, th.at) + 1,
         th.update.prefix_match = th.row, ~ th.update.terminal
  PROVE  Counted(n)' /\ Complete(n)'
<1>1. JoinMessagesOf(n)' = {} /\ JoinThreadsOf(n)' = {th}
  BY DEF Counted, OneCarrier
<1>2. OneCarrier(n)' /\ CarrierCounts(n)'
  BY <1>1 DEF OneCarrier, CarrierCounts
<1>3. JoinUnderWay(n) /\ JoinUnderWay(n)'
  BY <1>1 DEF JoinUnderWay
<1>. QED
  BY <1>2, <1>3 DEF Counted, Complete

\* A handler sends its rows: they are new, or there are none.
LEMMA RowsAreSent ==
  ASSUME IInv, NEW n \in Nodes, Counted(n), NEW th \in JoinThreadsOf(n), NEW u,
         u.rows = th.update.rows, u.prefix_match = th.update.prefix_match,
         UpdatesTo(n)' = UpdatesTo(n) \cup {u}, db'[n].received = db[n].received
  PROVE  /\ RowsSent(n)' = th.row
         /\ IsFiniteSet(UpdatesTo(n)')
         /\ \A m \in UpdatesTo(n)' : m.prefix_match <= th.row
<1>1. th.update.rows \in 0 .. Rows /\ th.row \in 1 .. Rows
  BY JoinThreadFields DEF IInv, JoinThreadsOf, RoutingUpdateMessage
<1>2. u.rows \in 0 .. Rows
  BY <1>1
<1>3. /\ RowsSent(n) + th.update.rows = th.row
      /\ th.update.prefix_match = th.row
      /\ \A m \in UpdatesTo(n) : m.prefix_match <= RowsSent(n)
      /\ IsFiniteSet(UpdatesTo(n))
  BY DEF Counted, CarrierCounts
<1>4. RowsSent(n) \in Nat /\ db[n].received \in Nat
  BY <1>3, RowsSentNat
<1>5. \A m \in UpdatesTo(n) : m.prefix_match \in Nat
  BY MessageTypes, RowsAssumption DEF IInv, UpdatesTo, RoutingUpdateMessage
<1>6. RowsSent(n) <= th.row
  BY <1>1, <1>3, <1>4, RowsAssumption
<1>7. \A m \in UpdatesTo(n) : m.prefix_match <= th.row
  BY <1>1, <1>3, <1>4, <1>5, <1>6, RowsAssumption
<1>8. th.row <= th.row
  BY <1>1, RowsAssumption
<1>9. CASE u \in UpdatesTo(n)
  <2>1. th.row <= RowsSent(n)
    BY <1>3, <1>9
  <2>2. th.row = RowsSent(n)
    BY <1>1, <1>4, <1>6, <2>1, RowsAssumption
  <2>3. UpdatesTo(n)' = UpdatesTo(n)
    BY <1>9
  <2>4. RowsSent(n)' = RowsSent(n)
    BY <2>3 DEF RowsSent
  <2>. QED
    BY <1>3, <1>7, <2>2, <2>3, <2>4
<1>10. CASE u \notin UpdatesTo(n)
  <2>1. /\ IsFiniteSet(UpdatesTo(n)')
        /\ Cardinality(RowsIn(UpdatesTo(n)')) = Cardinality(RowsIn(UpdatesTo(n))) + u.rows
    BY <1>2, <1>3, <1>10, RowsInAdded
  <2>2. Cardinality(RowsIn(UpdatesTo(n))) \in Nat /\ u.rows \in Nat
    BY <1>2, <1>3, RowsInFinite, RowsAssumption
  <2>3. RowsSent(n)' = db[n].received + Cardinality(RowsIn(UpdatesTo(n)'))
    BY DEF RowsSent
  <2>4. RowsSent(n)' = RowsSent(n) + u.rows
    BY <1>4, <2>1, <2>2, <2>3 DEF RowsSent
  <2>5. u.prefix_match <= th.row
    BY <1>3, <1>8
  <2>. QED
    BY <1>3, <1>7, <2>1, <2>4, <2>5
<1>. QED
  BY <1>9, <1>10

LEMMA JoinCommandRows ==
  ASSUME IInv, RowsIInv, NEW k \in Nodes, NEW b \in Nodes, JoinCommand(k, b)
  PROVE  RowsIInv'
<1>. DEFINE joinMe == [type |-> "JoinMe", to |-> b, newcomer |-> k]
<1>. SUFFICES ASSUME NEW n \in Nodes, FirstLife(n)' PROVE Counted(n)' /\ Complete(n)'
  BY DEF RowsIInv, JoinCommand
<1>1. FirstLife(n)
  BY DEF FirstLife, JoinCommand
<1>2. Counted(n) /\ Complete(n)
  BY <1>1 DEF RowsIInv
<1>3. CASE n # k
  <2>1. OtherMessage(n, joinMe)
    BY <1>3 DEF OtherMessage
  <2>. HIDE DEF joinMe
  <2>2. msgs' = msgs \cup {joinMe} /\ joined' = joined \cup {k} /\ UNCHANGED <<live, restarts, db, threads>>
    BY DEF JoinCommand, joinMe
  <2>3. SameJoin(n)
    BY <1>3, <2>1, <2>2, OthersKeepJoin
  <2>. QED
    BY <1>2, <2>2, <2>3, SameJoinKept DEF NobodyEnded, NobodyRestarted
<1>4. CASE n = k
  <2>1. n \notin joined /\ n \in joined'
    BY <1>4 DEF JoinCommand
  <2>2. /\ JoinMessagesOf(n) = {} /\ JoinThreadsOf(n) = {} /\ TerminalUpdates(n) = {}
        /\ RowsSent(n) = 0
    BY <1>2, <2>1 DEF Counted, JoinUnderWay
  <2>3. JoinMessagesOf(n)' = {joinMe}
    BY <1>4, <2>2 DEF JoinCommand, JoinMessagesOf
  <2>4. JoinThreadsOf(n)' = {} /\ UpdatesTo(n)' = UpdatesTo(n) /\ MergesAt(n)' = MergesAt(n)
    BY <2>2 DEF JoinCommand, JoinThreadsOf, UpdatesTo, MergesAt
  <2>5. TerminalUpdates(n)' = {} /\ RowsSent(n)' = RowsSent(n)
    BY <2>2, <2>4 DEF TerminalUpdates, RowsSent, JoinCommand
  <2>6. OneCarrier(n)' /\ CarrierCounts(n)'
    BY <2>2, <2>3, <2>4, <2>5 DEF OneCarrier, CarrierCounts
  <2>7. JoinUnderWay(n)'
    BY <2>3 DEF JoinUnderWay
  <2>. QED
    BY <1>2, <2>1, <2>4, <2>5, <2>6, <2>7 DEF Counted, Complete
<1>. QED
  BY <1>3, <1>4

\* The handlers of JoinMe and Join.
LEMMA JoinHandlerRows ==
  ASSUME IInv, RowsIInv, NEW m, HandleJoinMe(m) \/ HandleJoin(m)
  PROVE  RowsIInv'
<1>. DEFINE t == m.newcomer
            x == m.to
            p == PrefixMatchLen(t, x)
            first == IF m.type = "JoinMe" THEN 0 ELSE m.row_index
<1>1. /\ m \in msgs /\ m.type \in {"JoinMe", "Join"} /\ m.newcomer # m.to
      /\ msgs' = msgs \ {m} /\ UNCHANGED <<live, joined, quitting, restarts, db>>
  BY DEF HandleJoinMe, HandleJoin, IInv, GoodMessage
<1>2. x \in Nodes /\ t \in Nodes /\ p \in 0 .. Rows - 1
  <2>1. m.to \in Nodes /\ m.newcomer \in Nodes
    BY <1>1, MessageTypes DEF IInv, JoinMeMessage, JoinMessage
  <2>. QED
    BY <1>1, <2>1, PrefixOfDifferent, NodesAssumption
<1>3. PICK th : /\ threads' = threads \cup {th}
                /\ th.kind \in JoinKinds /\ th.at = x /\ th.row = p + 1 /\ th.update.to = t
                /\ th.update.rows = Larger(0, p - first + 1) /\ ~ th.update.terminal
                /\ th.update.prefix_match = (IF m.type = "JoinMe" THEN p + 1 ELSE Larger(p + 1, m.row_index))
  <2>1. CASE HandleJoinMe(m)
    <3>. DEFINE update == [RowsUpdate(x, t, 0, p, p + 1) EXCEPT !.neighbours = db[x].neighbours]
    <3>. DEFINE new(next) == [kind |-> "joinMe", at |-> x, next |-> next, row |-> p + 1, update |-> update]
    <3>1. PICK next \in NextRoutingNodes(x, db[x], t) : threads' = threads \cup {new(next)}
      BY <2>1 DEF HandleJoinMe
    <3>2. /\ update.to = t /\ update.rows = Larger(0, p - 0 + 1) /\ ~ update.terminal
          /\ update.prefix_match = p + 1
      BY DEF RowsUpdate
    <3>3. m.type = "JoinMe"
      BY <2>1 DEF HandleJoinMe
    <3>. HIDE DEF update, p
    <3>4. /\ new(next).kind \in JoinKinds /\ new(next).at = x /\ new(next).row = p + 1
          /\ new(next).update = update
      BY DEF JoinKinds
    <3>. HIDE DEF new
    <3>. QED
      BY <3>1, <3>2, <3>3, <3>4
  <2>2. CASE HandleJoin(m)
    <3>. DEFINE update == RowsUpdate(x, t, m.row_index, p, Larger(p + 1, m.row_index))
    <3>. DEFINE new(next) == [kind |-> "join", at |-> x, next |-> next, row |-> p + 1, update |-> update]
    <3>1. PICK next \in NextRoutingNodes(x, db[x], t) : threads' = threads \cup {new(next)}
      BY <2>2 DEF HandleJoin
    <3>2. /\ update.to = t /\ update.rows = Larger(0, p - m.row_index + 1) /\ ~ update.terminal
          /\ update.prefix_match = Larger(p + 1, m.row_index)
      BY DEF RowsUpdate
    <3>3. m.type = "Join"
      BY <2>2 DEF HandleJoin
    <3>. HIDE DEF update, p
    <3>4. /\ new(next).kind \in JoinKinds /\ new(next).at = x /\ new(next).row = p + 1
          /\ new(next).update = update
      BY DEF JoinKinds
    <3>. HIDE DEF new
    <3>. QED
      BY <3>1, <3>2, <3>3, <3>4
  <2>. QED
    BY <2>1, <2>2
<1>. SUFFICES ASSUME NEW n \in Nodes, FirstLife(n)' PROVE Counted(n)' /\ Complete(n)'
  BY <1>1 DEF RowsIInv
<1>4. FirstLife(n)
  BY <1>1 DEF FirstLife
<1>5. Counted(n) /\ Complete(n)
  BY <1>4 DEF RowsIInv
<1>6. CASE n # t
  <2>1. OtherMessage(n, m) /\ OtherThread(n, th)
    BY <1>1, <1>3, <1>6 DEF OtherMessage, OtherThread, JoinKinds
  <2>2. SameJoin(n)
    BY <1>1, <1>3, <2>1, OthersKeepJoin
  <2>. QED
    BY <1>1, <1>5, <2>2, SameJoinKept DEF NobodyEnded, NobodyRestarted
<1>7. CASE n = t
  <2>1. m \in JoinMessagesOf(n)
    BY <1>1, <1>7 DEF JoinMessagesOf
  <2>2. JoinMessagesOf(n)' = JoinMessagesOf(n) \ {m}
    BY <1>1 DEF JoinMessagesOf
  <2>3. JoinThreadsOf(n)' = JoinThreadsOf(n) \cup {th}
    BY <1>3, <1>7 DEF JoinThreadsOf
  <2>4. UpdatesTo(n)' = UpdatesTo(n)
    BY <1>1 DEF UpdatesTo
  <2>5. MergesAt(n)' = MergesAt(n)
    BY <1>3 DEF MergesAt, JoinKinds
  <2>6. TerminalUpdates(n)' = TerminalUpdates(n) /\ RowsSent(n)' = RowsSent(n)
    BY <1>1, <2>4, <2>5 DEF TerminalUpdates, RowsSent
  <2>7. RowsSent(n) = first /\ first \in 0 .. p + 1
    <3>1. CASE m.type = "JoinMe"
      BY <1>2, <1>5, <2>1, <3>1 DEF Counted, CarrierCounts
    <3>2. CASE m.type = "Join"
      <4>1. m.row_index \in 1 .. Rows
        BY <1>1, <3>2, MessageTypes DEF IInv, JoinMessage
      <4>. QED
        BY <1>2, <1>5, <1>7, <2>1, <3>2, <4>1, RowsAssumption DEF Counted, CarrierCounts
    <3>. QED
      BY <1>1, <3>1, <3>2
  <2>8. th.update.rows = p + 1 - first /\ th.update.prefix_match = p + 1
    <3>1. th.update.rows = p + 1 - first
      BY <1>2, <1>3, <2>7, RowsAssumption DEF Larger
    <3>2. th.update.prefix_match = p + 1
      BY <1>2, <1>3, <2>7, RowsAssumption DEF Larger
    <3>. QED
      BY <3>1, <3>2
  <2>9. RowsSent(n) + th.update.rows = th.row
    BY <1>2, <1>3, <2>7, <2>8, RowsAssumption
  <2>. HIDE DEF first
  <2>. QED
    BY <1>1, <1>3, <1>5, <1>7, <2>1, <2>2, <2>3, <2>4, <2>6, <2>8, <2>9, HandlerTakesOver
<1>. QED
  BY <1>6, <1>7

\* The RoutingUpdate of a join handler, when it is sent.
LEMMA SignedFields ==
  ASSUME NEW th, GoodThread(th), th.kind \in JoinKinds
  PROVE  /\ Signed(th).type = "RoutingUpdate" /\ Signed(th).to = th.update.to
         /\ Signed(th).rows = th.update.rows /\ Signed(th).prefix_match = th.update.prefix_match
         /\ Signed(th).terminal = th.update.terminal
BY JoinThreadFields DEF Signed, RoutingUpdateMessage

LEMMA ForwardJoinRows ==
  ASSUME IInv, RowsIInv, NEW th, ForwardJoin(th)
  PROVE  RowsIInv'
<1>. DEFINE t == th.update.to
            join == [type |-> "Join", to |-> th.next, sender |-> th.at, newcomer |-> t,
                     row_index |-> th.row]
            u == Signed(th)
<1>1. /\ th \in threads /\ GoodThread(th) /\ th.kind \in JoinKinds /\ th.next # th.at
      /\ th.next \in live /\ threads' = threads \ {th}
      /\ UNCHANGED <<live, joined, quitting, restarts, db>>
  BY DEF ForwardJoin, IInv
<1>2. /\ join.type = "Join" /\ join.to = th.next /\ join.newcomer = t /\ join.row_index = th.row
      /\ u.type = "RoutingUpdate" /\ u.to = t /\ u.rows = th.update.rows
      /\ u.prefix_match = th.update.prefix_match /\ u.terminal = th.update.terminal
  BY <1>1, SignedFields
<1>3. msgs' = msgs \cup Reachable({join, u})
  BY DEF ForwardJoin
<1>. HIDE DEF join, u
<1>. SUFFICES ASSUME NEW n \in Nodes, FirstLife(n)' PROVE Counted(n)' /\ Complete(n)'
  BY <1>1 DEF RowsIInv
<1>4. FirstLife(n) /\ n \in live
  BY <1>1 DEF FirstLife
<1>5. Counted(n) /\ Complete(n)
  BY <1>4 DEF RowsIInv
<1>6. CASE n # t
  <2>1. OtherMessage(n, join) /\ OtherMessage(n, u) /\ OtherThread(n, th)
    BY <1>1, <1>2, <1>6 DEF OtherMessage, OtherThread, JoinKinds
  <2>2. SameJoin(n)
    BY <1>1, <1>3, <2>1, OthersKeepJoin DEF Reachable
  <2>. QED
    BY <1>1, <1>5, <2>2, SameJoinKept DEF NobodyEnded, NobodyRestarted
<1>7. CASE n = t
  <2>1. th \in JoinThreadsOf(n)
    BY <1>1, <1>7 DEF JoinThreadsOf
  <2>2. msgs' = msgs \cup {join, u}
    BY <1>1, <1>2, <1>3, <1>4, <1>7 DEF Reachable
  <2>3. JoinMessagesOf(n) = {} /\ JoinThreadsOf(n) = {th}
    BY <1>5, <2>1 DEF Counted, OneCarrier
  <2>4. JoinMessagesOf(n)' = {join}
    BY <1>2, <1>7, <2>2, <2>3 DEF JoinMessagesOf
  <2>5. JoinThreadsOf(n)' = {}
    BY <1>1, <2>3 DEF JoinThreadsOf
  <2>6. UpdatesTo(n)' = UpdatesTo(n) \cup {u}
    BY <1>2, <1>7, <2>2 DEF UpdatesTo
  <2>7. MergesAt(n)' = MergesAt(n)
    BY <1>1 DEF MergesAt, JoinKinds
  <2>8. ~ u.terminal /\ th.row = PrefixMatchLen(n, th.at) + 1
    BY <1>2, <1>5, <2>1 DEF Counted, CarrierCounts
  <2>9. TerminalUpdates(n)' = {}
    <3>1. TerminalUpdates(n) = {}
      BY <1>5, <2>1 DEF Counted, JoinUnderWay
    <3>. QED
      BY <2>6, <2>7, <2>8, <3>1 DEF TerminalUpdates
  <2>10. /\ RowsSent(n)' = th.row /\ IsFiniteSet(UpdatesTo(n)')
         /\ \A m \in UpdatesTo(n)' : m.prefix_match <= th.row
    BY <1>1, <1>2, <1>5, <2>1, <2>6, RowsAreSent
  <2>11. th.row <= PrefixMatchLen(n, th.next) + 1
    <3>1. th.next \in Nodes /\ th.at \in Nodes /\ IsBetter(th.next, th.at, n)
      BY <1>1, <1>7, JoinThreadFields
    <3>2. PrefixMatchLen(th.next, n) >= PrefixMatchLen(th.at, n)
      BY <3>1, BetterSharesMore, NodesAssumption
    <3>3. /\ PrefixMatchLen(th.next, n) = PrefixMatchLen(n, th.next)
          /\ PrefixMatchLen(th.at, n) = PrefixMatchLen(n, th.at)
          /\ PrefixMatchLen(n, th.next) \in Nat /\ PrefixMatchLen(n, th.at) \in Nat
      BY <3>1, PrefixSymmetric, PrefixMatch, NodesAssumption, RowsAssumption
    <3>. QED
      BY <2>8, <3>2, <3>3
  <2>12. n \in joined'
    BY <1>1, <1>5, <2>1 DEF Counted, JoinUnderWay
  <2>13. OneCarrier(n)' /\ CarrierCounts(n)'
    BY <1>2, <2>4, <2>5, <2>10, <2>11 DEF OneCarrier, CarrierCounts
  <2>. QED
    BY <2>4, <2>9, <2>10, <2>12, <2>13 DEF Counted, Complete, JoinUnderWay
<1>. QED
  BY <1>6, <1>7

LEMMA AnswerJoinRows ==
  ASSUME IInv, RowsIInv, NEW th, AnswerJoin(th)
  PROVE  RowsIInv'
<1>. DEFINE t == th.update.to
            u == [Signed(th) EXCEPT !.terminal = TRUE, !.leaf = Leaves(db[th.at])]
<1>1. /\ th \in threads /\ GoodThread(th) /\ th.kind \in JoinKinds
      /\ threads' = threads \ {th} /\ UNCHANGED <<live, joined, quitting, restarts, db>>
  BY DEF AnswerJoin, IInv
<1>2. /\ u.type = "RoutingUpdate" /\ u.to = t /\ u.rows = th.update.rows
      /\ u.prefix_match = th.update.prefix_match /\ u.terminal
  <2>1. Signed(th) \in RoutingUpdateMessage
    BY <1>1, JoinThreadFields
  <2>. QED
    BY <1>1, <2>1, SignedFields DEF RoutingUpdateMessage
<1>3. msgs' = msgs \cup Reachable({u})
  BY DEF AnswerJoin
<1>. HIDE DEF u
<1>. SUFFICES ASSUME NEW n \in Nodes, FirstLife(n)' PROVE Counted(n)' /\ Complete(n)'
  BY <1>1 DEF RowsIInv
<1>4. FirstLife(n) /\ n \in live
  BY <1>1 DEF FirstLife
<1>5. Counted(n) /\ Complete(n)
  BY <1>4 DEF RowsIInv
<1>6. CASE n # t
  <2>1. OtherMessage(n, u) /\ OtherThread(n, th)
    BY <1>1, <1>2, <1>6 DEF OtherMessage, OtherThread, JoinKinds
  <2>2. SameJoin(n)
    BY <1>1, <1>3, <2>1, OthersKeepJoin DEF Reachable
  <2>. QED
    BY <1>1, <1>5, <2>2, SameJoinKept DEF NobodyEnded, NobodyRestarted
<1>7. CASE n = t
  <2>1. th \in JoinThreadsOf(n)
    BY <1>1, <1>7 DEF JoinThreadsOf
  <2>2. msgs' = msgs \cup {u}
    BY <1>2, <1>3, <1>4, <1>7 DEF Reachable
  <2>3. JoinMessagesOf(n) = {} /\ JoinThreadsOf(n) = {th}
    BY <1>5, <2>1 DEF Counted, OneCarrier
  <2>4. JoinMessagesOf(n)' = {}
    BY <1>2, <2>2, <2>3 DEF JoinMessagesOf
  <2>5. JoinThreadsOf(n)' = {}
    BY <1>1, <2>3 DEF JoinThreadsOf
  <2>6. UpdatesTo(n)' = UpdatesTo(n) \cup {u}
    BY <1>2, <1>7, <2>2 DEF UpdatesTo
  <2>7. MergesAt(n)' = MergesAt(n)
    BY <1>1 DEF MergesAt, JoinKinds
  <2>8. TerminalUpdates(n)' = {u}
    <3>1. TerminalUpdates(n) = {}
      BY <1>5, <2>1 DEF Counted, JoinUnderWay
    <3>. QED
      BY <1>2, <2>6, <2>7, <3>1 DEF TerminalUpdates
  <2>9. u.prefix_match = th.row
    BY <1>2, <1>5, <2>1 DEF Counted, CarrierCounts
  <2>10. /\ RowsSent(n)' = th.row /\ IsFiniteSet(UpdatesTo(n)')
         /\ \A m \in UpdatesTo(n)' : m.prefix_match <= th.row
    BY <1>1, <1>2, <1>5, <2>1, <2>6, RowsAreSent
  <2>11. n \in joined'
    BY <1>1, <1>5, <2>1 DEF Counted, JoinUnderWay
  <2>12. OneCarrier(n)' /\ CarrierCounts(n)'
    BY <2>4, <2>5 DEF OneCarrier, CarrierCounts
  <2>. QED
    BY <2>4, <2>5, <2>8, <2>9, <2>10, <2>11, <2>12 DEF Counted, Complete, JoinUnderWay
<1>. QED
  BY <1>6, <1>7

\* Repair threads have no part in a join.
LEMMA RepairThreadsAreOthers ==
  ASSUME NEW n, NEW k, NEW D, NEW x, NEW th \in RepairThreads(k, D, x)
  PROVE  OtherThread(n, th)
BY DEF RepairThreads, OtherThread, JoinKinds

LEMMA RetryJoinRows ==
  ASSUME IInv, RowsIInv, NEW th, RetryJoin(th)
  PROVE  RowsIInv'
<1>. DEFINE t == th.update.to
            x == th.at
            D == DeleteNode(x, db[x], th.next)
<1>1. /\ th \in threads /\ GoodThread(th) /\ th.kind \in JoinKinds
      /\ db' = [db EXCEPT ![x] = D] /\ UNCHANGED <<live, joined, quitting, restarts, msgs>>
  BY DEF RetryJoin, IInv
<1>2. PICK th2 : /\ threads' = (threads \ {th}) \cup RepairThreads(x, db[x], th.next) \cup {th2}
                 /\ th2.kind = th.kind /\ th2.at = x /\ th2.row = th.row /\ th2.update = th.update
  <2>1. PICK next \in NextRoutingNodes(x, D, t) :
          threads' = (threads \ {th}) \cup RepairThreads(x, db[x], th.next)
                       \cup {[th EXCEPT !.next = next]}
    BY DEF RetryJoin
  <2>2. [th EXCEPT !.next = next] =
          [kind |-> th.kind, at |-> x, next |-> next, row |-> th.row, update |-> th.update]
    BY <1>1, JoinThreadFields
  <2>. QED
    BY <2>1, <2>2
<1>3. \A k \in Nodes : db'[k].received = db[k].received /\ db'[k].total = db[k].total
  <2>1. x \in Nodes /\ db \in [Nodes -> Database]
    BY <1>1, JoinThreadFields DEF IInv, GoodDatabases
  <2>2. D.received = db[x].received /\ D.total = db[x].total
    BY <2>1 DEF DeleteNode, Database
  <2>. HIDE DEF D
  <2>. QED
    BY <1>1, <2>1, <2>2
<1>. SUFFICES ASSUME NEW n \in Nodes, FirstLife(n)' PROVE Counted(n)' /\ Complete(n)'
  BY <1>1 DEF RowsIInv
<1>4. FirstLife(n)
  BY <1>1 DEF FirstLife
<1>5. Counted(n) /\ Complete(n)
  BY <1>4 DEF RowsIInv
<1>6. \A r \in RepairThreads(x, db[x], th.next) : OtherThread(n, r)
  BY RepairThreadsAreOthers
<1>7. CASE n # t
  <2>1. OtherThread(n, th) /\ OtherThread(n, th2)
    BY <1>1, <1>2, <1>7 DEF OtherThread, JoinKinds
  <2>2. SameJoin(n)
    BY <1>1, <1>2, <1>3, <1>6, <2>1, OthersKeepJoin
  <2>. QED
    BY <1>1, <1>5, <2>2, SameJoinKept DEF NobodyEnded, NobodyRestarted
<1>8. CASE n = t
  <2>1. th \in JoinThreadsOf(n)
    BY <1>1, <1>8 DEF JoinThreadsOf
  <2>2. JoinMessagesOf(n) = {} /\ JoinThreadsOf(n) = {th}
    BY <1>5, <2>1 DEF Counted, OneCarrier
  <2>3. JoinMessagesOf(n)' = {} /\ UpdatesTo(n)' = UpdatesTo(n)
    BY <1>1, <2>2 DEF JoinMessagesOf, UpdatesTo
  <2>4. JoinThreadsOf(n)' = {th2}
    BY <1>1, <1>2, <1>6, <1>8, <2>2 DEF JoinThreadsOf, OtherThread
  <2>5. MergesAt(n)' = MergesAt(n)
    BY <1>1, <1>2, <1>6 DEF MergesAt, OtherThread, JoinKinds
  <2>6. TerminalUpdates(n)' = TerminalUpdates(n) /\ RowsSent(n)' = RowsSent(n)
    BY <1>3, <2>3, <2>5 DEF TerminalUpdates, RowsSent
  <2>7. OneCarrier(n)' /\ CarrierCounts(n)'
    BY <1>2, <1>5, <2>1, <2>3, <2>4, <2>6 DEF Counted, OneCarrier, CarrierCounts
  <2>8. JoinUnderWay(n) /\ JoinUnderWay(n)'
    BY <2>1, <2>4 DEF JoinUnderWay
  <2>. QED
    BY <1>1, <1>5, <2>3, <2>6, <2>7, <2>8 DEF Counted, Complete
<1>. QED
  BY <1>7, <1>8

LEMMA HandleRoutingUpdateRows ==
  ASSUME IInv, RowsIInv, NEW m, HandleRoutingUpdate(m)
  PROVE  RowsIInv'
<1>. DEFINE k == m.to
            U == UpdateAllState(k, db[k], {m.sender})
            D == [U EXCEPT !.received = U.received + m.rows]
            th == [kind |-> "merge", at |-> k, update |-> m]
<1>1. /\ m \in msgs /\ m.type = "RoutingUpdate" /\ msgs' = msgs \ {m}
      /\ threads' = threads \cup {th} /\ db' = [db EXCEPT ![k] = D]
      /\ UNCHANGED <<live, joined, quitting, restarts>>
  BY DEF HandleRoutingUpdate
<1>2. k \in Nodes /\ db \in [Nodes -> Database] /\ m.rows \in 0 .. Rows
  BY <1>1, MessageTypes DEF IInv, RoutingUpdateMessage, GoodDatabases
<1>3. D.received = db[k].received + m.rows /\ D.total = db[k].total
  BY <1>2 DEF UpdateAllState, Database
<1>4. th.kind = "merge" /\ th.at = k /\ th.update = m
  OBVIOUS
<1>. HIDE DEF D, th
<1>. SUFFICES ASSUME NEW n \in Nodes, FirstLife(n)' PROVE Counted(n)' /\ Complete(n)'
  BY <1>1 DEF RowsIInv
<1>5. FirstLife(n)
  BY <1>1 DEF FirstLife
<1>6. Counted(n) /\ Complete(n)
  BY <1>5 DEF RowsIInv
<1>7. SameJoin(n)
  <2>1. CASE n # k
    <3>1. OtherMessage(n, m) /\ OtherThread(n, th)
      BY <1>1, <1>4, <2>1 DEF OtherMessage, OtherThread, JoinKinds
    <3>2. db'[n] = db[n]
      BY <1>1, <1>2, <2>1
    <3>. QED
      BY <1>1, <3>1, <3>2, OthersKeepJoin
  <2>2. CASE n = k
    <3>1. JoinMessagesOf(n)' = JoinMessagesOf(n)
      BY <1>1 DEF JoinMessagesOf
    <3>2. JoinThreadsOf(n)' = JoinThreadsOf(n)
      BY <1>1, <1>4 DEF JoinThreadsOf, JoinKinds
    <3>3. UpdatesTo(n)' = UpdatesTo(n) \ {m} /\ m \in UpdatesTo(n)
      BY <1>1, <2>2 DEF UpdatesTo
    <3>4. MergesAt(n)' = MergesAt(n) \cup {th}
      BY <1>1, <1>4, <2>2 DEF MergesAt
    <3>5. TerminalUpdates(n)' = TerminalUpdates(n)
      BY <1>4, <3>3, <3>4 DEF TerminalUpdates
    <3>6. RowsSent(n)' = RowsSent(n)
      <4>. DEFINE rest == UpdatesTo(n) \ {m}
      <4>1. IsFiniteSet(rest) /\ rest \cup {m} = UpdatesTo(n)
        BY <1>6, <3>3, FS_RemoveElement DEF Counted
      <4>2. Cardinality(RowsIn(rest \cup {m})) = Cardinality(RowsIn(rest)) + m.rows
        <5>. HIDE DEF rest
        <5>1. m \notin rest
          BY DEF rest
        <5>. QED
          BY <1>2, <4>1, <5>1, RowsInAdded
      <4>3. Cardinality(RowsIn(rest)) \in Nat /\ m.rows \in Nat /\ db[n].received \in Nat
        BY <1>2, <4>1, RowsInFinite, RowsAssumption DEF Database
      <4>4. db'[n].received = db[n].received + m.rows
        BY <1>1, <1>2, <1>3, <2>2
      <4>5. RowsSent(n)' = (db[n].received + m.rows) + Cardinality(RowsIn(rest))
        BY <3>3, <4>4 DEF RowsSent
      <4>6. RowsSent(n) = db[n].received + (Cardinality(RowsIn(rest)) + m.rows)
        BY <4>1, <4>2 DEF RowsSent
      <4>. HIDE DEF rest
      <4>. QED
        BY <4>3, <4>5, <4>6
    <3>7. db'[n].total = db[n].total
      BY <1>1, <1>2, <1>3, <2>2
    <3>. QED
      BY <1>1, <3>1, <3>2, <3>3, <3>5, <3>6, <3>7 DEF SameJoin
  <2>. QED
    BY <2>1, <2>2
<1>. QED
  BY <1>1, <1>6, <1>7, SameJoinKept DEF NobodyEnded, NobodyRestarted

LEMMA MergeRoutingUpdateRows ==
  ASSUME IInv, RowsIInv, NEW th, MergeRoutingUpdate(th)
  PROVE  RowsIInv'
<1>. DEFINE k == th.at
            m == th.update
            leaves == IF m.terminal THEN {m.sender} \cup m.leaf ELSE {}
            D == [db[k] EXCEPT !.table = TableWith(k, @, m.entries),
                               !.neighbours = NeighboursWith(k, @, m.neighbours),
                               !.left = LeftWith(k, @, leaves),
                               !.right = RightWith(k, @, leaves),
                               !.total = IF m.terminal THEN m.prefix_match ELSE @]
            th2 == [th EXCEPT !.kind = "check"]
<1>1. /\ th \in threads /\ th.kind = "merge" /\ th \in UpdateThread
      /\ k \in Nodes /\ db \in [Nodes -> Database]
  BY ThreadTypes DEF MergeRoutingUpdate, IInv, GoodDatabases
<1>2. /\ threads' = (threads \ {th}) \cup {th2} /\ db' = [db EXCEPT ![k] = D]
      /\ UNCHANGED <<live, joined, quitting, restarts, msgs>>
  BY <1>1 DEF MergeRoutingUpdate
<1>3. /\ D.received = db[k].received
      /\ D.total = (IF m.terminal THEN m.prefix_match ELSE db[k].total)
  BY <1>1 DEF Database
<1>4. th2.kind = "check"
  BY <1>1 DEF UpdateThread
<1>. HIDE DEF D, th2
<1>. SUFFICES ASSUME NEW n \in Nodes, FirstLife(n)' PROVE Counted(n)' /\ Complete(n)'
  BY <1>2 DEF RowsIInv
<1>5. FirstLife(n)
  BY <1>2 DEF FirstLife
<1>6. Counted(n) /\ Complete(n)
  BY <1>5 DEF RowsIInv
<1>7. CASE n # k
  <2>1. OtherThread(n, th) /\ OtherThread(n, th2)
    BY <1>1, <1>4, <1>7 DEF OtherThread, JoinKinds
  <2>2. db'[n] = db[n]
    BY <1>1, <1>2, <1>7
  <2>3. SameJoin(n)
    BY <1>2, <2>1, <2>2, OthersKeepJoin
  <2>. QED
    BY <1>2, <1>6, <2>3, SameJoinKept DEF NobodyEnded, NobodyRestarted
<1>8. CASE n = k
  <2>1. JoinMessagesOf(n)' = JoinMessagesOf(n) /\ UpdatesTo(n)' = UpdatesTo(n)
    BY <1>2 DEF JoinMessagesOf, UpdatesTo
  <2>2. JoinThreadsOf(n)' = JoinThreadsOf(n)
    BY <1>1, <1>2, <1>4 DEF JoinThreadsOf, JoinKinds
  <2>3. MergesAt(n)' = MergesAt(n) \ {th} /\ th \in MergesAt(n)
    BY <1>1, <1>2, <1>4, <1>8 DEF MergesAt
  <2>4. TerminalUpdates(n)' \subseteq TerminalUpdates(n)
    BY <2>1, <2>3 DEF TerminalUpdates
  <2>5. RowsSent(n)' = RowsSent(n)
    BY <1>1, <1>2, <1>3, <1>8, <2>1 DEF RowsSent
  <2>6. Counted(n)'
    BY <1>2, <1>6, <2>1, <2>2, <2>4, <2>5, CountedShrinks
  <2>7. Complete(n)'
    <3>1. CASE m.terminal
      <4>1. m \in TerminalUpdates(n)
        BY <2>3, <3>1 DEF TerminalUpdates
      <4>2. m.prefix_match = RowsSent(n)
        BY <1>6, <4>1 DEF Counted
      <4>3. db'[n].total = RowsSent(n)'
        BY <1>1, <1>2, <1>3, <1>8, <2>5, <3>1, <4>2
      <4>. QED
        BY <4>3 DEF Complete
    <3>2. CASE ~ m.terminal
      <4>1. TerminalUpdates(n)' = TerminalUpdates(n)
        BY <2>1, <2>3, <3>2 DEF TerminalUpdates
      <4>2. db'[n].total = db[n].total
        BY <1>1, <1>2, <1>3, <1>8, <3>2
      <4>. QED
        BY <1>2, <1>6, <2>1, <2>2, <2>5, <4>1, <4>2 DEF Complete, JoinUnderWay, NobodyEnded, NobodyRestarted
    <3>. QED
      BY <3>1, <3>2
  <2>. QED
    BY <2>6, <2>7
<1>. QED
  BY <1>7, <1>8

\* Steps that send and handle announcements and departures, and repair tables.
LEMMA StepsBesideJoins ==
  ASSUME IInv, RowsIInv, UNCHANGED <<live, joined, restarts>>,
         \A m \in msgs' \cup msgs :
           (m \in msgs /\ m \in msgs') \/ m.type \in {"AllStateUpdate", "DeleteNode"},
         \A th \in threads' \cup threads :
           \/ th \in threads /\ th \in threads'
           \/ th.kind \in {"check", "left", "right", "neighbours", "table"},
         \A n \in Nodes : db'[n].received = db[n].received /\ db'[n].total = db[n].total
  PROVE  RowsIInv'
<1>. SUFFICES ASSUME NEW n \in Nodes, FirstLife(n)' PROVE Counted(n)' /\ Complete(n)'
  BY DEF RowsIInv
<1>1. Counted(n) /\ Complete(n)
  BY DEF RowsIInv, FirstLife
<1>2. \A m : m.type \in {"AllStateUpdate", "DeleteNode"} => OtherMessage(n, m)
  BY DEF OtherMessage
<1>3. \A th : th.kind \in {"check", "left", "right", "neighbours", "table"} => OtherThread(n, th)
  BY DEF OtherThread, JoinKinds
<1>4. SameJoin(n)
  BY <1>2, <1>3, OthersKeepJoin
<1>. QED
  BY <1>1, <1>4, SameJoinKept DEF NobodyEnded, NobodyRestarted

\* What one process does to its own tables leaves all counts alone.
LEMMA CountsKept ==
  ASSUME IInv, NEW k \in Nodes, NEW D, db' = [db EXCEPT ![k] = D],
         D.received = db[k].received, D.total = db[k].total
  PROVE  \A n \in Nodes : db'[n].received = db[n].received /\ db'[n].total = db[n].total
BY DEF IInv, GoodDatabases

LEMMA AddsKeepCounts ==
  ASSUME NEW n, NEW D \in Database, NEW S
  PROVE  /\ UpdateAllState(n, D, S).received = D.received
         /\ UpdateAllState(n, D, S).total = D.total
         /\ AddToLeafSet(n, D, S).received = D.received
         /\ AddToLeafSet(n, D, S).total = D.total
         /\ AddToNeighbourSet(n, D, S).received = D.received
         /\ AddToNeighbourSet(n, D, S).total = D.total
         /\ AddToRoutingTable(n, D, S).received = D.received
         /\ AddToRoutingTable(n, D, S).total = D.total
         /\ \A x : /\ DeleteNode(n, D, x).received = D.received
                  /\ DeleteNode(n, D, x).total = D.total
BY DEF Database, UpdateAllState, AddToLeafSet, AddToNeighbourSet, AddToRoutingTable, DeleteNode

LEMMA RepairThreadKinds ==
  ASSUME NEW n, NEW D, NEW x, NEW th \in RepairThreads(n, D, x)
  PROVE  th.kind \in {"check", "left", "right", "neighbours", "table"}
BY DEF RepairThreads

LEMMA LazyUpdatesRows ==
  ASSUME IInv, RowsIInv, NEW k \in Nodes, NEW x, HandleLazyUpdates(k, x),
         UNCHANGED <<live, joined, restarts>>,
         \A m \in msgs' \cup msgs :
           (m \in msgs /\ m \in msgs') \/ m.type \in {"AllStateUpdate", "DeleteNode"}
  PROVE  RowsIInv'
<1>1. db[k] \in Database
  BY DEF IInv, GoodDatabases
<1>2. \A n \in Nodes : db'[n].received = db[n].received /\ db'[n].total = db[n].total
  <2>. DEFINE D == DeleteNode(k, db[k], x)
  <2>1. D.received = db[k].received /\ D.total = db[k].total
    BY <1>1, AddsKeepCounts
  <2>2. db' = [db EXCEPT ![k] = D]
    BY DEF HandleLazyUpdates
  <2>. HIDE DEF D
  <2>. QED
    BY <2>1, <2>2, CountsKept
<1>3. threads' = threads \cup RepairThreads(k, db[k], x)
  BY DEF HandleLazyUpdates
<1>. QED
  BY <1>2, <1>3, RepairThreadKinds, StepsBesideJoins

LEMMA QuitRows ==
  ASSUME IInv, RowsIInv, NEW n \in Nodes, Quit(n)
  PROVE  RowsIInv'
<1>1. \A m \in msgs' : m \in msgs \/ m.type = "DeleteNode"
  BY DEF Quit, Reachable
<1>2. msgs \subseteq msgs' /\ UNCHANGED <<live, joined, restarts, db, threads>>
  BY DEF Quit
<1>. QED
  BY <1>1, <1>2, StepsBesideJoins

LEMMA HandleDeleteNodeRows ==
  ASSUME IInv, RowsIInv, NEW m, HandleDeleteNode(m)
  PROVE  RowsIInv'
<1>1. m.to \in Nodes
  BY MessageTypes DEF IInv, HandleDeleteNode
<1>2. /\ HandleLazyUpdates(m.to, m.node) /\ UNCHANGED <<live, joined, restarts>>
      /\ msgs' = msgs \ {m} /\ m.type = "DeleteNode"
  BY DEF HandleDeleteNode
<1>. QED
  BY <1>1, <1>2, LazyUpdatesRows

LEMMA TimerRepairRows ==
  ASSUME IInv, RowsIInv, NEW n \in Nodes, NEW x \in Nodes, TimerRepair(n, x)
  PROVE  RowsIInv'
BY LazyUpdatesRows DEF TimerRepair

LEMMA HandleAllStateUpdateRows ==
  ASSUME IInv, RowsIInv, NEW m, HandleAllStateUpdate(m)
  PROVE  RowsIInv'
<1>. DEFINE D == UpdateAllState(m.to, db[m.to], {m.sender} \cup m.nodes)
<1>1. m.to \in Nodes /\ db[m.to] \in Database
  BY MessageTypes DEF IInv, HandleAllStateUpdate, GoodDatabases
<1>2. D.received = db[m.to].received /\ D.total = db[m.to].total
  BY <1>1, AddsKeepCounts
<1>3. db' = [db EXCEPT ![m.to] = D]
  BY DEF HandleAllStateUpdate
<1>4. \A n \in Nodes : db'[n].received = db[n].received /\ db'[n].total = db[n].total
  <2>. HIDE DEF D
  <2>. QED
    BY <1>1, <1>2, <1>3, CountsKept
<1>5. /\ msgs' = msgs \ {m} /\ m.type = "AllStateUpdate"
      /\ UNCHANGED <<live, joined, restarts, threads>>
  BY DEF HandleAllStateUpdate
<1>. QED
  BY <1>4, <1>5, StepsBesideJoins

LEMMA CheckRoutingUpdateRows ==
  ASSUME IInv, RowsIInv, NEW th, CheckRoutingUpdate(th)
  PROVE  RowsIInv'
<1>1. \A m \in StateUpdates(th.at) : m.type = "AllStateUpdate"
  BY DEF StateUpdates, Reachable
<1>2. /\ msgs \subseteq msgs' /\ \A m \in msgs' : m \in msgs \/ m.type = "AllStateUpdate"
      /\ threads' = threads \ {th} /\ th.kind = "check"
      /\ UNCHANGED <<live, joined, restarts, db>>
  BY <1>1 DEF CheckRoutingUpdate
<1>. QED
  BY <1>2, StepsBesideJoins

\* A repair thread that asked a node, and one that stops.
LEMMA RepairStepRows ==
  ASSUME IInv, RowsIInv, NEW k \in Nodes, NEW D, db' = [db EXCEPT ![k] = D],
         D.received = db[k].received, D.total = db[k].total,
         NEW th, NEW found, NEW th2, AfterAnswer(th, found, th2), th2.kind = th.kind,
         th.kind \in {"left", "right", "neighbours", "table"},
         UNCHANGED <<live, joined, quitting, restarts, msgs>>
  PROVE  RowsIInv'
<1>1. \A n \in Nodes : db'[n].received = db[n].received /\ db'[n].total = db[n].total
  BY CountsKept
<1>2. \A r \in threads' \cup threads : (r \in threads /\ r \in threads') \/ r.kind = th.kind
  BY DEF AfterAnswer
<1>. QED
  BY <1>1, <1>2, StepsBesideJoins

LEMMA StopRepairRows ==
  ASSUME IInv, RowsIInv, NEW th, StopRepair(th),
         th.kind \in {"left", "right", "neighbours", "table"}
  PROVE  RowsIInv'
BY StepsBesideJoins DEF StopRepair

LEMMA RepairLeafSetRows ==
  ASSUME IInv, RowsIInv, NEW th, RepairLeafSet(th)
  PROVE  RowsIInv'
<1>1. th \in RepairThread /\ th.at \in Nodes /\ db[th.at] \in Database
  BY ThreadTypes DEF IInv, RepairLeafSet, GoodDatabases
<1>2. th.kind \in {"left", "right", "neighbours", "table"}
  BY DEF RepairLeafSet
<1>3. CASE StopRepair(th)
  BY <1>2, <1>3, StopRepairRows
<1>4. ASSUME NEW x, NEW found,
             db' = [db EXCEPT ![th.at] = AddToLeafSet(th.at, db[th.at], found)],
             AfterAnswer(th, found, [th EXCEPT !.last = x]),
             UNCHANGED <<live, joined, quitting, restarts, msgs>>
      PROVE  RowsIInv'
  <2>1. /\ AddToLeafSet(th.at, db[th.at], found).received = db[th.at].received
        /\ AddToLeafSet(th.at, db[th.at], found).total = db[th.at].total
    BY <1>1, AddsKeepCounts
  <2>2. [th EXCEPT !.last = x].kind = th.kind
    BY <1>1 DEF RepairThread
  <2>. QED
    BY <1>1, <1>2, <1>4, <2>1, <2>2, RepairStepRows
<1>. QED
  BY <1>3, <1>4 DEF RepairLeafSet

LEMMA RepairNeighbourSetRows ==
  ASSUME IInv, RowsIInv, NEW th, RepairNeighbourSet(th)
  PROVE  RowsIInv'
<1>1. th \in RepairThread /\ th.at \in Nodes /\ db[th.at] \in Database
  BY ThreadTypes DEF IInv, RepairNeighbourSet, GoodDatabases
<1>2. th.kind \in {"left", "right", "neighbours", "table"}
  BY DEF RepairNeighbourSet
<1>3. CASE StopRepair(th)
  BY <1>2, <1>3, StopRepairRows
<1>4. ASSUME NEW x, NEW found,
             db' = [db EXCEPT ![th.at] = AddToNeighbourSet(th.at, db[th.at], found)],
             AfterAnswer(th, found, [th EXCEPT !.last = x]),
             UNCHANGED <<live, joined, quitting, restarts, msgs>>
      PROVE  RowsIInv'
  <2>1. /\ AddToNeighbourSet(th.at, db[th.at], found).received = db[th.at].received
        /\ AddToNeighbourSet(th.at, db[th.at], found).total = db[th.at].total
    BY <1>1, AddsKeepCounts
  <2>2. [th EXCEPT !.last = x].kind = th.kind
    BY <1>1 DEF RepairThread
  <2>. QED
    BY <1>1, <1>2, <1>4, <2>1, <2>2, RepairStepRows
<1>. QED
  BY <1>3, <1>4 DEF RepairNeighbourSet

LEMMA RepairRoutingTableRows ==
  ASSUME IInv, RowsIInv, NEW th, RepairRoutingTable(th)
  PROVE  RowsIInv'
<1>1. th \in RepairTableThread /\ th.at \in Nodes /\ db[th.at] \in Database
  BY ThreadTypes DEF IInv, RepairRoutingTable, GoodDatabases
<1>2. th.kind \in {"left", "right", "neighbours", "table"}
  BY DEF RepairRoutingTable
<1>3. CASE StopRepair(th)
  BY <1>2, <1>3, StopRepairRows
<1>4. ASSUME NEW x, NEW found,
             db' = [db EXCEPT ![th.at] = AddToRoutingTable(th.at, db[th.at], found)],
             AfterAnswer(th, found, [th EXCEPT !.ask = th.ask \ {x}]),
             UNCHANGED <<live, joined, quitting, restarts, msgs>>
      PROVE  RowsIInv'
  <2>1. /\ AddToRoutingTable(th.at, db[th.at], found).received = db[th.at].received
        /\ AddToRoutingTable(th.at, db[th.at], found).total = db[th.at].total
    BY <1>1, AddsKeepCounts
  <2>2. [th EXCEPT !.ask = th.ask \ {x}].kind = th.kind
    BY <1>1 DEF RepairTableThread
  <2>. QED
    BY <1>1, <1>2, <1>4, <2>1, <2>2, RepairStepRows
<1>. QED
  BY <1>3, <1>4 DEF RepairRoutingTable

LEMMA RestartRows ==
  ASSUME IInv, RowsIInv, NEW k \in Nodes, Restart(k)
  PROVE  RowsIInv'
<1>1. /\ restarts' = [restarts EXCEPT ![k] = @ + 1] /\ restarts \in [Nodes -> Nat]
      /\ live' = live \cup {k} /\ k \notin live
      /\ db' = [db EXCEPT ![k] = EmptyDatabase] /\ UNCHANGED <<joined, msgs, threads>>
  BY DEF Restart, IInv, GoodProcesses
<1>2. joined' \subseteq live'
  BY <1>1 DEF RowsIInv
<1>. SUFFICES ASSUME NEW n \in Nodes, FirstLife(n)' PROVE Counted(n)' /\ Complete(n)'
  BY <1>2 DEF RowsIInv
<1>3. n # k /\ ~ NobodyEnded'
  BY <1>1 DEF FirstLife, NobodyEnded, NobodyRestarted
<1>4. Counted(n) /\ Complete(n)
  BY <1>1, <1>3 DEF RowsIInv, FirstLife
<1>5. db'[n] = db[n]
  BY <1>1, <1>3 DEF IInv, GoodDatabases
<1>6. SameJoin(n)
  BY <1>1, <1>5, OthersKeepJoin
<1>. QED
  BY <1>3, <1>4, <1>6, SameJoinKept
-----------------------------------------------------------------------------
LEMMA RowsIInvStep == IInv /\ RowsIInv /\ [Next]_vars => RowsIInv'
<1>. SUFFICES ASSUME IInv, RowsIInv, [Next]_vars PROVE RowsIInv'
  OBVIOUS
<1>1. CASE UNCHANGED vars
  BY <1>1, StepsBesideJoins DEF vars
<1>2. ASSUME NEW n \in Nodes, Environment(n) PROVE RowsIInv'
  BY <1>2, QuitRows, EndKeepsRows, RestartRows, JoinCommandRows DEF Environment, Crash
<1>3. ASSUME NEW m, HandleMessage(m) PROVE RowsIInv'
  <2>1. CASE HandleOwnJoin(m)
    <3>1. m.to \in Nodes
      BY <2>1, MessageTypes DEF HandleOwnJoin, IInv
    <3>. QED
      BY <2>1, <3>1, EndKeepsRows DEF HandleOwnJoin
  <2>. QED
    BY <1>3, <2>1, JoinHandlerRows, HandleRoutingUpdateRows, HandleAllStateUpdateRows,
       HandleDeleteNodeRows DEF HandleMessage
<1>4. ASSUME NEW th, RunThread(th) PROVE RowsIInv'
  BY <1>4, ForwardJoinRows, RetryJoinRows, AnswerJoinRows, MergeRoutingUpdateRows,
     CheckRoutingUpdateRows, RepairLeafSetRows, RepairNeighbourSetRows,
     RepairRoutingTableRows DEF RunThread
<1>5. ASSUME NEW n \in Nodes, Process(n) PROVE RowsIInv'
  BY <1>3, <1>4, <1>5, TimerRepairRows, EndKeepsRows DEF Process, Exit
<1>. QED
  BY <1>1, <1>2, <1>5 DEF Next

\* The rows of a join are handed out once and without a gap (peerMessageHandler.cpp:
\* 131-144, 262-276, 301-327), whatever the order of the updates, the retries
\* along the route, and the crashes and departures of others.
THEOREM RowsAccountedHolds == Spec => []RowsAccounted
BY IInvInit, IInvStep, RowsIInvInit, RowsIInvStep, RowsIInvImplies, PTL DEF Spec

\* When nothing is under way and nobody has ended, every process that has joined
\* has counted exactly the rows it waits for (peerMessageHandler.cpp:352): the
\* test for equality that starts its announcement was met.
THEOREM CountsCompleteHolds == Spec => []CountsComplete
BY IInvInit, IInvStep, RowsIInvInit, RowsIInvStep, RowsIInvImplies, PTL DEF Spec
-----------------------------------------------------------------------------
(***************************************************************************)
(* JoinsAnnounced.  A join ends with the announcement of the newcomer      *)
(* (handleRoutingUpdateRequest, peerMessageHandler.cpp:352): what relates  *)
(* two processes is what is still under way between them.                  *)
(***************************************************************************)
\* The handlers of the RoutingUpdates of n that are running.
UpdateThreadsAt(n) == {th \in threads : th.kind \in {"merge", "check"} /\ th.at = n}

\* Something of the join of n is under way, before its announcement.
Joining(n) == JoinUnderWay(n) \/ UpdatesTo(n) # {} \/ UpdateThreadsAt(n) # {}

\* The announcement of n is on its way to x.
Announced(n, x) == \E m \in msgs : m.type = "AllStateUpdate" /\ m.sender = n /\ m.to = x

\* Nothing is deleted or repaired.
OnlyJoins ==
  /\ \A m \in msgs : m.type # "DeleteNode"
  /\ \A th \in threads : th.kind \in JoinKinds \cup {"merge", "check"}

\* Whoever n knows has it for a neighbour, or is to hear from it, or n has
\* not finished its join.
AllTold ==
  /\ OnlyJoins
  /\ \A n \in Nodes : Joining(n) => n \in joined
  /\ \A n \in Nodes : \A x \in Known(db[n]) :
       x \in db[n].neighbours \/ n \in db[x].neighbours \/ Announced(n, x) \/ Joining(n)

ToldIInv == NobodyLeft => AllTold

LEMMA ToldIInvImplies == ToldIInv => JoinsAnnounced
<1>. SUFFICES ASSUME ToldIInv, Settled, NobodyLeft, NEW n \in Nodes, NEW x \in Known(db[n])
              PROVE  x \in db[n].neighbours \/ n \in db[x].neighbours
  BY DEF JoinsAnnounced
<1>1. ~ Joining(n) /\ ~ Announced(n, x)
  BY DEF Settled, Joining, JoinUnderWay, JoinMessagesOf, JoinThreadsOf, UpdatesTo,
         UpdateThreadsAt, Announced
<1>. QED
  BY <1>1 DEF ToldIInv, AllTold

LEMMA ToldIInvInit == Init => ToldIInv
<1>. SUFFICES ASSUME Init PROVE AllTold
  BY DEF ToldIInv
<1>1. \A n \in Nodes : ~ Joining(n)
  BY DEF Init, Joining, JoinUnderWay, JoinMessagesOf, JoinThreadsOf, UpdatesTo, UpdateThreadsAt
<1>2. \A n \in Nodes : Known(db[n]) = {}
  BY DEF Init, EmptyDatabase, Known, Leaves, TableEntries, RowEntries
<1>. QED
  BY <1>1, <1>2 DEF Init, AllTold, OnlyJoins

\* The messages and threads of the join of t.
JoinTraffic(t, m) ==
  \/ m.type \in {"JoinMe", "Join"} /\ m.newcomer = t
  \/ m.type = "RoutingUpdate" /\ m.to = t

ThreadTraffic(t, th) ==
  \/ th.kind \in JoinKinds /\ th.update.to = t
  \/ th.kind \in {"merge", "check"} /\ th.at = t

\* A step with which the join of t goes on.
LEMMA JoinGoesOn ==
  ASSUME IInv, AllTold, NEW t \in joined', Joining(t)', joined \subseteq joined',
         \A n \in Nodes : db[n].neighbours \subseteq db'[n].neighbours,
         \A n \in Nodes : n = t \/ db'[n] = db[n],
         \A m \in msgs' \cup msgs : (m \in msgs' /\ m \in msgs) \/ JoinTraffic(t, m),
         \A th \in threads' \cup threads :
           (th \in threads' /\ th \in threads) \/ ThreadTraffic(t, th)
  PROVE  AllTold'
<1>1. OnlyJoins'
  BY DEF AllTold, OnlyJoins, JoinTraffic, ThreadTraffic
<1>2. ASSUME NEW n \in Nodes, n # t PROVE Joining(n)' <=> Joining(n)
  <2>1. JoinMessagesOf(n)' = JoinMessagesOf(n)
    BY <1>2 DEF JoinMessagesOf, JoinTraffic
  <2>2. JoinThreadsOf(n)' = JoinThreadsOf(n)
    BY <1>2 DEF JoinThreadsOf, ThreadTraffic, JoinKinds
  <2>3. UpdatesTo(n)' = UpdatesTo(n)
    BY <1>2 DEF UpdatesTo, JoinTraffic
  <2>4. UpdateThreadsAt(n)' = UpdateThreadsAt(n)
    BY <1>2 DEF UpdateThreadsAt, ThreadTraffic, JoinKinds
  <2>. QED
    BY <2>1, <2>2, <2>3, <2>4 DEF Joining, JoinUnderWay
<1>3. \A n, x \in Nodes : Announced(n, x) => Announced(n, x)'
  BY DEF Announced, JoinTraffic
<1>4. \A n \in Nodes : Joining(n) => n \in joined
  BY DEF AllTold
<1>5. \A n \in Nodes : Joining(n)' => n \in joined'
  BY <1>2, <1>4
<1>6. ASSUME NEW n \in Nodes, n # t, NEW x \in Known(db[n])
      PROVE  x \in db'[n].neighbours \/ n \in db'[x].neighbours \/ Announced(n, x)' \/ Joining(n)'
  <2>1. x \in db[n].neighbours \/ n \in db[x].neighbours \/ Announced(n, x) \/ Joining(n)
    BY DEF AllTold
  <2>2. Announced(n, x) => Announced(n, x)'
    BY DEF Announced, JoinTraffic
  <2>3. x \in Nodes
    BY KnownAreOthers DEF IInv, GoodDatabases
  <2>. QED
    BY <1>2, <1>6, <2>1, <2>2, <2>3
<1>7. \A n \in Nodes : Known(db'[n]) = Known(db[n]) \/ n = t
  OBVIOUS
<1>. QED
  BY <1>1, <1>5, <1>6, <1>7 DEF AllTold

LEMMA JoinCommandTold ==
  ASSUME IInv, AllTold, NEW n \in Nodes, NEW b \in Nodes, JoinCommand(n, b)
  PROVE  AllTold'
<1>. DEFINE m == [type |-> "JoinMe", to |-> b, newcomer |-> n]
<1>1. /\ msgs' = msgs \cup {m} /\ joined' = joined \cup {n}
      /\ UNCHANGED <<db, threads>>
  BY DEF JoinCommand
<1>2. JoinTraffic(n, m) /\ m \in JoinMessagesOf(n)'
  BY <1>1 DEF JoinTraffic, JoinMessagesOf
<1>3. Joining(n)'
  BY <1>2 DEF Joining, JoinUnderWay
<1>. QED
  <2>. HIDE DEF m
  <2>. QED
    BY <1>1, <1>2, <1>3, JoinGoesOn

\* The handler a JoinMe or a Join starts: what it takes from the tables.
LEMMA HandlerStarts ==
  ASSUME IInv, NEW m, HandleJoinMe(m) \/ HandleJoin(m)
  PROVE  /\ m \in msgs /\ m.type \in {"JoinMe", "Join"} /\ msgs' = msgs \ {m}
         /\ m.to \in Nodes /\ m.newcomer \in Nodes /\ m.newcomer # m.to
         /\ UNCHANGED <<live, joined, quitting, restarts, db>>
         /\ \E th : /\ threads' = threads \cup {th}
                    /\ th.kind = (IF m.type = "JoinMe" THEN "joinMe" ELSE "join")
                    /\ th.at = m.to
                    /\ th.next \in NextRoutingNodes(m.to, db[m.to], m.newcomer)
                    /\ th.update.to = m.newcomer /\ th.update.sender = m.to
                    /\ th.update.entries \subseteq TableEntries(db[m.to])
                    /\ th.update.neighbours = (IF m.type = "JoinMe" THEN db[m.to].neighbours ELSE {})
                    /\ th.update.leaf = {}
<1>. DEFINE n == m.to
            t == m.newcomer
            p == PrefixMatchLen(t, n)
<1>1. m \in msgs /\ n \in Nodes /\ t \in Nodes /\ n # t
  BY MessageTypes DEF IInv, HandleJoinMe, HandleJoin, JoinMessage, JoinMeMessage, GoodMessage
<1>2. p \in 0 .. Rows - 1
  BY <1>1, PrefixOfDifferent, NodesAssumption
<1>3. ASSUME NEW first \in Nat, NEW q
      PROVE  /\ RowsUpdate(n, t, first, p, q).entries \subseteq TableEntries(db[n])
             /\ RowsUpdate(n, t, first, p, q).to = t /\ RowsUpdate(n, t, first, p, q).sender = n
             /\ RowsUpdate(n, t, first, p, q).neighbours = {}
             /\ RowsUpdate(n, t, first, p, q).leaf = {}
  <2>1. first .. p \subseteq Row
    BY <1>2, RowsAssumption DEF Row
  <2>. HIDE DEF p, n, t
  <2>2. UNION {RowEntries(db[n], r) : r \in first .. p} \subseteq TableEntries(db[n])
    BY <2>1 DEF TableEntries
  <2>. QED
    BY <2>2 DEF RowsUpdate
<1>4. CASE HandleJoinMe(m)
  <2>. DEFINE r == RowsUpdate(n, t, 0, p, p + 1)
              update == [r EXCEPT !.neighbours = db[n].neighbours]
  <2>1. PICK next \in NextRoutingNodes(n, db[n], t) :
          threads' = threads \cup
            {[kind |-> "joinMe", at |-> n, next |-> next, row |-> p + 1, update |-> update]}
    BY <1>4 DEF HandleJoinMe
  <2>2. /\ update.entries = r.entries /\ update.to = r.to /\ update.sender = r.sender
        /\ update.leaf = r.leaf /\ update.neighbours = db[n].neighbours
    BY DEF RowsUpdate
  <2>3. r.entries \subseteq TableEntries(db[n]) /\ r.to = t /\ r.sender = n /\ r.leaf = {}
    BY <1>3
  <2>4. m.type = "JoinMe" /\ msgs' = msgs \ {m} /\ UNCHANGED <<live, joined, quitting, restarts, db>>
    BY <1>4 DEF HandleJoinMe
  <2>. DEFINE th == [kind |-> "joinMe", at |-> n, next |-> next, row |-> p + 1, update |-> update]
  <2>5. /\ th.kind = "joinMe" /\ th.at = n /\ th.next = next /\ th.update = update
        /\ threads' = threads \cup {th}
    BY <2>1
  <2>. HIDE DEF update, r, p, th
  <2>. QED
    BY <1>1, <2>1, <2>2, <2>3, <2>4, <2>5
<1>5. CASE HandleJoin(m)
  <2>. DEFINE update == RowsUpdate(n, t, m.row_index, p, Larger(p + 1, m.row_index))
  <2>1. PICK next \in NextRoutingNodes(n, db[n], t) :
          threads' = threads \cup
            {[kind |-> "join", at |-> n, next |-> next, row |-> p + 1, update |-> update]}
    BY <1>5 DEF HandleJoin
  <2>2. m.row_index \in Nat
    BY <1>1, <1>5, MessageTypes, RowsAssumption DEF IInv, HandleJoin, JoinMessage
  <2>3. /\ update.entries \subseteq TableEntries(db[n]) /\ update.to = t /\ update.sender = n
        /\ update.leaf = {} /\ update.neighbours = {}
    BY <1>3, <2>2
  <2>4. m.type = "Join" /\ msgs' = msgs \ {m} /\ UNCHANGED <<live, joined, quitting, restarts, db>>
    BY <1>5 DEF HandleJoin
  <2>. DEFINE th == [kind |-> "join", at |-> n, next |-> next, row |-> p + 1, update |-> update]
  <2>5. /\ th.kind = "join" /\ th.at = n /\ th.next = next /\ th.update = update
        /\ threads' = threads \cup {th}
    BY <2>1
  <2>. HIDE DEF update, p, th
  <2>. QED
    BY <1>1, <2>1, <2>3, <2>4, <2>5
<1>. QED
  BY <1>4, <1>5

LEMMA JoinHandlerTold ==
  ASSUME IInv, AllTold, NEW m, HandleJoinMe(m) \/ HandleJoin(m)
  PROVE  AllTold'
<1>. DEFINE t == m.newcomer
<1>1. /\ m \in msgs /\ m.type \in {"JoinMe", "Join"} /\ msgs' = msgs \ {m}
      /\ UNCHANGED <<joined, db>>
  BY HandlerStarts
<1>2. t \in Nodes
  BY HandlerStarts
<1>3. PICK th : threads' = threads \cup {th} /\ th.kind \in JoinKinds /\ th.update.to = t
  BY HandlerStarts DEF JoinKinds
<1>4. /\ JoinTraffic(t, m) /\ m \in JoinMessagesOf(t)
      /\ ThreadTraffic(t, th) /\ th \in JoinThreadsOf(t)'
  BY <1>1, <1>3 DEF JoinTraffic, JoinMessagesOf, ThreadTraffic, JoinThreadsOf
<1>5. Joining(t) /\ Joining(t)'
  BY <1>4 DEF Joining, JoinUnderWay
<1>6. t \in joined'
  BY <1>1, <1>2, <1>5 DEF AllTold
<1>. QED
  BY <1>1, <1>3, <1>4, <1>5, <1>6, JoinGoesOn

\* A handler forwards the Join, or answers it: the newcomer is running.
LEMMA JoinThreadTold ==
  ASSUME IInv, AllTold, live = Nodes, NEW th, ForwardJoin(th) \/ AnswerJoin(th)
  PROVE  AllTold'
<1>. DEFINE t == th.update.to
            join == [type |-> "Join", to |-> th.next, sender |-> th.at,
                     newcomer |-> th.update.to, row_index |-> th.row]
            answer == [Signed(th) EXCEPT !.terminal = TRUE, !.leaf = Leaves(db[th.at])]
<1>1. th \in threads /\ th.kind \in JoinKinds /\ threads' = threads \ {th} /\ UNCHANGED <<joined, db>>
  BY DEF ForwardJoin, AnswerJoin
<1>2. /\ t \in Nodes /\ th.next \in Nodes /\ Signed(th) \in RoutingUpdateMessage
      /\ th.update \in RoutingUpdateMessage
  BY <1>1, JoinThreadFields DEF IInv
<1>3. Signed(th).to = t /\ Signed(th).type = "RoutingUpdate"
  BY <1>2 DEF Signed, RoutingUpdateMessage
<1>4. answer.to = t /\ answer.type = "RoutingUpdate"
  BY <1>2, <1>3 DEF RoutingUpdateMessage
<1>5. JoinTraffic(t, join) /\ JoinTraffic(t, Signed(th)) /\ JoinTraffic(t, answer)
  BY <1>3, <1>4 DEF JoinTraffic
<1>6. Joining(t) /\ ThreadTraffic(t, th)
  <2>1. th \in JoinThreadsOf(t) /\ ThreadTraffic(t, th)
    BY <1>1 DEF JoinThreadsOf, ThreadTraffic
  <2>. QED
    BY <2>1 DEF Joining, JoinUnderWay
<1>7. t \in joined'
  BY <1>1, <1>2, <1>6 DEF AllTold
<1>8. CASE ForwardJoin(th)
  <2>1. msgs' = msgs \cup {join, Signed(th)}
    BY <1>2, <1>3, <1>8 DEF ForwardJoin, Reachable
  <2>2. join \in JoinMessagesOf(t)'
    BY <2>1 DEF JoinMessagesOf
  <2>3. Joining(t)'
    BY <2>2 DEF Joining, JoinUnderWay
  <2>. HIDE DEF join
  <2>. QED
    BY <1>1, <1>5, <1>6, <1>7, <2>1, <2>3, JoinGoesOn
<1>9. CASE AnswerJoin(th)
  <2>1. msgs' = msgs \cup {answer}
    <3>1. msgs' = msgs \cup Reachable({answer})
      BY <1>9 DEF AnswerJoin
    <3>. HIDE DEF answer
    <3>. QED
      BY <1>2, <1>4, <3>1 DEF Reachable
  <2>2. answer \in UpdatesTo(t)'
    BY <1>4, <2>1 DEF UpdatesTo
  <2>3. Joining(t)'
    BY <2>2 DEF Joining
  <2>. HIDE DEF answer
  <2>. QED
    BY <1>1, <1>5, <1>6, <1>7, <2>1, <2>3, JoinGoesOn
<1>. QED
  BY <1>8, <1>9

\* A RoutingUpdate is handled: its handler goes on.
LEMMA UpdateTold ==
  ASSUME SmallOverlay, IInv, AllTold, NEW m, HandleRoutingUpdate(m)
  PROVE  AllTold'
<1>. DEFINE k == m.to
            U == UpdateAllState(k, db[k], {m.sender})
            D == [U EXCEPT !.received = U.received + m.rows]
            th == [kind |-> "merge", at |-> k, update |-> m]
<1>1. /\ m \in msgs /\ m.type = "RoutingUpdate" /\ msgs' = msgs \ {m}
      /\ threads' = threads \cup {th} /\ db' = [db EXCEPT ![k] = D]
      /\ UNCHANGED <<live, joined, quitting, restarts>>
  BY DEF HandleRoutingUpdate
<1>2. /\ k \in Nodes /\ m.sender \in Nodes /\ GoodDatabase(k, db[k]) /\ db \in [Nodes -> Database]
  BY <1>1, MessageTypes DEF IInv, RoutingUpdateMessage, GoodDatabases
<1>3. U.neighbours = db[k].neighbours \cup ({m.sender} \ {k})
  BY <1>2, KnownAdded
<1>4. D.neighbours = U.neighbours
  BY <1>2 DEF UpdateAllState, Database, GoodDatabase
<1>5. th.kind = "merge" /\ th.at = k
  OBVIOUS
<1>. HIDE DEF D, th, U
<1>6. /\ m \in UpdatesTo(k) /\ th \in UpdateThreadsAt(k)'
      /\ JoinTraffic(k, m) /\ ThreadTraffic(k, th)
  BY <1>1, <1>5 DEF UpdatesTo, UpdateThreadsAt, JoinTraffic, ThreadTraffic
<1>7. Joining(k) /\ Joining(k)'
  BY <1>6 DEF Joining
<1>8. k \in joined'
  BY <1>1, <1>2, <1>7 DEF AllTold
<1>9. /\ \A n \in Nodes : db[n].neighbours \subseteq db'[n].neighbours
      /\ \A n \in Nodes : n = k \/ db'[n] = db[n]
  BY <1>1, <1>2, <1>3, <1>4
<1>. QED
  BY <1>1, <1>6, <1>7, <1>8, <1>9, JoinGoesOn

LEMMA MergeTold ==
  ASSUME SmallOverlay, IInv, AllTold, NEW th, MergeRoutingUpdate(th)
  PROVE  AllTold'
<1>. DEFINE k == th.at
            m == th.update
            leaves == IF m.terminal THEN {m.sender} \cup m.leaf ELSE {}
            D == [db[k] EXCEPT !.table = TableWith(k, @, m.entries),
                               !.neighbours = NeighboursWith(k, @, m.neighbours),
                               !.left = LeftWith(k, @, leaves),
                               !.right = RightWith(k, @, leaves),
                               !.total = IF m.terminal THEN m.prefix_match ELSE @]
            th2 == [th EXCEPT !.kind = "check"]
<1>1. /\ th \in threads /\ th.kind = "merge" /\ th \in UpdateThread
      /\ k \in Nodes /\ db \in [Nodes -> Database] /\ GoodDatabase(k, db[k])
      /\ m.neighbours \in SUBSET Nodes
  BY ThreadTypes DEF MergeRoutingUpdate, IInv, GoodDatabases, UpdateThread, RoutingUpdateMessage
<1>2. /\ threads' = (threads \ {th}) \cup {th2} /\ db' = [db EXCEPT ![k] = D]
      /\ UNCHANGED <<live, joined, quitting, restarts, msgs>>
  BY <1>1 DEF MergeRoutingUpdate
<1>3. D.neighbours = db[k].neighbours \cup (m.neighbours \ {k})
  <2>1. D.neighbours = NeighboursWith(k, db[k].neighbours, m.neighbours)
    BY <1>1 DEF Database
  <2>2. db[k].neighbours \in SUBSET Nodes /\ k \notin db[k].neighbours
    BY <1>1 DEF GoodDatabase, Placed, Database
  <2>. QED
    BY <1>1, <2>1, <2>2, NeighboursAll
<1>4. th2.kind = "check" /\ th2.at = k
  BY <1>1 DEF UpdateThread
<1>. HIDE DEF D, th2
<1>5. /\ th \in UpdateThreadsAt(k) /\ th2 \in UpdateThreadsAt(k)'
      /\ ThreadTraffic(k, th) /\ ThreadTraffic(k, th2)
  BY <1>1, <1>2, <1>4 DEF UpdateThreadsAt, ThreadTraffic
<1>6. Joining(k) /\ Joining(k)'
  BY <1>5 DEF Joining
<1>7. k \in joined'
  BY <1>1, <1>2, <1>6 DEF AllTold
<1>8. /\ \A n \in Nodes : db[n].neighbours \subseteq db'[n].neighbours
      /\ \A n \in Nodes : n = k \/ db'[n] = db[n]
  BY <1>1, <1>2, <1>3
<1>. QED
  BY <1>2, <1>5, <1>6, <1>7, <1>8, JoinGoesOn

\* The last handler of a join sends the announcement: its rows are complete.
LEMMA LastCheckAnnounces ==
  ASSUME IInv, RowsIInv, NobodyLeft, AllTold, NEW th, CheckRoutingUpdate(th), ~ Joining(th.at)'
  PROVE  msgs' = msgs \cup StateUpdates(th.at)
<1>. DEFINE k == th.at
<1>1. th \in threads /\ th.kind = "check" /\ k \in Nodes
  BY ThreadTypes DEF CheckRoutingUpdate, IInv
<1>2. /\ msgs' = msgs \cup (IF db[k].received = db[k].total THEN StateUpdates(k) ELSE {})
      /\ threads' = threads \ {th} /\ UNCHANGED <<live, joined, quitting, restarts, db>>
  BY DEF CheckRoutingUpdate
<1>3. \A m \in StateUpdates(k) : m.type = "AllStateUpdate"
  BY DEF StateUpdates, Reachable
<1>4. JoinMessagesOf(k) = {} /\ JoinThreadsOf(k) = {} /\ UpdatesTo(k) = {} /\ MergesAt(k) = {}
  <2>1. /\ JoinMessagesOf(k)' = {} /\ JoinThreadsOf(k)' = {} /\ UpdatesTo(k)' = {}
        /\ UpdateThreadsAt(k)' = {}
    BY DEF Joining, JoinUnderWay
  <2>2. JoinMessagesOf(k) = {} /\ UpdatesTo(k) = {}
    BY <1>2, <2>1 DEF JoinMessagesOf, UpdatesTo
  <2>3. JoinThreadsOf(k) = {}
    BY <1>1, <1>2, <2>1 DEF JoinThreadsOf, JoinKinds
  <2>4. MergesAt(k) = {}
    BY <1>1, <1>2, <2>1 DEF UpdateThreadsAt, MergesAt
  <2>. QED
    BY <2>2, <2>3, <2>4
<1>5. TerminalUpdates(k) = {} /\ ~ JoinUnderWay(k)
  BY <1>4 DEF TerminalUpdates, JoinUnderWay
<1>6. k \in joined
  <2>1. th \in UpdateThreadsAt(k)
    BY <1>1 DEF UpdateThreadsAt
  <2>. QED
    BY <1>1, <2>1 DEF AllTold, Joining
<1>7. Complete(k)
  BY <1>1 DEF RowsIInv, FirstLife, NobodyLeft, NobodyEnded, NobodyRestarted
<1>8. db[k].total = RowsSent(k)
  BY <1>5, <1>6, <1>7 DEF Complete, NobodyLeft
<1>9. RowsSent(k) = db[k].received
  <2>1. db[k].received \in Nat
    BY <1>1 DEF IInv, GoodDatabases, Database
  <2>. QED
    BY <1>4, <2>1, RowsInEmpty DEF RowsSent
<1>. QED
  BY <1>2, <1>8, <1>9

LEMMA CheckTold ==
  ASSUME IInv, RowsIInv, NobodyLeft, AllTold, NEW th, CheckRoutingUpdate(th)
  PROVE  AllTold'
<1>. DEFINE k == th.at
<1>1. th \in threads /\ th.kind = "check" /\ k \in Nodes
  BY ThreadTypes DEF CheckRoutingUpdate, IInv
<1>2. /\ msgs \subseteq msgs' /\ \A m \in msgs' : m \in msgs \/ m.type = "AllStateUpdate"
      /\ threads' = threads \ {th} /\ UNCHANGED <<live, joined, quitting, restarts, db>>
  BY DEF CheckRoutingUpdate, StateUpdates, Reachable
<1>3. OnlyJoins'
  BY <1>2 DEF AllTold, OnlyJoins
<1>4. ASSUME NEW n \in Nodes PROVE (Joining(n)' => Joining(n)) /\ (n # k => (Joining(n) => Joining(n)'))
  <2>1. JoinMessagesOf(n)' = JoinMessagesOf(n) /\ UpdatesTo(n)' = UpdatesTo(n)
    BY <1>2 DEF JoinMessagesOf, UpdatesTo
  <2>2. JoinThreadsOf(n)' = JoinThreadsOf(n)
    BY <1>1, <1>2 DEF JoinThreadsOf, JoinKinds
  <2>3. UpdateThreadsAt(n)' \subseteq UpdateThreadsAt(n) /\ (n # k => UpdateThreadsAt(n)' = UpdateThreadsAt(n))
    BY <1>1, <1>2 DEF UpdateThreadsAt
  <2>. QED
    BY <2>1, <2>2, <2>3 DEF Joining, JoinUnderWay
<1>5. \A n, x \in Nodes : Announced(n, x) => Announced(n, x)'
  BY <1>2 DEF Announced
<1>6. ASSUME NEW n \in Nodes, NEW x \in Known(db[n])
      PROVE  x \in db[n].neighbours \/ n \in db[x].neighbours \/ Announced(n, x)' \/ Joining(n)'
  <2>1. x \in Nodes
    BY KnownAreOthers DEF IInv, GoodDatabases
  <2>2. x \in db[n].neighbours \/ n \in db[x].neighbours \/ Announced(n, x) \/ Joining(n)
    BY DEF AllTold
  <2>3. CASE n = k /\ ~ Joining(n)'
    <3>1. msgs' = msgs \cup StateUpdates(n)
      BY <2>3, LastCheckAnnounces
    <3>. DEFINE m == [type |-> "AllStateUpdate", to |-> x, sender |-> n, nodes |-> Known(db[n])]
    <3>2. m \in StateUpdates(n)
      BY <2>1 DEF StateUpdates, Reachable, NobodyLeft, NobodyEnded
    <3>3. m.type = "AllStateUpdate" /\ m.sender = n /\ m.to = x
      OBVIOUS
    <3>. HIDE DEF m
    <3>. QED
      BY <3>1, <3>2, <3>3 DEF Announced
  <2>. QED
    BY <1>4, <1>5, <2>1, <2>2, <2>3
<1>. QED
  BY <1>2, <1>3, <1>4, <1>6 DEF AllTold

LEMMA AllStateTold ==
  ASSUME SmallOverlay, IInv, AllTold, NEW m, HandleAllStateUpdate(m)
  PROVE  AllTold'
<1>. DEFINE k == m.to
            S == {m.sender} \cup m.nodes
            D == UpdateAllState(k, db[k], S)
<1>1. /\ m \in msgs /\ m.type = "AllStateUpdate" /\ msgs' = msgs \ {m}
      /\ db' = [db EXCEPT ![k] = D] /\ UNCHANGED <<live, joined, quitting, restarts, threads>>
  BY DEF HandleAllStateUpdate
<1>2. /\ k \in Nodes /\ S \in SUBSET Nodes /\ m.sender \in S /\ GoodDatabase(k, db[k])
      /\ db \in [Nodes -> Database]
  BY <1>1, MessageTypes DEF IInv, AllStateUpdateMessage, GoodDatabases
<1>3. D.neighbours = db[k].neighbours \cup (S \ {k}) /\ Known(D) \subseteq Known(db[k]) \cup S
  <2>. HIDE DEF S
  <2>. QED
    BY <1>2, KnownAdded
<1>4. GoodDatabase(k, D)
  <2>. HIDE DEF S
  <2>. QED
    BY <1>2, GoodUpdateAllState
<1>. HIDE DEF D, S
<1>5. k \notin Known(D)
  BY <1>2, <1>4, KnownAreOthers
<1>6. OnlyJoins'
  BY <1>1 DEF AllTold, OnlyJoins
<1>7. ASSUME NEW n \in Nodes PROVE Joining(n)' <=> Joining(n)
  <2>1. JoinMessagesOf(n)' = JoinMessagesOf(n) /\ UpdatesTo(n)' = UpdatesTo(n)
    BY <1>1 DEF JoinMessagesOf, UpdatesTo
  <2>2. JoinThreadsOf(n)' = JoinThreadsOf(n) /\ UpdateThreadsAt(n)' = UpdateThreadsAt(n)
    BY <1>1 DEF JoinThreadsOf, UpdateThreadsAt
  <2>. QED
    BY <2>1, <2>2 DEF Joining, JoinUnderWay
<1>8. \A n \in Nodes : db[n].neighbours \subseteq db'[n].neighbours /\ (n # k => db'[n] = db[n])
  BY <1>1, <1>2, <1>3
<1>9. db'[k] = D
  BY <1>1, <1>2
<1>10. ASSUME NEW n \in Nodes, NEW x \in Known(db'[n])
       PROVE  x \in db'[n].neighbours \/ n \in db'[x].neighbours \/ Announced(n, x)' \/ Joining(n)'
  <2>1. CASE x \in Known(db[n])
    <3>1. x \in Nodes /\ x # n
      BY <2>1, KnownAreOthers DEF IInv, GoodDatabases
    <3>2. x \in db[n].neighbours \/ n \in db[x].neighbours \/ Announced(n, x) \/ Joining(n)
      BY <2>1 DEF AllTold
    <3>3. Announced(n, x) => Announced(n, x)' \/ (n = m.sender /\ x = k)
      BY <1>1 DEF Announced
    <3>4. n = m.sender /\ x = k => n \in db'[x].neighbours
      BY <1>2, <1>3, <1>9, <3>1
    <3>. QED
      BY <1>7, <1>8, <3>1, <3>2, <3>3, <3>4
  <2>2. CASE x \notin Known(db[n])
    <3>1. n = k /\ x \in Known(D)
      BY <1>8, <1>9, <2>2
    <3>2. x \in S \ {k}
      BY <1>3, <1>5, <2>2, <3>1
    <3>. QED
      BY <1>3, <1>9, <3>1, <3>2
  <2>. QED
    BY <2>1, <2>2
<1>11. \A n \in Nodes : Joining(n)' => n \in joined'
  BY <1>1, <1>7 DEF AllTold
<1>. QED
  BY <1>6, <1>10, <1>11 DEF AllTold
-----------------------------------------------------------------------------
\* Nobody comes back, in this sense, from having left.
LEMMA EndLeaves ==
  ASSUME NEW n \in Nodes, End(n)
  PROVE  ~ NobodyLeft'
BY DEF End, NobodyLeft, NobodyEnded

LEMMA RestartAndQuitLeave ==
  ASSUME IInv, NEW n \in Nodes, Restart(n) \/ Quit(n)
  PROVE  ~ NobodyLeft'
<1>1. CASE Quit(n)
  BY <1>1 DEF Quit, NobodyLeft
<1>2. CASE Restart(n)
  <2>1. restarts[n] \in Nat /\ restarts' = [restarts EXCEPT ![n] = restarts[n] + 1]
    BY <1>2 DEF Restart, IInv, GoodProcesses
  <2>2. restarts'[n] = restarts[n] + 1
    BY <2>1 DEF IInv, GoodProcesses
  <2>. QED
    BY <2>1, <2>2 DEF NobodyLeft, NobodyEnded, NobodyRestarted
<1>. QED
  BY <1>1, <1>2

\* While nobody has left, the steps are those of joins.
LEMMA StayingSteps ==
  ASSUME IInv, NobodyLeft => OnlyJoins, Next, NobodyLeft'
  PROVE  /\ NobodyLeft
         /\ \/ \E n, b \in Nodes : JoinCommand(n, b)
            \/ \E m \in msgs : HandleJoinMe(m) \/ HandleJoin(m) \/ HandleRoutingUpdate(m)
                                 \/ HandleAllStateUpdate(m)
            \/ \E th \in threads : ForwardJoin(th) \/ AnswerJoin(th) \/ MergeRoutingUpdate(th)
                                    \/ CheckRoutingUpdate(th)
<1>1. PICK n \in Nodes : Environment(n) \/ Process(n)
  BY DEF Next
<1>2. CASE Environment(n)
  <2>1. \E b \in Nodes : JoinCommand(n, b)
    BY <1>2, EndLeaves, RestartAndQuitLeave DEF Environment, Crash
  <2>2. UNCHANGED <<live, quitting, restarts>>
    BY <2>1 DEF JoinCommand
  <2>. QED
    BY <2>1, <2>2 DEF NobodyLeft, NobodyEnded, NobodyRestarted
<1>3. ASSUME NEW m \in msgs, HandleMessage(m)
      PROVE  /\ NobodyLeft
             /\ HandleJoinMe(m) \/ HandleJoin(m) \/ HandleRoutingUpdate(m) \/ HandleAllStateUpdate(m)
  <2>1. m.to \in Nodes
    BY MessageTypes DEF IInv
  <2>2. ~ HandleOwnJoin(m)
    BY <2>1, EndLeaves DEF HandleOwnJoin
  <2>3. UNCHANGED <<live, quitting, restarts>>
    BY <1>3, <2>2 DEF HandleMessage, HandleJoinMe, HandleJoin, HandleRoutingUpdate,
                      HandleAllStateUpdate, HandleDeleteNode
  <2>4. NobodyLeft
    BY <2>3 DEF NobodyLeft, NobodyEnded, NobodyRestarted
  <2>5. ~ HandleDeleteNode(m)
    BY <2>4 DEF OnlyJoins, HandleDeleteNode
  <2>. QED
    BY <1>3, <2>2, <2>4, <2>5 DEF HandleMessage
<1>4. ASSUME NEW th \in threads, RunThread(th)
      PROVE  /\ NobodyLeft
             /\ ForwardJoin(th) \/ AnswerJoin(th) \/ MergeRoutingUpdate(th) \/ CheckRoutingUpdate(th)
  <2>1. UNCHANGED <<live, quitting, restarts>>
    BY <1>4 DEF RunThread, ForwardJoin, RetryJoin, AnswerJoin, MergeRoutingUpdate, CheckRoutingUpdate,
                RepairLeafSet, RepairNeighbourSet, RepairRoutingTable, StopRepair
  <2>2. NobodyLeft /\ live = Nodes
    BY <2>1 DEF NobodyLeft, NobodyEnded, NobodyRestarted
  <2>3. ~ RetryJoin(th)
    BY <2>2, JoinThreadFields DEF RetryJoin, IInv
  <2>4. ~ RepairLeafSet(th) /\ ~ RepairNeighbourSet(th) /\ ~ RepairRoutingTable(th)
    BY <2>2 DEF OnlyJoins, JoinKinds, RepairLeafSet, RepairNeighbourSet, RepairRoutingTable
  <2>. QED
    BY <1>4, <2>2, <2>3, <2>4 DEF RunThread
<1>5. ASSUME NEW x \in Nodes, TimerRepair(n, x) PROVE FALSE
  <2>1. UNCHANGED <<live, quitting, restarts>>
    BY <1>5 DEF TimerRepair
  <2>. QED
    BY <1>5, <2>1, KnownAreNodes DEF TimerRepair, NobodyLeft, NobodyEnded, IInv, GoodDatabases
<1>6. ~ Exit(n)
  BY EndLeaves DEF Exit
<1>. QED
  BY <1>1, <1>2, <1>3, <1>4, <1>5, <1>6 DEF Process

LEMMA ToldIInvStep ==
  ASSUME SmallOverlay
  PROVE  IInv /\ RowsIInv /\ ToldIInv /\ [Next]_vars => ToldIInv'
<1>. SUFFICES ASSUME IInv, RowsIInv, ToldIInv, [Next]_vars, NobodyLeft' PROVE AllTold'
  BY DEF ToldIInv
<1>1. CASE UNCHANGED vars
  <2>1. NobodyLeft /\ AllTold
    BY <1>1 DEF vars, NobodyLeft, NobodyEnded, NobodyRestarted, ToldIInv
  <2>2. \A n \in Nodes : Joining(n)' <=> Joining(n)
    BY <1>1 DEF vars, Joining, JoinUnderWay, JoinMessagesOf, JoinThreadsOf, UpdatesTo, UpdateThreadsAt
  <2>3. \A n, x : Announced(n, x)' <=> Announced(n, x)
    BY <1>1 DEF vars, Announced
  <2>. QED
    BY <1>1, <2>1, <2>2, <2>3 DEF vars, AllTold, OnlyJoins
<1>2. CASE Next
  <2>1. NobodyLeft => OnlyJoins
    BY DEF ToldIInv, AllTold
  <2>2. NobodyLeft
    BY <1>2, <2>1, StayingSteps
  <2>3. AllTold /\ live = Nodes
    BY <2>2 DEF ToldIInv, NobodyLeft, NobodyEnded
  <2>4. CASE \E n, b \in Nodes : JoinCommand(n, b)
    BY <2>3, <2>4, JoinCommandTold
  <2>5. CASE \E m \in msgs : HandleJoinMe(m) \/ HandleJoin(m) \/ HandleRoutingUpdate(m)
                              \/ HandleAllStateUpdate(m)
    BY <2>3, <2>5, JoinHandlerTold, UpdateTold, AllStateTold
  <2>6. CASE \E th \in threads : ForwardJoin(th) \/ AnswerJoin(th) \/ MergeRoutingUpdate(th)
                                 \/ CheckRoutingUpdate(th)
    BY <2>2, <2>3, <2>6, JoinThreadTold, MergeTold, CheckTold
  <2>. QED
    BY <1>2, <2>1, <2>4, <2>5, <2>6, StayingSteps
<1>. QED
  BY <1>1, <1>2

\* While nobody ends, restarts or quits, whoever a process has met has met it once
\* everything has settled, whatever joins there are and however they interleave:
\* the last RoutingUpdate of a join finds the rows complete and sends the
\* AllStateUpdates (peerMessageHandler.cpp:352-468).
THEOREM JoinsAnnouncedHolds ==
  ASSUME SmallOverlay
  PROVE  Spec => []JoinsAnnounced
<1>1. ToldIInv => JoinsAnnounced
  BY ToldIInvImplies
<1>2. IInv /\ RowsIInv /\ ToldIInv /\ [Next]_vars => ToldIInv'
  BY ToldIInvStep
<1>. QED
  BY <1>1, <1>2, IInvInit, IInvStep, RowsIInvInit, RowsIInvStep, ToldIInvInit, PTL DEF Spec
-----------------------------------------------------------------------------
(***************************************************************************)
(* Joins one by one.  While one process joins, every other has met every   *)
(* other: its JoinMe is answered with a full neighbour set.                *)
(***************************************************************************)
\* Users wait for one another, and join the one network there is.
QuietOverlay ==
  /\ SmallOverlay /\ QuietUsers = Nodes
  /\ \A b, c \in Nodes : Buddies[b] = {} /\ Buddies[c] = {} => b = c

\* The processes of the network: the founder, and whoever has typed join.
Hosts == joined \cup {b \in Nodes : Buddies[b] = {}}

\* A message or a thread is at a host and names hosts only.
Contents(u) == {u.sender} \cup u.entries \cup u.neighbours \cup u.leaf
MessageAmong(m, H) ==
  /\ m.to \in H
  /\ m.type = "RoutingUpdate" => Contents(m) \subseteq H
  /\ m.type = "AllStateUpdate" => {m.sender} \cup m.nodes \subseteq H
ThreadAmong(th, H) ==
  /\ th.at \in H /\ Contents(th.update) \subseteq H
  /\ th.kind \in JoinKinds => th.next \in H

AmongHosts ==
  /\ \A n \in Nodes : Known(db[n]) = {} \/ (n \in Hosts /\ Known(db[n]) \subseteq Hosts)
  /\ \A m \in msgs : MessageAmong(m, Hosts)
  /\ \A th \in threads : ThreadAmong(th, Hosts)

\* Whose join a message or a thread belongs to.
Serves(m, k) == JoinTraffic(k, m) \/ (m.type = "AllStateUpdate" /\ m.sender = k)

\* The hosts other than k are on their way to the neighbour set of k.
Introducing(k) ==
  \/ \E m \in msgs : m.type = "JoinMe"
  \/ \E th \in threads : th.kind = "joinMe" /\ Hosts \ {k} \subseteq {th.at} \cup th.update.neighbours
  \/ \E m \in msgs : m.type = "RoutingUpdate" /\ Hosts \ {k} \subseteq {m.sender} \cup m.neighbours
  \/ \E th \in threads :
       th.kind = "merge" /\ Hosts \ {k} \subseteq db[k].neighbours \cup th.update.neighbours
  \/ Hosts \ {k} \subseteq db[k].neighbours

\* Only the join of k is under way, and k and the other hosts are being
\* introduced to one another.
OneJoin(k) ==
  /\ k \in joined
  /\ \A m \in msgs : Serves(m, k)
  /\ \A th \in threads : ThreadTraffic(k, th)
  /\ \A n \in Hosts \ {k} : Hosts \ {k, n} \subseteq db[n].neighbours
  /\ \A n \in Hosts \ {k} : k \in db[n].neighbours \/ Announced(k, n) \/ Joining(k)
  /\ Introducing(k)

AllMet == \A n \in Hosts : Hosts \ {n} \subseteq db[n].neighbours

OneByOne == AmongHosts /\ ((Settled /\ AllMet) \/ \E k \in Nodes : OneJoin(k))
QuietIInv == NobodyLeft => OneByOne

LEMMA SettledAllMet ==
  ASSUME OneByOne, Settled
  PROVE  AllMet
<1>. SUFFICES ASSUME NEW k \in Nodes, OneJoin(k) PROVE AllMet
  BY DEF OneByOne
<1>1. Hosts \ {k} \subseteq db[k].neighbours
  BY DEF OneJoin, Introducing, Settled
<1>2. \A n : ~ Announced(k, n) /\ ~ Joining(k)
  BY DEF Settled, Joining, JoinUnderWay, JoinMessagesOf, JoinThreadsOf, UpdatesTo,
         UpdateThreadsAt, Announced
<1>3. \A n \in Hosts \ {k} : Hosts \ {k, n} \subseteq db[n].neighbours /\ k \in db[n].neighbours
  BY <1>2 DEF OneJoin
<1>. QED
  BY <1>1, <1>3 DEF AllMet

LEMMA QuietIInvInit ==
  ASSUME QuietOverlay
  PROVE  Init => QuietIInv
<1>. SUFFICES ASSUME Init PROVE OneByOne
  BY DEF QuietIInv
<1>1. \A n \in Nodes : Known(db[n]) = {}
  BY DEF Init, EmptyDatabase, Known, Leaves, TableEntries, RowEntries
<1>2. AllMet
  BY DEF Init, AllMet, Hosts, QuietOverlay
<1>. QED
  BY <1>1, <1>2 DEF Init, OneByOne, AmongHosts, Settled

\* What is new is among the hosts.
LEMMA StillAmongHosts ==
  ASSUME AmongHosts, joined \subseteq joined',
         \A m \in msgs' : m \in msgs \/ MessageAmong(m, Hosts'),
         \A th \in threads' : th \in threads \/ ThreadAmong(th, Hosts'),
         \A n \in Nodes :
           \/ Known(db'[n]) = Known(db[n])
           \/ n \in Hosts' /\ Known(db'[n]) \subseteq Known(db[n]) \cup Hosts'
  PROVE  AmongHosts'
<1>1. Hosts \subseteq Hosts'
  BY DEF Hosts
<1>2. \A m : MessageAmong(m, Hosts) => MessageAmong(m, Hosts')
  BY <1>1 DEF MessageAmong
<1>3. \A th : ThreadAmong(th, Hosts) => ThreadAmong(th, Hosts')
  BY <1>1 DEF ThreadAmong
<1>4. \A m \in msgs' : MessageAmong(m, Hosts')
  BY <1>2 DEF AmongHosts
<1>5. \A th \in threads' : ThreadAmong(th, Hosts')
  BY <1>3 DEF AmongHosts
<1>6. \A n \in Nodes : Known(db'[n]) = {} \/ (n \in Hosts' /\ Known(db'[n]) \subseteq Hosts')
  BY <1>1 DEF AmongHosts
<1>. QED
  BY <1>4, <1>5, <1>6 DEF AmongHosts

LEMMA StillOneJoin ==
  ASSUME NEW k, OneJoin(k), joined' = joined,
         \A m \in msgs' : m \in msgs \/ Serves(m, k),
         \A th \in threads' : th \in threads \/ ThreadTraffic(k, th),
         \A n \in Nodes : db[n].neighbours \subseteq db'[n].neighbours,
         \A n \in Hosts \ {k} :
           k \in db[n].neighbours \/ Announced(k, n) => k \in db'[n].neighbours \/ Announced(k, n)',
         Joining(k) => Joining(k)' \/ \A n \in Hosts \ {k} : Announced(k, n)',
         IInv, Introducing(k)'
  PROVE  OneJoin(k)'
<1>1. Hosts' = Hosts /\ Hosts \subseteq Nodes
  BY DEF Hosts, IInv, GoodProcesses
<1>2. \A n \in Hosts \ {k} : Hosts \ {k, n} \subseteq db'[n].neighbours
  BY <1>1 DEF OneJoin
<1>3. \A n \in Hosts \ {k} : k \in db'[n].neighbours \/ Announced(k, n)' \/ Joining(k)'
  BY DEF OneJoin
<1>4. k \in joined' /\ (\A m \in msgs' : Serves(m, k)) /\ (\A th \in threads' : ThreadTraffic(k, th))
  BY DEF OneJoin
<1>. QED
  BY <1>1, <1>2, <1>3, <1>4 DEF OneJoin

\* getNextRoutingNode returns the listener or a node of its tables.
LEMMA NextIsKnown ==
  ASSUME NEW n \in Nodes, NEW D \in Database, NEW t \in Nodes, t # n,
         NEW x \in NextRoutingNodes(n, D, t)
  PROVE  x \in {n} \cup Known(D)
<1>. DEFINE p == PrefixMatchLen(t, n)
<1>1. t \in NodeId /\ n \in NodeId
  BY NodesAssumption
<1>2. p \in 0 .. Rows - 1
  BY <1>1, PrefixOfDifferent
<1>3. p \in Row /\ t[p + 1] \in Digit
  BY <1>1, <1>2, RowsAssumption DEF Row, NodeId
<1>4. \A C : \A y \in ScanResults(n, C, t) : y \in {n} \cup C
  BY DEF ScanResults
<1>. HIDE DEF p
<1>5. D.table[p][t[p + 1]] # None => D.table[p][t[p + 1]] \in TableEntries(D)
  BY <1>3 DEF TableEntries, RowEntries
<1>6. /\ x \in ScanResults(n, Leaves(D), t) \/ x \in ScanResults(n, Known(D), t)
         \/ (D.table[p][t[p + 1]] # None /\ x = D.table[p][t[p + 1]])
  BY DEF NextRoutingNodes, p
<1>7. Leaves(D) \subseteq Known(D) /\ TableEntries(D) \subseteq Known(D)
  BY DEF Known
<1>. QED
  BY <1>4, <1>5, <1>6, <1>7

LEMMA JoinCommandOneByOne ==
  ASSUME QuietOverlay, IInv, OneByOne, NEW n \in Nodes, NEW b \in Nodes, JoinCommand(n, b)
  PROVE  OneByOne'
<1>. DEFINE m == [type |-> "JoinMe", to |-> b, newcomer |-> n]
<1>1. /\ msgs' = msgs \cup {m} /\ joined' = joined \cup {n} /\ UNCHANGED <<db, threads>>
      /\ n \notin joined /\ b \in Buddies[n] /\ b # n /\ (b \in joined \/ Buddies[b] = {}) /\ Settled
  BY DEF JoinCommand, QuietOverlay
<1>2. AllMet /\ AmongHosts /\ msgs = {} /\ threads = {}
  BY <1>1, SettledAllMet DEF OneByOne, Settled
<1>3. Hosts' = Hosts \cup {n} /\ n \notin Hosts /\ b \in Hosts
  BY <1>1 DEF Hosts
<1>4. m.type = "JoinMe" /\ m.to = b /\ m.newcomer = n
  OBVIOUS
<1>. HIDE DEF m
<1>5. AmongHosts'
  <2>1. MessageAmong(m, Hosts')
    BY <1>3, <1>4 DEF MessageAmong
  <2>. QED
    BY <1>1, <1>2, <2>1, StillAmongHosts
<1>6. OneJoin(n)'
  <2>1. \A x \in Hosts' \ {n} : Hosts' \ {n, x} \subseteq db'[x].neighbours
    BY <1>1, <1>2, <1>3 DEF AllMet
  <2>2. Serves(m, n) /\ m \in JoinMessagesOf(n)'
    BY <1>1, <1>4 DEF Serves, JoinTraffic, JoinMessagesOf
  <2>3. Joining(n)' /\ Introducing(n)'
    BY <1>1, <1>4, <2>2 DEF Joining, JoinUnderWay, Introducing
  <2>. QED
    BY <1>1, <1>2, <2>1, <2>2, <2>3 DEF OneJoin
<1>. QED
  BY <1>5, <1>6 DEF OneByOne

LEMMA JoinHandlerOneByOne ==
  ASSUME IInv, AmongHosts, NEW k \in Nodes, OneJoin(k), NEW m, HandleJoinMe(m) \/ HandleJoin(m)
  PROVE  OneByOne'
<1>. DEFINE n == m.to
<1>1. /\ m \in msgs /\ m.type \in {"JoinMe", "Join"} /\ msgs' = msgs \ {m}
      /\ n \in Nodes /\ m.newcomer \in Nodes /\ m.newcomer # n /\ UNCHANGED <<joined, db>>
  BY HandlerStarts
<1>2. PICK th : /\ threads' = threads \cup {th}
                /\ th.kind = (IF m.type = "JoinMe" THEN "joinMe" ELSE "join")
                /\ th.at = n
                /\ th.next \in NextRoutingNodes(n, db[n], m.newcomer)
                /\ th.update.to = m.newcomer /\ th.update.sender = n
                /\ th.update.entries \subseteq TableEntries(db[n])
                /\ th.update.neighbours = (IF m.type = "JoinMe" THEN db[n].neighbours ELSE {})
                /\ th.update.leaf = {}
  BY HandlerStarts
<1>3. m.newcomer = k
  BY <1>1 DEF OneJoin, Serves, JoinTraffic
<1>4. n \in Hosts /\ Known(db[n]) \subseteq Hosts
  BY <1>1 DEF AmongHosts, MessageAmong
<1>5. Hosts' = Hosts
  BY <1>1 DEF Hosts
<1>6. AmongHosts'
  <2>1. th.next \in {n} \cup Known(db[n])
    BY <1>1, <1>2, NextIsKnown DEF IInv, GoodDatabases
  <2>2. TableEntries(db[n]) \subseteq Known(db[n]) /\ db[n].neighbours \subseteq Known(db[n])
    BY DEF Known
  <2>3. ThreadAmong(th, Hosts')
    BY <1>2, <1>4, <1>5, <2>1, <2>2 DEF ThreadAmong, Contents
  <2>. QED
    BY <1>1, <1>2, <2>3, StillAmongHosts
<1>7. ThreadTraffic(k, th) /\ th \in JoinThreadsOf(k)'
  BY <1>2, <1>3 DEF ThreadTraffic, JoinKinds, JoinThreadsOf
<1>8. Joining(k)'
  BY <1>7 DEF Joining, JoinUnderWay
<1>9. Introducing(k)'
  <2>1. CASE m.type = "JoinMe"
    <3>1. Hosts \ {k, n} \subseteq db[n].neighbours
      BY <1>1, <1>3, <1>4 DEF OneJoin
    <3>2. th.kind = "joinMe" /\ th.update.neighbours = db[n].neighbours /\ th.at = n /\ th \in threads'
      BY <1>2, <2>1
    <3>3. Hosts' \ {k} \subseteq {th.at} \cup th.update.neighbours
      BY <1>5, <3>1, <3>2
    <3>. QED
      BY <3>2, <3>3 DEF Introducing
  <2>2. CASE m.type = "Join"
    BY <1>1, <1>2, <1>5, <2>2 DEF OneJoin, Introducing
  <2>. QED
    BY <1>1, <2>1, <2>2
<1>10. \A x : Announced(k, x) => Announced(k, x)'
  BY <1>1 DEF Announced
<1>11. OneJoin(k)'
  BY <1>1, <1>2, <1>7, <1>8, <1>9, <1>10, StillOneJoin
<1>. QED
  BY <1>6, <1>11 DEF OneByOne

LEMMA JoinThreadOneByOne ==
  ASSUME IInv, live = Nodes, AmongHosts, NEW k \in Nodes, OneJoin(k),
         NEW th, ForwardJoin(th) \/ AnswerJoin(th)
  PROVE  OneByOne'
<1>. DEFINE join == [type |-> "Join", to |-> th.next, sender |-> th.at,
                     newcomer |-> th.update.to, row_index |-> th.row]
            answer == [Signed(th) EXCEPT !.terminal = TRUE, !.leaf = Leaves(db[th.at])]
<1>1. th \in threads /\ th.kind \in JoinKinds /\ threads' = threads \ {th} /\ UNCHANGED <<joined, db>>
  BY DEF ForwardJoin, AnswerJoin
<1>2. /\ th.at \in Nodes /\ th.next \in Nodes /\ Signed(th) \in RoutingUpdateMessage
      /\ th.update \in RoutingUpdateMessage
  BY <1>1, JoinThreadFields DEF IInv
<1>3. th.update.to = k
  BY <1>1 DEF OneJoin, ThreadTraffic, JoinKinds
<1>4. /\ Signed(th).type = "RoutingUpdate" /\ Signed(th).to = k
      /\ Signed(th).sender = (IF th.kind = "joinMe" THEN th.at ELSE th.next)
      /\ Signed(th).entries = th.update.entries /\ Signed(th).neighbours = th.update.neighbours
      /\ Signed(th).leaf = th.update.leaf
  BY <1>2, <1>3 DEF Signed, RoutingUpdateMessage
<1>5. /\ answer.type = "RoutingUpdate" /\ answer.to = k /\ answer.sender = Signed(th).sender
      /\ answer.entries = Signed(th).entries /\ answer.neighbours = Signed(th).neighbours
      /\ answer.leaf = Leaves(db[th.at])
  BY <1>2, <1>4 DEF RoutingUpdateMessage
<1>6. join.type = "Join" /\ join.to = th.next /\ join.newcomer = k
  BY <1>3
<1>7. PICK sent : /\ msgs' = msgs \cup sent /\ sent \subseteq {join, Signed(th), answer}
                  /\ (join \in sent /\ Signed(th) \in sent) \/ answer \in sent
  <2>1. CASE ForwardJoin(th)
    <3>1. msgs' = msgs \cup Reachable({join, Signed(th)})
      BY <2>1 DEF ForwardJoin
    <3>. HIDE DEF join
    <3>2. Reachable({join, Signed(th)}) = {join, Signed(th)}
      BY <1>2, <1>4, <1>6 DEF Reachable
    <3>. QED
      BY <3>1, <3>2
  <2>2. CASE AnswerJoin(th)
    <3>1. msgs' = msgs \cup Reachable({answer})
      BY <2>2 DEF AnswerJoin
    <3>. HIDE DEF answer
    <3>2. Reachable({answer}) = {answer}
      BY <1>5 DEF Reachable
    <3>. QED
      BY <3>1, <3>2
  <2>. QED
    BY <2>1, <2>2
<1>. HIDE DEF join, answer
<1>8. Hosts' = Hosts /\ k \in Hosts
  BY <1>1 DEF Hosts, OneJoin
<1>9. AmongHosts'
  <2>1. th.at \in Hosts /\ th.next \in Hosts /\ Contents(th.update) \subseteq Hosts
    BY <1>1 DEF AmongHosts, ThreadAmong
  <2>2. Leaves(db[th.at]) \subseteq Hosts
    BY <1>2 DEF AmongHosts, Known
  <2>3. MessageAmong(join, Hosts) /\ MessageAmong(Signed(th), Hosts) /\ MessageAmong(answer, Hosts)
    BY <1>4, <1>5, <1>6, <1>8, <2>1, <2>2 DEF MessageAmong, Contents
  <2>4. \A m \in msgs' : m \in msgs \/ MessageAmong(m, Hosts')
    BY <1>7, <1>8, <2>3
  <2>. QED
    BY <1>1, <2>4, StillAmongHosts
<1>10. Serves(join, k) /\ Serves(Signed(th), k) /\ Serves(answer, k)
  BY <1>4, <1>5, <1>6 DEF Serves, JoinTraffic
<1>11. Joining(k)'
  <2>1. JoinMessagesOf(k)' # {} \/ UpdatesTo(k)' # {}
    BY <1>5, <1>6, <1>7 DEF JoinMessagesOf, UpdatesTo
  <2>. QED
    BY <2>1 DEF Joining, JoinUnderWay
<1>12. Introducing(k)'
  <2>1. CASE th.kind = "joinMe" /\ Hosts \ {k} \subseteq {th.at} \cup th.update.neighbours
    <3>1. PICK u \in msgs' : u.type = "RoutingUpdate" /\ u.sender = th.at /\ u.neighbours = th.update.neighbours
      BY <1>4, <1>5, <1>7, <2>1
    <3>. QED
      BY <1>8, <2>1, <3>1 DEF Introducing
  <2>2. CASE ~ (th.kind = "joinMe" /\ Hosts \ {k} \subseteq {th.at} \cup th.update.neighbours)
    <3>1. Introducing(k)
      BY DEF OneJoin
    <3>2. CASE \E r \in threads : r.kind = "joinMe" /\ Hosts \ {k} \subseteq {r.at} \cup r.update.neighbours
      BY <1>1, <1>8, <2>2, <3>2 DEF Introducing
    <3>3. CASE \E r \in threads :
                 r.kind = "merge" /\ Hosts \ {k} \subseteq db[k].neighbours \cup r.update.neighbours
      <4>1. PICK r \in threads :
              r.kind = "merge" /\ Hosts \ {k} \subseteq db[k].neighbours \cup r.update.neighbours
        BY <3>3
      <4>2. r \in threads'
        BY <1>1, <4>1 DEF JoinKinds
      <4>. QED
        BY <1>1, <1>8, <4>1, <4>2 DEF Introducing
    <3>. QED
      BY <1>1, <1>7, <1>8, <3>1, <3>2, <3>3 DEF Introducing
  <2>. QED
    BY <2>1, <2>2
<1>13. \A x : Announced(k, x) => Announced(k, x)'
  BY <1>7 DEF Announced
<1>14. OneJoin(k)'
  BY <1>1, <1>7, <1>10, <1>11, <1>12, <1>13, StillOneJoin
<1>. QED
  BY <1>9, <1>14 DEF OneByOne

LEMMA UpdateOneByOne ==
  ASSUME SmallOverlay, IInv, AmongHosts, NEW k \in Nodes, OneJoin(k), NEW m, HandleRoutingUpdate(m)
  PROVE  OneByOne'
<1>. DEFINE U == UpdateAllState(k, db[k], {m.sender})
            D == [U EXCEPT !.received = U.received + m.rows]
            th == [kind |-> "merge", at |-> k, update |-> m]
<1>1. m \in msgs /\ m.type = "RoutingUpdate" /\ m.to = k
  BY DEF HandleRoutingUpdate, OneJoin, Serves, JoinTraffic
<1>2. /\ msgs' = msgs \ {m} /\ threads' = threads \cup {th} /\ db' = [db EXCEPT ![k] = D]
      /\ UNCHANGED <<live, joined, quitting, restarts>>
  BY <1>1 DEF HandleRoutingUpdate
<1>3. m.sender \in Nodes /\ GoodDatabase(k, db[k]) /\ db \in [Nodes -> Database]
  BY <1>1, MessageTypes DEF IInv, RoutingUpdateMessage, GoodDatabases
<1>4. U.neighbours = db[k].neighbours \cup ({m.sender} \ {k}) /\ Known(U) \subseteq Known(db[k]) \cup {m.sender}
  BY <1>3, KnownAdded
<1>5. D.neighbours = U.neighbours /\ Known(D) = Known(U)
  BY <1>3 DEF UpdateAllState, Database, GoodDatabase, Known, Leaves, TableEntries, RowEntries
<1>6. th.kind = "merge" /\ th.at = k /\ th.update = m
  OBVIOUS
<1>. HIDE DEF D, th, U
<1>7. /\ db'[k] = D
      /\ \A n \in Nodes : db[n].neighbours \subseteq db'[n].neighbours /\ (n = k \/ db'[n] = db[n])
  BY <1>2, <1>3, <1>4, <1>5
<1>8. Hosts' = Hosts /\ k \in Hosts /\ Contents(m) \subseteq Hosts
  BY <1>1, <1>2 DEF Hosts, OneJoin, AmongHosts, MessageAmong
<1>9. AmongHosts'
  <2>1. ThreadAmong(th, Hosts')
    BY <1>6, <1>8 DEF ThreadAmong, JoinKinds
  <2>2. m.sender \in Hosts
    BY <1>8 DEF Contents
  <2>3. \A n \in Nodes : Known(db'[n]) = Known(db[n])
                        \/ (n \in Hosts' /\ Known(db'[n]) \subseteq Known(db[n]) \cup Hosts')
    BY <1>4, <1>5, <1>7, <1>8, <2>2
  <2>. QED
    BY <1>2, <2>1, <2>3, StillAmongHosts
<1>10. ThreadTraffic(k, th) /\ th \in UpdateThreadsAt(k)'
  BY <1>2, <1>6 DEF ThreadTraffic, UpdateThreadsAt
<1>11. Joining(k)'
  BY <1>10 DEF Joining
<1>12. Introducing(k)'
  <2>1. CASE Hosts \ {k} \subseteq {m.sender} \cup m.neighbours
    <3>1. Hosts' \ {k} \subseteq db'[k].neighbours \cup th.update.neighbours
      BY <1>4, <1>5, <1>6, <1>7, <1>8, <2>1
    <3>. QED
      BY <1>2, <1>6, <3>1 DEF Introducing
  <2>2. CASE ~ (Hosts \ {k} \subseteq {m.sender} \cup m.neighbours)
    <3>1. Introducing(k) /\ db[k].neighbours \subseteq db'[k].neighbours
      BY <1>7 DEF OneJoin
    <3>2. CASE \E u \in msgs : u.type = "RoutingUpdate" /\ Hosts \ {k} \subseteq {u.sender} \cup u.neighbours
      BY <1>2, <1>8, <2>2, <3>2 DEF Introducing
    <3>3. CASE \E u \in msgs : u.type = "JoinMe"
      BY <1>1, <1>2, <3>3 DEF Introducing
    <3>. QED
      BY <1>2, <1>8, <3>1, <3>2, <3>3 DEF Introducing
  <2>. QED
    BY <2>1, <2>2
<1>13. \A x : Announced(k, x) => Announced(k, x)'
  BY <1>1, <1>2 DEF Announced
<1>14. Hosts \subseteq Nodes
  BY DEF Hosts, IInv, GoodProcesses
<1>15. OneJoin(k)'
  BY <1>2, <1>7, <1>10, <1>11, <1>12, <1>13, <1>14, StillOneJoin
<1>. QED
  BY <1>9, <1>15 DEF OneByOne

LEMMA MergeOneByOne ==
  ASSUME SmallOverlay, IInv, AmongHosts, NEW k \in Nodes, OneJoin(k), NEW th, MergeRoutingUpdate(th)
  PROVE  OneByOne'
<1>. DEFINE m == th.update
            leaves == IF m.terminal THEN {m.sender} \cup m.leaf ELSE {}
            D == [db[k] EXCEPT !.table = TableWith(k, @, m.entries),
                               !.neighbours = NeighboursWith(k, @, m.neighbours),
                               !.left = LeftWith(k, @, leaves),
                               !.right = RightWith(k, @, leaves),
                               !.total = IF m.terminal THEN m.prefix_match ELSE @]
            th2 == [th EXCEPT !.kind = "check"]
<1>1. th \in threads /\ th.kind = "merge" /\ th.at = k
  BY DEF MergeRoutingUpdate, OneJoin, ThreadTraffic, JoinKinds
<1>2. /\ th \in UpdateThread /\ m \in RoutingUpdateMessage
      /\ db \in [Nodes -> Database] /\ GoodDatabase(k, db[k]) /\ db[k] \in Database
  BY <1>1, ThreadTypes DEF IInv, GoodDatabases, UpdateThread
<1>3. /\ threads' = (threads \ {th}) \cup {th2} /\ db' = [db EXCEPT ![k] = D]
      /\ UNCHANGED <<live, joined, quitting, restarts, msgs>>
  BY <1>1 DEF MergeRoutingUpdate
<1>4. Hosts' = Hosts /\ k \in Hosts /\ Contents(m) \subseteq Hosts
  BY <1>1, <1>3 DEF Hosts, OneJoin, AmongHosts, ThreadAmong
<1>5. D.neighbours = db[k].neighbours \cup (m.neighbours \ {k})
  <2>1. D.neighbours = NeighboursWith(k, db[k].neighbours, m.neighbours)
    BY <1>2 DEF Database
  <2>2. db[k].neighbours \in SUBSET Nodes /\ k \notin db[k].neighbours /\ m.neighbours \in SUBSET Nodes
    BY <1>2 DEF GoodDatabase, Placed, Database, RoutingUpdateMessage
  <2>. QED
    BY <2>1, <2>2, NeighboursAll
<1>6. Known(D) \subseteq Known(db[k]) \cup Contents(m)
  <2>1. leaves \subseteq Contents(m) /\ m.entries \in SUBSET Nodes /\ m.entries \subseteq Contents(m)
        /\ m.neighbours \subseteq Contents(m)
    BY <1>2 DEF Contents, RoutingUpdateMessage
  <2>. HIDE DEF leaves
  <2>2. /\ D.table = TableWith(k, db[k].table, m.entries)
        /\ D.left = LeftWith(k, db[k].left, leaves) /\ D.right = RightWith(k, db[k].right, leaves)
    BY <1>2 DEF Database
  <2>. HIDE DEF D
  <2>3. TableEntries(D) \subseteq TableEntries(db[k]) \cup m.entries
    BY <1>2, <2>1, <2>2, TableEntriesAdded
  <2>4. Leaves(D) \subseteq Leaves(db[k]) \cup leaves
    BY <2>2, LeavesAdded DEF Leaves
  <2>. QED
    BY <1>5, <2>1, <2>3, <2>4 DEF Known
<1>7. th2.kind = "check" /\ th2.at = k /\ th2.update = m
  BY <1>1, <1>2 DEF UpdateThread
<1>. HIDE DEF D, th2
<1>8. /\ db'[k] = D
      /\ \A n \in Nodes : db[n].neighbours \subseteq db'[n].neighbours /\ (n = k \/ db'[n] = db[n])
  BY <1>2, <1>3, <1>5
<1>9. AmongHosts'
  <2>1. ThreadAmong(th2, Hosts')
    BY <1>4, <1>7 DEF ThreadAmong, JoinKinds
  <2>2. \A n \in Nodes : Known(db'[n]) = Known(db[n])
                        \/ (n \in Hosts' /\ Known(db'[n]) \subseteq Known(db[n]) \cup Hosts')
    BY <1>4, <1>6, <1>8
  <2>. QED
    BY <1>3, <2>1, <2>2, StillAmongHosts
<1>10. ThreadTraffic(k, th2) /\ th2 \in UpdateThreadsAt(k)'
  BY <1>3, <1>7 DEF ThreadTraffic, UpdateThreadsAt
<1>11. Joining(k)'
  BY <1>10 DEF Joining
<1>12. Introducing(k)'
  <2>1. CASE Hosts \ {k} \subseteq db[k].neighbours \cup m.neighbours
    <3>1. Hosts' \ {k} \subseteq db'[k].neighbours
      BY <1>4, <1>5, <1>8, <2>1
    <3>. QED
      BY <3>1 DEF Introducing
  <2>2. CASE ~ (Hosts \ {k} \subseteq db[k].neighbours \cup m.neighbours)
    <3>1. Introducing(k) /\ db[k].neighbours \subseteq db'[k].neighbours
      BY <1>8 DEF OneJoin
    <3>2. CASE \E r \in threads : r.kind = "joinMe" /\ Hosts \ {k} \subseteq {r.at} \cup r.update.neighbours
      BY <1>1, <1>3, <1>4, <3>2 DEF Introducing
    <3>3. CASE \E r \in threads :
                 r.kind = "merge" /\ Hosts \ {k} \subseteq db[k].neighbours \cup r.update.neighbours
      BY <1>3, <1>4, <2>2, <3>1, <3>3 DEF Introducing
    <3>. QED
      BY <1>3, <1>4, <3>1, <3>2, <3>3 DEF Introducing
  <2>. QED
    BY <2>1, <2>2
<1>13. \A x : Announced(k, x) => Announced(k, x)'
  BY <1>3 DEF Announced
<1>14. Hosts \subseteq Nodes
  BY DEF Hosts, IInv, GoodProcesses
<1>15. OneJoin(k)'
  BY <1>3, <1>8, <1>10, <1>11, <1>12, <1>13, <1>14, StillOneJoin
<1>. QED
  BY <1>9, <1>15 DEF OneByOne

LEMMA CheckOneByOne ==
  ASSUME IInv, RowsIInv, NobodyLeft, AllTold, AmongHosts, NEW k \in Nodes, OneJoin(k),
         NEW th, CheckRoutingUpdate(th)
  PROVE  OneByOne'
<1>1. th \in threads /\ th.kind = "check" /\ th.at = k
  BY DEF CheckRoutingUpdate, OneJoin, ThreadTraffic, JoinKinds
<1>2. /\ msgs \subseteq msgs' /\ \A m \in msgs' : m \in msgs \/ m \in StateUpdates(k)
      /\ threads' = threads \ {th} /\ UNCHANGED <<live, joined, quitting, restarts, db>>
  BY <1>1 DEF CheckRoutingUpdate
<1>3. Hosts' = Hosts /\ k \in Hosts /\ Hosts \subseteq Nodes
  BY <1>2 DEF Hosts, OneJoin, IInv, GoodProcesses
<1>4. Known(db[k]) \subseteq Hosts
  BY DEF AmongHosts
<1>5. \A m \in StateUpdates(k) : /\ m.type = "AllStateUpdate" /\ m.sender = k
                                /\ m.to \in Known(db[k]) /\ m.nodes = Known(db[k])
  BY DEF StateUpdates, Reachable
<1>6. AmongHosts'
  <2>1. \A m \in StateUpdates(k) : MessageAmong(m, Hosts')
    BY <1>3, <1>4, <1>5 DEF MessageAmong
  <2>. QED
    BY <1>2, <2>1, StillAmongHosts
<1>7. Introducing(k)'
  <2>1. Introducing(k)
    BY DEF OneJoin
  <2>. QED
    BY <1>1, <1>2, <1>3, <2>1 DEF Introducing
<1>8. Joining(k)' \/ \A n \in Hosts \ {k} : Announced(k, n)'
  <2>. SUFFICES ASSUME ~ Joining(k)', NEW n \in Hosts \ {k} PROVE Announced(k, n)'
    OBVIOUS
  <2>1. msgs' = msgs \cup StateUpdates(k)
    BY <1>1, LastCheckAnnounces
  <2>2. /\ JoinMessagesOf(k)' = {} /\ JoinThreadsOf(k)' = {} /\ UpdatesTo(k)' = {}
        /\ UpdateThreadsAt(k)' = {}
    BY DEF Joining, JoinUnderWay
  <2>3. \A m \in msgs' : m.type \notin {"JoinMe", "RoutingUpdate"}
    <3>1. \A m \in msgs : m.type \in {"JoinMe", "RoutingUpdate"} => m \in JoinMessagesOf(k)' \cup UpdatesTo(k)'
      BY <1>2 DEF OneJoin, Serves, JoinTraffic, JoinMessagesOf, UpdatesTo
    <3>. QED
      BY <1>2, <1>5, <2>2, <3>1
  <2>4. \A r \in threads' : r.kind \notin {"joinMe", "merge"}
    BY <1>2, <2>2 DEF OneJoin, ThreadTraffic, JoinKinds, JoinThreadsOf, UpdateThreadsAt
  <2>5. Hosts \ {k} \subseteq db[k].neighbours
    BY <1>2, <1>3, <1>7, <2>3, <2>4 DEF Introducing
  <2>6. n \in Known(db[k]) /\ n \in live
    BY <1>3, <2>5 DEF Known, NobodyLeft, NobodyEnded
  <2>. DEFINE m == [type |-> "AllStateUpdate", to |-> n, sender |-> k, nodes |-> Known(db[k])]
  <2>7. m \in StateUpdates(k) /\ m.type = "AllStateUpdate" /\ m.sender = k /\ m.to = n
    BY <2>6 DEF StateUpdates, Reachable
  <2>. HIDE DEF m
  <2>. QED
    BY <2>1, <2>7 DEF Announced
<1>9. \A m \in StateUpdates(k) : Serves(m, k)
  BY <1>5 DEF Serves
<1>10. \A x : Announced(k, x) => Announced(k, x)'
  BY <1>2 DEF Announced
<1>11. OneJoin(k)'
  BY <1>2, <1>7, <1>8, <1>9, <1>10, StillOneJoin
<1>. QED
  BY <1>6, <1>11 DEF OneByOne

LEMMA AllStateOneByOne ==
  ASSUME SmallOverlay, IInv, AmongHosts, NEW k \in Nodes, OneJoin(k), NEW m, HandleAllStateUpdate(m)
  PROVE  OneByOne'
<1>. DEFINE n == m.to
            S == {m.sender} \cup m.nodes
            D == UpdateAllState(n, db[n], S)
<1>1. /\ m \in msgs /\ m.type = "AllStateUpdate" /\ msgs' = msgs \ {m}
      /\ db' = [db EXCEPT ![n] = D] /\ UNCHANGED <<live, joined, quitting, restarts, threads>>
  BY DEF HandleAllStateUpdate
<1>2. /\ n \in Nodes /\ S \in SUBSET Nodes /\ GoodDatabase(n, db[n]) /\ db \in [Nodes -> Database]
  BY <1>1, MessageTypes DEF IInv, AllStateUpdateMessage, GoodDatabases
<1>3. m.sender = k
  BY <1>1 DEF OneJoin, Serves, JoinTraffic
<1>4. n \in Hosts /\ S \subseteq Hosts /\ k \in S /\ Hosts' = Hosts /\ Hosts \subseteq Nodes
  BY <1>1, <1>3 DEF AmongHosts, MessageAmong, Hosts, IInv, GoodProcesses
<1>. HIDE DEF S
<1>5. D.neighbours = db[n].neighbours \cup (S \ {n}) /\ Known(D) \subseteq Known(db[n]) \cup S
  BY <1>2, KnownAdded
<1>. HIDE DEF D
<1>6. /\ db'[n] = D
      /\ \A x \in Nodes : db[x].neighbours \subseteq db'[x].neighbours /\ (x = n \/ db'[x] = db[x])
  BY <1>1, <1>2, <1>5
<1>7. AmongHosts'
  <2>1. \A x \in Nodes : Known(db'[x]) = Known(db[x])
                        \/ (x \in Hosts' /\ Known(db'[x]) \subseteq Known(db[x]) \cup Hosts')
    BY <1>4, <1>5, <1>6
  <2>. QED
    BY <1>1, <2>1, StillAmongHosts
<1>8. Introducing(k)'
  <2>1. Introducing(k) /\ db[k].neighbours \subseteq db'[k].neighbours
    BY <1>6 DEF OneJoin
  <2>. QED
    BY <1>1, <1>4, <2>1 DEF Introducing
<1>9. ASSUME NEW x \in Hosts \ {k}, k \in db[x].neighbours \/ Announced(k, x)
      PROVE  k \in db'[x].neighbours \/ Announced(k, x)'
  <2>1. Announced(k, x) => Announced(k, x)' \/ x = n
    BY <1>1 DEF Announced
  <2>2. x = n => k \in db'[x].neighbours
    BY <1>4, <1>5, <1>6, <1>9
  <2>. QED
    BY <1>4, <1>6, <1>9, <2>1, <2>2
<1>10. Joining(k) => Joining(k)'
  <2>1. JoinMessagesOf(k)' = JoinMessagesOf(k) /\ UpdatesTo(k)' = UpdatesTo(k)
    BY <1>1 DEF JoinMessagesOf, UpdatesTo
  <2>2. JoinThreadsOf(k)' = JoinThreadsOf(k) /\ UpdateThreadsAt(k)' = UpdateThreadsAt(k)
    BY <1>1 DEF JoinThreadsOf, UpdateThreadsAt
  <2>. QED
    BY <2>1, <2>2 DEF Joining, JoinUnderWay
<1>11. OneJoin(k)'
  BY <1>1, <1>6, <1>8, <1>9, <1>10, StillOneJoin
<1>. QED
  BY <1>7, <1>11 DEF OneByOne
-----------------------------------------------------------------------------
LEMMA QuietIInvStep ==
  ASSUME QuietOverlay
  PROVE  IInv /\ RowsIInv /\ ToldIInv /\ QuietIInv /\ [Next]_vars => QuietIInv'
<1>. SUFFICES ASSUME IInv, RowsIInv, ToldIInv, QuietIInv, [Next]_vars, NobodyLeft' PROVE OneByOne'
  BY DEF QuietIInv
<1>1. CASE UNCHANGED vars
  <2>1. NobodyLeft /\ OneByOne
    BY <1>1 DEF vars, NobodyLeft, NobodyEnded, NobodyRestarted, QuietIInv
  <2>2. AmongHosts' /\ (Settled /\ AllMet => Settled' /\ AllMet')
    BY <1>1, <2>1 DEF vars, OneByOne, AmongHosts, Hosts, Settled, AllMet
  <2>3. ASSUME NEW k \in Nodes, OneJoin(k) PROVE OneJoin(k)'
    <3>1. Introducing(k)' <=> Introducing(k)
      BY <1>1 DEF vars, Introducing, Hosts
    <3>2. Joining(k)' <=> Joining(k)
      BY <1>1 DEF vars, Joining, JoinUnderWay, JoinMessagesOf, JoinThreadsOf, UpdatesTo, UpdateThreadsAt
    <3>3. \A x : Announced(k, x)' <=> Announced(k, x)
      BY <1>1 DEF vars, Announced
    <3>. QED
      BY <1>1, <2>3, <3>1, <3>2, <3>3, StillOneJoin DEF vars, OneJoin
  <2>. QED
    BY <2>1, <2>2, <2>3 DEF OneByOne
<1>2. CASE Next
  <2>1. NobodyLeft => OnlyJoins
    BY DEF ToldIInv, AllTold
  <2>2. NobodyLeft
    BY <1>2, <2>1, StayingSteps
  <2>3. AllTold /\ OneByOne /\ live = Nodes /\ SmallOverlay
    BY <2>2 DEF ToldIInv, QuietIInv, NobodyLeft, NobodyEnded, QuietOverlay
  <2>4. CASE \E n, b \in Nodes : JoinCommand(n, b)
    BY <2>3, <2>4, JoinCommandOneByOne
  <2>5. CASE \E m \in msgs : HandleJoinMe(m) \/ HandleJoin(m) \/ HandleRoutingUpdate(m)
                              \/ HandleAllStateUpdate(m)
    <3>1. PICK k \in Nodes : OneJoin(k) /\ AmongHosts
      BY <2>3, <2>5 DEF OneByOne, Settled
    <3>. QED
      BY <2>3, <2>5, <3>1, JoinHandlerOneByOne, UpdateOneByOne, AllStateOneByOne
  <2>6. CASE \E th \in threads : ForwardJoin(th) \/ AnswerJoin(th) \/ MergeRoutingUpdate(th)
                                 \/ CheckRoutingUpdate(th)
    <3>1. PICK k \in Nodes : OneJoin(k) /\ AmongHosts
      BY <2>3, <2>6 DEF OneByOne, Settled
    <3>. QED
      BY <2>2, <2>3, <2>6, <3>1, JoinThreadOneByOne, MergeOneByOne, CheckOneByOne
  <2>. QED
    BY <1>2, <2>1, <2>4, <2>5, <2>6, StayingSteps
<1>. QED
  BY <1>1, <1>2

\* Members of a settled network know one another.
QuietJoinsMeet ==
  Settled /\ NobodyLeft => \A n \in Members : Members \ {n} \subseteq db[n].neighbours

LEMMA QuietIInvImplies == QuietIInv => QuietJoinsMeet
<1>. SUFFICES ASSUME QuietIInv, Settled, NobodyLeft PROVE \A n \in Members : Members \ {n} \subseteq db[n].neighbours
  BY DEF QuietJoinsMeet
<1>1. OneByOne /\ live = Nodes
  BY DEF QuietIInv, NobodyLeft, NobodyEnded
<1>2. Members \subseteq Hosts
  BY <1>1 DEF OneByOne, AmongHosts, Members, Hosts
<1>. QED
  BY <1>1, <1>2, SettledAllMet DEF AllMet

\* When users wait for one another's joins, the neighbour sets of a settled overlay
\* are complete: the JoinMe handler sends its neighbour set
\* (peerMessageHandler.cpp:52-62), the newcomer adds it and announces itself.
THEOREM QuietJoinsMeetHolds ==
  ASSUME QuietOverlay
  PROVE  Spec => []QuietJoinsMeet
<1>1. SmallOverlay
  BY DEF QuietOverlay
<1>2. IInv /\ RowsIInv /\ ToldIInv /\ [Next]_vars => ToldIInv'
  BY <1>1, ToldIInvStep
<1>3. IInv /\ RowsIInv /\ ToldIInv /\ QuietIInv /\ [Next]_vars => QuietIInv'
  BY QuietIInvStep
<1>4. Init => QuietIInv
  BY QuietIInvInit
<1>5. QuietIInv => QuietJoinsMeet
  BY QuietIInvImplies
<1>. QED
  BY <1>2, <1>3, <1>4, <1>5, IInvInit, IInvStep, RowsIInvInit, RowsIInvStep, ToldIInvInit, PTL DEF Spec
-----------------------------------------------------------------------------
(***************************************************************************)
(* Leaf sets.  The leaf set a newcomer is handed by the process its Join   *)
(* ends at is complete, because that process has met everybody.            *)
(***************************************************************************)
\* The leaf set of n is to come from the process its Join ends at, or has come:
\* from then on a leaf set holds whom the neighbour set holds.
LeavesSent(n) == \E u \in TerminalUpdates(n) : Hosts \ {n} \subseteq {u.sender} \cup u.leaf
LeavesMet(n) ==
  /\ db[n].neighbours \subseteq Leaves(db[n])
  /\ Joining(n) => Hosts \ {n} \subseteq Leaves(db[n])
LeavesFollow(n) == JoinUnderWay(n) \/ LeavesSent(n) \/ LeavesMet(n)
LeafIInv == NobodyLeft => \A n \in Nodes : LeavesFollow(n)

LEMMA LeafIInvInit == Init => LeafIInv
<1>. SUFFICES ASSUME Init, NEW n \in Nodes PROVE LeavesMet(n)
  BY DEF LeafIInv, LeavesFollow
<1>1. ~ Joining(n)
  BY DEF Init, Joining, JoinUnderWay, JoinMessagesOf, JoinThreadsOf, UpdatesTo, UpdateThreadsAt
<1>2. db[n].neighbours = {}
  BY DEF Init, EmptyDatabase
<1>. QED
  BY <1>1, <1>2 DEF LeavesMet

\* Whoever is not joining is not concerned by the join of t.
LEMMA OthersFollow ==
  ASSUME NEW t, NEW n \in Nodes, n # t, LeavesFollow(n), joined' = joined, db'[n] = db[n],
         \A m \in msgs' \cup msgs :
           (m \in msgs' /\ m \in msgs) \/ JoinTraffic(t, m) \/ m.type = "AllStateUpdate",
         \A th \in threads' \cup threads :
           (th \in threads' /\ th \in threads) \/ ThreadTraffic(t, th)
  PROVE  LeavesFollow(n)'
<1>1. JoinMessagesOf(n)' = JoinMessagesOf(n) /\ UpdatesTo(n)' = UpdatesTo(n)
  BY DEF JoinMessagesOf, UpdatesTo, JoinTraffic
<1>2. JoinThreadsOf(n)' = JoinThreadsOf(n) /\ UpdateThreadsAt(n)' = UpdateThreadsAt(n)
      /\ MergesAt(n)' = MergesAt(n)
  BY DEF JoinThreadsOf, UpdateThreadsAt, MergesAt, ThreadTraffic, JoinKinds
<1>3. Hosts' = Hosts
  BY DEF Hosts
<1>4. JoinUnderWay(n)' <=> JoinUnderWay(n)
  BY <1>1, <1>2 DEF JoinUnderWay
<1>5. Joining(n)' <=> Joining(n)
  BY <1>1, <1>2, <1>4 DEF Joining
<1>6. LeavesSent(n) => LeavesSent(n)'
  BY <1>1, <1>2, <1>3 DEF LeavesSent, TerminalUpdates
<1>7. LeavesMet(n) => LeavesMet(n)'
  BY <1>3, <1>5 DEF LeavesMet
<1>. QED
  BY <1>4, <1>6, <1>7 DEF LeavesFollow

LEMMA JoinCommandLeaves ==
  ASSUME QuietOverlay, \A n \in Nodes : LeavesFollow(n),
         NEW t \in Nodes, NEW b \in Nodes, JoinCommand(t, b)
  PROVE  \A n \in Nodes : LeavesFollow(n)'
<1>. DEFINE m == [type |-> "JoinMe", to |-> b, newcomer |-> t]
<1>1. msgs' = msgs \cup {m} /\ UNCHANGED <<db, threads>> /\ Settled
  BY DEF JoinCommand, QuietOverlay
<1>2. m.type = "JoinMe" /\ m.newcomer = t
  OBVIOUS
<1>. HIDE DEF m
<1>3. JoinUnderWay(t)'
  BY <1>1, <1>2 DEF JoinUnderWay, JoinMessagesOf
<1>4. ASSUME NEW n \in Nodes, n # t PROVE LeavesMet(n)'
  <2>1. LeavesMet(n)
    BY <1>1 DEF LeavesFollow, JoinUnderWay, JoinMessagesOf, JoinThreadsOf, LeavesSent,
                TerminalUpdates, UpdatesTo, MergesAt, Settled
  <2>2. ~ Joining(n)'
    BY <1>1, <1>2, <1>4 DEF Joining, JoinUnderWay, JoinMessagesOf, JoinThreadsOf, UpdatesTo,
                            UpdateThreadsAt, Settled
  <2>. QED
    BY <1>1, <2>1, <2>2 DEF LeavesMet
<1>. QED
  BY <1>3, <1>4 DEF LeavesFollow

LEMMA JoinHandlerLeaves ==
  ASSUME IInv, \A n \in Nodes : LeavesFollow(n), NEW m, HandleJoinMe(m) \/ HandleJoin(m)
  PROVE  \A n \in Nodes : LeavesFollow(n)'
<1>. DEFINE t == m.newcomer
<1>1. /\ m \in msgs /\ m.type \in {"JoinMe", "Join"} /\ msgs' = msgs \ {m}
      /\ UNCHANGED <<joined, db>>
  BY HandlerStarts
<1>2. PICK th : threads' = threads \cup {th} /\ th.kind \in JoinKinds /\ th.update.to = t
  BY HandlerStarts DEF JoinKinds
<1>3. JoinTraffic(t, m) /\ ThreadTraffic(t, th) /\ th \in JoinThreadsOf(t)'
  BY <1>1, <1>2 DEF JoinTraffic, ThreadTraffic, JoinThreadsOf
<1>4. LeavesFollow(t)'
  BY <1>3 DEF LeavesFollow, JoinUnderWay
<1>5. \A n \in Nodes : n # t => LeavesFollow(n)'
  BY <1>1, <1>2, <1>3, OthersFollow
<1>. QED
  BY <1>4, <1>5

\* The process a Join ends at has met all others but the newcomer.
LEMMA AnswersWithLeaves ==
  ASSUME IInv, NEW k \in Nodes, OneJoin(k), NEW h \in Hosts \ {k}, LeavesFollow(h)
  PROVE  Hosts \ {k} \subseteq {h} \cup Leaves(db[h])
<1>1. ~ JoinUnderWay(h)
  BY DEF OneJoin, Serves, JoinTraffic, ThreadTraffic, JoinUnderWay, JoinMessagesOf, JoinThreadsOf, JoinKinds
<1>2. ~ LeavesSent(h)
  BY DEF OneJoin, Serves, JoinTraffic, ThreadTraffic, LeavesSent, TerminalUpdates, UpdatesTo, MergesAt, JoinKinds
<1>3. Hosts \ {k, h} \subseteq db[h].neighbours
  BY DEF OneJoin
<1>. QED
  BY <1>1, <1>2, <1>3 DEF LeavesFollow, LeavesMet

LEMMA JoinThreadLeaves ==
  ASSUME IInv, live = Nodes, AmongHosts, NEW k \in Nodes, OneJoin(k), \A n \in Nodes : LeavesFollow(n),
         NEW th, ForwardJoin(th) \/ AnswerJoin(th)
  PROVE  \A n \in Nodes : LeavesFollow(n)'
<1>. DEFINE join == [type |-> "Join", to |-> th.next, sender |-> th.at,
                     newcomer |-> th.update.to, row_index |-> th.row]
            answer == [Signed(th) EXCEPT !.terminal = TRUE, !.leaf = Leaves(db[th.at])]
<1>1. th \in threads /\ th.kind \in JoinKinds /\ threads' = threads \ {th} /\ UNCHANGED <<joined, db>>
  BY DEF ForwardJoin, AnswerJoin
<1>2. /\ th.at \in Nodes /\ th.next \in Nodes /\ Signed(th) \in RoutingUpdateMessage
      /\ th.update \in RoutingUpdateMessage
  BY <1>1, JoinThreadFields DEF IInv
<1>3. th.update.to = k /\ th.at # k
  BY <1>1 DEF OneJoin, ThreadTraffic, JoinKinds, IInv, GoodThread
<1>4. /\ Signed(th).type = "RoutingUpdate" /\ Signed(th).to = k
      /\ Signed(th).sender = (IF th.kind = "joinMe" THEN th.at ELSE th.next)
  BY <1>2, <1>3 DEF Signed, RoutingUpdateMessage
<1>5. /\ answer.type = "RoutingUpdate" /\ answer.to = k /\ answer.sender = Signed(th).sender
      /\ answer.leaf = Leaves(db[th.at]) /\ answer.terminal
  BY <1>2, <1>4 DEF RoutingUpdateMessage
<1>6. join.type = "Join" /\ join.to = th.next /\ join.newcomer = k
  BY <1>3
<1>. HIDE DEF join, answer
<1>7. JoinTraffic(k, join) /\ JoinTraffic(k, Signed(th)) /\ JoinTraffic(k, answer) /\ ThreadTraffic(k, th)
  BY <1>1, <1>3, <1>4, <1>5, <1>6 DEF JoinTraffic, ThreadTraffic
<1>8. CASE ForwardJoin(th)
  <2>1. msgs' = msgs \cup {join, Signed(th)}
    <3>1. msgs' = msgs \cup Reachable({join, Signed(th)})
      BY <1>8 DEF ForwardJoin, join
    <3>2. Reachable({join, Signed(th)}) = {join, Signed(th)}
      BY <1>2, <1>4, <1>6 DEF Reachable
    <3>. QED
      BY <3>1, <3>2
  <2>2. LeavesFollow(k)'
    BY <1>6, <2>1 DEF LeavesFollow, JoinUnderWay, JoinMessagesOf
  <2>3. \A n \in Nodes : n # k => LeavesFollow(n)'
    BY <1>1, <1>7, <2>1, OthersFollow
  <2>. QED
    BY <2>2, <2>3
<1>9. CASE AnswerJoin(th)
  <2>1. msgs' = msgs \cup {answer} /\ th.next = th.at
    <3>1. msgs' = msgs \cup Reachable({answer}) /\ th.next = th.at
      BY <1>9 DEF AnswerJoin, answer
    <3>2. Reachable({answer}) = {answer}
      BY <1>5 DEF Reachable
    <3>. QED
      BY <3>1, <3>2
  <2>2. th.at \in Hosts \ {k}
    BY <1>1, <1>3 DEF AmongHosts, ThreadAmong
  <2>3. Hosts \ {k} \subseteq {answer.sender} \cup answer.leaf
    BY <1>2, <1>4, <1>5, <2>1, <2>2, AnswersWithLeaves
  <2>4. answer \in TerminalUpdates(k)' /\ Hosts' = Hosts
    BY <1>1, <1>5, <2>1 DEF TerminalUpdates, UpdatesTo, Hosts
  <2>5. LeavesFollow(k)'
    BY <2>3, <2>4 DEF LeavesFollow, LeavesSent
  <2>6. \A n \in Nodes : n # k => LeavesFollow(n)'
    BY <1>1, <1>7, <2>1, OthersFollow
  <2>. QED
    BY <2>5, <2>6
<1>. QED
  BY <1>8, <1>9

\* What n is told enters its leaf set with its neighbour set.
LEMMA AddsToLeaves ==
  ASSUME TinyOverlay, NEW n \in Nodes, NEW D, GoodDatabase(n, D), NEW S \in SUBSET Nodes
  PROVE  /\ UpdateAllState(n, D, S).neighbours = D.neighbours \cup (S \ {n})
         /\ Leaves(UpdateAllState(n, D, S)) = Leaves(D) \cup (S \ {n})
<1>. DEFINE E == UpdateAllState(n, D, S)
<1>1. E.left = LeftWith(n, D.left, S) /\ E.right = RightWith(n, D.right, S)
  BY DEF UpdateAllState, GoodDatabase, Database
<1>. HIDE DEF E
<1>2. Leaves(E) = Leaves(D) \cup (S \ {n})
  BY <1>1, LeavesAll DEF Leaves
<1>3. E.neighbours = D.neighbours \cup (S \ {n})
  BY TinyIsSmall, KnownAdded DEF E
<1>. QED
  BY <1>2, <1>3 DEF E

LEMMA UpdateLeaves ==
  ASSUME TinyOverlay, IInv, \A n \in Nodes : LeavesFollow(n), NEW m, HandleRoutingUpdate(m)
  PROVE  \A n \in Nodes : LeavesFollow(n)'
<1>. DEFINE k == m.to
            U == UpdateAllState(k, db[k], {m.sender})
            D == [U EXCEPT !.received = U.received + m.rows]
            th == [kind |-> "merge", at |-> k, update |-> m]
<1>1. m \in msgs /\ m.type = "RoutingUpdate"
  BY DEF HandleRoutingUpdate
<1>2. /\ msgs' = msgs \ {m} /\ threads' = threads \cup {th} /\ db' = [db EXCEPT ![k] = D]
      /\ UNCHANGED <<live, joined, quitting, restarts>>
  BY <1>1 DEF HandleRoutingUpdate
<1>3. m.sender \in Nodes /\ k \in Nodes /\ GoodDatabase(k, db[k]) /\ db \in [Nodes -> Database]
  BY <1>1, MessageTypes DEF IInv, RoutingUpdateMessage, GoodDatabases
<1>4. /\ U.neighbours = db[k].neighbours \cup ({m.sender} \ {k})
      /\ Leaves(U) = Leaves(db[k]) \cup ({m.sender} \ {k})
  BY <1>3, AddsToLeaves
<1>5. D.neighbours = U.neighbours /\ Leaves(D) = Leaves(U)
  BY <1>3 DEF UpdateAllState, Database, GoodDatabase, Leaves
<1>6. th.kind = "merge" /\ th.at = k /\ th.update = m
  OBVIOUS
<1>. HIDE DEF D, th, U
<1>7. db'[k] = D /\ \A n \in Nodes : n = k \/ db'[n] = db[n]
  BY <1>2, <1>3
<1>8. JoinTraffic(k, m) /\ ThreadTraffic(k, th)
  BY <1>1, <1>6 DEF JoinTraffic, ThreadTraffic
<1>9. \A n \in Nodes : n # k => LeavesFollow(n)'
  BY <1>2, <1>7, <1>8, OthersFollow
<1>10. LeavesFollow(k)'
  <2>1. Hosts' = Hosts /\ Joining(k)
    BY <1>1, <1>2 DEF Hosts, Joining, UpdatesTo
  <2>2. JoinUnderWay(k) => JoinUnderWay(k)'
    BY <1>1, <1>2 DEF JoinUnderWay, JoinMessagesOf, JoinThreadsOf
  <2>3. TerminalUpdates(k) \subseteq TerminalUpdates(k)'
    BY <1>2, <1>6 DEF TerminalUpdates, UpdatesTo, MergesAt
  <2>4. LeavesSent(k) => LeavesSent(k)'
    BY <2>1, <2>3 DEF LeavesSent
  <2>5. LeavesMet(k) => LeavesMet(k)'
    BY <1>4, <1>5, <1>7, <2>1 DEF LeavesMet
  <2>. QED
    BY <1>3, <2>2, <2>4, <2>5 DEF LeavesFollow
<1>. QED
  BY <1>9, <1>10

LEMMA MergeLeaves ==
  ASSUME TinyOverlay, IInv, AmongHosts, AmongHosts', \A n \in Nodes : LeavesFollow(n),
         NEW th, MergeRoutingUpdate(th)
  PROVE  \A n \in Nodes : LeavesFollow(n)'
<1>. DEFINE k == th.at
            m == th.update
            leaves == IF m.terminal THEN {m.sender} \cup m.leaf ELSE {}
            D == [db[k] EXCEPT !.table = TableWith(k, @, m.entries),
                               !.neighbours = NeighboursWith(k, @, m.neighbours),
                               !.left = LeftWith(k, @, leaves),
                               !.right = RightWith(k, @, leaves),
                               !.total = IF m.terminal THEN m.prefix_match ELSE @]
            th2 == [th EXCEPT !.kind = "check"]
<1>1. th \in threads /\ th.kind = "merge"
  BY DEF MergeRoutingUpdate
<1>2. /\ th \in UpdateThread /\ m \in RoutingUpdateMessage /\ k \in Nodes
      /\ db \in [Nodes -> Database] /\ GoodDatabase(k, db[k]) /\ db[k] \in Database
  BY <1>1, ThreadTypes DEF IInv, GoodDatabases, UpdateThread
<1>3. /\ threads' = (threads \ {th}) \cup {th2} /\ db' = [db EXCEPT ![k] = D]
      /\ UNCHANGED <<live, joined, quitting, restarts, msgs>>
  BY <1>1 DEF MergeRoutingUpdate
<1>4. leaves \in SUBSET Nodes
  BY <1>2 DEF RoutingUpdateMessage
<1>5. Leaves(D) = Leaves(db[k]) \cup (leaves \ {k})
  <2>1. D.left = LeftWith(k, db[k].left, leaves) /\ D.right = RightWith(k, db[k].right, leaves)
    BY <1>2 DEF Database
  <2>. HIDE DEF leaves, D
  <2>. QED
    BY <1>2, <1>4, <2>1, LeavesAll DEF Leaves
<1>6. th2.kind = "check" /\ th2.at = k /\ th2.update = m
  BY <1>1, <1>2 DEF UpdateThread
<1>7. m.terminal => leaves = {m.sender} \cup m.leaf
  OBVIOUS
<1>. HIDE DEF D, th2, leaves
<1>8. db'[k] = D /\ \A n \in Nodes : n = k \/ db'[n] = db[n]
  BY <1>2, <1>3
<1>9. ThreadTraffic(k, th) /\ ThreadTraffic(k, th2)
  BY <1>1, <1>6 DEF ThreadTraffic
<1>10. \A n \in Nodes : n # k => LeavesFollow(n)'
  BY <1>3, <1>8, <1>9, OthersFollow
<1>11. LeavesFollow(k)'
  <2>1. Hosts' = Hosts /\ Joining(k)
    BY <1>1, <1>3 DEF Hosts, Joining, UpdateThreadsAt
  <2>2. JoinUnderWay(k) => JoinUnderWay(k)'
    BY <1>1, <1>3 DEF JoinUnderWay, JoinMessagesOf, JoinThreadsOf, JoinKinds
  <2>3. Hosts \ {k} \subseteq Leaves(D) => LeavesMet(k)'
    <3>1. db'[k].neighbours \subseteq Hosts'
      BY <1>2 DEF AmongHosts, Known
    <3>2. GoodDatabase(k, D)
      <4>1. IInv'
        BY <1>1, MergeRoutingUpdateGood
      <4>. QED
        BY <1>2, <1>8, <4>1 DEF IInv, GoodDatabases
    <3>3. k \notin D.neighbours
      BY <3>2 DEF GoodDatabase, Placed
    <3>. QED
      BY <1>8, <2>1, <3>1, <3>3 DEF LeavesMet
  <2>4. LeavesMet(k) => LeavesMet(k)'
    BY <1>5, <2>1, <2>3 DEF LeavesMet
  <2>5. ASSUME LeavesSent(k) PROVE LeavesSent(k)' \/ LeavesMet(k)'
    <3>1. PICK u \in TerminalUpdates(k) : Hosts \ {k} \subseteq {u.sender} \cup u.leaf
      BY <2>5 DEF LeavesSent
    <3>2. CASE u = m
      <4>1. m.terminal
        BY <3>1, <3>2 DEF TerminalUpdates
      <4>2. Hosts \ {k} \subseteq Leaves(D)
        BY <1>5, <1>7, <3>1, <3>2, <4>1
      <4>. QED
        BY <2>3, <4>2
    <3>3. CASE u # m
      <4>1. u \in TerminalUpdates(k)'
        BY <1>3, <3>1, <3>3 DEF TerminalUpdates, UpdatesTo, MergesAt
      <4>. QED
        BY <2>1, <3>1, <4>1 DEF LeavesSent
    <3>. QED
      BY <3>2, <3>3
  <2>. QED
    BY <1>2, <2>2, <2>4, <2>5 DEF LeavesFollow
<1>. QED
  BY <1>10, <1>11

LEMMA CheckLeaves ==
  ASSUME IInv, \A n \in Nodes : LeavesFollow(n), NEW th, CheckRoutingUpdate(th)
  PROVE  \A n \in Nodes : LeavesFollow(n)'
<1>. SUFFICES ASSUME NEW n \in Nodes PROVE LeavesFollow(n)'
  OBVIOUS
<1>1. /\ th \in threads /\ th.kind = "check" /\ threads' = threads \ {th}
      /\ UNCHANGED <<live, joined, quitting, restarts, db>>
      /\ msgs \subseteq msgs' /\ \A m \in msgs' : m \in msgs \/ m \in StateUpdates(th.at)
  BY DEF CheckRoutingUpdate
<1>2. \A m \in StateUpdates(th.at) : m.type = "AllStateUpdate"
  BY DEF StateUpdates, Reachable
<1>3. JoinMessagesOf(n)' = JoinMessagesOf(n) /\ UpdatesTo(n)' = UpdatesTo(n)
  BY <1>1, <1>2 DEF JoinMessagesOf, UpdatesTo
<1>4. /\ JoinThreadsOf(n)' = JoinThreadsOf(n) /\ MergesAt(n)' = MergesAt(n)
      /\ UpdateThreadsAt(n)' \subseteq UpdateThreadsAt(n)
  BY <1>1 DEF JoinThreadsOf, MergesAt, UpdateThreadsAt, JoinKinds
<1>5. Hosts' = Hosts
  BY <1>1 DEF Hosts
<1>6. JoinUnderWay(n)' <=> JoinUnderWay(n)
  BY <1>3, <1>4 DEF JoinUnderWay
<1>7. Joining(n)' => Joining(n)
  BY <1>3, <1>4, <1>6 DEF Joining
<1>8. LeavesSent(n) => LeavesSent(n)'
  BY <1>3, <1>4, <1>5 DEF LeavesSent, TerminalUpdates
<1>9. LeavesMet(n) => LeavesMet(n)'
  BY <1>1, <1>5, <1>7 DEF LeavesMet
<1>. QED
  BY <1>6, <1>8, <1>9 DEF LeavesFollow

LEMMA AllStateLeaves ==
  ASSUME TinyOverlay, IInv, \A n \in Nodes : LeavesFollow(n), NEW m, HandleAllStateUpdate(m)
  PROVE  \A n \in Nodes : LeavesFollow(n)'
<1>. SUFFICES ASSUME NEW n \in Nodes PROVE LeavesFollow(n)'
  OBVIOUS
<1>. DEFINE S == {m.sender} \cup m.nodes
            D == UpdateAllState(m.to, db[m.to], S)
<1>1. /\ m \in msgs /\ m.type = "AllStateUpdate" /\ msgs' = msgs \ {m}
      /\ db' = [db EXCEPT ![m.to] = D] /\ UNCHANGED <<live, joined, quitting, restarts, threads>>
  BY DEF HandleAllStateUpdate
<1>2. m.to \in Nodes /\ S \in SUBSET Nodes /\ GoodDatabase(m.to, db[m.to]) /\ db \in [Nodes -> Database]
  BY <1>1, MessageTypes DEF IInv, AllStateUpdateMessage, GoodDatabases
<1>. HIDE DEF S
<1>3. D.neighbours = db[m.to].neighbours \cup (S \ {m.to}) /\ Leaves(D) = Leaves(db[m.to]) \cup (S \ {m.to})
  BY <1>2, AddsToLeaves
<1>. HIDE DEF D
<1>4. /\ n # m.to => db'[n] = db[n]
      /\ n = m.to => db'[n] = D
  BY <1>1, <1>2
<1>5. JoinMessagesOf(n)' = JoinMessagesOf(n) /\ UpdatesTo(n)' = UpdatesTo(n)
  BY <1>1 DEF JoinMessagesOf, UpdatesTo
<1>6. /\ JoinThreadsOf(n)' = JoinThreadsOf(n) /\ MergesAt(n)' = MergesAt(n)
      /\ UpdateThreadsAt(n)' = UpdateThreadsAt(n) /\ Hosts' = Hosts
  BY <1>1 DEF JoinThreadsOf, MergesAt, UpdateThreadsAt, Hosts
<1>7. (JoinUnderWay(n)' <=> JoinUnderWay(n)) /\ (Joining(n)' <=> Joining(n))
  BY <1>5, <1>6 DEF JoinUnderWay, Joining
<1>8. LeavesSent(n) => LeavesSent(n)'
  BY <1>5, <1>6 DEF LeavesSent, TerminalUpdates
<1>9. LeavesMet(n) => LeavesMet(n)'
  BY <1>3, <1>4, <1>6, <1>7 DEF LeavesMet
<1>. QED
  BY <1>7, <1>8, <1>9 DEF LeavesFollow

LEMMA LeafIInvStep ==
  ASSUME QuietOverlay, TinyOverlay
  PROVE  IInv /\ RowsIInv /\ ToldIInv /\ QuietIInv /\ LeafIInv /\ [Next]_vars => LeafIInv'
<1>. SUFFICES ASSUME IInv, RowsIInv, ToldIInv, QuietIInv, LeafIInv, [Next]_vars, NobodyLeft'
              PROVE  \A n \in Nodes : LeavesFollow(n)'
  BY DEF LeafIInv
<1>1. CASE UNCHANGED vars
  <2>1. NobodyLeft
    BY <1>1 DEF vars, NobodyLeft, NobodyEnded, NobodyRestarted
  <2>. SUFFICES ASSUME NEW n \in Nodes PROVE LeavesFollow(n)'
    OBVIOUS
  <2>2. LeavesFollow(n)
    BY <2>1 DEF LeafIInv
  <2>3. JoinUnderWay(n)' <=> JoinUnderWay(n)
    BY <1>1 DEF vars, JoinUnderWay, JoinMessagesOf, JoinThreadsOf
  <2>4. Joining(n)' <=> Joining(n)
    BY <1>1, <2>3 DEF vars, Joining, UpdatesTo, UpdateThreadsAt
  <2>5. LeavesSent(n)' <=> LeavesSent(n)
    BY <1>1 DEF vars, LeavesSent, TerminalUpdates, UpdatesTo, MergesAt, Hosts
  <2>6. LeavesMet(n)' <=> LeavesMet(n)
    BY <1>1, <2>4 DEF vars, LeavesMet, Hosts
  <2>. QED
    BY <2>2, <2>3, <2>5, <2>6 DEF LeavesFollow
<1>2. CASE Next
  <2>1. NobodyLeft => OnlyJoins
    BY DEF ToldIInv, AllTold
  <2>2. NobodyLeft
    BY <1>2, <2>1, StayingSteps
  <2>3. OneByOne /\ OneByOne' /\ live = Nodes /\ \A n \in Nodes : LeavesFollow(n)
    BY <2>2, QuietIInvStep DEF QuietIInv, NobodyLeft, NobodyEnded, LeafIInv
  <2>4. CASE \E n, b \in Nodes : JoinCommand(n, b)
    BY <2>3, <2>4, JoinCommandLeaves
  <2>5. CASE \E m \in msgs : HandleJoinMe(m) \/ HandleJoin(m) \/ HandleRoutingUpdate(m)
                              \/ HandleAllStateUpdate(m)
    BY <2>3, <2>5, JoinHandlerLeaves, UpdateLeaves, AllStateLeaves
  <2>6. CASE \E th \in threads : ForwardJoin(th) \/ AnswerJoin(th) \/ MergeRoutingUpdate(th)
                                 \/ CheckRoutingUpdate(th)
    <3>1. PICK k \in Nodes : OneJoin(k)
      BY <2>3, <2>6 DEF OneByOne, Settled
    <3>2. AmongHosts /\ AmongHosts'
      BY <2>3 DEF OneByOne
    <3>. QED
      BY <2>3, <2>6, <3>1, <3>2, JoinThreadLeaves, MergeLeaves, CheckLeaves
  <2>. QED
    BY <1>2, <2>1, <2>4, <2>5, <2>6, StayingSteps
<1>. QED
  BY <1>1, <1>2

\* The founder does not stay alone once somebody has joined.
TwoHosts == NobodyLeft /\ joined # {} => \E b, c \in Hosts : b # c

LEMMA TwoHostsStep ==
  ASSUME QuietOverlay
  PROVE  IInv /\ ToldIInv /\ TwoHosts /\ [Next]_vars => TwoHosts'
<1>. SUFFICES ASSUME IInv, ToldIInv, TwoHosts, [Next]_vars, NobodyLeft', joined' # {}
              PROVE  \E b, c \in Hosts' : b # c
  BY DEF TwoHosts
<1>1. CASE UNCHANGED vars
  <2>1. NobodyLeft
    BY <1>1 DEF vars, NobodyLeft, NobodyEnded, NobodyRestarted
  <2>. QED
    BY <1>1, <2>1 DEF vars, TwoHosts, Hosts
<1>2. CASE Next
  <2>1. NobodyLeft => OnlyJoins
    BY DEF ToldIInv, AllTold
  <2>2. NobodyLeft
    BY <1>2, <2>1, StayingSteps
  <2>3. CASE \E n, b \in Nodes : JoinCommand(n, b)
    <3>1. PICK n \in Nodes, b \in Nodes : JoinCommand(n, b)
      BY <2>3
    <3>. QED
      BY <3>1 DEF JoinCommand, Hosts, QuietOverlay
  <2>4. CASE joined' = joined
    BY <2>2, <2>4 DEF TwoHosts, Hosts
  <2>5. CASE \E m \in msgs : HandleJoinMe(m) \/ HandleJoin(m) \/ HandleRoutingUpdate(m)
                              \/ HandleAllStateUpdate(m)
    BY <2>4, <2>5 DEF HandleJoinMe, HandleJoin, HandleRoutingUpdate, HandleAllStateUpdate
  <2>6. CASE \E th \in threads : ForwardJoin(th) \/ AnswerJoin(th) \/ MergeRoutingUpdate(th)
                                 \/ CheckRoutingUpdate(th)
    BY <2>4, <2>6 DEF ForwardJoin, AnswerJoin, MergeRoutingUpdate, CheckRoutingUpdate
  <2>. QED
    BY <1>2, <2>1, <2>3, <2>5, <2>6, StayingSteps
<1>. QED
  BY <1>1, <1>2

\* Once everything has settled, the members are the hosts.
LEMMA SettledMembers ==
  ASSUME QuietOverlay, IInv, OneByOne, Settled, live = Nodes, quitting = {}, NobodyRestarted, TwoHosts,
         NEW n \in Members
  PROVE  Members = Hosts
<1>1. AllMet /\ AmongHosts /\ Hosts \subseteq Nodes
  BY SettledAllMet DEF OneByOne, Hosts, IInv, GoodProcesses
<1>2. Members \subseteq Hosts
  BY <1>1 DEF AmongHosts, Members, Hosts
<1>3. \E b, c \in Hosts : b # c
  <2>1. CASE joined # {}
    BY <2>1 DEF TwoHosts, NobodyLeft, NobodyEnded
  <2>2. CASE Known(db[n]) # {}
    <3>1. Known(db[n]) \subseteq Hosts /\ n \notin Known(db[n])
      BY <1>1, <1>2, <2>2, KnownAreOthers DEF AmongHosts, IInv, GoodDatabases
    <3>. QED
      BY <1>2, <2>2, <3>1
  <2>. QED
    BY <2>1, <2>2 DEF Members
<1>4. \A x \in Hosts : Known(db[x]) # {}
  BY <1>1, <1>3 DEF AllMet, Known
<1>. QED
  BY <1>1, <1>2, <1>4 DEF Members

LEMMA LeafIInvImplies ==
  ASSUME QuietOverlay, TinyOverlay
  PROVE  IInv /\ QuietIInv /\ LeafIInv /\ TwoHosts => (NobodyLeft => LeafSetsClosest)
<1>. SUFFICES ASSUME IInv, QuietIInv, LeafIInv, TwoHosts, NobodyLeft, Settled, NEW n \in Members
              PROVE  /\ db[n].left = LargestLeaves({x \in Members : IdLess(x, n)})
                     /\ db[n].right = SmallestLeaves({x \in Members : IdLess(n, x)})
  BY DEF LeafSetsClosest
<1>1. OneByOne /\ live = Nodes /\ quitting = {} /\ NobodyRestarted
  BY DEF QuietIInv, NobodyLeft, NobodyEnded
<1>2. AllMet /\ AmongHosts /\ Members = Hosts /\ n \in Hosts /\ Hosts \subseteq Nodes
  <2>1. Members = Hosts
    BY <1>1, SettledMembers
  <2>. QED
    BY <1>1, <2>1, SettledAllMet DEF OneByOne, Hosts, IInv, GoodProcesses
<1>3. LeavesMet(n)
  BY <1>2 DEF LeafIInv, LeavesFollow, JoinUnderWay, JoinMessagesOf, JoinThreadsOf, LeavesSent,
              TerminalUpdates, UpdatesTo, MergesAt, Settled
<1>4. Hosts \ {n} \subseteq Leaves(db[n])
  BY <1>2, <1>3 DEF AllMet, LeavesMet
<1>5. Leaves(db[n]) \subseteq Hosts
  BY <1>2 DEF AmongHosts, Known
<1>6. Placed(n, db[n])
  BY <1>2 DEF IInv, GoodDatabases, GoodDatabase
<1>7. /\ \A x \in db[n].left : IdLess(x, n) /\ x \in Hosts
      /\ \A x \in db[n].right : IdLess(n, x) /\ x \in Hosts
  BY <1>5, <1>6 DEF Placed, Leaves
<1>8. \A x \in Nodes : /\ ~ (IdLess(x, n) /\ IdLess(n, x))
                       /\ ~ IdLess(n, n)
  BY <1>2, NodesAssumption, IdLessIrreflexive, IdLessTransitive
<1>9. \A x \in Hosts : x # n => x \in db[n].left \/ x \in db[n].right
  BY <1>4 DEF Leaves
<1>10. /\ db[n].left = {x \in Hosts : IdLess(x, n)}
       /\ db[n].right = {x \in Hosts : IdLess(n, x)}
  BY <1>2, <1>7, <1>8, <1>9
<1>11. \A T \in SUBSET Nodes : n \notin T => LargestLeaves(T) = T /\ SmallestLeaves(T) = T
  BY <1>2, NoLeafTrimmed
<1>12. {x \in Hosts : IdLess(x, n)} \in SUBSET Nodes /\ {x \in Hosts : IdLess(n, x)} \in SUBSET Nodes
  BY <1>2
<1>. QED
  BY <1>2, <1>8, <1>10, <1>11, <1>12

\* When users wait for one another's joins, and no half of a leaf set overflows, the
\* leaf set of every process is the nearest members on either side: the terminal
\* process hands over its leaf set (peerMessageHandler.cpp:123-144, 250-267) and the
\* newcomer and those it announces itself to add one another.
THEOREM LeafSetsClosestHolds ==
  ASSUME QuietOverlay, TinyOverlay
  PROVE  Spec => [](NobodyLeft => LeafSetsClosest)
<1>1. SmallOverlay
  BY DEF QuietOverlay
<1>2. IInv /\ RowsIInv /\ ToldIInv /\ [Next]_vars => ToldIInv'
  BY <1>1, ToldIInvStep
<1>3. IInv /\ RowsIInv /\ ToldIInv /\ QuietIInv /\ [Next]_vars => QuietIInv'
  BY QuietIInvStep
<1>4. IInv /\ RowsIInv /\ ToldIInv /\ QuietIInv /\ LeafIInv /\ [Next]_vars => LeafIInv'
  BY LeafIInvStep
<1>5. IInv /\ ToldIInv /\ TwoHosts /\ [Next]_vars => TwoHosts'
  BY TwoHostsStep
<1>6. Init => QuietIInv /\ TwoHosts
  BY QuietIInvInit DEF Init, TwoHosts
<1>7. IInv /\ QuietIInv /\ LeafIInv /\ TwoHosts => (NobodyLeft => LeafSetsClosest)
  BY LeafIInvImplies
<1>. QED
  BY <1>2, <1>3, <1>4, <1>5, <1>6, <1>7, IInvInit, IInvStep, RowsIInvInit, RowsIInvStep,
     ToldIInvInit, LeafIInvInit, PTL DEF Spec
-----------------------------------------------------------------------------
(***************************************************************************)
(* Routing tables.  Every process the Join passes sends the rows it shares *)
(* with the newcomer.  For each other process x the entry for its slot has *)
(* been sent, or the Join is still to reach one that sends it: it goes on, *)
(* along full tables and leaf sets, to a process nearest the newcomer.     *)
(***************************************************************************)
\* y belongs in the slot of the table of k that x belongs in.
Fits(k, x, y) == y # k /\ Slot(k, y) = Slot(k, x)
\* The slot of x in the table of k is not empty.
Filled(k, x) == SlotEntry(db[k], Slot(k, x)) # None

\* No host but k itself is better for k than h.
NearestTo(k, h) == \A y \in Hosts \ {k} : ~ IsBetter(y, h, k)

\* An entry for the slot of x is among what k has been sent,
FillSent(k, x) ==
  \/ \E u \in UpdatesTo(k) : \E y \in {u.sender} \cup u.entries : Fits(k, x, y)
  \/ \E th \in MergesAt(k) : \E y \in th.update.entries : Fits(k, x, y)
\* or the Join of k is still to reach a process that sends one: it stands above
\* the row of x, or at a process that belongs in the slot and is the last one.
\* (A Join that reaches k itself ends k.)
FillAhead(k, x) ==
  \/ \E m \in JoinMessagesOf(k) :
       \/ m.type = "JoinMe" \/ m.to = k
       \/ ~ Fits(k, x, m.to) /\ m.row_index <= PrefixMatchLen(k, x)
       \/ Fits(k, x, m.to) /\ NearestTo(k, m.to)
  \/ \E th \in JoinThreadsOf(k) :
       \/ \E y \in {Signed(th).sender} \cup th.update.entries : Fits(k, x, y)
       \/ th.next = k
       \/ /\ th.row <= PrefixMatchLen(k, x) /\ th.next # th.at
          /\ ~ Fits(k, x, th.next) \/ NearestTo(k, th.next)
\* Whoever k knows, or is about to meet in its join, has its slot filled.
SlotsFollow(k) ==
  \A x \in Hosts \ {k} :
    x \in db[k].neighbours \/ Joining(k) => Filled(k, x) \/ FillSent(k, x) \/ FillAhead(k, x)
SlotIInv == NobodyLeft => \A k \in Nodes : SlotsFollow(k)

LEMMA SlotIInvInit == Init => SlotIInv
<1>. SUFFICES ASSUME Init, NEW n \in Nodes PROVE SlotsFollow(n)
  BY DEF SlotIInv
<1>1. ~ Joining(n)
  BY DEF Init, Joining, JoinUnderWay, JoinMessagesOf, JoinThreadsOf, UpdatesTo, UpdateThreadsAt
<1>2. db[n].neighbours = {}
  BY DEF Init, EmptyDatabase
<1>. QED
  BY <1>1, <1>2 DEF SlotsFollow

\* addToRoutingTable empties no slot, and leaves none empty that it is offered
\* a node for.
LEMMA SlotsKept ==
  ASSUME NEW n \in Nodes, NEW D \in Database, NEW S \in SUBSET Nodes, NEW E,
         E.table = TableWith(n, D.table, S), NEW x \in Nodes, x # n,
         SlotEntry(D, Slot(n, x)) # None \/ \E y \in S : Fits(n, x, y)
  PROVE  SlotEntry(E, Slot(n, x)) # None
<1>. DEFINE p == Slot(n, x)[1]
            d == Slot(n, x)[2]
            C == {y \in S \ {n} : Slot(n, y) = <<p, d>>}
<1>1. p \in Row /\ d \in Digit
  BY SlotPlaced
<1>2. Slot(n, x) = <<p, d>>
  BY DEF Slot
<1>3. E.table[p][d] = SlotAfter(n, D.table[p][d], C)
  <2>. HIDE DEF p, d
  <2>. QED
    BY <1>1 DEF TableWith
<1>4. C \in SUBSET Nodes /\ D.table[p][d] \in Entry
  BY <1>1 DEF Database
<1>5. D.table[p][d] # None \/ C # {}
  <2>1. \A y \in S : Fits(n, x, y) => y \in C
    BY <1>2 DEF Fits
  <2>. HIDE DEF C, p, d
  <2>. QED
    BY <1>2, <2>1 DEF SlotEntry
<1>. HIDE DEF C, p, d
<1>6. SlotAfter(n, D.table[p][d], C) # None
  <2>1. \A y \in C : y # None
    BY <1>4, NodesAssumption, NoneAssumption
  <2>2. CASE C = {}
    BY <1>5, <2>2 DEF SlotAfter
  <2>3. CASE C # {}
    <3>1. PICK y \in C : \A z \in C \ {y} : NearerNeighbour(n, y, z)
      BY <1>4, <2>3, NearestExists
    <3>2. (CHOOSE a \in C : \A z \in C \ {a} : NearerNeighbour(n, a, z)) \in C
      BY <3>1
    <3>. QED
      BY <2>1, <2>3, <3>2 DEF SlotAfter
  <2>. QED
    BY <2>2, <2>3
<1>. QED
  BY <1>2, <1>3, <1>6 DEF SlotEntry

\* Whoever is not joining is not concerned by the join of t.
LEMMA OthersFill ==
  ASSUME NEW t, NEW n \in Nodes, n # t, SlotsFollow(n), joined' = joined, db'[n] = db[n],
         \A m \in msgs' \cup msgs :
           (m \in msgs' /\ m \in msgs) \/ JoinTraffic(t, m) \/ m.type = "AllStateUpdate",
         \A th \in threads' \cup threads :
           (th \in threads' /\ th \in threads) \/ ThreadTraffic(t, th)
  PROVE  SlotsFollow(n)'
<1>1. JoinMessagesOf(n)' = JoinMessagesOf(n) /\ UpdatesTo(n)' = UpdatesTo(n)
  BY DEF JoinMessagesOf, UpdatesTo, JoinTraffic
<1>2. JoinThreadsOf(n)' = JoinThreadsOf(n) /\ UpdateThreadsAt(n)' = UpdateThreadsAt(n)
      /\ MergesAt(n)' = MergesAt(n)
  BY DEF JoinThreadsOf, UpdateThreadsAt, MergesAt, ThreadTraffic, JoinKinds
<1>3. Hosts' = Hosts
  BY DEF Hosts
<1>4. Joining(n)' <=> Joining(n)
  BY <1>1, <1>2 DEF Joining, JoinUnderWay
<1>5. ASSUME NEW x \in Hosts \ {n}, x \in db'[n].neighbours \/ Joining(n)'
      PROVE  Filled(n, x)' \/ FillSent(n, x)' \/ FillAhead(n, x)'
  <2>1. Filled(n, x) \/ FillSent(n, x) \/ FillAhead(n, x)
    BY <1>4, <1>5 DEF SlotsFollow
  <2>2. Filled(n, x)' <=> Filled(n, x)
    BY DEF Filled
  <2>3. FillSent(n, x)' <=> FillSent(n, x)
    BY <1>1, <1>2 DEF FillSent
  <2>4. FillAhead(n, x)' <=> FillAhead(n, x)
    BY <1>1, <1>2, <1>3 DEF FillAhead, NearestTo
  <2>. QED
    BY <2>1, <2>2, <2>3, <2>4
<1>. QED
  BY <1>3, <1>5 DEF SlotsFollow

\* A join leads its newcomer to every slot: its JoinMe is still to be handled.
LEMMA JoinCommandSlots ==
  ASSUME QuietOverlay, AmongHosts, \A n \in Nodes : SlotsFollow(n),
         NEW t \in Nodes, NEW b \in Nodes, JoinCommand(t, b)
  PROVE  \A n \in Nodes : SlotsFollow(n)'
<1>. DEFINE m == [type |-> "JoinMe", to |-> b, newcomer |-> t]
<1>1. /\ msgs' = msgs \cup {m} /\ UNCHANGED <<db, threads>> /\ Settled /\ joined' = joined \cup {t}
  BY DEF JoinCommand, QuietOverlay
<1>2. m.type = "JoinMe" /\ m.newcomer = t
  OBVIOUS
<1>. HIDE DEF m
<1>3. \A x : FillAhead(t, x)'
  <2>1. m \in JoinMessagesOf(t)'
    BY <1>1, <1>2 DEF JoinMessagesOf
  <2>. QED
    BY <1>2, <2>1 DEF FillAhead
<1>4. ASSUME NEW n \in Nodes, n # t PROVE SlotsFollow(n)'
  <2>1. ~ Joining(n)'
    BY <1>1, <1>2, <1>4 DEF Joining, JoinUnderWay, JoinMessagesOf, JoinThreadsOf, UpdatesTo,
                            UpdateThreadsAt, Settled
  <2>2. ASSUME NEW x \in db[n].neighbours \ {n} PROVE Filled(n, x)
    <3>1. x \in Hosts \ {n}
      BY DEF AmongHosts, Known
    <3>2. ~ FillSent(n, x) /\ ~ FillAhead(n, x)
      BY <1>1 DEF FillSent, FillAhead, JoinMessagesOf, JoinThreadsOf, UpdatesTo, MergesAt, Settled
    <3>. QED
      BY <3>1, <3>2 DEF SlotsFollow
  <2>. QED
    BY <1>1, <2>1, <2>2 DEF SlotsFollow, Filled
<1>. QED
  BY <1>3, <1>4 DEF SlotsFollow

\* The handler of a JoinMe or a Join sends the rows from the first one not yet
\* sent to the one where it leaves the newcomer.
LEMMA HandlerSendsRows ==
  ASSUME IInv, NEW m, HandleJoinMe(m) \/ HandleJoin(m)
  PROVE  \E th : LET p == PrefixMatchLen(m.newcomer, m.to)
                     first == IF m.type = "JoinMe" THEN 0 ELSE m.row_index
                 IN  /\ threads' = threads \cup {th}
                     /\ th.kind = (IF m.type = "JoinMe" THEN "joinMe" ELSE "join")
                     /\ th.at = m.to /\ th.row = p + 1
                     /\ th.next \in NextRoutingNodes(m.to, db[m.to], m.newcomer)
                     /\ th.update.to = m.newcomer /\ Signed(th).entries = th.update.entries
                     /\ Signed(th).sender = (IF m.type = "JoinMe" THEN m.to ELSE th.next)
                     /\ \A r \in first .. p : RowEntries(db[m.to], r) \subseteq th.update.entries
<1>. DEFINE n == m.to
            t == m.newcomer
            p == PrefixMatchLen(t, n)
<1>1. ASSUME NEW first, NEW q, NEW r \in first .. p
      PROVE  RowEntries(db[n], r) \subseteq RowsUpdate(n, t, first, p, q).entries
  <2>. HIDE DEF p, n, t
  <2>. QED
    BY DEF RowsUpdate
<1>2. CASE HandleJoinMe(m)
  <2>. DEFINE r == RowsUpdate(n, t, 0, p, p + 1)
              update == [r EXCEPT !.neighbours = db[n].neighbours]
  <2>1. PICK next \in NextRoutingNodes(n, db[n], t) :
          threads' = threads \cup
            {[kind |-> "joinMe", at |-> n, next |-> next, row |-> p + 1, update |-> update]}
    BY <1>2 DEF HandleJoinMe
  <2>2. update.entries = r.entries /\ update.to = r.to
        /\ [update EXCEPT !.sender = n].sender = n /\ [update EXCEPT !.sender = n].entries = r.entries
    BY DEF RowsUpdate
  <2>3. m.type = "JoinMe"
    BY <1>2 DEF HandleJoinMe
  <2>4. r.to = t
    BY DEF RowsUpdate
  <2>5. \A i \in 0 .. p : RowEntries(db[n], i) \subseteq r.entries
    BY <1>1
  <2>. DEFINE th == [kind |-> "joinMe", at |-> n, next |-> next, row |-> p + 1, update |-> update]
  <2>. HIDE DEF update, r, p
  <2>6. /\ th.kind = "joinMe" /\ th.at = n /\ th.next = next /\ th.row = p + 1 /\ th.update = update
        /\ threads' = threads \cup {th} /\ Signed(th) = [update EXCEPT !.sender = n]
    BY <2>1 DEF Signed
  <2>. HIDE DEF th
  <2>. QED
    BY <2>1, <2>2, <2>3, <2>4, <2>5, <2>6 DEF p
<1>3. CASE HandleJoin(m)
  <2>. DEFINE update == RowsUpdate(n, t, m.row_index, p, Larger(p + 1, m.row_index))
  <2>1. PICK next \in NextRoutingNodes(n, db[n], t) :
          threads' = threads \cup
            {[kind |-> "join", at |-> n, next |-> next, row |-> p + 1, update |-> update]}
    BY <1>3 DEF HandleJoin
  <2>2. m.type = "Join"
    BY <1>3 DEF HandleJoin
  <2>3. /\ update.to = t
        /\ [update EXCEPT !.sender = next].sender = next
        /\ [update EXCEPT !.sender = next].entries = update.entries
    BY DEF RowsUpdate
  <2>4. \A i \in m.row_index .. p : RowEntries(db[n], i) \subseteq update.entries
    BY <1>1
  <2>. DEFINE th == [kind |-> "join", at |-> n, next |-> next, row |-> p + 1, update |-> update]
  <2>. HIDE DEF update, p
  <2>5. /\ th.kind = "join" /\ th.at = n /\ th.next = next /\ th.row = p + 1 /\ th.update = update
        /\ threads' = threads \cup {th} /\ Signed(th) = [update EXCEPT !.sender = next]
    BY <2>1 DEF Signed
  <2>. HIDE DEF th
  <2>. QED
    BY <2>1, <2>2, <2>3, <2>4, <2>5 DEF p
<1>. QED
  BY <1>2, <1>3 DEF HandleJoinMe, HandleJoin

\* A process h that belongs in another slot, and leaves k no earlier than x
\* does, has an entry of its own for the slot of x in the table of k.
LEMMA SlotsShared ==
  ASSUME NEW k \in Nodes, NEW h \in Nodes, NEW x \in Nodes, h # k, x # k, x # h,
         GoodDatabase(h, db[h]), Filled(h, x), ~ Fits(k, x, h),
         PrefixMatchLen(k, x) <= PrefixMatchLen(k, h)
  PROVE  \E y \in RowEntries(db[h], PrefixMatchLen(k, x)) : Fits(k, x, y)
<1>. DEFINE q == PrefixMatchLen(k, x)
            p == PrefixMatchLen(k, h)
<1>1. k \in NodeId /\ h \in NodeId /\ x \in NodeId
  BY NodesAssumption
<1>2. q \in 0 .. Rows - 1 /\ SamePrefix(k, x, q) /\ k[q + 1] # x[q + 1]
  BY <1>1, PrefixOfDifferent, PrefixMatch, RowsAssumption
<1>3. p \in 0 .. Rows - 1 /\ SamePrefix(k, h, p) /\ k[p + 1] # h[p + 1]
  BY <1>1, PrefixOfDifferent, PrefixMatch, RowsAssumption
<1>4. Slot(k, x) = <<q, x[q + 1]>> /\ (p = q => h[q + 1] # x[q + 1])
  BY DEF Fits, Slot
<1>5. q <= p
  OBVIOUS
<1>. HIDE DEF p, q
<1>6. SamePrefix(h, x, q) /\ h[q + 1] # x[q + 1]
  BY <1>2, <1>3, <1>4, <1>5, RowsAssumption DEF SamePrefix
<1>7. PrefixMatchLen(h, x) = q
  BY <1>1, <1>2, <1>6, PrefixUnique, RowsAssumption
<1>. DEFINE e == db[h].table[q][x[q + 1]]
<1>8. q \in Row /\ x[q + 1] \in Digit
  BY <1>1, <1>2, RowsAssumption DEF Row, NodeId
<1>9. e # None /\ e \in Nodes /\ e \in RowEntries(db[h], q)
  BY <1>7, <1>8 DEF Filled, SlotEntry, Slot, GoodDatabase, Database, Entry, RowEntries
<1>10. SamePrefix(h, e, q) /\ e[q + 1] = x[q + 1]
  BY <1>8, <1>9 DEF GoodDatabase, Placed, PlacedTable
<1>. HIDE DEF e
<1>11. SamePrefix(k, e, q) /\ k[q + 1] # e[q + 1]
  BY <1>2, <1>3, <1>5, <1>10, RowsAssumption DEF SamePrefix
<1>12. PrefixMatchLen(k, e) = q /\ e # k
  BY <1>1, <1>2, <1>9, <1>11, PrefixUnique, NodesAssumption, RowsAssumption
<1>13. Fits(k, x, e)
  BY <1>4, <1>10, <1>12 DEF Fits, Slot
<1>. QED
  BY <1>9, <1>13 DEF q

\* A scan over all hosts ends at one that none is better than.
LEMMA ScanEndsNearest ==
  ASSUME NEW k \in Nodes, NEW h \in Nodes, NEW C \in SUBSET Nodes, Hosts \ {k, h} \subseteq C, Hosts \subseteq Nodes,
         NEW x \in C, IsBetter(x, h, k), NEW y \in ScanResults(h, C, k)
  PROVE  y # h /\ NearestTo(k, y)
<1>1. y \in C /\ IsBetter(y, h, k) /\ \A z \in C : IsBetter(z, h, k) => ~ IsBetter(z, y, k)
  BY DEF ScanResults
<1>2. ~ IsBetter(h, h, k)
  BY NodesAssumption, IsBetterIrreflexive
<1>3. ASSUME NEW z \in Hosts \ {k}, IsBetter(z, y, k) PROVE FALSE
  <2>1. IsBetter(z, h, k)
    BY <1>1, <1>3, NodesAssumption, IsBetterTransitive
  <2>2. z # h
    BY <1>2, <2>1
  <2>. QED
    BY <1>1, <1>3, <2>1, <2>2
<1>. QED
  BY <1>1, <1>2, <1>3 DEF NearestTo

\* Every host but the newcomer has filled its table.
LEMMA HostsFilled ==
  ASSUME NEW k \in Nodes, OneJoin(k), NEW h \in Hosts \ {k}, SlotsFollow(h), NEW x \in Hosts \ {k, h}
  PROVE  Filled(h, x) /\ x \in db[h].neighbours
<1>1. x \in db[h].neighbours
  BY DEF OneJoin
<1>2. JoinMessagesOf(h) = {} /\ UpdatesTo(h) = {} /\ JoinThreadsOf(h) = {} /\ MergesAt(h) = {}
  BY DEF OneJoin, Serves, JoinTraffic, ThreadTraffic, JoinMessagesOf, UpdatesTo, JoinThreadsOf,
         MergesAt, JoinKinds
<1>. QED
  BY <1>1, <1>2 DEF SlotsFollow, FillSent, FillAhead

\* Where the handler sends the Join of k next, once x shares more with k than
\* the process h it runs at does.
LEMMA NextNearest ==
  ASSUME IInv, NEW k \in Nodes, OneJoin(k), Hosts \subseteq Nodes,
         NEW h \in Hosts \ {k}, LeavesFollow(h), NEW x \in Hosts \ {k, h},
         PrefixMatchLen(k, h) < PrefixMatchLen(k, x),
         NEW y \in NextRoutingNodes(h, db[h], k)
  PROVE  /\ y # h
         /\ y \in RowEntries(db[h], PrefixMatchLen(k, h)) \/ NearestTo(k, y)
<1>. DEFINE p == PrefixMatchLen(k, h)
            e == db[h].table[p][k[p + 1]]
<1>1. k \in NodeId /\ h \in NodeId /\ x \in NodeId /\ GoodDatabase(h, db[h])
  BY NodesAssumption DEF IInv, GoodDatabases
<1>2. PrefixMatchLen(h, k) = p /\ PrefixMatchLen(x, k) = PrefixMatchLen(k, x)
  BY <1>1, PrefixSymmetric
<1>3. IsBetter(x, h, k)
  BY <1>1, <1>2, LongerPrefixIsBetter
<1>4. p \in Row /\ k[p + 1] \in Digit /\ k[p + 1] # h[p + 1]
  <2>1. p \in 0 .. Rows - 1 /\ (p < Rows => k[p + 1] # h[p + 1])
    BY <1>1, PrefixOfDifferent, PrefixMatch
  <2>. QED
    BY <1>1, <2>1, RowsAssumption DEF Row, NodeId
<1>5. Hosts \ {k, h} \subseteq Leaves(db[h])
  BY AnswersWithLeaves
<1>6. Leaves(db[h]) \subseteq Known(db[h]) /\ Known(db[h]) \in SUBSET Nodes /\ Leaves(db[h]) \in SUBSET Nodes
  BY <1>1, KnownAreNodes DEF Known, GoodDatabase
<1>7. ASSUME NEW C \in {Leaves(db[h]), Known(db[h])}, y \in ScanResults(h, C, k)
      PROVE  y # h /\ NearestTo(k, y)
  <2>1. C \in SUBSET Nodes /\ Hosts \ {k, h} \subseteq C /\ x \in C
    BY <1>5, <1>6
  <2>. QED
    BY <1>3, <1>7, <2>1, ScanEndsNearest
<1>8. CASE e # None /\ y = e
  <2>1. y[p + 1] = k[p + 1]
    BY <1>1, <1>4, <1>8 DEF GoodDatabase, Placed, PlacedTable
  <2>2. y \in RowEntries(db[h], p)
    BY <1>4, <1>8 DEF RowEntries
  <2>. QED
    BY <1>4, <2>1, <2>2
<1>9. y \in ScanResults(h, Leaves(db[h]), k) \/ y \in ScanResults(h, Known(db[h]), k) \/ (e # None /\ y = e)
  BY <1>2 DEF NextRoutingNodes
<1>. QED
  BY <1>7, <1>8, <1>9

\* The handler of a JoinMe or a Join sends an entry for the slot of x, or passes the
\* Join on to a process that does.
LEMMA JoinHandlerSlots ==
  ASSUME IInv, AmongHosts, NEW k \in Nodes, OneJoin(k),
         \A n \in Nodes : LeavesFollow(n), \A n \in Nodes : SlotsFollow(n),
         NEW m, HandleJoinMe(m) \/ HandleJoin(m)
  PROVE  \A n \in Nodes : SlotsFollow(n)'
<1>. DEFINE h == m.to
            p == PrefixMatchLen(k, h)
            first == IF m.type = "JoinMe" THEN 0 ELSE m.row_index
<1>1. /\ m \in msgs /\ m.type \in {"JoinMe", "Join"} /\ msgs' = msgs \ {m}
      /\ h \in Nodes /\ h # m.newcomer /\ UNCHANGED <<joined, db>>
  BY HandlerStarts
<1>2. m.newcomer = k /\ m \in JoinMessagesOf(k)
  BY <1>1 DEF OneJoin, Serves, JoinTraffic, JoinMessagesOf
<1>3. PICK th : /\ threads' = threads \cup {th}
                /\ th.kind = (IF m.type = "JoinMe" THEN "joinMe" ELSE "join")
                /\ th.at = h /\ th.row = p + 1
                /\ th.next \in NextRoutingNodes(h, db[h], k)
                /\ th.update.to = k
                /\ Signed(th).sender = (IF m.type = "JoinMe" THEN h ELSE th.next)
                /\ \A r \in first .. p : RowEntries(db[h], r) \subseteq th.update.entries
  BY <1>2, HandlerSendsRows
<1>4. /\ JoinTraffic(k, m) /\ ThreadTraffic(k, th) /\ th \in JoinThreadsOf(k)' /\ th.kind \in JoinKinds
      /\ JoinMessagesOf(k)' = JoinMessagesOf(k) \ {m} /\ JoinThreadsOf(k) \subseteq JoinThreadsOf(k)'
      /\ UpdatesTo(k)' = UpdatesTo(k) /\ MergesAt(k)' = MergesAt(k) /\ Hosts' = Hosts
  BY <1>1, <1>2, <1>3 DEF JoinTraffic, ThreadTraffic, JoinThreadsOf, JoinMessagesOf, UpdatesTo,
                          MergesAt, JoinKinds, Hosts
<1>5. \A n \in Nodes : n # k => SlotsFollow(n)'
  BY <1>1, <1>3, <1>4, OthersFill
<1>6. Joining(k) /\ Hosts \subseteq Nodes /\ h \in Hosts \ {k} /\ Known(db[h]) \subseteq Hosts
  BY <1>1, <1>2 DEF Joining, JoinUnderWay, Hosts, IInv, GoodProcesses, AmongHosts, MessageAmong
<1>7. p \in 0 .. Rows - 1 /\ first \in Nat
  <2>1. m.type = "Join" => m.row_index \in Nat
    BY <1>1, MessageTypes, RowsAssumption DEF IInv, JoinMessage
  <2>. QED
    BY <1>1, <1>6, <2>1, PrefixOfDifferent, NodesAssumption
<1>8. GoodDatabase(h, db[h]) /\ db[h] \in Database
  BY <1>1 DEF IInv, GoodDatabases, GoodDatabase
<1>. HIDE DEF p
<1>9. ASSUME NEW x \in Hosts \ {k}, (m.type = "JoinMe" \/ (~ Fits(k, x, h) /\ first <= PrefixMatchLen(k, x)))
                                     \/ (Fits(k, x, h) /\ NearestTo(k, h))
      PROVE  FillAhead(k, x)'
  <2>. DEFINE q == PrefixMatchLen(k, x)
  <2>1. q \in 0 .. Rows - 1 /\ x \in Nodes
    BY <1>6, PrefixOfDifferent, NodesAssumption
  <2>2. \/ \E y \in {Signed(th).sender} \cup th.update.entries : Fits(k, x, y)
        \/ th.next = k
        \/ th.row <= q /\ th.next # th.at /\ (~ Fits(k, x, th.next) \/ NearestTo(k, th.next))
    <3>1. CASE Fits(k, x, h) /\ m.type = "JoinMe"
      BY <1>3, <3>1
    <3>2. CASE Fits(k, x, h) /\ m.type # "JoinMe"
      <4>1. NearestTo(k, h)
        BY <1>9, <3>2
      <4>2. th.next \in Hosts /\ (th.next = h \/ IsBetter(th.next, h, k))
        <5>1. th.next \in {h} \cup Known(db[h])
          BY <1>3, <1>6, <1>8, NextIsKnown
        <5>2. th.next = h \/ IsBetter(th.next, h, k)
          BY <1>3, <1>6, <1>8, NextRoutingNodeImproves
        <5>. QED
          BY <1>6, <5>1, <5>2
      <4>3. th.next = k \/ th.next = h
        BY <4>1, <4>2 DEF NearestTo
      <4>. QED
        BY <1>3, <3>2, <4>3
    <3>3. CASE ~ Fits(k, x, h) /\ q <= p
      <4>1. x # h
        BY <3>3 DEF Fits
      <4>2. Filled(h, x)
        BY <1>6, <4>1, HostsFilled
      <4>3. PICK y \in RowEntries(db[h], q) : Fits(k, x, y)
        BY <1>6, <1>8, <2>1, <3>3, <4>1, <4>2, SlotsShared DEF p
      <4>4. q \in first .. p
        BY <1>7, <1>9, <2>1, <3>3
      <4>. QED
        BY <1>3, <4>3, <4>4
    <3>4. CASE ~ Fits(k, x, h) /\ p < q
      <4>1. x # h
        BY <3>4 DEF Fits
      <4>2. /\ th.next # h
            /\ th.next \in RowEntries(db[h], p) \/ NearestTo(k, th.next)
        BY <1>3, <1>6, <3>4, <4>1, NextNearest DEF p
      <4>3. th.row <= q
        BY <1>3, <1>7, <2>1, <3>4
      <4>4. CASE m.type = "JoinMe"
        <5>1. p \in first .. p
          BY <1>7, <4>4
        <5>. QED
          BY <1>3, <4>2, <4>3, <5>1
      <4>5. CASE m.type # "JoinMe"
        BY <1>3, <4>2, <4>3, <4>5
      <4>. QED
        BY <4>4, <4>5
    <3>. QED
      BY <1>7, <2>1, <3>1, <3>2, <3>3, <3>4
  <2>3. \/ \E y \in {Signed(th).sender} \cup th.update.entries : Fits(k, x, y)
        \/ th.next = k
        \/ th.row <= q /\ th.next # th.at /\ (~ Fits(k, x, th.next) \/ NearestTo(k, th.next)')
    BY <1>4, <2>2 DEF NearestTo
  <2>. QED
    BY <1>4, <2>3 DEF FillAhead
<1>10. ASSUME NEW x \in Hosts \ {k}, FillAhead(k, x) PROVE FillAhead(k, x)'
  <2>1. CASE \E r \in JoinThreadsOf(k) :
               \/ \E y \in {Signed(r).sender} \cup r.update.entries : Fits(k, x, y)
               \/ r.next = k
               \/ /\ r.row <= PrefixMatchLen(k, x) /\ r.next # r.at
                  /\ ~ Fits(k, x, r.next) \/ NearestTo(k, r.next)
    <3>1. \E r \in JoinThreadsOf(k)' :
               \/ \E y \in {Signed(r).sender} \cup r.update.entries : Fits(k, x, y)
               \/ r.next = k
               \/ /\ r.row <= PrefixMatchLen(k, x) /\ r.next # r.at
                  /\ ~ Fits(k, x, r.next) \/ NearestTo(k, r.next)'
      BY <1>4, <2>1 DEF NearestTo
    <3>. QED
      BY <3>1 DEF FillAhead
  <2>2. CASE \E u \in JoinMessagesOf(k) :
       \/ u.type = "JoinMe" \/ u.to = k
       \/ ~ Fits(k, x, u.to) /\ u.row_index <= PrefixMatchLen(k, x)
       \/ Fits(k, x, u.to) /\ NearestTo(k, u.to)
    <3>1. PICK u \in JoinMessagesOf(k) :
       \/ u.type = "JoinMe" \/ u.to = k
       \/ ~ Fits(k, x, u.to) /\ u.row_index <= PrefixMatchLen(k, x)
       \/ Fits(k, x, u.to) /\ NearestTo(k, u.to)
      BY <2>2
    <3>2. CASE u = m
      BY <1>2, <1>6, <1>9, <3>1, <3>2
    <3>3. CASE u # m
      <4>1. u \in JoinMessagesOf(k)'
        BY <1>4, <3>1, <3>3
      <4>2. NearestTo(k, u.to)' <=> NearestTo(k, u.to)
        BY <1>4 DEF NearestTo
      <4>. QED
        BY <3>1, <4>1, <4>2 DEF FillAhead
    <3>. QED
      BY <3>2, <3>3
  <2>. QED
    BY <1>10, <2>1, <2>2 DEF FillAhead
<1>11. \A x : (Filled(k, x) => Filled(k, x)') /\ (FillSent(k, x) => FillSent(k, x)')
  BY <1>1, <1>4 DEF Filled, FillSent
<1>12. SlotsFollow(k)'
  BY <1>4, <1>6, <1>10, <1>11 DEF SlotsFollow
<1>. QED
  BY <1>5, <1>12

\* Passing the Join on and answering it keep what they carry.
LEMMA JoinThreadSlots ==
  ASSUME IInv, live = Nodes, NEW k \in Nodes, OneJoin(k), \A n \in Nodes : SlotsFollow(n),
         NEW th, ForwardJoin(th) \/ AnswerJoin(th)
  PROVE  \A n \in Nodes : SlotsFollow(n)'
<1>. DEFINE join == [type |-> "Join", to |-> th.next, sender |-> th.at,
                     newcomer |-> th.update.to, row_index |-> th.row]
            answer == [Signed(th) EXCEPT !.terminal = TRUE, !.leaf = Leaves(db[th.at])]
<1>1. th \in threads /\ th.kind \in JoinKinds /\ threads' = threads \ {th} /\ UNCHANGED <<joined, db>>
  BY DEF ForwardJoin, AnswerJoin
<1>2. /\ th.at \in Nodes /\ th.next \in Nodes /\ Signed(th) \in RoutingUpdateMessage
      /\ th.update \in RoutingUpdateMessage
  BY <1>1, JoinThreadFields DEF IInv
<1>3. th.update.to = k /\ th.at # k
  BY <1>1 DEF OneJoin, ThreadTraffic, JoinKinds, IInv, GoodThread
<1>4. Signed(th).type = "RoutingUpdate" /\ Signed(th).to = k /\ Signed(th).entries = th.update.entries
  BY <1>2, <1>3 DEF Signed, RoutingUpdateMessage
<1>5. /\ answer.type = "RoutingUpdate" /\ answer.to = k
      /\ answer.sender = Signed(th).sender /\ answer.entries = th.update.entries
  BY <1>2, <1>4 DEF RoutingUpdateMessage
<1>6. join.type = "Join" /\ join.to = th.next /\ join.newcomer = k /\ join.row_index = th.row
  BY <1>3
<1>. HIDE DEF join, answer
<1>7. JoinTraffic(k, join) /\ JoinTraffic(k, Signed(th)) /\ JoinTraffic(k, answer) /\ ThreadTraffic(k, th)
  BY <1>1, <1>3, <1>4, <1>5, <1>6 DEF JoinTraffic, ThreadTraffic
<1>8. PICK u : /\ u.sender = Signed(th).sender /\ u.entries = th.update.entries /\ u.to = k
               /\ u.type = "RoutingUpdate"
               /\ \/ msgs' = msgs \cup {join, u} /\ u = Signed(th)
                  \/ msgs' = msgs \cup {u} /\ u = answer /\ th.next = th.at
  <2>1. CASE ForwardJoin(th)
    <3>1. msgs' = msgs \cup Reachable({join, Signed(th)})
      BY <2>1 DEF ForwardJoin, join
    <3>2. Reachable({join, Signed(th)}) = {join, Signed(th)}
      BY <1>2, <1>4, <1>6 DEF Reachable
    <3>. QED
      BY <1>4, <3>1, <3>2
  <2>2. CASE AnswerJoin(th)
    <3>1. msgs' = msgs \cup Reachable({answer}) /\ th.next = th.at
      BY <2>2 DEF AnswerJoin, answer
    <3>2. Reachable({answer}) = {answer}
      BY <1>5 DEF Reachable
    <3>. QED
      BY <1>5, <3>1, <3>2
  <2>. QED
    BY <2>1, <2>2
<1>9. /\ u \in UpdatesTo(k)' /\ UpdatesTo(k) \subseteq UpdatesTo(k)' /\ MergesAt(k)' = MergesAt(k)
      /\ JoinMessagesOf(k) \subseteq JoinMessagesOf(k)' /\ Hosts' = Hosts
      /\ JoinThreadsOf(k)' = JoinThreadsOf(k) \ {th} /\ th \in JoinThreadsOf(k)
      /\ \A n \in Nodes : n # k => SlotsFollow(n)'
  <2>1. \A n \in Nodes : n # k => SlotsFollow(n)'
    BY <1>1, <1>7, <1>8, OthersFill
  <2>. QED
    BY <1>1, <1>3, <1>8, <2>1 DEF UpdatesTo, MergesAt, JoinMessagesOf, JoinThreadsOf, JoinKinds, Hosts
<1>10. \A y : NearestTo(k, y)' <=> NearestTo(k, y)
  BY <1>9 DEF NearestTo
<1>11. Joining(k)
  BY <1>9 DEF Joining, JoinUnderWay
<1>12. ASSUME NEW x \in Hosts \ {k}, FillAhead(k, x) PROVE FillSent(k, x)' \/ FillAhead(k, x)'
  <2>1. CASE \E m \in JoinMessagesOf(k) :
       \/ m.type = "JoinMe" \/ m.to = k
       \/ ~ Fits(k, x, m.to) /\ m.row_index <= PrefixMatchLen(k, x)
       \/ Fits(k, x, m.to) /\ NearestTo(k, m.to)
    BY <1>9, <1>10, <2>1 DEF FillAhead
  <2>2. CASE \E r \in JoinThreadsOf(k) :
       \/ \E y \in {Signed(r).sender} \cup r.update.entries : Fits(k, x, y)
       \/ r.next = k
       \/ /\ r.row <= PrefixMatchLen(k, x) /\ r.next # r.at
          /\ ~ Fits(k, x, r.next) \/ NearestTo(k, r.next)
    <3>1. PICK r \in JoinThreadsOf(k) :
       \/ \E y \in {Signed(r).sender} \cup r.update.entries : Fits(k, x, y)
       \/ r.next = k
       \/ /\ r.row <= PrefixMatchLen(k, x) /\ r.next # r.at
          /\ ~ Fits(k, x, r.next) \/ NearestTo(k, r.next)
      BY <2>2
    <3>2. CASE r # th
      BY <1>9, <1>10, <3>1, <3>2 DEF FillAhead
    <3>3. CASE r = th /\ \E y \in {Signed(th).sender} \cup th.update.entries : Fits(k, x, y)
      BY <1>8, <1>9, <3>3 DEF FillSent
    <3>4. CASE /\ r = th /\ th.next # th.at
               /\ \/ th.next = k
                  \/ /\ th.row <= PrefixMatchLen(k, x)
                     /\ ~ Fits(k, x, th.next) \/ NearestTo(k, th.next)
      <4>1. join \in JoinMessagesOf(k)'
        BY <1>6, <1>8, <3>4 DEF JoinMessagesOf
      <4>2. FillAhead(k, x)'
        BY <1>6, <1>10, <3>4, <4>1 DEF FillAhead
      <4>. QED
        BY <4>2
    <3>. QED
      BY <1>3, <3>1, <3>2, <3>3, <3>4
  <2>. QED
    BY <1>12, <2>1, <2>2 DEF FillAhead
<1>13. \A x : (Filled(k, x) => Filled(k, x)') /\ (FillSent(k, x) => FillSent(k, x)')
  BY <1>1, <1>9 DEF Filled, FillSent
<1>14. SlotsFollow(k)'
  BY <1>9, <1>11, <1>12, <1>13 DEF SlotsFollow
<1>. QED
  BY <1>9, <1>14

\* A RoutingUpdate puts its sender and its rows in the table, now or when it is merged.
LEMMA UpdateSlots ==
  ASSUME IInv, \A n \in Nodes : SlotsFollow(n), NEW m, HandleRoutingUpdate(m)
  PROVE  \A n \in Nodes : SlotsFollow(n)'
<1>. DEFINE k == m.to
            U == UpdateAllState(k, db[k], {m.sender})
            D == [U EXCEPT !.received = U.received + m.rows]
            th == [kind |-> "merge", at |-> k, update |-> m]
<1>1. m \in msgs /\ m.type = "RoutingUpdate"
  BY DEF HandleRoutingUpdate
<1>2. /\ msgs' = msgs \ {m} /\ threads' = threads \cup {th} /\ db' = [db EXCEPT ![k] = D]
      /\ UNCHANGED <<live, joined, quitting, restarts>>
  BY <1>1 DEF HandleRoutingUpdate
<1>3. m.sender \in Nodes /\ k \in Nodes /\ db[k] \in Database /\ db \in [Nodes -> Database]
  BY <1>1, MessageTypes DEF IInv, RoutingUpdateMessage, GoodDatabases
<1>4. D.table = TableWith(k, db[k].table, {m.sender})
  BY <1>3 DEF UpdateAllState, Database
<1>5. th.kind = "merge" /\ th.at = k /\ th.update = m
  OBVIOUS
<1>. HIDE DEF D, th, U
<1>6. db'[k] = D /\ \A n \in Nodes : n = k \/ db'[n] = db[n]
  BY <1>2, <1>3
<1>7. JoinTraffic(k, m) /\ ThreadTraffic(k, th) /\ m \in UpdatesTo(k) /\ th \in MergesAt(k)'
  BY <1>1, <1>2, <1>5 DEF JoinTraffic, ThreadTraffic, UpdatesTo, MergesAt
<1>8. \A n \in Nodes : n # k => SlotsFollow(n)'
  BY <1>2, <1>6, <1>7, OthersFill
<1>9. /\ UpdatesTo(k)' = UpdatesTo(k) \ {m} /\ MergesAt(k) \subseteq MergesAt(k)'
      /\ JoinMessagesOf(k)' = JoinMessagesOf(k) /\ JoinThreadsOf(k)' = JoinThreadsOf(k)
      /\ Hosts' = Hosts /\ Joining(k)
  BY <1>1, <1>2, <1>5, <1>7 DEF UpdatesTo, MergesAt, JoinMessagesOf, JoinThreadsOf, Hosts, JoinKinds,
                                 Joining
<1>10. ASSUME NEW x \in Hosts \ {k} PROVE Filled(k, x)' \/ FillSent(k, x)' \/ FillAhead(k, x)'
  <2>1. Filled(k, x) \/ FillSent(k, x) \/ FillAhead(k, x)
    BY <1>3, <1>9 DEF SlotsFollow
  <2>2. x \in Nodes /\ x # k
    BY <1>10 DEF Hosts, IInv, GoodProcesses
  <2>3. Filled(k, x) \/ Fits(k, x, m.sender) => Filled(k, x)'
    <3>. DEFINE S == {m.sender}
    <3>. SUFFICES ASSUME Filled(k, x) \/ Fits(k, x, m.sender) PROVE Filled(k, x)'
      OBVIOUS
    <3>1. S \in SUBSET Nodes /\ D.table = TableWith(k, db[k].table, S)
      BY <1>3, <1>4
    <3>2. SlotEntry(db[k], Slot(k, x)) # None \/ \E y \in S : Fits(k, x, y)
      BY DEF Filled
    <3>. HIDE DEF S
    <3>3. k \in Nodes /\ db[k] \in Database
      BY <1>3
    <3>. HIDE DEF k
    <3>4. SlotEntry(D, Slot(k, x)) # None
      BY <2>2, <3>1, <3>2, <3>3, SlotsKept
    <3>. QED
      BY <1>6, <3>4 DEF Filled
  <2>4. FillAhead(k, x) => FillAhead(k, x)'
    BY <1>9 DEF FillAhead, NearestTo
  <2>5. FillSent(k, x) => FillSent(k, x)' \/ Fits(k, x, m.sender)
    BY <1>5, <1>7, <1>9 DEF FillSent
  <2>. QED
    BY <2>1, <2>3, <2>4, <2>5
<1>11. SlotsFollow(k)'
  BY <1>9, <1>10 DEF SlotsFollow
<1>. QED
  BY <1>8, <1>11

\* The rows that are merged fill the slots they are for.
LEMMA MergeSlots ==
  ASSUME IInv, \A n \in Nodes : SlotsFollow(n), NEW th, MergeRoutingUpdate(th)
  PROVE  \A n \in Nodes : SlotsFollow(n)'
<1>. DEFINE k == th.at
            m == th.update
            th2 == [th EXCEPT !.kind = "check"]
<1>1. th \in threads /\ th.kind = "merge"
  BY DEF MergeRoutingUpdate
<1>2. /\ th \in UpdateThread /\ m \in RoutingUpdateMessage /\ k \in Nodes
      /\ db \in [Nodes -> Database] /\ db[k] \in Database
  BY <1>1, ThreadTypes DEF IInv, GoodDatabases, UpdateThread
<1>3. /\ threads' = (threads \ {th}) \cup {th2}
      /\ db'[k].table = TableWith(k, db[k].table, m.entries)
      /\ \A n \in Nodes : n = k \/ db'[n] = db[n]
      /\ UNCHANGED <<live, joined, quitting, restarts, msgs>>
  BY <1>1, <1>2 DEF MergeRoutingUpdate, Database
<1>4. m.entries \in SUBSET Nodes
  BY <1>2 DEF RoutingUpdateMessage
<1>5. th2.kind = "check" /\ th2.at = k
  BY <1>1, <1>2 DEF UpdateThread
<1>. HIDE DEF th2
<1>6. ThreadTraffic(k, th) /\ ThreadTraffic(k, th2)
  BY <1>1, <1>5 DEF ThreadTraffic
<1>7. \A n \in Nodes : n # k => SlotsFollow(n)'
  BY <1>3, <1>6, OthersFill
<1>8. /\ UpdatesTo(k)' = UpdatesTo(k) /\ MergesAt(k)' = MergesAt(k) \ {th}
      /\ JoinMessagesOf(k)' = JoinMessagesOf(k) /\ JoinThreadsOf(k)' = JoinThreadsOf(k)
      /\ Hosts' = Hosts /\ Joining(k)
  BY <1>1, <1>3, <1>5 DEF UpdatesTo, MergesAt, JoinMessagesOf, JoinThreadsOf, Hosts, JoinKinds,
                           Joining, UpdateThreadsAt
<1>9. ASSUME NEW x \in Hosts \ {k} PROVE Filled(k, x)' \/ FillSent(k, x)' \/ FillAhead(k, x)'
  <2>1. Filled(k, x) \/ FillSent(k, x) \/ FillAhead(k, x)
    BY <1>2, <1>8 DEF SlotsFollow
  <2>2. x \in Nodes /\ x # k
    BY <1>9 DEF Hosts, IInv, GoodProcesses
  <2>3. Filled(k, x) \/ (\E y \in m.entries : Fits(k, x, y)) => Filled(k, x)'
    <3>. DEFINE S == m.entries
                E == db'[k]
    <3>. SUFFICES ASSUME Filled(k, x) \/ \E y \in S : Fits(k, x, y) PROVE Filled(k, x)'
      OBVIOUS
    <3>1. k \in Nodes /\ db[k] \in Database /\ S \in SUBSET Nodes
      BY <1>2, <1>4
    <3>2. E.table = TableWith(k, db[k].table, S)
      BY <1>3
    <3>3. SlotEntry(db[k], Slot(k, x)) # None \/ \E y \in S : Fits(k, x, y)
      BY DEF Filled
    <3>. HIDE DEF k, S, E
    <3>4. SlotEntry(E, Slot(k, x)) # None
      BY <2>2, <3>1, <3>2, <3>3, SlotsKept
    <3>. QED
      BY <3>4 DEF Filled, E
  <2>4. FillAhead(k, x) => FillAhead(k, x)'
    BY <1>8 DEF FillAhead, NearestTo
  <2>5. FillSent(k, x) => FillSent(k, x)' \/ \E y \in m.entries : Fits(k, x, y)
    BY <1>8 DEF FillSent
  <2>. QED
    BY <2>1, <2>3, <2>4, <2>5
<1>10. SlotsFollow(k)'
  BY <1>8, <1>9 DEF SlotsFollow
<1>. QED
  BY <1>7, <1>10

\* The announcement leaves every table as it is.
LEMMA CheckSlots ==
  ASSUME \A n \in Nodes : SlotsFollow(n), NEW th, CheckRoutingUpdate(th)
  PROVE  \A n \in Nodes : SlotsFollow(n)'
<1>. SUFFICES ASSUME NEW n \in Nodes PROVE SlotsFollow(n)'
  OBVIOUS
<1>1. /\ th \in threads /\ th.kind = "check" /\ threads' = threads \ {th}
      /\ UNCHANGED <<live, joined, quitting, restarts, db>>
      /\ msgs \subseteq msgs' /\ \A m \in msgs' : m \in msgs \/ m \in StateUpdates(th.at)
  BY DEF CheckRoutingUpdate
<1>2. \A m \in StateUpdates(th.at) : m.type = "AllStateUpdate"
  BY DEF StateUpdates, Reachable
<1>3. JoinMessagesOf(n)' = JoinMessagesOf(n) /\ UpdatesTo(n)' = UpdatesTo(n)
  BY <1>1, <1>2 DEF JoinMessagesOf, UpdatesTo
<1>4. /\ JoinThreadsOf(n)' = JoinThreadsOf(n) /\ MergesAt(n)' = MergesAt(n)
      /\ UpdateThreadsAt(n)' \subseteq UpdateThreadsAt(n) /\ Hosts' = Hosts
  BY <1>1 DEF JoinThreadsOf, MergesAt, UpdateThreadsAt, JoinKinds, Hosts
<1>5. Joining(n)' => Joining(n)
  BY <1>3, <1>4 DEF Joining, JoinUnderWay
<1>6. ASSUME NEW x \in Hosts \ {n}, Filled(n, x) \/ FillSent(n, x) \/ FillAhead(n, x)
      PROVE  Filled(n, x)' \/ FillSent(n, x)' \/ FillAhead(n, x)'
  <2>1. Filled(n, x) => Filled(n, x)'
    BY <1>1 DEF Filled
  <2>2. FillSent(n, x) => FillSent(n, x)'
    BY <1>3, <1>4 DEF FillSent
  <2>3. FillAhead(n, x) => FillAhead(n, x)'
    BY <1>3, <1>4 DEF FillAhead, NearestTo
  <2>. QED
    BY <1>6, <2>1, <2>2, <2>3
<1>. QED
  BY <1>1, <1>4, <1>5, <1>6 DEF SlotsFollow

\* An AllStateUpdate puts the newcomer in the table it reaches, and empties no slot.
LEMMA AllStateSlots ==
  ASSUME SmallOverlay, IInv, \A n \in Nodes : SlotsFollow(n), NEW m, HandleAllStateUpdate(m)
  PROVE  \A n \in Nodes : SlotsFollow(n)'
<1>. SUFFICES ASSUME NEW n \in Nodes PROVE SlotsFollow(n)'
  OBVIOUS
<1>. DEFINE S == {m.sender} \cup m.nodes
            D == UpdateAllState(m.to, db[m.to], S)
<1>1. /\ m \in msgs /\ m.type = "AllStateUpdate" /\ msgs' = msgs \ {m}
      /\ db' = [db EXCEPT ![m.to] = D] /\ UNCHANGED <<live, joined, quitting, restarts, threads>>
  BY DEF HandleAllStateUpdate
<1>2. m.to \in Nodes /\ S \in SUBSET Nodes /\ GoodDatabase(m.to, db[m.to]) /\ db \in [Nodes -> Database]
  BY <1>1, MessageTypes DEF IInv, AllStateUpdateMessage, GoodDatabases
<1>. HIDE DEF S
<1>3. D.neighbours = db[m.to].neighbours \cup (S \ {m.to}) /\ D.table = TableWith(m.to, db[m.to].table, S)
  <2>1. D.neighbours = db[m.to].neighbours \cup (S \ {m.to})
    BY <1>2, KnownAdded
  <2>2. D.table = TableWith(m.to, db[m.to].table, S)
    BY <1>2 DEF UpdateAllState, GoodDatabase, Database
  <2>. QED
    BY <2>1, <2>2
<1>. HIDE DEF D
<1>4. /\ n # m.to => db'[n] = db[n]
      /\ n = m.to => db'[n] = D
  BY <1>1, <1>2
<1>5. JoinMessagesOf(n)' = JoinMessagesOf(n) /\ UpdatesTo(n)' = UpdatesTo(n)
  BY <1>1 DEF JoinMessagesOf, UpdatesTo
<1>6. /\ JoinThreadsOf(n)' = JoinThreadsOf(n) /\ MergesAt(n)' = MergesAt(n)
      /\ UpdateThreadsAt(n)' = UpdateThreadsAt(n) /\ Hosts' = Hosts
  BY <1>1 DEF JoinThreadsOf, MergesAt, UpdateThreadsAt, Hosts
<1>7. Joining(n)' <=> Joining(n)
  BY <1>5, <1>6 DEF JoinUnderWay, Joining
<1>8. ASSUME NEW x \in Hosts \ {n}, x \in db'[n].neighbours \/ Joining(n)
      PROVE  Filled(n, x)' \/ FillSent(n, x)' \/ FillAhead(n, x)'
  <2>1. x \in Nodes /\ x # n /\ Fits(n, x, x)
    BY <1>8 DEF Hosts, IInv, GoodProcesses, Fits
  <2>2. CASE n = m.to /\ (Filled(n, x) \/ x \in S)
    <3>1. db[n] \in Database /\ D.table = TableWith(n, db[n].table, S)
      BY <1>2, <1>3, <2>2 DEF GoodDatabase
    <3>2. SlotEntry(db[n], Slot(n, x)) # None \/ \E y \in S : Fits(n, x, y)
      BY <2>1, <2>2 DEF Filled
    <3>3. SlotEntry(D, Slot(n, x)) # None
      BY <1>2, <2>1, <3>1, <3>2, SlotsKept
    <3>. QED
      BY <1>4, <2>2, <3>3 DEF Filled
  <2>3. CASE n # m.to /\ Filled(n, x)
    BY <1>4, <2>3 DEF Filled
  <2>4. CASE ~ (n = m.to /\ x \in S) /\ ~ Filled(n, x)
    <3>1. x \in db[n].neighbours \/ Joining(n)
      BY <1>3, <1>4, <1>8, <2>4
    <3>2. FillSent(n, x) \/ FillAhead(n, x)
      BY <2>4, <3>1 DEF SlotsFollow
    <3>. QED
      BY <1>5, <1>6, <3>2 DEF FillSent, FillAhead, NearestTo
  <2>. QED
    BY <2>2, <2>3, <2>4
<1>. QED
  BY <1>6, <1>7, <1>8 DEF SlotsFollow

\* The steps keep it, as they keep the leaf sets.
LEMMA SlotIInvStep ==
  ASSUME QuietOverlay, TinyOverlay
  PROVE  IInv /\ RowsIInv /\ ToldIInv /\ QuietIInv /\ LeafIInv /\ SlotIInv /\ [Next]_vars => SlotIInv'
<1>. SUFFICES ASSUME IInv, RowsIInv, ToldIInv, QuietIInv, LeafIInv, SlotIInv, [Next]_vars, NobodyLeft'
              PROVE  \A n \in Nodes : SlotsFollow(n)'
  BY DEF SlotIInv
<1>1. CASE UNCHANGED vars
  <2>1. NobodyLeft
    BY <1>1 DEF vars, NobodyLeft, NobodyEnded, NobodyRestarted
  <2>. SUFFICES ASSUME NEW n \in Nodes PROVE SlotsFollow(n)'
    OBVIOUS
  <2>2. SlotsFollow(n)
    BY <2>1 DEF SlotIInv
  <2>3. Joining(n)' <=> Joining(n)
    BY <1>1 DEF vars, Joining, JoinUnderWay, JoinMessagesOf, JoinThreadsOf, UpdatesTo, UpdateThreadsAt
  <2>4. \A x : FillSent(n, x)' <=> FillSent(n, x)
    BY <1>1 DEF vars, FillSent, UpdatesTo, MergesAt
  <2>5. \A x : FillAhead(n, x)' <=> FillAhead(n, x)
    BY <1>1 DEF vars, FillAhead, JoinMessagesOf, JoinThreadsOf, NearestTo, Hosts
  <2>6. \A x : Filled(n, x)' <=> Filled(n, x)
    BY <1>1 DEF vars, Filled
  <2>. QED
    BY <1>1, <2>2, <2>3, <2>4, <2>5, <2>6 DEF vars, SlotsFollow, Hosts
<1>2. CASE Next
  <2>1. NobodyLeft => OnlyJoins
    BY DEF ToldIInv, AllTold
  <2>2. NobodyLeft
    BY <1>2, <2>1, StayingSteps
  <2>3. OneByOne /\ AmongHosts /\ live = Nodes /\ SmallOverlay
        /\ (\A n \in Nodes : LeavesFollow(n)) /\ (\A n \in Nodes : SlotsFollow(n))
    BY <2>2 DEF QuietIInv, OneByOne, NobodyLeft, NobodyEnded, LeafIInv, SlotIInv, QuietOverlay
  <2>4. CASE \E n, b \in Nodes : JoinCommand(n, b)
    BY <2>3, <2>4, JoinCommandSlots
  <2>5. CASE \E m \in msgs : HandleJoinMe(m) \/ HandleJoin(m) \/ HandleRoutingUpdate(m)
                              \/ HandleAllStateUpdate(m)
    <3>1. PICK k \in Nodes : OneJoin(k)
      BY <2>3, <2>5 DEF OneByOne, Settled
    <3>. QED
      BY <2>3, <2>5, <3>1, JoinHandlerSlots, UpdateSlots, AllStateSlots
  <2>6. CASE \E th \in threads : ForwardJoin(th) \/ AnswerJoin(th) \/ MergeRoutingUpdate(th)
                                 \/ CheckRoutingUpdate(th)
    <3>1. PICK k \in Nodes : OneJoin(k)
      BY <2>3, <2>6 DEF OneByOne, Settled
    <3>. QED
      BY <2>3, <2>6, <3>1, JoinThreadSlots, MergeSlots, CheckSlots
  <2>. QED
    BY <1>2, <2>1, <2>4, <2>5, <2>6, StayingSteps
<1>. QED
  BY <1>1, <1>2

\* Once everything has settled, nothing is sent and nothing is ahead: the slots are filled.
LEMMA SlotIInvImplies ==
  ASSUME QuietOverlay
  PROVE  IInv /\ QuietIInv /\ SlotIInv /\ TwoHosts => (NobodyLeft => RoutingTableFilled)
<1>. SUFFICES ASSUME IInv, QuietIInv, SlotIInv, TwoHosts, NobodyLeft, Settled,
                     NEW n \in Members, NEW x \in Members \ {n}
              PROVE  SlotEntry(db[n], Slot(n, x)) # None
  BY DEF RoutingTableFilled
<1>1. OneByOne /\ live = Nodes /\ quitting = {} /\ NobodyRestarted
  BY DEF QuietIInv, NobodyLeft, NobodyEnded
<1>2. AllMet /\ Members = Hosts /\ Hosts \subseteq Nodes
  <2>1. Members = Hosts
    BY <1>1, SettledMembers
  <2>. QED
    BY <1>1, <2>1, SettledAllMet DEF OneByOne, Hosts, IInv, GoodProcesses
<1>3. SlotsFollow(n) /\ x \in db[n].neighbours /\ x \in Hosts \ {n}
  BY <1>2 DEF SlotIInv, AllMet
<1>4. ~ FillSent(n, x) /\ ~ FillAhead(n, x)
  BY DEF FillSent, FillAhead, JoinMessagesOf, JoinThreadsOf, UpdatesTo, MergesAt, Settled
<1>. QED
  BY <1>3, <1>4 DEF SlotsFollow, Filled

\* When users wait for one another's joins, a process that knows anybody for a slot of
\* its routing table has an entry in it once everything has settled: the handlers of
\* JoinMe and Join send the rows from the first one the newcomer lacks to the one it
\* shares with them (peerMessageHandler.cpp:68-89, 196-217), each to be merged into its table
\* (addToRoutingTable, clientDatabase.cpp:236-274), and the newcomer announces itself.
THEOREM RoutingTableFilledHolds ==
  ASSUME QuietOverlay, TinyOverlay
  PROVE  Spec => [](NobodyLeft => RoutingTableFilled)
<1>1. SmallOverlay
  BY DEF QuietOverlay
<1>2. IInv /\ RowsIInv /\ ToldIInv /\ [Next]_vars => ToldIInv'
  BY <1>1, ToldIInvStep
<1>3. IInv /\ RowsIInv /\ ToldIInv /\ QuietIInv /\ [Next]_vars => QuietIInv'
  BY QuietIInvStep
<1>4. IInv /\ RowsIInv /\ ToldIInv /\ QuietIInv /\ LeafIInv /\ [Next]_vars => LeafIInv'
  BY LeafIInvStep
<1>5. IInv /\ RowsIInv /\ ToldIInv /\ QuietIInv /\ LeafIInv /\ SlotIInv /\ [Next]_vars => SlotIInv'
  BY SlotIInvStep
<1>6. IInv /\ ToldIInv /\ TwoHosts /\ [Next]_vars => TwoHosts'
  BY TwoHostsStep
<1>7. Init => QuietIInv /\ TwoHosts
  BY QuietIInvInit DEF Init, TwoHosts
<1>8. IInv /\ QuietIInv /\ SlotIInv /\ TwoHosts => (NobodyLeft => RoutingTableFilled)
  BY SlotIInvImplies
<1>. QED
  BY <1>2, <1>3, <1>4, <1>5, <1>6, <1>7, <1>8, IInvInit, IInvStep, RowsIInvInit, RowsIInvStep,
     ToldIInvInit, LeafIInvInit, SlotIInvInit, PTL DEF Spec
=============================================================================
