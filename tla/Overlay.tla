------------------------------ MODULE Overlay ------------------------------
(***************************************************************************)
(* Membership of the Pastry overlay: the join, announce, delete and repair *)
(* handlers of pastryClient/peerMessageHandler.cpp, the commands that      *)
(* start them (commandHandler.cpp) and the repair threads of               *)
(* clientDatabase.cpp, run by several processes.                           *)
(*                                                                         *)
(* Every message travels on a connection of its own and is handled by a    *)
(* thread of its own (peerListener.cpp:50-61), so messages are delivered   *)
(* in any order and the handlers of one process interleave.  A handler     *)
(* that acts on a snapshot after a connection attempt is a thread record   *)
(* with one step per attempt.                                              *)
(*                                                                         *)
(* The key-value part of the handlers (AddToHashTable) is not here: it     *)
(* neither reads nor writes the state below.                               *)
(***************************************************************************)
EXTENDS ClientDatabase

CONSTANTS
  Buddies,      \* Buddies[n]: the addresses the user of n types in `join'
  QuietUsers,   \* processes whose user waits until nothing is under way, and joins through
                \* a process that has joined or founds the overlay (no buddies)
  Mortal,       \* processes that may crash
  Quitters,     \* processes whose user may type `quit'
  MaxRestarts   \* bound: how often an ended process is started again

ASSUME BuddiesAssumption == Buddies \in [Nodes -> SUBSET Nodes]
ASSUME QuietUsersAssumption == QuietUsers \subseteq Nodes
ASSUME MortalAssumption == Mortal \subseteq Nodes /\ Quitters \subseteq Nodes
ASSUME MaxRestartsAssumption == MaxRestarts \in Nat

VARIABLES
  live,      \* processes that accept connections
  joined,    \* processes whose JOIN_BIT is set
  quitting,  \* processes between their DeleteNode messages and exit(0)
  restarts,  \* how often each process was started again
  db,        \* db[n]: the ClientDatabase of process n
  msgs,      \* messages sent and not yet read
  threads    \* handler and repair threads that are under way

vars == <<live, joined, quitting, restarts, db, msgs, threads>>

Larger(a, b) == IF a < b THEN b ELSE a

JoinMeMessage == [type : {"JoinMe"}, to : Nodes, newcomer : Nodes]
JoinMessage == [type : {"Join"}, to : Nodes, sender : Nodes, newcomer : Nodes,
                row_index : 1 .. Rows]
RoutingUpdateMessage ==
  [type : {"RoutingUpdate"}, to : Nodes, sender : Nodes, rows : 0 .. Rows,
   entries : SUBSET Nodes, neighbours : SUBSET Nodes, leaf : SUBSET Nodes,
   terminal : BOOLEAN, prefix_match : 1 .. Rows]
AllStateUpdateMessage ==
  [type : {"AllStateUpdate"}, to : Nodes, sender : Nodes, nodes : SUBSET Nodes]
DeleteNodeMessage == [type : {"DeleteNode"}, to : Nodes, node : Nodes]

Message == JoinMeMessage \cup JoinMessage \cup RoutingUpdateMessage
             \cup AllStateUpdateMessage \cup DeleteNodeMessage

\* A JoinMe or Join handler between getNextRoutingNode and its answer: `next' is
\* its next_node_sptr, `update' the RoutingUpdate filled in so far.
JoinKinds == {"joinMe", "join"}
JoinThread == [kind : JoinKinds, at : Nodes, next : Nodes, row : 1 .. Rows,
               update : RoutingUpdateMessage]
\* A RoutingUpdate handler before its merge loops and before its final test.
UpdateThread == [kind : {"merge", "check"}, at : Nodes, update : RoutingUpdateMessage]
\* lazyUpdateLeafSet and lazyUpdateNeighbourSet: `last' is the node asked last.
RepairThread == [kind : {"left", "right", "neighbours"}, at : Nodes, last : Entry]
\* lazyUpdateRoutingTable: the slot to refill and the entries still to ask.
RepairTableThread == [kind : {"table"}, at : Nodes, slot : Row \X Digit, ask : SUBSET Nodes]

Thread == JoinThread \cup UpdateThread \cup RepairThread \cup RepairTableThread

TypeOK ==
  /\ live \subseteq Nodes /\ joined \subseteq Nodes /\ quitting \subseteq Nodes
  /\ restarts \in [Nodes -> Nat]
  /\ db \in [Nodes -> Database]
  /\ msgs \subseteq Message
  /\ threads \subseteq Thread

Init ==
  /\ live = Nodes /\ joined = {} /\ quitting = {}
  /\ restarts = [n \in Nodes |-> 0]
  /\ db = [n \in Nodes |-> EmptyDatabase]
  /\ msgs = {} /\ threads = {}
-----------------------------------------------------------------------------
\* A connection to a live process always succeeds and one to any other fails
\* (createTCPClient): what is sent to a process that has ended is dropped.
Reachable(ms) == {m \in ms : m.to \in live}

\* The process of n ends: its threads and the messages it had not read are lost.
End(n) ==
  /\ live' = live \ {n}
  /\ joined' = joined \ {n}
  /\ quitting' = quitting \ {n}
  /\ msgs' = {m \in msgs : m.to # n}
  /\ threads' = {th \in threads : th.at # n}
  /\ UNCHANGED <<restarts, db>>

\* handleLazyUpdates(x) at n: x is removed from the tables, and each table that
\* lost an entry gets a repair thread.  Whether the routing table lost one is
\* decided by position.
SlotEntry(D, s) == D.table[s[1]][s[2]]
RepairThreads(n, D, x) ==
  LET s == Slot(n, x)
      E == DeleteNode(n, D, x)
  IN  {[kind |-> "left", at |-> n, last |-> None] : y \in D.left \cap {x}}
      \cup {[kind |-> "right", at |-> n, last |-> None] : y \in D.right \cap {x}}
      \cup {[kind |-> "neighbours", at |-> n, last |-> None] : y \in D.neighbours \cap {x}}
      \cup {[kind |-> "table", at |-> n, slot |-> s,
             ask |-> {SlotEntry(E, r) : r \in (s[1] .. Rows - 1) \X (Digit \ {s[2]})} \ {None}] :
              y \in {SlotEntry(D, s)} \ {None}}

HandleLazyUpdates(n, x) ==
  /\ db' = [db EXCEPT ![n] = DeleteNode(n, @, x)]
  /\ threads' = threads \cup RepairThreads(n, db[n], x)
-----------------------------------------------------------------------------
\* Nothing is under way.
Settled == msgs = {} /\ threads = {}

\* join <b>: refused for the own address and after a first successful join; a
\* buddy that does not answer leaves the command to be typed again.
JoinCommand(n, b) ==
  /\ n \in live \ joined /\ b \in Buddies[n] \cap live /\ b # n
  /\ n \in QuietUsers => Settled /\ n \notin quitting /\ (b \in joined \/ Buddies[b] = {})
  /\ msgs' = msgs \cup {[type |-> "JoinMe", to |-> b, newcomer |-> n]}
  /\ joined' = joined \cup {n}
  /\ UNCHANGED <<live, quitting, restarts, db, threads>>

\* Mutant: the loop over the rows starts one row late.
RowsUpdate_SkipsFirst(n, newcomer, first, last, prefix_match) ==
  [type |-> "RoutingUpdate", to |-> newcomer, sender |-> n,
   rows |-> Larger(0, last - first),
   entries |-> UNION {RowEntries(db[n], p) : p \in first + 1 .. last},
   neighbours |-> {}, leaf |-> {}, terminal |-> FALSE, prefix_match |-> prefix_match]

\* The RoutingUpdate a join handler starts with: the rows first..last of the
\* table of n.
RowsUpdate(n, newcomer, first, last, prefix_match) ==
  [type |-> "RoutingUpdate", to |-> newcomer, sender |-> n,
   rows |-> Larger(0, last - first + 1),
   entries |-> UNION {RowEntries(db[n], p) : p \in first .. last},
   neighbours |-> {}, leaf |-> {}, terminal |-> FALSE, prefix_match |-> prefix_match]

\* handleJoinMeRequest up to its retry loop: the next node, then the snapshot
\* of the neighbour set and of rows 0..prefix.
HandleJoinMe(m) ==
  LET n == m.to
      p == PrefixMatchLen(m.newcomer, n)
  IN  /\ m \in msgs /\ m.type = "JoinMe"
      /\ msgs' = msgs \ {m}
      /\ \E next \in NextRoutingNodes(n, db[n], m.newcomer) :
           threads' = threads \cup
             {[kind |-> "joinMe", at |-> n, next |-> next, row |-> p + 1,
               update |-> [RowsUpdate(n, m.newcomer, 0, p, p + 1)
                             EXCEPT !.neighbours = db[n].neighbours]]}
      /\ UNCHANGED <<live, joined, quitting, restarts, db>>

\* handleJoinRequest up to its retry loop.
HandleJoin(m) ==
  LET n == m.to
      p == PrefixMatchLen(m.newcomer, n)
  IN  /\ m \in msgs /\ m.type = "Join" /\ m.newcomer # n
      /\ msgs' = msgs \ {m}
      /\ \E next \in NextRoutingNodes(n, db[n], m.newcomer) :
           threads' = threads \cup
             {[kind |-> "join", at |-> n, next |-> next, row |-> p + 1,
               update |-> RowsUpdate(n, m.newcomer, m.row_index, p, Larger(p + 1, m.row_index))]}
      /\ UNCHANGED <<live, joined, quitting, restarts, db>>

\* handleJoinRequest for the process's own NodeID: prefixMatchLen is `row', and
\* routingTable[row] is one past the last row (peerMessageHandler.cpp:196-201).
\* What lies there is allocator data, never a vector: the process faults.
HandleOwnJoin(m) ==
  /\ m \in msgs /\ m.type = "Join" /\ m.newcomer = m.to
  /\ End(m.to)

\* The RoutingUpdate as it is sent: a JoinMe handler names itself as sender, a
\* Join handler names the next node (peerMessageHandler.cpp:272).
Signed(th) == [th.update EXCEPT !.sender = IF th.kind = "joinMe" THEN th.at ELSE th.next]

\* The retry loop, first attempt that succeeds: Join goes to the next node and
\* the newcomer gets the rows.
ForwardJoin(th) ==
  /\ th \in threads /\ th.kind \in JoinKinds
  /\ th.next # th.at /\ th.next \in live
  /\ msgs' = msgs \cup Reachable(
       {[type |-> "Join", to |-> th.next, sender |-> th.at, newcomer |-> th.update.to,
         row_index |-> th.row], Signed(th)})
  /\ threads' = threads \ {th}
  /\ UNCHANGED <<live, joined, quitting, restarts, db>>

\* The retry loop, an attempt that fails: the next node is removed from the
\* tables and another one is chosen.
RetryJoin(th) ==
  LET n == th.at
      D == DeleteNode(n, db[n], th.next)
  IN  /\ th \in threads /\ th.kind \in JoinKinds
      /\ th.next # n /\ th.next \notin live
      /\ db' = [db EXCEPT ![n] = D]
      /\ \E next \in NextRoutingNodes(n, D, th.update.to) :
           threads' = (threads \ {th}) \cup RepairThreads(n, db[n], th.next)
                        \cup {[th EXCEPT !.next = next]}
      /\ UNCHANGED <<live, joined, quitting, restarts, msgs>>

\* The loop ends at the process itself: the RoutingUpdate is terminal and
\* carries the leaf set.
AnswerJoin(th) ==
  /\ th \in threads /\ th.kind \in JoinKinds /\ th.next = th.at
  /\ msgs' = msgs \cup Reachable(
       {[Signed(th) EXCEPT !.terminal = TRUE, !.leaf = Leaves(db[th.at])]})
  /\ threads' = threads \ {th}
  /\ UNCHANGED <<live, joined, quitting, restarts, db>>
-----------------------------------------------------------------------------
\* Mutant: a RoutingUpdate counts as one row whatever it carries.
HandleRoutingUpdate_CountsOne(m) ==
  LET D == UpdateAllState(m.to, db[m.to], {m.sender})
  IN  /\ m \in msgs /\ m.type = "RoutingUpdate"
      /\ msgs' = msgs \ {m}
      /\ threads' = threads \cup {[kind |-> "merge", at |-> m.to, update |-> m]}
      /\ db' = [db EXCEPT ![m.to] = [D EXCEPT !.received = D.received + 1]]
      /\ UNCHANGED <<live, joined, quitting, restarts>>

\* handleRoutingUpdateRequest: the sender is added and the rows are counted
\* before they are merged.
HandleRoutingUpdate(m) ==
  LET D == UpdateAllState(m.to, db[m.to], {m.sender})
  IN  /\ m \in msgs /\ m.type = "RoutingUpdate"
      /\ msgs' = msgs \ {m}
      /\ threads' = threads \cup {[kind |-> "merge", at |-> m.to, update |-> m]}
      /\ db' = [db EXCEPT ![m.to] = [D EXCEPT !.received = D.received + m.rows]]
      /\ UNCHANGED <<live, joined, quitting, restarts>>

\* Its merge loops: the rows, the buddy's neighbours, and from the terminal
\* node the required count and the leaf set.
MergeRoutingUpdate(th) ==
  LET n == th.at
      m == th.update
      leaves == IF m.terminal THEN {m.sender} \cup m.leaf ELSE {}
  IN  /\ th \in threads /\ th.kind = "merge"
      /\ threads' = (threads \ {th}) \cup {[th EXCEPT !.kind = "check"]}
      /\ db' = [db EXCEPT ![n].table = TableWith(n, @, m.entries),
                          ![n].neighbours = NeighboursWith(n, @, m.neighbours),
                          ![n].left = LeftWith(n, @, leaves),
                          ![n].right = RightWith(n, @, leaves),
                          ![n].total = IF m.terminal THEN m.prefix_match ELSE @]
      /\ UNCHANGED <<live, joined, quitting, restarts, msgs>>

\* Mutant: the empty slots of the routing table are sent as nodes.
StateUpdates_NullEntries(n) ==
  {[type |-> "AllStateUpdate", to |-> x, sender |-> n, nodes |-> Known(db[n]) \cup {None}] :
     x \in Known(db[n])}
\* Mutant: only the nodes of the routing table are told.
StateUpdates_TableOnly(n) ==
  {[type |-> "AllStateUpdate", to |-> x, sender |-> n, nodes |-> Known(db[n])] :
     x \in TableEntries(db[n])}

\* sendAllStateUpdate: the whole state goes to every known node.
StateUpdates(n) ==
  Reachable({[type |-> "AllStateUpdate", to |-> x, sender |-> n, nodes |-> Known(db[n])] :
               x \in Known(db[n])})

\* Its last test: the announcement is sent when the counts are equal.
CheckRoutingUpdate(th) ==
  LET n == th.at
  IN  /\ th \in threads /\ th.kind = "check"
      /\ msgs' = msgs \cup (IF db[n].received = db[n].total THEN StateUpdates(n) ELSE {})
      /\ threads' = threads \ {th}
      /\ UNCHANGED <<live, joined, quitting, restarts, db>>

\* handleAllStateUpdateRequest: the sender and all it knows enter all tables.
HandleAllStateUpdate(m) ==
  /\ m \in msgs /\ m.type = "AllStateUpdate"
  /\ msgs' = msgs \ {m}
  /\ db' = [db EXCEPT ![m.to] = UpdateAllState(m.to, @, {m.sender} \cup m.nodes)]
  /\ UNCHANGED <<live, joined, quitting, restarts, threads>>
-----------------------------------------------------------------------------
\* quit: DeleteNode to the leaf set and the neighbour set; the process still
\* serves requests until exit(0).
Quit(n) ==
  /\ n \in (live \cap Quitters) \ quitting
  /\ n \in QuietUsers => Settled
  /\ msgs' = msgs \cup Reachable({[type |-> "DeleteNode", to |-> x, node |-> n] :
                                     x \in Leaves(db[n]) \cup db[n].neighbours})
  /\ quitting' = quitting \cup {n}
  /\ UNCHANGED <<live, joined, restarts, db, threads>>

Exit(n) == n \in quitting /\ End(n)

HandleDeleteNode(m) ==
  /\ m \in msgs /\ m.type = "DeleteNode"
  /\ msgs' = msgs \ {m}
  /\ HandleLazyUpdates(m.to, m.node)
  /\ UNCHANGED <<live, joined, quitting, restarts>>

\* Mutant: only the left half is probed.
TimerRepair_LeftOnly(n, x) ==
  /\ n \in live /\ x \in db[n].left \ live
  /\ HandleLazyUpdates(n, x)
  /\ UNCHANGED <<live, joined, quitting, restarts, msgs>>

\* leafSetRepairer: every timer_limit seconds each leaf is tried.
TimerRepair(n, x) ==
  /\ n \in live /\ x \in Leaves(db[n]) \ live
  /\ HandleLazyUpdates(n, x)
  /\ UNCHANGED <<live, joined, quitting, restarts, msgs>>

\* The nodes among Y, which x names if it answers, that accept a connection.
Answer(x, Y) == {y \in Y : {x, y} \subseteq live}

\* What a repair thread does after asking one node: an answer that named live
\* nodes ends it, else it goes on as `th2'.
AfterAnswer(th, found, th2) ==
  threads' = (threads \ {th}) \cup (IF found = {} THEN {th2} ELSE {})

\* A repair thread that has no node left to ask.
StopRepair(th) ==
  /\ threads' = threads \ {th}
  /\ UNCHANGED <<live, joined, quitting, restarts, db, msgs>>

\* lazyUpdateLeafSet: starting at the extreme leaf of the side, ask each leaf
\* for its leaf set until one names a live node of that side.
RepairLeafSet(th) ==
  LET n == th.at
      Before(x, y) == IF th.kind = "left" THEN IdLess(x, y) ELSE IdLess(y, x)
      side == IF th.kind = "left" THEN db[n].left ELSE db[n].right
      rest == {x \in side : th.last = None \/ Before(th.last, x)}
  IN  /\ th \in threads /\ th.kind \in {"left", "right"}
      /\ \/ rest = {} /\ StopRepair(th)
         \/ \E x \in rest :
              LET found == {y \in Answer(x, Leaves(db[x])) : Before(y, n)}
              IN  /\ \A y \in rest : ~ Before(y, x)
                  /\ AfterAnswer(th, found, [th EXCEPT !.last = x])
                  /\ db' = [db EXCEPT ![n] = AddToLeafSet(n, @, found)]
                  /\ UNCHANGED <<live, joined, quitting, restarts, msgs>>

\* lazyUpdateNeighbourSet: as above, nearest neighbour first.  The process's own
\* NodeID in an answer counts as an entry found.
RepairNeighbourSet(th) ==
  LET n == th.at
      rest == {x \in db[n].neighbours : th.last = None \/ NearerNeighbour(n, th.last, x)}
  IN  /\ th \in threads /\ th.kind = "neighbours"
      /\ \/ rest = {} /\ StopRepair(th)
         \/ \E x \in rest :
              LET found == Answer(x, db[x].neighbours)
              IN  /\ \A y \in rest : ~ NearerNeighbour(n, y, x)
                  /\ AfterAnswer(th, found, [th EXCEPT !.last = x])
                  /\ db' = [db EXCEPT ![n] = AddToNeighbourSet(n, @, found)]
                  /\ UNCHANGED <<live, joined, quitting, restarts, msgs>>

\* lazyUpdateRoutingTable: the entries of the snapshot, row by row, are asked
\* for theirs in the emptied slot until one names a live node.
RepairRoutingTable(th) ==
  LET n == th.at
      Before(x, y) == LET s == Slot(n, x) r == Slot(n, y)
                      IN  s[1] < r[1] \/ (s[1] = r[1] /\ s[2] < r[2])
  IN  /\ th \in threads /\ th.kind = "table"
      /\ \/ th.ask = {} /\ StopRepair(th)
         \/ \E x \in th.ask :
              LET found == Answer(x, {SlotEntry(db[x], th.slot)} \ {None})
              IN  /\ \A y \in th.ask : ~ Before(y, x)
                  /\ AfterAnswer(th, found, [th EXCEPT !.ask = @ \ {x}])
                  /\ db' = [db EXCEPT ![n] = AddToRoutingTable(n, @, found)]
                  /\ UNCHANGED <<live, joined, quitting, restarts, msgs>>
-----------------------------------------------------------------------------
Crash(n) == n \in live \cap Mortal /\ End(n)

\* port and create again: the same address gives the same NodeID.
Restart(n) ==
  /\ n \in Nodes \ live /\ restarts[n] < MaxRestarts
  /\ restarts' = [restarts EXCEPT ![n] = @ + 1]
  /\ live' = live \cup {n}
  /\ db' = [db EXCEPT ![n] = EmptyDatabase]
  /\ UNCHANGED <<joined, quitting, msgs, threads>>

\* What users do and failures do.
Environment(n) == Quit(n) \/ Crash(n) \/ Restart(n) \/ \E b \in Nodes : JoinCommand(n, b)

\* What the threads of process n do.
HandleMessage(m) ==
  \/ HandleJoinMe(m) \/ HandleJoin(m) \/ HandleOwnJoin(m)
  \/ HandleRoutingUpdate(m) \/ HandleAllStateUpdate(m) \/ HandleDeleteNode(m)

RunThread(th) ==
  \/ ForwardJoin(th) \/ RetryJoin(th) \/ AnswerJoin(th)
  \/ MergeRoutingUpdate(th) \/ CheckRoutingUpdate(th)
  \/ RepairLeafSet(th) \/ RepairNeighbourSet(th) \/ RepairRoutingTable(th)

Process(n) ==
  \/ \E m \in msgs : m.to = n /\ HandleMessage(m)
  \/ \E th \in threads : th.at = n /\ RunThread(th)
  \/ \E x \in Nodes : TimerRepair(n, x)
  \/ Exit(n)

Next == \E n \in Nodes : Environment(n) \/ Process(n)

Spec == Init /\ [][Next]_vars

\* Threads and timers of running processes are scheduled: while some thread can
\* go on, one does.  Users need not act.
FairSpec == Spec /\ WF_vars(\E n \in Nodes : Process(n))
=============================================================================
