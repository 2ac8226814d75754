-------------------------- MODULE OverlayProperties --------------------------
(***************************************************************************)
(* What is expected of the overlay of module Overlay.  The first part      *)
(* holds of the code; the second part is what README.md says and the code  *)
(* does not do.                                                            *)
(***************************************************************************)
EXTENDS Overlay

\* The processes of the overlay: they joined or have met one that did.
Members == {n \in live : n \in joined \/ Known(db[n]) # {}}

\* The join of n: its messages, the handlers at work on it, the RoutingUpdates
\* on their way to n and, of those and of the ones n is merging, the terminal ones.
JoinMessagesOf(n) == {m \in msgs : m.type \in {"JoinMe", "Join"} /\ m.newcomer = n}
JoinThreadsOf(n) == {th \in threads : th.kind \in JoinKinds /\ th.update.to = n}
UpdatesTo(n) == {m \in msgs : m.type = "RoutingUpdate" /\ m.to = n}
MergesAt(n) == {th \in threads : th.kind = "merge" /\ th.at = n}
TerminalUpdates(n) ==
  {m \in UpdatesTo(n) \cup {th.update : th \in MergesAt(n)} : m.terminal}

\* The rows the RoutingUpdates of U carry, one by one, and the rows n has been
\* sent: those it has counted and those on their way.
RowsIn(U) == {r \in U \X (1 .. Rows) : r[2] <= r[1].rows}
RowsSent(n) == db[n].received + Cardinality(RowsIn(UpdatesTo(n)))

\* Every process is in its first life.
NobodyRestarted == \A n \in Nodes : restarts[n] = 0
NobodyEnded == live = Nodes /\ NobodyRestarted
\* And nobody is about to end.
NobodyLeft == NobodyEnded /\ quitting = {}
-----------------------------------------------------------------------------
\* Every process's tables hold what their places say, whatever it was told in
\* whatever order, and whichever entries it lost in between.
Placement == \A n \in Nodes : Placed(n, db[n])

\* A Join never goes back: the node it is sent to is strictly better for the
\* newcomer than the node that sends it, whatever the tables along the route
\* lost or gained meanwhile.  IsBetter is a strict order, so no Join circles.
JoinProgress ==
  \A m \in msgs : m.type = "Join" => IsBetter(m.to, m.sender, m.newcomer)

\* The rows of a join are handed out once and without a gap, by handlers that
\* know nothing of one another: what the newcomer has counted and what is on
\* its way to it are the rows below the one the Join stands at, and, once the
\* terminal update is sent, the rows the newcomer will wait for.  A process
\* started again may be sent the rows of its earlier life as well.
RowsAccounted ==
  \A n \in joined : restarts[n] = 0 =>
    /\ \A m \in JoinMessagesOf(n) : RowsSent(n) = (IF m.type = "JoinMe" THEN 0 ELSE m.row_index)
    /\ \A th \in JoinThreadsOf(n) : RowsSent(n) + th.update.rows = th.row
    /\ \A m \in TerminalUpdates(n) : RowsSent(n) = m.prefix_match

\* When everything has settled every newcomer has counted exactly the rows it
\* waits for (peerMessageHandler.cpp:352), in whatever order the updates came:
\* no join is lost, and none counts past its total, unless a process ended.
CountsComplete ==
  Settled /\ NobodyEnded => \A n \in joined : db[n].received = db[n].total

\* And whoever it was handed has been told of it: of two nodes one of which
\* knows the other, one lists the other as a neighbour, because an announcement
\* enters all tables.  A process that quits is struck from the tables before it
\* ends, and its own still list the others.
JoinsAnnounced ==
  Settled /\ NobodyLeft => \A n \in Nodes : \A x \in Known(db[n]) :
               x \in db[n].neighbours \/ n \in db[x].neighbours

\* Once users stop, the messages and threads they started come to an end: no
\* join and no repair runs forever.
ComesToRest == []<>Settled

\* When processes join one at a time, every leaf set ends as README.md:10 says:
\* the LeafCap next smaller and the LeafCap next larger members.
LeafSetsClosest ==
  Settled =>
    \A n \in Members :
      /\ db[n].left = LargestLeaves({x \in Members : IdLess(x, n)})
      /\ db[n].right = SmallestLeaves({x \in Members : IdLess(n, x)})

\* And no slot of a routing table stays empty that some member fits.
RoutingTableFilled ==
  Settled =>
    \A n \in Members : \A x \in Members \ {n} : SlotEntry(db[n], Slot(n, x)) # None

\* After crashes, departures and restarts the overlay comes to rest with leaf
\* sets that list live processes only: repair threads and timers do not hand a
\* dead process to one another.
LeafSetsHeal == <>[](Settled /\ \A n \in live : Leaves(db[n]) \subseteq live)
-----------------------------------------------------------------------------
\* README.md:31, "DeleteNode: Delete the node entry from the routing tables":
\* handling it empties no slot that holds another node.
DeletesOnlyNamed ==
  [][\A m \in msgs : HandleDeleteNode(m) =>
       \A s \in Row \X Digit : SlotEntry(db[m.to], s) \in {m.node, SlotEntry(db'[m.to], s)}]_vars

\* README.md:77, "quit: graceful exit of the node from the pastry network":
\* when everything has settled, nobody lists a process that has quit.
DepartedForgotten ==
  Settled => \A n \in live : Known(db[n]) \subseteq live

\* README.md:36-37, "Check if the destination node is within the range of the
\* leafsets.  If yes then we can reach the destination in one hop".
LeafInOneHop ==
  \A n \in Nodes : \A t \in Leaves(db[n]) : NextRoutingNodes(n, db[n], t) = {t}

\* README.md:26, "RoutingUpdate: Updates sent by other nodes while joining the
\* network": nobody is asked to answer its own Join.
NoOwnJoin == \A m \in msgs : m.type = "Join" => m.to # m.newcomer
=============================================================================
