---------------------------- MODULE NeighbourSet ----------------------------
(***************************************************************************)
(* neighbourSet of one process: a std::set of Node objects ordered by      *)
(* neighbourComparator, whose key, the ping time, setProximity changes     *)
(* while the object is in the set.  Its elements are looked up one after   *)
(* the other by their id, inserted and erased by comparing keys, and       *)
(* walked by lazyUpdateNeighbourSet with an iterator that is kept across   *)
(* the unlocks of seeder_mtx.  One action is one section under that lock.  *)
(*                                                                         *)
(* The order of the elements is a sequence; the shape of the tree over it  *)
(* is left open, and so are the outcomes that depend on it once the keys   *)
(* are out of order.  Bounds: one repair thread is followed, and a ping    *)
(* takes one of the times in Times.                                        *)
(***************************************************************************)
EXTENDS ClientDatabase, SequencesExt

CONSTANTS
  Me,      \* the listener of the process
  Times    \* what a ping may take; usually Proximity[Me][x]

ASSUME MeAssumption == Me \in Nodes
ASSUME TimesAssumption ==
  /\ Times \subseteq Nat /\ None \notin Times
  /\ \A x \in Nodes : Proximity[Me][x] \in Times

VARIABLES
  set,       \* the ids of the elements, in the order of the iterators
  time,      \* the proximity of the object with that id
  announced, \* the ids whose object addToRoutingTable has still to measure
  repair,    \* the repair thread: what it does next, its iterator, its `update'
  unasked,   \* history: the elements the repair has still to come to
  jittered   \* history: some ping took another time than usual

vars == <<set, time, announced, repair, unasked, jittered>>

Elements == Range(set)
Others == Nodes \ {Me}
Steps == {"none", "begin", "fetch", "ask", "crashed"}

\* The iterator `it' points to an element or, once that is erased, to nothing.
Repair == [step : Steps, it : Entry, update : BOOLEAN]
NoRepair == [step |-> "none", it |-> None, update |-> FALSE]

TypeOK ==
  /\ set \in Seq(Others) /\ Elements \subseteq DOMAIN time
  /\ time \in [Nodes -> Times \cup {None}]
  /\ \A x \in Nodes : time[x] = None <=> x \notin Elements
  /\ announced \subseteq Elements /\ unasked \subseteq Elements
  /\ repair \in Repair /\ (repair.it # None => repair.it \in Elements)
  /\ jittered \in BOOLEAN

Init ==
  /\ set = <<>> /\ time = [x \in Nodes |-> None] /\ announced = {}
  /\ repair = NoRepair /\ unasked = {} /\ jittered = FALSE
-----------------------------------------------------------------------------
\* neighbourComparator on the keys the objects have now.
Before(tm, x, y) == tm[x] < tm[y] \/ (tm[x] = tm[y] /\ IdLess(x, y))

\* Mutant: new elements go to the end.
Gaps_AtEnd(s, tm, x) == {Len(s) + 1}

\* Where insert may put x: the descent ends between two neighbouring elements,
\* and it has compared x with both.
Gaps(s, tm, x) ==
  {i \in 1 .. Len(s) + 1 : /\ i > 1 => Before(tm, s[i - 1], x)
                           /\ i <= Len(s) => Before(tm, x, s[i])}

\* What erase(key) leaves when the key is that of element i: equal_range finds
\* the element, and what lies between the bounds it computes left and right of
\* it goes too; or it is led astray and finds nothing.  Among elements that are
\* in order it erases just the one.
EraseOutcomes(s, tm, i) ==
  LET first == {i} \cup {j \in 1 .. i - 1 : Before(tm, s[i], s[j])}
      last == {i} \cup {k \in i + 1 .. Len(s) : Before(tm, s[k], s[i])}
      without(bounds) == SubSeq(s, 1, bounds[1] - 1) \o SubSeq(s, bounds[2] + 1, Len(s))
  IN  {without(bounds) : bounds \in first \X last}
      \cup (IF first = {i} /\ last = {i} THEN {} ELSE {s})

\* Mutant: the overflow erases the nearest element.
Trimmed_DropsNearest(s, tm) ==
  IF Len(s) > NeighbourCap THEN EraseOutcomes(s, tm, 1) ELSE {s}

\* The overflow: erase(*rbegin()) when the set outgrew its capacity.
Trimmed(s, tm) ==
  IF Len(s) > NeighbourCap THEN EraseOutcomes(s, tm, Len(s)) ELSE {s}

\* Mutant: an erased object is measured all the same.
Becomes_MeasuresErased(s, tm, measured) ==
  LET gone(x) == x \notin Range(s)
  IN  /\ set' = s
      /\ time' = [x \in Nodes |-> IF gone(x) THEN None ELSE tm[x]]
      /\ announced' = measured
      /\ unasked' = unasked \cap Range(s)

\* The set becomes s with the times tm; erased objects take their iterators
\* and their measurements with them.
Becomes(s, tm, measured) ==
  LET gone(x) == x \notin Range(s)
  IN  /\ set' = s
      /\ time' = [x \in Nodes |-> IF gone(x) THEN None ELSE tm[x]]
      /\ announced' = {x \in measured : ~ gone(x)}
      /\ unasked' = unasked \cap Range(s)

IteratorAfter(s, it) == IF it \in Range(s) THEN it ELSE None

Measure(x, p) ==
  /\ x \in Others /\ p \in Times
  /\ jittered' = (jittered \/ p # Proximity[Me][x])

\* Mutant: the element is looked up by its key, as set::find does.
Enter_FindsByKey(x, p, measured) ==
  LET tm == [time EXCEPT ![x] = p]
      found == x \in Elements /\ tm = time
  IN  /\ Measure(x, p)
      /\ \E t \in IF found THEN {set} ELSE {InsertAt(set, i, x) : i \in Gaps(set, tm, x)} :
           \E s \in Trimmed(t, tm) : Becomes(s, tm, measured)

\* addToNeighhbourSet: an element with that id gets the new time where it is,
\* else the object is inserted.
Enter(x, p, measured) ==
  LET tm == [time EXCEPT ![x] = p]
  IN  /\ Measure(x, p)
      /\ \E t \in IF x \in Elements THEN {set}
                  ELSE {InsertAt(set, i, x) : i \in Gaps(set, tm, x)} :
           \E s \in Trimmed(t, tm) : Becomes(s, tm, measured)
-----------------------------------------------------------------------------
Running == repair.step # "crashed"
KeepIterator == repair' = [repair EXCEPT !.it = IteratorAfter(set', @)]

\* updateAllState: the object that is inserted is measured once more ...
Announce(x, p) ==
  /\ Running
  /\ Enter(x, p, announced \cup ({x} \ Elements))
  /\ KeepIterator

\* ... by addToRoutingTable, which takes the lock only after setProximity.
Remeasure(x, p) ==
  /\ Running /\ x \in announced /\ Measure(x, p)
  /\ time' = [time EXCEPT ![x] = p]
  /\ announced' = announced \ {x}
  /\ UNCHANGED <<set, repair, unasked>>

\* handleLazyUpdates of x: deleteFromNeighhbourSet, and a repair thread.  The
\* second erase, with the unmeasured object of the message, finds x at best.
DeleteFromNeighbourSet(x) ==
  /\ Running /\ x \in Elements
  /\ \E i \in DOMAIN set : set[i] = x /\ \E s \in EraseOutcomes(set, time, i) :
       Becomes(s, time, announced)
  /\ repair' = IF repair.step = "none" THEN [NoRepair EXCEPT !.step = "begin"]
               ELSE [repair EXCEPT !.it = IteratorAfter(set', @)]
  /\ UNCHANGED jittered
-----------------------------------------------------------------------------
\* lazyUpdateNeighbourSet: begin() under the lock.
RepairBegin ==
  /\ repair.step = "begin"
  /\ repair' = IF set = <<>> THEN NoRepair
               ELSE [step |-> "fetch", it |-> set[1], update |-> FALSE]
  /\ unasked' = Elements
  /\ UNCHANGED <<set, time, announced, jittered>>

\* Use of an iterator whose element is gone: anything may happen.
UseErased ==
  /\ repair.step \in {"fetch", "ask"} /\ repair.it = None /\ ~ repair.update
  /\ repair' = [repair EXCEPT !.step = "crashed"]
  /\ UNCHANGED <<set, time, announced, unasked, jittered>>

RepairFetch ==
  /\ repair.step = "fetch" /\ repair.it # None
  /\ repair' = [repair EXCEPT !.step = "ask"]
  /\ unasked' = unasked \ {repair.it}
  /\ UNCHANGED <<set, time, announced, jittered>>

\* The node that was asked names x, which accepts a connection.
RepairAdd(x, p) ==
  /\ repair.step = "ask"
  /\ Enter(x, p, announced)
  /\ repair' = [repair EXCEPT !.it = IteratorAfter(set', @), !.update = TRUE]

RepairDone ==
  /\ repair.step = "ask" /\ repair.update
  /\ repair' = NoRepair /\ unasked' = {}
  /\ UNCHANGED <<set, time, announced, jittered>>

\* Mutant: the walk starts again.
RepairAdvance_Restarts ==
  /\ repair.step = "ask" /\ ~ repair.update /\ repair.it # None
  /\ repair' = [repair EXCEPT !.step = "fetch", !.it = set[1]]
  /\ UNCHANGED <<set, time, announced, unasked, jittered>>

\* Mutant: one element is passed over.
RepairAdvance_SkipsOne ==
  /\ repair.step = "ask" /\ ~ repair.update /\ repair.it # None
  /\ \E i \in DOMAIN set :
       /\ set[i] = repair.it
       /\ repair' = IF i + 1 >= Len(set) THEN NoRepair
                    ELSE [repair EXCEPT !.step = "fetch", !.it = set[i + 2]]
  /\ UNCHANGED <<set, time, announced, unasked, jittered>>

\* No answer, or nobody who is alive: the next element, if there is one.
RepairAdvance ==
  /\ repair.step = "ask" /\ ~ repair.update /\ repair.it # None
  /\ \E i \in DOMAIN set :
       /\ set[i] = repair.it
       /\ repair' = IF i = Len(set) THEN NoRepair
                    ELSE [repair EXCEPT !.step = "fetch", !.it = set[i + 1]]
  /\ UNCHANGED <<set, time, announced, unasked, jittered>>

RepairThread ==
  \/ RepairBegin \/ RepairFetch \/ RepairDone \/ RepairAdvance \/ UseErased
  \/ \E x \in Others, p \in Times : RepairAdd(x, p)

Next ==
  \/ \E x \in Others, p \in Times : Announce(x, p) \/ Remeasure(x, p)
  \/ \E x \in Others : DeleteFromNeighbourSet(x)
  \/ RepairThread

Spec == Init /\ [][Next]_vars

\* The thread is scheduled, and a response names finitely many nodes.
FairSpec == Spec /\ WF_vars(RepairBegin \/ RepairFetch \/ RepairDone \/ RepairAdvance \/ UseErased)
-----------------------------------------------------------------------------
\* No process is in the set twice, though its elements get other keys at any
\* time and the tree they are in is no longer a search tree.
NoDuplicates == \A i, j \in DOMAIN set : set[i] = set[j] => i = j

\* While every ping of a node takes as long as the one before, the elements are
\* in order, ...
InOrder == jittered \/ \A i, j \in DOMAIN set : i < j => Before(time, set[i], set[j])

\* ... and the set is what module ClientDatabase says it is: the nearest nodes,
\* after every announcement, repair and deletion.
DatabaseStep ==
  /\ \A x \in Others, p \in Times :
       Announce(x, p) \/ RepairAdd(x, p) => Elements' = NeighboursWith(Me, Elements, {x})
  /\ \A x \in Others : DeleteFromNeighbourSet(x) => Elements' = Elements \ {x}
FollowsDatabase == [][jittered' \/ DatabaseStep]_vars

\* A repair that finds nobody has come to every element that was there when it
\* began and has not been erased, whatever was entered before and after its
\* iterator meanwhile, and whichever keys have changed.
RepairAsksAll == repair.step = "none" => unasked = {}

\* And it comes to an end while nodes are entered in front of it and erased
\* behind it: without jitter the walk only goes to nodes farther away.
RepairEnds ==
  repair.step = "begin" ~> (repair.step \in {"none", "crashed"} \/ jittered)
-----------------------------------------------------------------------------
\* README.md:16, "Database is a singleton class, storing all the pastry data
\* structures (contains locks for mutual exclusion)": the repair thread does
\* not use an element another thread has erased.
OnlyElementsUsed == repair.step # "crashed"

\* README.md:31, "DeleteNode: Delete the node entry from the routing tables".
DeletedGone == [][\A x \in Others : DeleteFromNeighbourSet(x) => x \notin Elements']_vars
=============================================================================
