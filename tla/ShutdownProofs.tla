--------------------------- MODULE ShutdownProofs ---------------------------
(***************************************************************************)
(* Type correctness of the shutdown, and that the tables of the processes  *)
(* stay well formed and the rows of the joins counted while it takes       *)
(* processes out of the overlay, for every set of processes and every      *)
(* overlay; and that it leaves nobody behind, in small overlays that grew  *)
(* one process at a time and that nobody has quit.                         *)
(***************************************************************************)
EXTENDS Shutdown, OverlayProofs

ShutdownIInv == IInv /\ ShutdownTypeOK

\* The steps of the overlay that a shutdown runs along with start no process.
LEMMA ProcessStartsNobody ==
  ASSUME NEW n \in Nodes, Process(n)
  PROVE  live' \subseteq live
<1>1. ASSUME NEW m \in msgs, HandleMessage(m) PROVE live' \subseteq live
  <2>1. CASE HandleJoinMe(m)
    BY <2>1 DEF HandleJoinMe
  <2>2. CASE HandleJoin(m)
    BY <2>2 DEF HandleJoin
  <2>3. CASE HandleOwnJoin(m)
    BY <2>3 DEF HandleOwnJoin, End
  <2>4. CASE HandleRoutingUpdate(m)
    BY <2>4 DEF HandleRoutingUpdate
  <2>5. CASE HandleAllStateUpdate(m)
    BY <2>5 DEF HandleAllStateUpdate
  <2>6. CASE HandleDeleteNode(m)
    BY <2>6 DEF HandleDeleteNode
  <2>. QED
    BY <1>1, <2>1, <2>2, <2>3, <2>4, <2>5, <2>6 DEF HandleMessage
<1>2. ASSUME NEW th \in threads, RunThread(th) PROVE live' \subseteq live
  <2>1. CASE ForwardJoin(th)
    BY <2>1 DEF ForwardJoin
  <2>2. CASE RetryJoin(th)
    BY <2>2 DEF RetryJoin
  <2>3. CASE AnswerJoin(th)
    BY <2>3 DEF AnswerJoin
  <2>4. CASE MergeRoutingUpdate(th)
    BY <2>4 DEF MergeRoutingUpdate
  <2>5. CASE CheckRoutingUpdate(th)
    BY <2>5 DEF CheckRoutingUpdate
  <2>6. CASE RepairLeafSet(th)
    BY <2>6 DEF RepairLeafSet, StopRepair
  <2>7. CASE RepairNeighbourSet(th)
    BY <2>7 DEF RepairNeighbourSet, StopRepair
  <2>8. CASE RepairRoutingTable(th)
    BY <2>8 DEF RepairRoutingTable, StopRepair
  <2>. QED
    BY <1>2, <2>1, <2>2, <2>3, <2>4, <2>5, <2>6, <2>7, <2>8 DEF RunThread
<1>3. CASE \E x \in Nodes : TimerRepair(n, x)
  BY <1>3 DEF TimerRepair
<1>4. CASE Exit(n)
  BY <1>4 DEF Exit, End
<1>. QED
  BY <1>1, <1>2, <1>3, <1>4 DEF Process

LEMMA CommandStartsNobody ==
  ASSUME NEW n \in Nodes, Quit(n) \/ \E b \in Nodes : JoinCommand(n, b)
  PROVE  live' = live
BY DEF Quit, JoinCommand

\* What is left of the requests is well typed, whichever process has ended.
LEMMA KeepLiveTyped ==
  ASSUME ShutdownTypeOK, live' \subseteq live, KeepLive(asked, floods, leaving),
         exited' \subseteq Nodes \ live'
  PROVE  ShutdownTypeOK'
BY DEF ShutdownTypeOK, KeepLive

\* A node lists nodes only, so only nodes are told.
LEMMA ToldAreNodes ==
  ASSUME IInv, NEW n \in Nodes
  PROVE  Known(db[n]) \subseteq Nodes
BY KnownAreNodes DEF IInv, GoodDatabases, GoodDatabase

LEMMA ThreadTyped ==
  ASSUME ShutdownIInv, NEW n \in Nodes, ShutdownThread(n)
  PROVE  ShutdownIInv'
<1>0. UNCHANGED <<vars, exited>>
  BY DEF ShutdownThread, StartFlood, Tell, Unlock
<1>1. IInv'
  BY <1>0, IInvStep DEF ShutdownIInv
<1>2. /\ asked' \subseteq live /\ leaving' \subseteq live
      /\ floods' \subseteq Flood /\ \A f \in floods' : f.at \in live
  <2>1. CASE StartFlood(n)
    <3>1. [at |-> n, tell |-> Known(db[n])] \in Flood /\ n \in live
      BY <2>1, ToldAreNodes DEF ShutdownIInv, ShutdownTypeOK, StartFlood, Flood
    <3>. QED
      BY <2>1, <3>1 DEF StartFlood, ShutdownIInv, ShutdownTypeOK
  <2>2. ASSUME NEW f \in floods, f.at = n, Unlock(f)
        PROVE  /\ asked' \subseteq live /\ leaving' \subseteq live
               /\ floods' \subseteq Flood /\ \A g \in floods' : g.at \in live
    <3>1. leaving' \subseteq leaving \cup {n} /\ n \in live
      BY <2>2 DEF Unlock, ShutdownIInv, ShutdownTypeOK
    <3>. QED
      BY <2>2, <3>1 DEF Unlock, ShutdownIInv, ShutdownTypeOK
  <2>3. ASSUME NEW f \in floods, NEW x \in Nodes, Tell(f, x)
        PROVE  /\ asked' \subseteq live /\ leaving' \subseteq live
               /\ floods' \subseteq Flood /\ \A g \in floods' : g.at \in live
    <3>1. [f EXCEPT !.tell = @ \ {x}] \in Flood /\ [f EXCEPT !.tell = @ \ {x}].at = f.at
      BY DEF ShutdownIInv, ShutdownTypeOK, Flood
    <3>. QED
      BY <2>3, <3>1 DEF Tell, ShutdownIInv, ShutdownTypeOK
  <2>. QED
    BY <2>1, <2>2, <2>3 DEF ShutdownThread
<1>3. live' = live
  BY <1>0 DEF vars
<1>. QED
  BY <1>0, <1>1, <1>2, <1>3 DEF ShutdownIInv, ShutdownTypeOK
-----------------------------------------------------------------------------
LEMMA ShutdownIInvInit == ShutdownInit => ShutdownIInv
BY IInvInit DEF ShutdownInit, ShutdownIInv, ShutdownTypeOK

LEMMA ShutdownIInvStep == ShutdownIInv /\ [ShutdownNext]_allVars => ShutdownIInv'
<1>. SUFFICES ASSUME ShutdownIInv, [ShutdownNext]_allVars PROVE ShutdownIInv'
  OBVIOUS
<1>0. IInv /\ ShutdownTypeOK
  BY DEF ShutdownIInv
<1>1. CASE UNCHANGED allVars
  <2>1. UNCHANGED vars /\ UNCHANGED shutdownVars /\ live' = live
    BY <1>1 DEF allVars, vars
  <2>. QED
    BY <1>0, <2>1, IInvStep DEF ShutdownIInv, ShutdownTypeOK, shutdownVars
<1>2. ASSUME NEW n \in Nodes, ShutdownEnvironment(n) PROVE ShutdownIInv'
  <2>1. CASE ShutdownCommand(n)
    <3>1. UNCHANGED <<vars, floods, leaving, exited>> /\ asked' = asked \cup {n} /\ n \in live
      BY <2>1 DEF ShutdownCommand
    <3>2. live' = live
      BY <3>1 DEF vars
    <3>. QED
      BY <1>0, <3>1, <3>2, IInvStep DEF ShutdownIInv, ShutdownTypeOK
  <2>2. CASE (Quit(n) \/ \E b \in Nodes : JoinCommand(n, b)) /\ UNCHANGED shutdownVars
    <3>1. Next /\ live' = live
      BY <2>2, CommandStartsNobody DEF Next, Environment
    <3>2. IInv'
      BY <1>0, <3>1, IInvStep
    <3>. QED
      BY <1>0, <2>2, <3>1, <3>2 DEF ShutdownIInv, ShutdownTypeOK, shutdownVars
  <2>3. CASE Crash(n) /\ KeepLive(asked, floods, leaving) /\ UNCHANGED exited
    <3>1. live' \subseteq live /\ IInv'
      BY <1>0, <2>3, EndGood DEF Crash, End
    <3>. QED
      BY <1>0, <2>3, <3>1, KeepLiveTyped DEF ShutdownIInv, ShutdownTypeOK
  <2>. QED
    BY <1>2, <2>1, <2>2, <2>3 DEF ShutdownEnvironment
<1>3. ASSUME NEW n \in Nodes, ShutdownProcess(n) PROVE ShutdownIInv'
  <2>1. CASE Process(n) /\ KeepLive(asked, floods, leaving) /\ UNCHANGED exited
    <3>1. live' \subseteq live /\ IInv'
      BY <1>0, <2>1, IInvStep, ProcessStartsNobody DEF Next
    <3>. QED
      BY <1>0, <2>1, <3>1, KeepLiveTyped DEF ShutdownIInv, ShutdownTypeOK
  <2>2. CASE ShutdownThread(n)
    BY <2>2, ThreadTyped
  <2>3. CASE ExitShutdown(n)
    <3>1. live' = live \ {n} /\ IInv'
      BY <1>0, <2>3, EndGood DEF ExitShutdown, End
    <3>2. exited' \subseteq Nodes \ live'
      BY <1>0, <2>3, <3>1 DEF ExitShutdown, ShutdownTypeOK
    <3>. QED
      BY <1>0, <2>3, <3>1, <3>2, KeepLiveTyped DEF ExitShutdown, ShutdownIInv
  <2>. QED
    BY <1>3, <2>1, <2>2, <2>3 DEF ShutdownProcess
<1>. QED
  BY <1>1, <1>2, <1>3 DEF ShutdownNext

LEMMA ShutdownInductive == ShutdownSpec => []ShutdownIInv
BY ShutdownIInvInit, ShutdownIInvStep, PTL DEF ShutdownSpec

\* Requests wait, spread and exit at running processes only, and a process that
\* has shut down does not run again, for any network and any mix of shutdowns,
\* crashes, joins and departures.
THEOREM ShutdownTypeCorrect == ShutdownSpec => []ShutdownTypeOK
<1>1. ShutdownIInv => ShutdownTypeOK
  BY DEF ShutdownIInv
<1>. QED
  BY <1>1, ShutdownInductive, PTL

\* The tables a shutdown reads stay well formed, and the Joins it interrupts
\* still only go to better nodes.
THEOREM ShutdownKeepsTables == ShutdownSpec => [](Placement /\ JoinProgress)
<1>1. ShutdownIInv => Placement /\ JoinProgress
  BY IInvImplies DEF ShutdownIInv
<1>. QED
  BY <1>1, ShutdownInductive, PTL
-----------------------------------------------------------------------------
\* A shutdown tells processes to end and ends its own: to the rows of a join it
\* does no more than a crash.
LEMMA ShutdownRowsStep == IInv /\ RowsIInv /\ [ShutdownNext]_allVars => RowsIInv'
<1>. SUFFICES ASSUME IInv, RowsIInv, [ShutdownNext]_allVars PROVE RowsIInv'
  OBVIOUS
<1>1. ASSUME [Next]_vars PROVE RowsIInv'
  BY <1>1, RowsIInvStep
<1>2. CASE UNCHANGED vars
  BY <1>1, <1>2
<1>3. ASSUME NEW n \in Nodes, Process(n) \/ Environment(n) PROVE RowsIInv'
  BY <1>1, <1>3 DEF Next
<1>4. ASSUME NEW n \in Nodes, ShutdownEnvironment(n) PROVE RowsIInv'
  BY <1>2, <1>3, <1>4 DEF ShutdownEnvironment, ShutdownCommand, Environment
<1>5. ASSUME NEW n \in Nodes, ShutdownProcess(n) PROVE RowsIInv'
  <2>1. CASE ShutdownThread(n)
    BY <1>2, <2>1 DEF ShutdownThread, StartFlood, Unlock, Tell
  <2>2. CASE ExitShutdown(n)
    BY <2>2, EndKeepsRows DEF ExitShutdown
  <2>. QED
    BY <1>3, <1>5, <2>1, <2>2 DEF ShutdownProcess
<1>. QED
  BY <1>2, <1>4, <1>5 DEF ShutdownNext, allVars

\* Rows are handed out once and without a gap while a shutdown takes processes
\* out of the routes the joins go.
THEOREM ShutdownKeepsCounts == ShutdownSpec => [](RowsAccounted /\ CountsComplete)
<1>1. ShutdownInit => RowsIInv
  BY RowsIInvInit DEF ShutdownInit
<1>2. IInv /\ RowsIInv => RowsAccounted /\ CountsComplete
  BY RowsIInvImplies
<1>3. ShutdownIInv => IInv
  BY DEF ShutdownIInv
<1>. QED
  BY <1>1, <1>2, <1>3, ShutdownIInvInit, ShutdownIInvStep, ShutdownRowsStep, PTL
     DEF ShutdownSpec
-----------------------------------------------------------------------------
(***************************************************************************)
(* NobodyLeftBehind.  A shutdown starts in a network where everybody knows *)
(* everybody.  A process unlocks only after it has told all of those it    *)
(* knew when it locked; the first exit therefore comes when everybody has  *)
(* been called, and before it no request was the last one.                 *)
(***************************************************************************)
\* Nobody types quit.
QuietShutdown == QuietOverlay /\ Quitters = {}

\* A shutdown has been asked for; every process that is gone has shut down.
Started == asked # {} \/ floods # {} \/ leaving # {} \/ exited # {}
NobodyCrashed == live \cup exited = Nodes

\* What is left of the network, and the processes that never joined it.
Network == live \cap Hosts
Strangers == live \ Hosts

\* Nobody is quitting and nobody has been started again.
Fresh == quitting = {} /\ NobodyRestarted

\* No join is under way: what threads there are repair the tables of the network.
RepairsOnly ==
  /\ msgs = {} /\ (live = Nodes => threads = {})
  /\ \A th \in threads : th.kind \in {"left", "right", "neighbours", "table"} /\ th.at \in Network

\* Those that are left know one another, and nobody knows a stranger.
NetworkKnown ==
  /\ \A n \in Network : Network \ {n} \subseteq db[n].neighbours
  /\ \A n \in live : Known(db[n]) \cap Strangers = {}
  /\ \A n \in Strangers : Known(db[n]) = {}

\* Only processes of the network are asked, spread a request or leave.
RequestsInNetwork ==
  /\ asked \cup leaving \subseteq Network
  /\ \A f \in floods : f.at \in Network /\ f.tell \cap Strangers = {}

\* A request waits at x, or x works on one.
Called(x) == x \in asked \cup leaving \/ \E f \in floods : f.at = x

\* Once one process has told everybody, everybody is called.
AllCalled ==
  /\ leaving \cup exited # {} => \A x \in Network : Called(x)
  /\ \A f \in floods : \A x \in Network \ {f.at} : Called(x) \/ x \in f.tell

\* Before the first process exits no request is the last one: of two that ask
\* one another one is still asked.
GoesOn ==
  live = Nodes =>
    /\ \E b, c \in Hosts : b # c
    /\ leaving # {} => asked # {} \/ floods # {}
    /\ \A f \in floods : \A x \in Hosts \ {f.at} :
         \/ x \in f.tell \cup asked \/ f.at \in asked
         \/ \E g \in floods : g.at = x /\ f.at \in g.tell

\* The tables and the requests of a network that is being shut down.
Tables == RepairsOnly /\ NetworkKnown
Requests == RequestsInNetwork /\ AllCalled /\ GoesOn
\* A shutdown starts once everything has settled; from then on this is kept
\* while every process that is gone has shut down.
CallIInv ==
  /\ Fresh /\ TwoHosts
  /\ Started /\ NobodyCrashed => Tables /\ Requests

\* When no request is left every process of the network has been called, and has exited.
LEMMA CallIInvImplies == CallIInv => NobodyLeftBehind
<1>. SUFFICES ASSUME CallIInv, ShutdownOver, NobodyCrashed, NEW m \in Members PROVE FALSE
  BY DEF NobodyLeftBehind, NobodyCrashed
<1>1. NetworkKnown /\ AllCalled /\ exited # {}
  BY DEF CallIInv, ShutdownOver, Started, Tables, Requests
<1>2. m \in Network
  BY <1>1 DEF Members, NetworkKnown, Network, Strangers, Hosts
<1>. QED
  BY <1>1, <1>2 DEF AllCalled, Called, ShutdownOver

LEMMA CallIInvInit == ShutdownInit => CallIInv
BY DEF ShutdownInit, Init, CallIInv, Fresh, NobodyRestarted, TwoHosts, Started

\* In a settled network everybody knows everybody, so that the first request may go out.
LEMMA SettledNetwork ==
  ASSUME ShutdownIInv, ToldIInv, QuietIInv, CallIInv, ~ Started, NobodyCrashed,
         NEW n \in Members, Settled
  PROVE  /\ Tables /\ n \in Network /\ (\E b, c \in Hosts : b # c)
<1>1. NobodyLeft /\ live = Nodes /\ OneByOne
  BY DEF Started, NobodyCrashed, NobodyLeft, NobodyEnded, CallIInv, Fresh, QuietIInv
<1>2. AllMet /\ AmongHosts /\ Hosts \subseteq Nodes
  BY <1>1, SettledAllMet DEF OneByOne, Hosts, ShutdownIInv, IInv, GoodProcesses
<1>3. RepairsOnly
  BY DEF RepairsOnly, Settled
<1>4. NetworkKnown
  BY <1>1, <1>2 DEF NetworkKnown, Network, Strangers, AllMet, AmongHosts
<1>5. n \in Hosts /\ n \in Nodes
  BY <1>1, <1>2 DEF Members, AmongHosts, Hosts
<1>6. \E b, c \in Hosts : b # c
  <2>1. CASE joined # {}
    BY <1>1, <2>1 DEF CallIInv, TwoHosts
  <2>2. CASE Known(db[n]) # {}
    <3>1. Known(db[n]) \subseteq Hosts /\ n \notin Known(db[n])
      BY <1>2, <1>5, <2>2, KnownAreOthers DEF AmongHosts, ShutdownIInv, IInv, GoodDatabases
    <3>. QED
      BY <1>5, <2>2, <3>1
  <2>. QED
    BY <2>1, <2>2 DEF Members
<1>. QED
  BY <1>1, <1>3, <1>4, <1>5, <1>6 DEF Tables, Network

\* While nothing but the requests changes.
LEMMA TablesUnchanged ==
  ASSUME UNCHANGED vars
  PROVE  /\ Tables => Tables'
         /\ Network' = Network /\ Strangers' = Strangers /\ Hosts' = Hosts /\ live' = live
         /\ db' = db
BY DEF vars, Tables, RepairsOnly, NetworkKnown, Network, Strangers, Hosts

\* The command asks the process it is typed at; later commands find the requests out.
LEMMA CommandCalls ==
  ASSUME QuietShutdown, ShutdownIInv, ToldIInv, QuietIInv, CallIInv, NobodyCrashed,
         NEW n \in Nodes, ShutdownCommand(n)
  PROVE  Tables' /\ Requests'
<1>1. /\ Settled /\ n \in Members /\ n \in live /\ asked' = asked \cup {n}
      /\ UNCHANGED <<vars, floods, leaving, exited>>
  BY DEF ShutdownCommand, QuietShutdown, QuietOverlay
<1>2. CASE ~ Started
  <2>1. Tables /\ n \in Network /\ \E b, c \in Hosts : b # c
    BY <1>1, <1>2, SettledNetwork
  <2>2. asked' = {n} /\ floods' = {} /\ leaving' = {} /\ exited' = {}
    BY <1>1, <1>2 DEF Started
  <2>3. RequestsInNetwork' /\ AllCalled' /\ GoesOn'
    BY <1>1, <2>1, <2>2, TablesUnchanged DEF RequestsInNetwork, AllCalled, GoesOn
  <2>. QED
    BY <1>1, <2>1, <2>3, TablesUnchanged DEF Requests
<1>3. CASE Started
  <2>1. Tables /\ RequestsInNetwork /\ AllCalled /\ GoesOn
    BY <1>3 DEF CallIInv, Requests
  <2>2. n \in Network
    BY <1>1, <2>1 DEF Members, Tables, NetworkKnown, Network, Strangers, Hosts
  <2>3. RequestsInNetwork'
    BY <1>1, <2>1, <2>2, TablesUnchanged DEF RequestsInNetwork
  <2>4. \A x : Called(x) => Called(x)'
    BY <1>1 DEF Called
  <2>5. AllCalled'
    BY <1>1, <2>1, <2>4, TablesUnchanged DEF AllCalled
  <2>6. GoesOn'
    BY <1>1, <2>1, TablesUnchanged DEF GoesOn
  <2>. QED
    BY <1>1, <2>1, <2>3, <2>5, <2>6, TablesUnchanged DEF Requests
<1>. QED
  BY <1>2, <1>3

\* A handler takes the mutex and copies tables that name everybody left.
LEMMA StartFloodCalls ==
  ASSUME ShutdownIInv, Tables, Requests, NEW n \in Nodes, StartFlood(n)
  PROVE  Tables' /\ Requests'
<1>. DEFINE f == [at |-> n, tell |-> Known(db[n])]
<1>1. /\ n \in asked /\ (\A g \in floods : g.at # n)
      /\ floods' = floods \cup {f} /\ asked' = asked \ {n} /\ UNCHANGED <<vars, leaving, exited>>
  BY DEF StartFlood
<1>2. f.at = n /\ f.tell = Known(db[n])
  OBVIOUS
<1>. HIDE DEF f
<1>3. RequestsInNetwork /\ AllCalled /\ GoesOn /\ NetworkKnown
  BY DEF Requests, Tables
<1>4. n \in Network /\ n \in live /\ f.tell \cap Strangers = {} /\ Network \ {n} \subseteq f.tell
  BY <1>1, <1>2, <1>3 DEF RequestsInNetwork, NetworkKnown, Network, Known
<1>5. RequestsInNetwork'
  BY <1>1, <1>2, <1>3, <1>4, TablesUnchanged DEF RequestsInNetwork
<1>6. \A x : Called(x) => Called(x)'
  BY <1>1, <1>2 DEF Called
<1>7. AllCalled'
  BY <1>1, <1>2, <1>3, <1>4, <1>6, TablesUnchanged DEF AllCalled
<1>8. GoesOn'
  <2>. SUFFICES ASSUME live' = Nodes PROVE
         /\ \E b, c \in Hosts' : b # c
         /\ leaving' # {} => asked' # {} \/ floods' # {}
         /\ \A h \in floods' : \A x \in Hosts' \ {h.at} :
              \/ x \in h.tell \cup asked' \/ h.at \in asked'
              \/ \E g \in floods' : g.at = x /\ h.at \in g.tell
    BY DEF GoesOn
  <2>1. Hosts' = Hosts /\ live = Nodes /\ Hosts \subseteq Nodes
    BY <1>1, TablesUnchanged DEF Hosts, ShutdownIInv, IInv, GoodProcesses
  <2>2. Network = Hosts
    BY <2>1 DEF Network
  <2>3. ASSUME NEW h \in floods', NEW x \in Hosts \ {h.at}
        PROVE  \/ x \in h.tell \cup asked' \/ h.at \in asked'
               \/ \E g \in floods' : g.at = x /\ h.at \in g.tell
    <3>1. CASE h = f
      BY <1>2, <1>4, <2>2, <2>3, <3>1
    <3>2. CASE h \in floods
      <4>1. h.at # n /\ h.at \in Network
        BY <1>1, <1>3, <3>2 DEF RequestsInNetwork
      <4>2. \/ x \in h.tell \cup asked \/ h.at \in asked
            \/ \E g \in floods : g.at = x /\ h.at \in g.tell
        BY <1>3, <2>1, <2>3, <3>2 DEF GoesOn
      <4>3. x = n => f.at = x /\ h.at \in f.tell /\ f \in floods'
        BY <1>1, <1>2, <1>4, <4>1
      <4>. QED
        BY <1>1, <4>1, <4>2, <4>3
    <3>. QED
      BY <1>1, <3>1, <3>2
  <2>. QED
    BY <1>1, <1>3, <2>1, <2>3 DEF GoesOn
<1>. QED
  BY <1>1, <1>5, <1>7, <1>8, TablesUnchanged DEF Requests

\* One call of the loops: a process that is told is asked, one that is gone needs no call.
LEMMA TellCalls ==
  ASSUME ShutdownIInv, Tables, Requests, NEW f, NEW x \in Nodes, Tell(f, x)
  PROVE  Tables' /\ Requests'
<1>. DEFINE f2 == [f EXCEPT !.tell = @ \ {x}]
<1>1. /\ f \in floods /\ x \in f.tell /\ floods' = (floods \ {f}) \cup {f2}
      /\ asked' = asked \cup ({x} \cap live) /\ UNCHANGED <<vars, leaving, exited>>
  BY DEF Tell, Turn
<1>2. f2.at = f.at /\ f2.tell = f.tell \ {x}
  BY <1>1 DEF ShutdownIInv, ShutdownTypeOK, Flood
<1>. HIDE DEF f2
<1>3. RequestsInNetwork /\ AllCalled /\ GoesOn
  BY DEF Requests
<1>4. x \in live => x \in Network
  BY <1>1, <1>3 DEF RequestsInNetwork, Network, Strangers
<1>5. RequestsInNetwork'
  BY <1>1, <1>2, <1>3, <1>4, TablesUnchanged DEF RequestsInNetwork
<1>6. \A y : Called(y) => Called(y)'
  BY <1>1, <1>2 DEF Called
<1>7. x \in Network => Called(x)'
  BY <1>1 DEF Called, Network
<1>8. AllCalled'
  <2>1. ASSUME NEW h \in floods', NEW y \in Network \ {h.at} PROVE Called(y)' \/ y \in h.tell
    <3>1. CASE h = f2
      <4>1. Called(y) \/ y \in f.tell
        BY <1>1, <1>2, <1>3, <2>1, <3>1 DEF AllCalled
      <4>. QED
        BY <1>2, <1>6, <1>7, <2>1, <3>1, <4>1
    <3>2. CASE h \in floods
      BY <1>3, <1>6, <2>1, <3>2 DEF AllCalled
    <3>. QED
      BY <1>1, <3>1, <3>2
  <2>. QED
    BY <1>1, <1>3, <1>6, <2>1, TablesUnchanged DEF AllCalled
<1>9. GoesOn'
  <2>. SUFFICES ASSUME live' = Nodes PROVE
         /\ \E b, c \in Hosts' : b # c
         /\ leaving' # {} => asked' # {} \/ floods' # {}
         /\ \A h \in floods' : \A y \in Hosts' \ {h.at} :
              \/ y \in h.tell \cup asked' \/ h.at \in asked'
              \/ \E g \in floods' : g.at = y /\ h.at \in g.tell
    BY DEF GoesOn
  <2>1. Hosts' = Hosts /\ live = Nodes /\ asked' = asked \cup {x}
    BY <1>1, TablesUnchanged
  <2>2. ASSUME NEW h \in floods, NEW y \in Hosts \ {h.at}
        PROVE  \/ y \in h.tell \cup asked' \/ h.at \in asked'
               \/ \E g \in floods' : g.at = y /\ h.at \in g.tell
    <3>1. CASE y \in h.tell \cup asked \/ h.at \in asked
      BY <2>1, <3>1
    <3>2. ASSUME NEW g \in floods, g.at = y, h.at \in g.tell
          PROVE  h.at \in asked' \/ \E k \in floods' : k.at = y /\ h.at \in k.tell
      <4>1. CASE g = f
        BY <1>1, <1>2, <2>1, <3>2, <4>1
      <4>2. CASE g # f
        BY <1>1, <3>2, <4>2
      <4>. QED
        BY <4>1, <4>2
    <3>. QED
      BY <1>3, <2>1, <2>2, <3>1, <3>2 DEF GoesOn
  <2>3. ASSUME NEW h \in floods', NEW y \in Hosts \ {h.at}
        PROVE  \/ y \in h.tell \cup asked' \/ h.at \in asked'
               \/ \E g \in floods' : g.at = y /\ h.at \in g.tell
    <3>1. CASE h = f2
      <4>1. y \in Hosts \ {f.at}
        BY <1>2, <2>3, <3>1
      <4>2. \/ y \in f.tell \cup asked' \/ f.at \in asked'
            \/ \E g \in floods' : g.at = y /\ f.at \in g.tell
        BY <1>1, <2>2, <4>1
      <4>. QED
        BY <1>2, <2>1, <3>1, <4>2
    <3>2. CASE h \in floods
      BY <2>2, <2>3, <3>2
    <3>. QED
      BY <1>1, <3>1, <3>2
  <2>4. floods' # {}
    BY <1>1
  <2>. QED
    BY <1>3, <2>1, <2>3, <2>4 DEF GoesOn
<1>. QED
  BY <1>1, <1>5, <1>8, <1>9, TablesUnchanged DEF Requests

\* A handler unlocks only when it has told everybody in its copies.
LEMMA UnlockCalls ==
  ASSUME ShutdownIInv, Tables, Requests, NEW f, Unlock(f)
  PROVE  Tables' /\ Requests'
<1>1. /\ f \in floods /\ f.tell = {} /\ floods' = floods \ {f} /\ leaving' = leaving \cup {f.at}
      /\ UNCHANGED <<vars, asked, exited>>
  BY DEF Unlock
<1>2. RequestsInNetwork /\ AllCalled /\ GoesOn
  BY DEF Requests
<1>3. RequestsInNetwork'
  BY <1>1, <1>2, TablesUnchanged DEF RequestsInNetwork
<1>4. \A x : Called(x) => Called(x)'
  BY <1>1 DEF Called
<1>5. \A x \in Network : Called(x)'
  <2>1. Called(f.at)'
    BY <1>1 DEF Called
  <2>. QED
    BY <1>1, <1>2, <1>4, <2>1 DEF AllCalled
<1>6. AllCalled'
  BY <1>1, <1>5, TablesUnchanged DEF AllCalled
<1>7. GoesOn'
  <2>. SUFFICES ASSUME live' = Nodes PROVE
         /\ \E b, c \in Hosts' : b # c
         /\ asked' # {} \/ floods' # {}
         /\ \A h \in floods' : \A y \in Hosts' \ {h.at} :
              \/ y \in h.tell \cup asked' \/ h.at \in asked'
              \/ \E g \in floods' : g.at = y /\ h.at \in g.tell
    BY DEF GoesOn
  <2>1. Hosts' = Hosts /\ live = Nodes
    BY <1>1, TablesUnchanged
  <2>2. asked # {} \/ floods' # {}
    <3>1. PICK x \in Hosts : x # f.at
      BY <1>2, <2>1 DEF GoesOn
    <3>2. x \in f.tell \cup asked \/ f.at \in asked \/ \E g \in floods : g.at = x /\ f.at \in g.tell
      BY <1>1, <1>2, <2>1, <3>1 DEF GoesOn
    <3>. QED
      BY <1>1, <3>1, <3>2
  <2>3. ASSUME NEW h \in floods', NEW y \in Hosts \ {h.at}
        PROVE  \/ y \in h.tell \cup asked \/ h.at \in asked
               \/ \E g \in floods' : g.at = y /\ h.at \in g.tell
    <3>1. \/ y \in h.tell \cup asked \/ h.at \in asked
          \/ \E g \in floods : g.at = y /\ h.at \in g.tell
      BY <1>1, <1>2, <2>1, <2>3 DEF GoesOn
    <3>. QED
      BY <1>1, <3>1
  <2>. QED
    BY <1>1, <1>2, <2>1, <2>2, <2>3 DEF GoesOn
<1>. QED
  BY <1>1, <1>3, <1>6, <1>7, TablesUnchanged DEF Requests

\* An exit takes a process that was called, with its requests, out of the network.
LEMMA ExitCalls ==
  ASSUME ShutdownIInv, Tables, Requests, NEW n \in Nodes, ExitShutdown(n)
  PROVE  Tables' /\ Requests'
<1>1. /\ n \in leaving /\ live' = live \ {n} /\ joined' = joined \ {n}
      /\ msgs' = {m \in msgs : m.to # n} /\ threads' = {th \in threads : th.at # n} /\ db' = db
      /\ KeepLive(asked, floods, leaving)
  BY DEF ExitShutdown, End
<1>2. RepairsOnly /\ NetworkKnown /\ RequestsInNetwork /\ AllCalled
  BY DEF Tables, Requests
<1>3. n \in live /\ n \in Hosts /\ live \subseteq Nodes
  BY <1>1, <1>2 DEF RequestsInNetwork, Network, ShutdownIInv, IInv, GoodProcesses
<1>4. Network' = Network \ {n} /\ Strangers' = Strangers
  BY <1>1, <1>3 DEF Network, Strangers, Hosts
<1>5. live' # Nodes
  BY <1>1, <1>3
<1>6. RepairsOnly'
  BY <1>1, <1>2, <1>4, <1>5 DEF RepairsOnly
<1>7. NetworkKnown'
  BY <1>1, <1>2, <1>4 DEF NetworkKnown
<1>8. /\ asked' = asked \ {n} /\ leaving' = leaving \ {n}
      /\ floods' = {f \in floods : f.at # n}
  BY <1>1 DEF KeepLive, ShutdownIInv, ShutdownTypeOK
<1>9. RequestsInNetwork'
  BY <1>2, <1>4, <1>8 DEF RequestsInNetwork
<1>10. \A x : x # n /\ Called(x) => Called(x)'
  BY <1>8 DEF Called
<1>11. AllCalled'
  BY <1>1, <1>2, <1>4, <1>8, <1>10 DEF AllCalled
<1>12. GoesOn'
  BY <1>5 DEF GoesOn
<1>. QED
  BY <1>6, <1>7, <1>9, <1>11, <1>12 DEF Tables, Requests

\* A step that repairs the tables of n.
LEMMA TablesRepaired ==
  ASSUME ShutdownIInv, Tables, live # Nodes, NEW n \in Nodes, NEW D,
         UNCHANGED <<live, joined, msgs>>, db' = [db EXCEPT ![n] = D],
         n \in Network \/ Known(D) = {},
         Known(D) \cap Strangers = {},
         db[n].neighbours \cap Network \subseteq D.neighbours,
         \A th \in threads' : \/ th \in threads
                              \/ th.kind \in {"left", "right", "neighbours", "table"} /\ th.at \in Network
  PROVE  Tables'
<1>1. Network' = Network /\ Strangers' = Strangers /\ Network \cap Strangers = {}
  BY DEF Network, Strangers, Hosts
<1>2. RepairsOnly'
  BY <1>1 DEF Tables, RepairsOnly
<1>3. db'[n] = D /\ \A x \in Nodes : x # n => db'[x] = db[x]
  BY DEF ShutdownIInv, IInv, GoodDatabases
<1>4. live \subseteq Nodes /\ Network \subseteq live /\ Strangers \subseteq live
  BY DEF Network, Strangers, ShutdownIInv, IInv, GoodProcesses
<1>5. NetworkKnown'
  BY <1>1, <1>3, <1>4 DEF Tables, NetworkKnown
<1>. QED
  BY <1>2, <1>5 DEF Tables

\* deleteNode of a process that is gone, and the repairs it starts.
LEMMA LazyUpdatesTables ==
  ASSUME ShutdownIInv, Tables, NEW n \in Nodes, NEW x \in Nodes, TimerRepair(n, x)
  PROVE  Tables'
<1>. DEFINE D == DeleteNode(n, db[n], x)
<1>1. /\ n \in live /\ x \in Leaves(db[n]) \ live /\ UNCHANGED <<live, joined, msgs>>
      /\ db' = [db EXCEPT ![n] = D] /\ threads' = threads \cup RepairThreads(n, db[n], x)
  BY DEF TimerRepair, HandleLazyUpdates, ShutdownIInv, IInv, GoodDatabases
<1>2. x \in Known(db[n])
  BY <1>1 DEF Known
<1>3. n \in Network
  BY <1>1, <1>2 DEF Tables, NetworkKnown, Network, Strangers
<1>4. Known(D) \subseteq Known(db[n]) /\ D.neighbours = db[n].neighbours \ {x}
  BY <1>1, DeleteTakesOne DEF ShutdownIInv, IInv, GoodDatabases
<1>5. \A th \in RepairThreads(n, db[n], x) :
        th.kind \in {"left", "right", "neighbours", "table"} /\ th.at = n
  BY DEF RepairThreads
<1>6. Known(db[n]) \cap Strangers = {} /\ x \notin Network
  BY <1>1 DEF Tables, NetworkKnown, Network
<1>. HIDE DEF D
<1>. QED
  BY <1>1, <1>3, <1>4, <1>5, <1>6, TablesRepaired

\* A repair thread finds processes of the network only.
LEMMA RepairTables ==
  ASSUME ShutdownIInv, Tables, SmallOverlay, live # Nodes,
         NEW th \in threads, NEW n \in Nodes, n = th.at, NEW x, NEW Y, Y \subseteq Known(db[x]), x \in Nodes,
         NEW found, found \subseteq Answer(x, Y),
         NEW D \in {AddToLeafSet(n, db[n], found), AddToNeighbourSet(n, db[n], found),
                    AddToRoutingTable(n, db[n], found)},
         db' = [db EXCEPT ![n] = D], UNCHANGED <<live, joined, msgs>>,
         NEW th2, th2.kind = th.kind, th2.at = th.at, AfterAnswer(th, found, th2)
  PROVE  Tables'
<1>1. n \in Network /\ th.kind \in {"left", "right", "neighbours", "table"}
  BY DEF Tables, RepairsOnly
<1>2. GoodDatabase(n, db[n]) /\ found \in SUBSET Nodes
  BY KnownAreOthers DEF ShutdownIInv, IInv, GoodDatabases, Answer
<1>3. Known(D) \subseteq Known(db[n]) \cup found /\ db[n].neighbours \subseteq D.neighbours
  BY <1>2, RepairAdds
<1>4. found \cap Strangers = {}
  BY DEF Answer, Tables, NetworkKnown
<1>5. Known(db[n]) \cap Strangers = {}
  BY <1>1 DEF Tables, NetworkKnown, Network
<1>6. \A r \in threads' : \/ r \in threads
                          \/ r.kind \in {"left", "right", "neighbours", "table"} /\ r.at \in Network
  BY <1>1 DEF AfterAnswer
<1>7. Known(D) \cap Strangers = {} /\ db[n].neighbours \cap Network \subseteq D.neighbours
  BY <1>3, <1>4, <1>5
<1>. QED
  BY <1>1, <1>6, <1>7, TablesRepaired

\* A repair that ends without an answer.
LEMMA StopRepairTables ==
  ASSUME Tables, NEW th, StopRepair(th)
  PROVE  Tables'
BY DEF StopRepair, Tables, RepairsOnly, NetworkKnown, Network, Strangers, Hosts

\* The repairs bring the tables processes of the network and keep its neighbours.
LEMMA RepairStepTables ==
  ASSUME ShutdownIInv, Tables, SmallOverlay, NEW th \in threads,
         RepairLeafSet(th) \/ RepairNeighbourSet(th) \/ RepairRoutingTable(th)
  PROVE  Tables' /\ live' = live
<1>1. live # Nodes /\ th.at \in Nodes /\ GoodThread(th)
  BY ThreadTypes DEF Tables, RepairsOnly, Network, ShutdownIInv, IInv, GoodProcesses
<1>2. CASE RepairLeafSet(th)
  <2>. DEFINE n == th.at
              Before(x, y) == IF th.kind = "left" THEN IdLess(x, y) ELSE IdLess(y, x)
              side == IF th.kind = "left" THEN db[n].left ELSE db[n].right
              rest == {x \in side : th.last = None \/ Before(th.last, x)}
              found(x) == {y \in Answer(x, Leaves(db[x])) : Before(y, n)}
  <2>1. th \in RepairThread /\ side \subseteq Nodes
    BY <1>1, <1>2, ThreadTypes DEF RepairLeafSet, ShutdownIInv, IInv, GoodDatabases, Database
  <2>2. \/ StopRepair(th)
        \/ \E x \in side : /\ AfterAnswer(th, found(x), [th EXCEPT !.last = x])
                           /\ db' = [db EXCEPT ![n] = AddToLeafSet(n, @, found(x))]
                           /\ UNCHANGED <<live, joined, quitting, restarts, msgs>>
    BY <1>2 DEF RepairLeafSet
  <2>3. CASE StopRepair(th)
    BY <2>3, StopRepairTables DEF StopRepair
  <2>4. ASSUME NEW x \in side, AfterAnswer(th, found(x), [th EXCEPT !.last = x]),
               db' = [db EXCEPT ![n] = AddToLeafSet(n, @, found(x))],
               UNCHANGED <<live, joined, quitting, restarts, msgs>>
        PROVE  Tables' /\ live' = live
    <3>. DEFINE D == AddToLeafSet(n, db[n], found(x))
                th2 == [th EXCEPT !.last = x]
    <3>1. Leaves(db[x]) \subseteq Known(db[x]) /\ found(x) \subseteq Answer(x, Leaves(db[x]))
      BY DEF Known
    <3>2. th2.kind = th.kind /\ th2.at = th.at
      BY <2>1 DEF RepairThread
    <3>3. db' = [db EXCEPT ![n] = D] /\ AfterAnswer(th, found(x), th2)
      BY <2>4 DEF ShutdownIInv, IInv, GoodDatabases
    <3>4. x \in Nodes /\ D \in {AddToLeafSet(n, db[n], found(x)), AddToNeighbourSet(n, db[n], found(x)),
                    AddToRoutingTable(n, db[n], found(x))}
      BY <2>1, <2>4
    <3>. HIDE DEF D, th2, found, side
    <3>. QED
      BY <1>1, <2>4, <3>1, <3>2, <3>3, <3>4, RepairTables
  <2>. QED
    BY <2>2, <2>3, <2>4
<1>3. CASE RepairNeighbourSet(th)
  <2>. DEFINE n == th.at
              found(x) == Answer(x, db[x].neighbours)
  <2>1. th \in RepairThread /\ db[n].neighbours \subseteq Nodes
    BY <1>1, <1>3, ThreadTypes DEF RepairNeighbourSet, ShutdownIInv, IInv, GoodDatabases, Database
  <2>2. \/ StopRepair(th)
        \/ \E x \in db[n].neighbours :
             /\ AfterAnswer(th, found(x), [th EXCEPT !.last = x])
             /\ db' = [db EXCEPT ![n] = AddToNeighbourSet(n, @, found(x))]
             /\ UNCHANGED <<live, joined, quitting, restarts, msgs>>
    BY <1>3 DEF RepairNeighbourSet
  <2>3. CASE StopRepair(th)
    BY <2>3, StopRepairTables DEF StopRepair
  <2>4. ASSUME NEW x \in db[n].neighbours, AfterAnswer(th, found(x), [th EXCEPT !.last = x]),
               db' = [db EXCEPT ![n] = AddToNeighbourSet(n, @, found(x))],
               UNCHANGED <<live, joined, quitting, restarts, msgs>>
        PROVE  Tables' /\ live' = live
    <3>. DEFINE D == AddToNeighbourSet(n, db[n], found(x))
                th2 == [th EXCEPT !.last = x]
    <3>1. db[x].neighbours \subseteq Known(db[x]) /\ found(x) \subseteq Answer(x, db[x].neighbours)
      BY DEF Known
    <3>2. th2.kind = th.kind /\ th2.at = th.at
      BY <2>1 DEF RepairThread
    <3>3. db' = [db EXCEPT ![n] = D] /\ AfterAnswer(th, found(x), th2)
      BY <2>4 DEF ShutdownIInv, IInv, GoodDatabases
    <3>4. x \in Nodes /\ D \in {AddToLeafSet(n, db[n], found(x)), AddToNeighbourSet(n, db[n], found(x)),
                    AddToRoutingTable(n, db[n], found(x))}
      BY <2>1, <2>4
    <3>. HIDE DEF D, th2, found
    <3>. QED
      BY <1>1, <2>4, <3>1, <3>2, <3>3, <3>4, RepairTables
  <2>. QED
    BY <2>2, <2>3, <2>4
<1>4. CASE RepairRoutingTable(th)
  <2>. DEFINE n == th.at
              Y(x) == {SlotEntry(db[x], th.slot)} \ {None}
              found(x) == Answer(x, Y(x))
  <2>1. th \in RepairTableThread /\ th.ask \subseteq Nodes /\ th.slot \in Row \X Digit
    BY <1>1, <1>4, ThreadTypes DEF RepairRoutingTable, RepairTableThread
  <2>2. \/ StopRepair(th)
        \/ \E x \in th.ask :
             /\ AfterAnswer(th, found(x), [th EXCEPT !.ask = @ \ {x}])
             /\ db' = [db EXCEPT ![n] = AddToRoutingTable(n, @, found(x))]
             /\ UNCHANGED <<live, joined, quitting, restarts, msgs>>
    BY <1>4 DEF RepairRoutingTable
  <2>3. CASE StopRepair(th)
    BY <2>3, StopRepairTables DEF StopRepair
  <2>4. ASSUME NEW x \in th.ask, AfterAnswer(th, found(x), [th EXCEPT !.ask = @ \ {x}]),
               db' = [db EXCEPT ![n] = AddToRoutingTable(n, @, found(x))],
               UNCHANGED <<live, joined, quitting, restarts, msgs>>
        PROVE  Tables' /\ live' = live
    <3>. DEFINE D == AddToRoutingTable(n, db[n], found(x))
                th2 == [th EXCEPT !.ask = @ \ {x}]
    <3>1. Y(x) \subseteq Known(db[x]) /\ found(x) \subseteq Answer(x, Y(x))
      BY <2>1 DEF Known, TableEntries, RowEntries, SlotEntry
    <3>2. th2.kind = th.kind /\ th2.at = th.at
      BY <2>1 DEF RepairTableThread
    <3>3. db' = [db EXCEPT ![n] = D] /\ AfterAnswer(th, found(x), th2)
      BY <2>4 DEF ShutdownIInv, IInv, GoodDatabases
    <3>4. x \in Nodes /\ D \in {AddToLeafSet(n, db[n], found(x)), AddToNeighbourSet(n, db[n], found(x)),
                    AddToRoutingTable(n, db[n], found(x))}
      BY <2>1, <2>4
    <3>. HIDE DEF D, th2, found, Y
    <3>. QED
      BY <1>1, <2>4, <3>1, <3>2, <3>3, <3>4, RepairTables
  <2>. QED
    BY <2>2, <2>3, <2>4
<1>. QED
  BY <1>2, <1>3, <1>4

\* While nobody leaves, a shutdown lets the joins run as they do without it.
LEMMA StayOrNext ==
  ASSUME ShutdownIInv, [ShutdownNext]_allVars, NobodyLeft'
  PROVE  [Next]_vars
<1>1. CASE UNCHANGED allVars
  BY <1>1 DEF allVars
<1>2. ASSUME NEW n \in Nodes, ShutdownEnvironment(n) PROVE [Next]_vars
  BY <1>2 DEF ShutdownEnvironment, ShutdownCommand, Next, Environment
<1>3. ASSUME NEW n \in Nodes, ShutdownProcess(n) PROVE [Next]_vars
  <2>1. CASE ShutdownThread(n)
    BY <2>1 DEF ShutdownThread, StartFlood, Unlock, Tell
  <2>2. ~ ExitShutdown(n)
    BY EndLeaves DEF ExitShutdown
  <2>. QED
    BY <1>3, <2>1, <2>2 DEF ShutdownProcess, Next
<1>. QED
  BY <1>1, <1>2, <1>3 DEF ShutdownNext

\* The invariants of the joins hold beside a shutdown, by StayOrNext.
LEMMA ToldInShutdown ==
  ASSUME SmallOverlay
  PROVE  ShutdownIInv /\ RowsIInv /\ ToldIInv /\ [ShutdownNext]_allVars => ToldIInv'
<1>. SUFFICES ASSUME ShutdownIInv, RowsIInv, ToldIInv, [ShutdownNext]_allVars, NobodyLeft'
              PROVE  ToldIInv'
  BY DEF ToldIInv
<1>. QED
  BY StayOrNext, ToldIInvStep DEF ShutdownIInv

LEMMA QuietInShutdown ==
  ASSUME QuietOverlay
  PROVE  ShutdownIInv /\ RowsIInv /\ ToldIInv /\ QuietIInv /\ [ShutdownNext]_allVars => QuietIInv'
<1>. SUFFICES ASSUME ShutdownIInv, RowsIInv, ToldIInv, QuietIInv, [ShutdownNext]_allVars, NobodyLeft'
              PROVE  QuietIInv'
  BY DEF QuietIInv
<1>. QED
  BY StayOrNext, QuietIInvStep DEF ShutdownIInv

LEMMA TwoHostsInShutdown ==
  ASSUME QuietOverlay
  PROVE  ShutdownIInv /\ ToldIInv /\ TwoHosts /\ [ShutdownNext]_allVars => TwoHosts'
<1>. SUFFICES ASSUME ShutdownIInv, ToldIInv, TwoHosts, [ShutdownNext]_allVars, NobodyLeft'
              PROVE  TwoHosts'
  BY DEF TwoHosts
<1>. QED
  BY StayOrNext, TwoHostsStep DEF ShutdownIInv

\* Nobody quits and nobody is started again.
LEMMA FreshStep ==
  ASSUME QuietShutdown, Fresh, [ShutdownNext]_allVars
  PROVE  Fresh'
<1>1. \A n : End(n) => quitting' \subseteq quitting /\ restarts' = restarts
  BY DEF End
<1>2. CASE UNCHANGED vars
  BY <1>2 DEF vars, Fresh, NobodyRestarted
<1>3. ASSUME NEW n \in Nodes, ShutdownEnvironment(n) PROVE quitting' \subseteq quitting /\ restarts' = restarts
  <2>1. ~ Quit(n)
    BY DEF Quit, QuietShutdown
  <2>. QED
    BY <1>1, <1>3, <2>1 DEF ShutdownEnvironment, ShutdownCommand, vars, JoinCommand, Crash
<1>4. ASSUME NEW n \in Nodes, Process(n) PROVE quitting' \subseteq quitting /\ restarts' = restarts
  <2>1. ASSUME NEW m \in msgs, HandleMessage(m) PROVE quitting' \subseteq quitting /\ restarts' = restarts
    <3>1. ~ HandleOwnJoin(m) => UNCHANGED <<quitting, restarts>>
      BY <2>1 DEF HandleMessage, HandleJoinMe, HandleJoin, HandleRoutingUpdate,
                  HandleAllStateUpdate, HandleDeleteNode
    <3>. QED
      BY <1>1, <3>1 DEF HandleOwnJoin
  <2>2. ASSUME NEW th \in threads, RunThread(th) PROVE UNCHANGED <<quitting, restarts>>
    BY <2>2 DEF RunThread, ForwardJoin, RetryJoin, AnswerJoin, MergeRoutingUpdate, CheckRoutingUpdate,
                RepairLeafSet, RepairNeighbourSet, RepairRoutingTable, StopRepair
  <2>3. ASSUME NEW x \in Nodes, TimerRepair(n, x) PROVE UNCHANGED <<quitting, restarts>>
    BY <2>3 DEF TimerRepair
  <2>. QED
    BY <1>1, <1>4, <2>1, <2>2, <2>3 DEF Process, Exit
<1>5. ASSUME NEW n \in Nodes, ShutdownProcess(n) PROVE quitting' \subseteq quitting /\ restarts' = restarts
  BY <1>1, <1>4, <1>5 DEF ShutdownProcess, ShutdownThread, StartFlood, Unlock, Tell, vars, ExitShutdown
<1>. QED
  BY <1>2, <1>3, <1>5 DEF ShutdownNext, allVars, Fresh, NobodyRestarted

\* In a network that is being shut down the overlay only repairs.
LEMMA ProcessCalls ==
  ASSUME QuietShutdown, ShutdownIInv, Fresh, Tables, Requests,
         NEW n \in Nodes, Process(n), KeepLive(asked, floods, leaving), UNCHANGED exited
  PROVE  Tables' /\ Requests'
<1>1. msgs = {} /\ SmallOverlay /\ ~ Exit(n)
  BY DEF Tables, RepairsOnly, QuietShutdown, QuietOverlay, Fresh, Exit
<1>2. Tables' /\ live' = live /\ joined' = joined
  <2>1. ASSUME NEW x \in Nodes, TimerRepair(n, x) PROVE Tables' /\ live' = live /\ joined' = joined
    BY <2>1, LazyUpdatesTables DEF TimerRepair
  <2>2. ASSUME NEW th \in threads, RunThread(th) PROVE Tables' /\ live' = live /\ joined' = joined
    <3>1. th.kind \in {"left", "right", "neighbours", "table"}
      BY DEF Tables, RepairsOnly
    <3>2. RepairLeafSet(th) \/ RepairNeighbourSet(th) \/ RepairRoutingTable(th)
      BY <2>2, <3>1 DEF RunThread, ForwardJoin, RetryJoin, AnswerJoin, JoinKinds,
                        MergeRoutingUpdate, CheckRoutingUpdate
    <3>3. joined' = joined
      BY <3>2 DEF RepairLeafSet, RepairNeighbourSet, RepairRoutingTable, StopRepair
    <3>. QED
      BY <1>1, <3>2, <3>3, RepairStepTables
  <2>. QED
    BY <1>1, <2>1, <2>2 DEF Process
<1>3. Network' = Network /\ Strangers' = Strangers /\ Hosts' = Hosts
  BY <1>2 DEF Network, Strangers, Hosts
<1>4. UNCHANGED shutdownVars
  BY <1>2 DEF KeepLive, ShutdownIInv, ShutdownTypeOK, shutdownVars
<1>5. \A x : Called(x)' <=> Called(x)
  BY <1>4 DEF shutdownVars, Called
<1>6. RequestsInNetwork' /\ AllCalled' /\ GoesOn'
  BY <1>2, <1>3, <1>4, <1>5 DEF shutdownVars, Requests, RequestsInNetwork, AllCalled, GoesOn
<1>. QED
  BY <1>2, <1>6 DEF Requests

\* A quiet user joins before a shutdown only.
LEMMA JoinsBeforeShutdown ==
  ASSUME QuietShutdown, ShutdownIInv, Started => Requests, NEW n \in Nodes,
         n \in QuietUsers => asked = {} /\ floods = {} /\ live = Nodes
  PROVE  ~ Started
<1>1. asked = {} /\ floods = {} /\ live = Nodes
  BY DEF QuietShutdown, QuietOverlay
<1>2. exited = {}
  BY <1>1 DEF ShutdownIInv, ShutdownTypeOK
<1>. QED
  BY <1>1, <1>2 DEF Started, Requests, GoesOn

\* Every step keeps it: the overlay's, those of the requests, and the exits.
LEMMA CallIInvStep ==
  ASSUME QuietShutdown
  PROVE  ShutdownIInv /\ ToldIInv /\ QuietIInv /\ CallIInv /\ [ShutdownNext]_allVars => CallIInv'
<1>. SUFFICES ASSUME ShutdownIInv, ToldIInv, QuietIInv, CallIInv, [ShutdownNext]_allVars
              PROVE  CallIInv'
  OBVIOUS
<1>1. Fresh' /\ TwoHosts'
  BY FreshStep, TwoHostsInShutdown DEF CallIInv, QuietShutdown
<1>. SUFFICES ASSUME Started', NobodyCrashed' PROVE Tables' /\ Requests'
  BY <1>1 DEF CallIInv
<1>2. Started /\ NobodyCrashed => Tables /\ Requests
  BY DEF CallIInv
<1>3. CASE UNCHANGED allVars
  <2>1. UNCHANGED <<vars, asked, floods, leaving, exited>> /\ Started /\ NobodyCrashed
    BY <1>3 DEF allVars, shutdownVars, vars, Started, NobodyCrashed
  <2>2. \A x : Called(x)' <=> Called(x)
    BY <2>1 DEF Called
  <2>3. RequestsInNetwork' /\ AllCalled' /\ GoesOn'
    BY <1>2, <2>1, <2>2, TablesUnchanged DEF Requests, RequestsInNetwork, AllCalled, GoesOn
  <2>. QED
    BY <1>2, <2>1, <2>3, TablesUnchanged DEF Requests
<1>4. ASSUME NEW n \in Nodes, ShutdownEnvironment(n) PROVE Tables' /\ Requests'
  <2>1. CASE ShutdownCommand(n)
    <3>1. NobodyCrashed
      BY <2>1 DEF ShutdownCommand, vars, NobodyCrashed
    <3>. QED
      BY <2>1, <3>1, CommandCalls
  <2>2. ASSUME Quit(n) \/ \E b \in Nodes : JoinCommand(n, b),
               n \in QuietUsers => asked = {} /\ floods = {} /\ live = Nodes, UNCHANGED shutdownVars
        PROVE  FALSE
    <3>1. Started /\ NobodyCrashed
      BY <2>2, CommandStartsNobody DEF shutdownVars, Started, NobodyCrashed
    <3>. QED
      BY <1>2, <2>2, <3>1, JoinsBeforeShutdown
  <2>3. ASSUME Crash(n), UNCHANGED exited PROVE FALSE
    BY <2>3 DEF Crash, End, NobodyCrashed, ShutdownIInv, ShutdownTypeOK
  <2>. QED
    BY <1>4, <2>1, <2>2, <2>3 DEF ShutdownEnvironment
<1>5. ASSUME NEW n \in Nodes, ShutdownProcess(n) PROVE Tables' /\ Requests'
  <2>1. CASE Process(n) /\ KeepLive(asked, floods, leaving) /\ UNCHANGED exited
    <3>1. live' \subseteq live
      BY <2>1, ProcessStartsNobody
    <3>2. NobodyCrashed
      BY <2>1, <3>1 DEF NobodyCrashed, ShutdownIInv, ShutdownTypeOK, IInv, GoodProcesses
    <3>3. Started
      BY <2>1 DEF KeepLive, Started
    <3>. QED
      BY <1>2, <2>1, <3>2, <3>3, ProcessCalls DEF CallIInv
  <2>2. CASE ShutdownThread(n)
    <3>1. Started
      BY <2>2 DEF ShutdownThread, StartFlood, Unlock, Tell, Started
    <3>2. NobodyCrashed
      BY <2>2 DEF ShutdownThread, StartFlood, Unlock, Tell, vars, NobodyCrashed
    <3>. QED
      BY <1>2, <2>2, <3>1, <3>2, StartFloodCalls, TellCalls, UnlockCalls DEF ShutdownThread
  <2>3. CASE ExitShutdown(n)
    <3>1. Started /\ NobodyCrashed
      BY <2>3 DEF ExitShutdown, End, Started, NobodyCrashed, ShutdownIInv, ShutdownTypeOK,
                  IInv, GoodProcesses
    <3>. QED
      BY <1>2, <2>3, <3>1, ExitCalls
  <2>. QED
    BY <1>5, <2>1, <2>2, <2>3 DEF ShutdownProcess
<1>. QED
  BY <1>3, <1>4, <1>5 DEF ShutdownNext

\* When users wait for one another's joins and nobody types quit, a shutdown that is over
\* has taken every member along unless one crashed: handleShutdownRequest copies the tables
\* under the mutex and tells everybody in them (peerMessageHandler.cpp:808-897), and the
\* tables still name all that are left when it does, whatever exits, calls and repairs come
\* before.
THEOREM NobodyLeftBehindHolds ==
  ASSUME QuietShutdown
  PROVE  ShutdownSpec => []NobodyLeftBehind
<1>1. QuietOverlay /\ SmallOverlay
  BY DEF QuietShutdown, QuietOverlay
<1>2. ShutdownInit => RowsIInv /\ ToldIInv /\ QuietIInv /\ CallIInv
  BY <1>1, RowsIInvInit, ToldIInvInit, QuietIInvInit, CallIInvInit DEF ShutdownInit
<1>3. ShutdownIInv /\ RowsIInv /\ ToldIInv /\ [ShutdownNext]_allVars => ToldIInv'
  BY <1>1, ToldInShutdown
<1>4. ShutdownIInv /\ RowsIInv /\ ToldIInv /\ QuietIInv /\ [ShutdownNext]_allVars => QuietIInv'
  BY <1>1, QuietInShutdown
<1>5. ShutdownIInv /\ ToldIInv /\ QuietIInv /\ CallIInv /\ [ShutdownNext]_allVars => CallIInv'
  BY CallIInvStep
<1>6. CallIInv => NobodyLeftBehind
  BY CallIInvImplies
<1>7. ShutdownIInv => IInv
  BY DEF ShutdownIInv
<1>. QED
  BY <1>2, <1>3, <1>4, <1>5, <1>6, <1>7, ShutdownIInvInit, ShutdownIInvStep, ShutdownRowsStep, PTL
     DEF ShutdownSpec
=============================================================================
