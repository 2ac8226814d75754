------------------------------ MODULE Shutdown ------------------------------
(***************************************************************************)
(* The shutdown of the network on top of module Overlay: `shutdown' in     *)
(* commandHandler.cpp and handleShutdownRequest in peerMessageHandler.cpp, *)
(* which do the same.  Whoever is asked takes shutdown_mtx, asks all nodes *)
(* of its tables, unlocks and exits; more requests wait for the lock.      *)
(*                                                                         *)
(* Equal requests to one process count as one, and a node that is in       *)
(* several tables is told once.  The tables are read in one step.          *)
(***************************************************************************)
EXTENDS OverlayProperties

CONSTANT ShutdownUsers    \* processes whose user may type `shutdown'

ASSUME ShutdownUsersAssumption == ShutdownUsers \subseteq Nodes

VARIABLES
  asked,    \* processes with a ShutDown request that waits for shutdown_mtx
  floods,   \* the requests that hold shutdown_mtx, with the nodes still to tell
  leaving,  \* processes with a thread between the unlock and exit(0)
  exited    \* history: the processes that reached that exit(0)

shutdownVars == <<asked, floods, leaving, exited>>
allVars == <<vars, shutdownVars>>

Flood == [at : Nodes, tell : SUBSET Nodes]

ShutdownTypeOK ==
  /\ asked \subseteq live /\ leaving \subseteq live /\ exited \subseteq Nodes \ live
  /\ floods \subseteq Flood /\ \A f \in floods : f.at \in live

ShutdownInit == Init /\ asked = {} /\ floods = {} /\ leaving = {} /\ exited = {}

\* What is left of the requests when processes end.
KeepLive(requests, flooding, exiting) ==
  /\ asked' = requests \cap live'
  /\ floods' = {f \in flooding : f.at \in live'}
  /\ leaving' = exiting \cap live'
-----------------------------------------------------------------------------
ShutdownCommand(n) ==
  /\ n \in live \cap ShutdownUsers
  /\ n \in QuietUsers => Settled /\ n \in Members
  /\ asked' = asked \cup {n}
  /\ UNCHANGED <<vars, floods, leaving, exited>>

\* lockShutdown, and the copies of the tables.
StartFlood(n) ==
  /\ n \in asked /\ \A f \in floods : f.at # n
  /\ floods' = floods \cup {[at |-> n, tell |-> Known(db[n])]}
  /\ asked' = asked \ {n}
  /\ UNCHANGED <<vars, leaving, exited>>

\* The leaves are told first, the left ones and then the right ones.
Turn(f, x) ==
  LET first == f.tell \cap Leaves(db[f.at])
  IN  x \in f.tell /\ (first = {} \/ (x \in first /\ \A y \in first : IdLeq(x, y)))

\* Mutants: a refused connection ends the thread, and the lock stays taken; the
\* loop stops when a node has been told; a node that is gone is told, too.
Tell_Uncaught(f, x) ==
  /\ f \in floods /\ Turn(f, x) /\ x \in live
  /\ floods' = (floods \ {f}) \cup {[f EXCEPT !.tell = @ \ {x}]}
  /\ asked' = asked \cup {x}
  /\ UNCHANGED <<vars, leaving, exited>>
Tell_StopsEarly(f, x) ==
  /\ f \in floods /\ Turn(f, x)
  /\ floods' = (floods \ {f}) \cup {[f EXCEPT !.tell = IF x \in live THEN {} ELSE @ \ {x}]}
  /\ asked' = asked \cup ({x} \cap live)
  /\ UNCHANGED <<vars, leaving, exited>>
Tell_ToDead(f, x) ==
  /\ f \in floods /\ Turn(f, x)
  /\ floods' = (floods \ {f}) \cup {[f EXCEPT !.tell = @ \ {x}]}
  /\ asked' = asked \cup {x}
  /\ UNCHANGED <<vars, leaving, exited>>

\* One iteration of the loops; a node that does not answer is only logged.
Tell(f, x) ==
  /\ f \in floods /\ Turn(f, x)
  /\ floods' = (floods \ {f}) \cup {[f EXCEPT !.tell = @ \ {x}]}
  /\ asked' = asked \cup ({x} \cap live)
  /\ UNCHANGED <<vars, leaving, exited>>

Unlock(f) ==
  /\ f \in floods /\ f.tell = {}
  /\ floods' = floods \ {f}
  /\ leaving' = leaving \cup {f.at}
  /\ UNCHANGED <<vars, asked, exited>>

\* exit(0), whatever the other threads of the process are doing.
ExitShutdown(n) ==
  /\ n \in leaving
  /\ End(n) /\ KeepLive(asked, floods, leaving)
  /\ exited' = exited \cup {n}
-----------------------------------------------------------------------------
\* Quiet users do not join a network that is being shut down.
ShutdownEnvironment(n) ==
  \/ ShutdownCommand(n)
  \/ /\ \/ \E b \in Nodes : JoinCommand(n, b)
        \/ Quit(n)
     /\ n \in QuietUsers => asked = {} /\ floods = {} /\ live = Nodes
     /\ UNCHANGED shutdownVars
  \/ Crash(n) /\ KeepLive(asked, floods, leaving) /\ UNCHANGED exited

\* What the threads of process n do that shut it down.
ShutdownThread(n) ==
  \/ StartFlood(n)
  \/ \E f \in floods : f.at = n /\ (Unlock(f) \/ \E x \in Nodes : Tell(f, x))

ShutdownProcess(n) ==
  \/ Process(n) /\ KeepLive(asked, floods, leaving) /\ UNCHANGED exited
  \/ ShutdownThread(n) \/ ExitShutdown(n)

ShutdownNext == \E n \in Nodes : ShutdownEnvironment(n) \/ ShutdownProcess(n)

ShutdownSpec == ShutdownInit /\ [][ShutdownNext]_allVars

\* These threads are scheduled, whatever joins and repairs do meanwhile.  Two
\* processes can ask one another again and again before either exits: the threads
\* that have unlocked are promised a turn of their own.
ShutdownFairSpec ==
  /\ ShutdownSpec
  /\ WF_allVars(\E n \in Nodes : ShutdownThread(n))
  /\ WF_allVars(\E n \in Nodes : ExitShutdown(n))
-----------------------------------------------------------------------------
\* A shutdown has been asked for, and nothing of it is under way any more.
ShutdownOver == asked = {} /\ floods = {} /\ leaving = {} /\ exited # {}

\* Of a settled network in which nobody crashes a shutdown leaves nobody behind:
\* each process tells only those it knows and then is gone, tables change while
\* the requests spread, and every member is told all the same.
NobodyLeftBehind == ShutdownOver /\ live \cup exited = Nodes => Members = {}

\* A shutdown comes to an end, and not for nothing: once a process is asked, the
\* requests run out and a process is gone, though processes that hold their own
\* shutdown_mtx ask one another, crash, or are gone when they are told.
ShutdownEnds ==
  asked # {} ~> (asked = {} /\ floods = {} /\ leaving = {} /\ live # Nodes)

\* README.md:32, "Shutdown: Shutdown the pastry network": whenever a shutdown is
\* typed, it leaves no process that has been handed the tables of the network.
NetworkDown == ShutdownOver => \A n \in live : Known(db[n]) = {}
=============================================================================
