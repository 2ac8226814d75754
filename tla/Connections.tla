----------------------------- MODULE Connections -----------------------------
(***************************************************************************)
(* The descriptors of one process: PeerListener accepts a connection and   *)
(* starts PeerHandler::handleRpc on its descriptor, and other threads open *)
(* connections of their own with PeerCommunicator.  All go by the number   *)
(* of the descriptor, and the kernel gives a new connection the lowest     *)
(* number that is free (external).                                         *)
(*                                                                         *)
(* A peer sends one message over a connection.  Most are one-way: the peer *)
(* then closes.  To a Request message it awaits the response, which        *)
(* handleRequestLeafSet and its like send through a PeerCommunicator on    *)
(* the handler's descriptor.  A message stands for the whole frame that    *)
(* readFromNetwork reads (magic, size, payload, magic).                    *)
(***************************************************************************)
EXTENDS Integers

CONSTANTS
  Inbound,    \* connections other processes open to this one
  Outbound,   \* connections this process opens
  Kind,       \* what is sent first over a connection
  Descriptors \* the numbers of the descriptors of this process

Kinds == {"oneway", "request"}
Connection == Inbound \cup Outbound

ASSUME KindAssumption == Kind \in [Connection -> Kinds]
ASSUME ConnectionsAssumption == Inbound \cap Outbound = {} /\ "free" \notin Connection
ASSUME DescriptorsAssumption == Descriptors \subseteq Nat

VARIABLES
  table,    \* what each descriptor stands for
  threads,  \* the thread that was started for each connection
  arriving, \* the connections with bytes to read here
  finished, \* the connections their peer has closed, or will once they are read
  replied,  \* the connections over which a response has gone out
  mixed     \* history: some thread read, wrote or closed a connection not its own

vars == <<table, threads, arriving, finished, replied, mixed>>

Free == "free"
Steps == {"absent", "read", "reading", "respond", "destruct", "write", "close", "done"}

\* A thread keeps the number of its descriptor; a read that has begun stays with
\* its connection, whatever becomes of the number.
Thread == [step : Steps, fd : Descriptors \cup {-1}, source : Connection \cup {Free}]

TypeOK ==
  /\ table \in [Descriptors -> Connection \cup {Free}]
  /\ threads \in [Connection -> Thread]
  /\ \A c \in Connection : threads[c].source # Free <=> threads[c].step = "reading"
  /\ arriving \subseteq Connection /\ finished \subseteq Connection
  /\ replied \subseteq Connection /\ mixed \in BOOLEAN

Init ==
  /\ table = [fd \in Descriptors |-> Free]
  /\ threads = [c \in Connection |-> [step |-> "absent", fd |-> -1, source |-> Free]]
  /\ arriving = {} /\ finished = {} /\ replied = {} /\ mixed = FALSE
-----------------------------------------------------------------------------
GoesTo(c, step) == threads' = [threads EXCEPT ![c].step = step]
Behind(c) == table[threads[c].fd]

\* socket() and accept(): the lowest number.
Open(c, step) ==
  /\ threads[c].step = "absent"
  /\ \E fd \in Descriptors :
       /\ table[fd] = Free /\ \A d \in Descriptors : d < fd => table[d] # Free
       /\ table' = [table EXCEPT ![fd] = c]
       /\ threads' = [threads EXCEPT ![c] = [step |-> step, fd |-> fd, source |-> Free]]

\* close(fd): of a number that is free it fails, and nobody looks.
Close(c, step) ==
  /\ table' = [table EXCEPT ![threads[c].fd] = Free]
  /\ GoesTo(c, step)
  /\ mixed' = (mixed \/ Behind(c) \notin {c, Free})
  /\ UNCHANGED <<arriving, finished, replied>>

\* startListening: accept, and a thread for the descriptor.
Accept(c) ==
  /\ c \in Inbound /\ Open(c, "read")
  /\ arriving' = arriving \cup {c}
  /\ finished' = IF Kind[c] = "oneway" THEN finished \cup {c} ELSE finished
  /\ UNCHANGED <<replied, mixed>>

\* createTCPClient.
Connect(c) ==
  /\ c \in Outbound /\ Open(c, "write")
  /\ UNCHANGED <<arriving, finished, replied, mixed>>

\* Mutant: the sender closes, and its destructor does so again.
Send_Closes(c) ==
  /\ threads[c].step = "write"
  /\ GoesTo(c, IF Kind[c] = "request" THEN "read" ELSE "close")
  /\ table' = IF Kind[c] = "request" THEN table ELSE [table EXCEPT ![threads[c].fd] = Free]
  /\ mixed' = (mixed \/ Behind(c) \notin {c, Free})
  /\ UNCHANGED <<arriving, finished, replied>>

\* sendMsg, the result of write ignored; a sender that awaits no response closes.
Send(c) ==
  /\ threads[c].step = "write"
  /\ GoesTo(c, IF Kind[c] = "request" THEN "read" ELSE "close")
  /\ mixed' = (mixed \/ Behind(c) \notin {c, Free})
  /\ UNCHANGED <<table, arriving, finished, replied>>

\* The process at the other end of an outbound request responds and closes.
PeerResponds(c) ==
  /\ c \in Outbound /\ Kind[c] = "request" /\ threads[c].step \in {"read", "reading"}
  /\ c \notin finished
  /\ arriving' = arriving \cup {c} /\ finished' = finished \cup {c}
  /\ UNCHANGED <<table, threads, replied, mixed>>

\* The peer of an inbound request has its response, or lost its connection.
PeerCloses(c) ==
  /\ c \in Inbound /\ c \notin finished
  /\ c \in replied \/ (threads[c].step # "absent" /\ \A fd \in Descriptors : table[fd] # c)
  /\ finished' = finished \cup {c}
  /\ UNCHANGED <<table, threads, arriving, replied, mixed>>
-----------------------------------------------------------------------------
\* readBytes: read() of a number that is free fails, and the thread closes it.
ReadFails(c) ==
  /\ threads[c].step = "read" /\ Behind(c) = Free
  /\ GoesTo(c, "close")
  /\ UNCHANGED <<table, arriving, finished, replied, mixed>>

Read(c) ==
  /\ threads[c].step = "read" /\ Behind(c) # Free
  /\ threads' = [threads EXCEPT ![c].step = "reading", ![c].source = Behind(c)]
  /\ mixed' = (mixed \/ Behind(c) # c)
  /\ UNCHANGED <<table, arriving, finished, replied>>

\* What a handler does with a message of connection d, what a client does with
\* the response it waited for.
After(c, d) ==
  IF c \in Outbound THEN "close"
  ELSE IF d \in Inbound /\ Kind[d] = "request" THEN "respond" ELSE "read"

Receive(c) ==
  LET d == threads[c].source
  IN  /\ threads[c].step = "reading" /\ d \in arriving
      /\ arriving' = arriving \ {d}
      /\ threads' = [threads EXCEPT ![c].step = After(c, d), ![c].source = Free]
      /\ UNCHANGED <<table, finished, replied, mixed>>

\* Mutant: the loop goes on.
EndOfFile_Ignored(c) ==
  LET d == threads[c].source
  IN  /\ threads[c].step = "reading" /\ d \notin arriving /\ d \in finished
      /\ threads' = [threads EXCEPT ![c].step = "read", ![c].source = Free]
      /\ UNCHANGED <<table, arriving, finished, replied, mixed>>

\* Mutant: the thread goes on to close, the read it was in is not over.
EndOfFile_StillReading(c) ==
  LET d == threads[c].source
  IN  /\ threads[c].step = "reading" /\ d \notin arriving /\ d \in finished
      /\ threads' = [threads EXCEPT ![c].step = "close"]
      /\ UNCHANGED <<table, arriving, finished, replied, mixed>>

\* End of file: ErrorMsg, caught by handleRpc and by the repairs.
EndOfFile(c) ==
  LET d == threads[c].source
  IN  /\ threads[c].step = "reading" /\ d \notin arriving /\ d \in finished
      /\ threads' = [threads EXCEPT ![c].step = "close", ![c].source = Free]
      /\ UNCHANGED <<table, arriving, finished, replied, mixed>>

\* handleRequestLeafSet: PeerCommunicator(peer_fd).sendMsg ...
Respond(c) ==
  /\ threads[c].step = "respond"
  /\ replied' = replied \cup ({Behind(c)} \ {Free})
  /\ mixed' = (mixed \/ Behind(c) \notin {c, Free})
  /\ GoesTo(c, "destruct")
  /\ UNCHANGED <<table, arriving, finished>>

\* ... whose destructor closes the descriptor, and handleRpc reads again.
Destruct(c) ==
  /\ threads[c].step = "destruct" /\ Close(c, "read")

\* Mutant: a handler leaves its descriptor open.
CloseAtEnd_Leaks(c) ==
  /\ threads[c].step = "close"
  /\ IF c \in Outbound THEN Close(c, "done")
     ELSE GoesTo(c, "done") /\ UNCHANGED <<table, arriving, finished, replied, mixed>>

\* The close at the end of handleRpc; the destructor of a client.
CloseAtEnd(c) ==
  /\ threads[c].step = "close" /\ Close(c, "done")

Step(c) ==
  \/ Send(c) \/ ReadFails(c) \/ Read(c) \/ Receive(c) \/ EndOfFile(c)
  \/ Respond(c) \/ Destruct(c) \/ CloseAtEnd(c)

Peer(c) == PeerResponds(c) \/ PeerCloses(c)

Next == \E c \in Connection : Accept(c) \/ Connect(c) \/ Step(c) \/ Peer(c)

Spec == Init /\ [][Next]_vars
FairSpec == Spec /\ \A c \in Connection : WF_vars(Step(c)) /\ WF_vars(Peer(c))
-----------------------------------------------------------------------------
Answering == \E c \in Inbound : threads[c].step # "absent" /\ Kind[c] = "request"

\* As long as no Request message comes in, a descriptor stays with its thread
\* until that thread closes it, and the double close cannot hit anyone.
OwnUnlessAsked ==
  ~ Answering =>
    \A c \in Connection : threads[c].step \notin {"absent", "done"} => Behind(c) = c

\* However often numbers are closed twice, none is left open when its threads
\* are done.
NoneLeftOpen ==
  (\A c \in Connection : threads[c].step \in {"absent", "done"}) =>
     \A fd \in Descriptors : table[fd] = Free

\* Every thread comes to its end, unless one used a connection of another's.
ThreadsEnd ==
  \A c \in Connection :
    threads[c].step # "absent" ~> (threads[c].step = "done" \/ mixed)

\* README.md:19, "Network Interface: Interface between application and network
\* (Write to/Read From network)": a thread reads and writes over the connection
\* it was started for.
OwnConnection == ~ mixed
=============================================================================
