-------------------------- MODULE ConnectionsProofs --------------------------
(***************************************************************************)
(* Proofs about module Connections, for any connections and descriptors:   *)
(* the type invariant, that no descriptor is left open, and that without   *)
(* requests every thread keeps its own.                                    *)
(***************************************************************************)
EXTENDS Connections, TLAPS

\* An open descriptor stands for a connection whose thread has that number and
\* is still going to close it.
Opened ==
  \A fd \in Descriptors :
    table[fd] # Free =>
      /\ threads[table[fd]].fd = fd
      /\ threads[table[fd]].step \notin {"absent", "done"}

\* A thread that has begun has a number.
Numbered == \A c \in Connection : threads[c].step # "absent" => threads[c].fd \in Descriptors

\* Without requests no thread is about to close twice, and a read is one of the
\* thread's own connection.
Undisturbed ==
  ~ Answering =>
    \A c \in Connection :
      /\ threads[c].step \notin {"respond", "destruct"}
      /\ threads[c].source \in {c, Free}
      /\ threads[c].step \notin {"absent", "done"} => Behind(c) = c

IInv == TypeOK /\ Opened /\ Numbered /\ Undisturbed

LEMMA InitIInv == Init => IInv
<1>. SUFFICES ASSUME Init PROVE IInv
  OBVIOUS
<1>1. TypeOK
  BY DEF Init, TypeOK, Thread, Steps
<1>2. Opened /\ Numbered /\ Undisturbed
  BY DescriptorsAssumption, ConnectionsAssumption
  DEF Init, Opened, Numbered, Undisturbed, Free, Behind
<1>. QED
  BY <1>1, <1>2 DEF IInv

LEMMA TypeKept == TypeOK /\ Numbered /\ Next => TypeOK'
<1>. SUFFICES ASSUME TypeOK, Numbered, NEW c \in Connection,
                     Accept(c) \/ Connect(c) \/ Step(c) \/ Peer(c)
              PROVE  TypeOK'
  BY DEF Next
<1>. USE DEF TypeOK, Thread, Steps, GoesTo
<1>0. "free" \notin Connection
  BY ConnectionsAssumption
<1>1. CASE Accept(c)
  BY <1>1 DEF Accept, Open, Free
<1>2. CASE Connect(c)
  BY <1>2 DEF Connect, Open, Free
<1>3. CASE Send(c)
  BY <1>3 DEF Send, Behind
<1>4. CASE ReadFails(c)
  BY <1>4 DEF ReadFails
<1>5. CASE Read(c)
  BY <1>5, <1>0 DEF Read, Behind, Free, Numbered
<1>6. CASE Receive(c)
  BY <1>6, <1>0 DEF Receive, After, Free
<1>7. CASE EndOfFile(c)
  BY <1>7, <1>0 DEF EndOfFile, Free
<1>8. CASE Respond(c)
  BY <1>8 DEF Respond, Behind, Numbered, Free
<1>9. CASE Destruct(c)
  BY <1>9 DEF Destruct, Close, Behind
<1>10. CASE CloseAtEnd(c)
  BY <1>10 DEF CloseAtEnd, Close, Behind
<1>11. CASE Peer(c)
  BY <1>11 DEF Peer, PeerResponds, PeerCloses
<1>. QED
  BY <1>1, <1>2, <1>3, <1>4, <1>5, <1>6, <1>7, <1>8, <1>9, <1>10, <1>11 DEF Step

\* A thread that was opened has the lowest free number; nothing else changes.
LEMMA OpenKept ==
  ASSUME IInv, NEW c \in Connection, NEW step \in Steps \ {"absent", "done", "respond", "destruct"},
         Open(c, step), IF c \in Inbound THEN step = "read" ELSE step = "write"
  PROVE  Opened' /\ Numbered' /\ Undisturbed'
<1>. PICK fd \in Descriptors :
       /\ table[fd] = Free
       /\ table' = [table EXCEPT ![fd] = c]
       /\ threads' = [threads EXCEPT ![c] = [step |-> step, fd |-> fd, source |-> Free]]
  BY DEF Open
<1>0. /\ threads[c].step = "absent" /\ threads \in [Connection -> Thread]
      /\ table \in [Descriptors -> Connection \cup {Free}]
  BY DEF IInv, TypeOK, Open
<1>1. Opened'
  BY <1>0, ConnectionsAssumption DEF IInv, Opened, Free
<1>2. Numbered'
  BY <1>0 DEF IInv, Numbered
<1>3. ASSUME ~ Answering' PROVE ~ Answering
  BY <1>3, <1>0 DEF Answering
<1>4. ASSUME ~ Answering', NEW d \in Connection
      PROVE  /\ threads'[d].step \notin {"respond", "destruct"}
             /\ threads'[d].source \in {d, Free}
             /\ threads'[d].step \notin {"absent", "done"} => Behind(d)' = d
  <2>1. CASE d = c
    BY <2>1, <1>0 DEF Behind
  <2>2. CASE d # c
    BY <2>2, <1>0, <1>3, <1>4, ConnectionsAssumption
    DEF IInv, Undisturbed, Behind, Numbered, Free
  <2>. QED
    BY <2>1, <2>2
<1>5. Undisturbed'
  BY <1>4 DEF Undisturbed
<1>. QED
  BY <1>1, <1>2, <1>5

\* A step of the thread of c that leaves the descriptors alone.
LEMMA ThreadKept ==
  ASSUME IInv, NEW c \in Connection, NEW th \in Thread,
         table' = table, threads' = [threads EXCEPT ![c] = th],
         th.fd = threads[c].fd, th.step \notin {"absent", "done"},
         threads[c].step \notin {"absent", "done"},
         ~ Answering => /\ th.step \notin {"respond", "destruct"}
                        /\ th.source \in {c, Free}
  PROVE  Opened' /\ Numbered' /\ Undisturbed'
<1>0. /\ threads \in [Connection -> Thread]
      /\ table \in [Descriptors -> Connection \cup {Free}]
  BY DEF IInv, TypeOK
<1>1. Opened'
  BY <1>0, ConnectionsAssumption DEF IInv, Opened, Free
<1>2. Numbered'
  BY <1>0 DEF IInv, Numbered
<1>3. ASSUME ~ Answering' PROVE ~ Answering
  BY <1>3, <1>0 DEF Answering
<1>4. Undisturbed'
  BY <1>0, <1>3 DEF IInv, Undisturbed, Behind
<1>. QED
  BY <1>1, <1>2, <1>4

\* A close: the thread's number is free afterwards, whoever had it.  A thread
\* that does not end with it is answering a request.
LEMMA CloseKept ==
  ASSUME IInv, NEW c \in Connection, NEW step \in {"read", "done"}, Close(c, step),
         threads[c].step \notin {"absent", "done"},
         step = "read" => threads[c].step = "destruct"
  PROVE  Opened' /\ Numbered' /\ Undisturbed'
<1>0. /\ threads \in [Connection -> Thread]
      /\ table \in [Descriptors -> Connection \cup {Free}]
      /\ threads[c].fd \in Descriptors
      /\ table' = [table EXCEPT ![threads[c].fd] = Free]
      /\ threads' = [threads EXCEPT ![c].step = step]
  BY DEF IInv, TypeOK, Numbered, Close, GoesTo
<1>1. Opened'
  BY <1>0, ConnectionsAssumption DEF IInv, Opened, Free
<1>2. Numbered'
  BY <1>0 DEF IInv, Numbered
<1>3. ASSUME ~ Answering' PROVE ~ Answering
  BY <1>3, <1>0 DEF Answering
<1>4. ASSUME ~ Answering' PROVE step = "done"
  BY <1>3, <1>4 DEF IInv, Undisturbed
<1>5. ASSUME ~ Answering', NEW d \in Connection
      PROVE  /\ threads'[d].step \notin {"respond", "destruct"}
             /\ threads'[d].source \in {d, Free}
             /\ threads'[d].step \notin {"absent", "done"} => Behind(d)' = d
  <2>1. CASE d = c
    BY <2>1, <1>0, <1>3, <1>4, <1>5 DEF IInv, Undisturbed
  <2>2. CASE d # c
    BY <2>2, <1>0, <1>3, <1>5 DEF IInv, Undisturbed, Behind, Numbered
  <2>. QED
    BY <2>1, <2>2
<1>6. Undisturbed'
  BY <1>5 DEF Undisturbed
<1>. QED
  BY <1>1, <1>2, <1>6

LEMMA NextIInv == IInv /\ [Next]_vars => IInv'
<1>. SUFFICES ASSUME IInv, [Next]_vars PROVE IInv'
  OBVIOUS
<1>1. CASE UNCHANGED vars
  <2>1. TypeOK'
    BY <1>1 DEF vars, IInv, TypeOK
  <2>2. Opened' /\ Numbered' /\ Undisturbed'
    BY <1>1 DEF vars, IInv, Opened, Numbered, Undisturbed, Answering, Behind
  <2>. QED
    BY <2>1, <2>2 DEF IInv
<1>2. ASSUME NEW c \in Connection, Accept(c) \/ Connect(c) \/ Step(c) \/ Peer(c)
      PROVE  IInv'
  <2>0. /\ TypeOK /\ Numbered /\ Next
        /\ threads \in [Connection -> Thread]
        /\ "free" \notin Connection
    BY <1>2, ConnectionsAssumption DEF IInv, TypeOK, Next
  <2>1. TypeOK'
    BY <2>0, TypeKept
  <2>2. Opened' /\ Numbered' /\ Undisturbed'
    <3>1. CASE Accept(c)
      BY <3>1, OpenKept DEF Accept, Steps
    <3>2. CASE Connect(c)
      BY <3>2, OpenKept, ConnectionsAssumption DEF Connect, Steps
    <3>3. ASSUME NEW th \in Thread, table' = table, threads' = [threads EXCEPT ![c] = th],
                 th.fd = threads[c].fd, th.step \notin {"absent", "done"},
                 threads[c].step \notin {"absent", "done"},
                 ~ Answering => /\ th.step \notin {"respond", "destruct"}
                                /\ th.source \in {c, Free}
          PROVE  Opened' /\ Numbered' /\ Undisturbed'
      BY <3>3, ThreadKept
    <3>4. ~ Answering => threads[c].source \in {c, Free} /\ threads[c].step # "respond"
      BY DEF IInv, Undisturbed
    <3>5. CASE Send(c)
      <4>. DEFINE th == [threads[c] EXCEPT !.step = IF Kind[c] = "request" THEN "read" ELSE "close"]
      <4>1. th \in Thread /\ threads' = [threads EXCEPT ![c] = th] /\ table' = table
        BY <3>5, <2>0 DEF Send, GoesTo, Thread, Steps
      <4>2. /\ th.fd = threads[c].fd /\ th.source = threads[c].source
            /\ th.step \in {"read", "close"} /\ threads[c].step = "write"
        BY <3>5, <2>0 DEF Send, Thread
      <4>. QED
        BY <4>1, <4>2, <3>3, <3>4
    <3>6. CASE ReadFails(c)
      <4>. DEFINE th == [threads[c] EXCEPT !.step = "close"]
      <4>1. th \in Thread /\ threads' = [threads EXCEPT ![c] = th] /\ table' = table
        BY <3>6, <2>0 DEF ReadFails, GoesTo, Thread, Steps
      <4>2. /\ th.fd = threads[c].fd /\ th.source = threads[c].source
            /\ th.step = "close" /\ threads[c].step = "read"
        BY <3>6, <2>0 DEF ReadFails, Thread
      <4>. QED
        BY <4>1, <4>2, <3>3, <3>4
    <3>7. CASE Read(c)
      <4>. DEFINE th == [threads[c] EXCEPT !.step = "reading", !.source = Behind(c)]
      <4>0. Behind(c) \in Connection \cup {Free}
        BY <3>7, <2>0 DEF Read, Behind, Numbered, TypeOK
      <4>1. th \in Thread /\ threads' = [threads EXCEPT ![c] = th] /\ table' = table
        BY <3>7, <2>0, <4>0 DEF Read, Thread, Steps
      <4>2. /\ th.fd = threads[c].fd /\ th.source = Behind(c)
            /\ th.step = "reading" /\ threads[c].step = "read"
        BY <3>7, <2>0 DEF Read, Thread
      <4>3. ~ Answering => Behind(c) = c
        BY <4>2 DEF IInv, Undisturbed
      <4>. HIDE DEF th
      <4>. QED
        BY <4>1, <4>2, <4>3, <3>3
    <3>8. CASE Receive(c)
      <4>. DEFINE d == threads[c].source
                  th == [threads[c] EXCEPT !.step = After(c, d), !.source = Free]
      <4>0. After(c, d) \in {"close", "respond", "read"}
        BY DEF After
      <4>1. th \in Thread /\ threads' = [threads EXCEPT ![c] = th] /\ table' = table
        BY <3>8, <2>0, <4>0 DEF Receive, Thread, Steps
      <4>2. /\ th.fd = threads[c].fd /\ th.source = Free
            /\ th.step = After(c, d) /\ threads[c].step = "reading"
        BY <3>8, <2>0 DEF Receive, Thread
      <4>3. ASSUME ~ Answering PROVE After(c, d) # "respond"
        <5>1. d \in {c, Free} /\ (d \in Inbound => d # Free)
          BY <4>3, <3>4, <2>0 DEF Free, Connection
        <5>2. threads[c].step # "absent"
          BY <4>2
        <5>3. ~ (d \in Inbound /\ Kind[d] = "request")
          BY <5>1, <5>2, <4>3 DEF Answering
        <5>. QED
          BY <5>3 DEF After
      <4>. HIDE DEF th, d
      <4>. QED
        BY <4>0, <4>1, <4>2, <4>3, <3>3
    <3>9. CASE EndOfFile(c)
      <4>. DEFINE th == [threads[c] EXCEPT !.step = "close", !.source = Free]
      <4>1. th \in Thread /\ threads' = [threads EXCEPT ![c] = th] /\ table' = table
        BY <3>9, <2>0 DEF EndOfFile, Thread, Steps
      <4>2. /\ th.fd = threads[c].fd /\ th.source = Free
            /\ th.step = "close" /\ threads[c].step = "reading"
        BY <3>9, <2>0 DEF EndOfFile, Thread
      <4>. QED
        BY <4>1, <4>2, <3>3
    <3>10. CASE Respond(c)
      <4>. DEFINE th == [threads[c] EXCEPT !.step = "destruct"]
      <4>1. th \in Thread /\ threads' = [threads EXCEPT ![c] = th] /\ table' = table
        BY <3>10, <2>0 DEF Respond, GoesTo, Thread, Steps
      <4>2. /\ th.fd = threads[c].fd /\ th.step = "destruct" /\ threads[c].step = "respond"
        BY <3>10, <2>0 DEF Respond, Thread
      <4>3. Answering
        BY <4>2, <3>4
      <4>. QED
        BY <4>1, <4>2, <4>3, <3>3
    <3>11. CASE Destruct(c)
      BY <3>11, CloseKept DEF Destruct
    <3>12. CASE CloseAtEnd(c)
      BY <3>12, CloseKept DEF CloseAtEnd
    <3>13. CASE Peer(c)
      BY <3>13 DEF Peer, PeerResponds, PeerCloses, IInv, Opened, Numbered, Undisturbed,
                   Answering, Behind
    <3>. QED
      BY <1>2, <3>1, <3>2, <3>5, <3>6, <3>7, <3>8, <3>9, <3>10, <3>11, <3>12, <3>13 DEF Step
  <2>. QED
    BY <2>1, <2>2 DEF IInv
<1>. QED
  BY <1>1, <1>2 DEF Next

LEMMA Inductive == Spec => []IInv
BY InitIInv, NextIInv, PTL DEF Spec

\* The threads, descriptors and reads keep their types, for any number of
\* connections: a thread is in a read exactly when it has a connection to read.
THEOREM TypeCorrect == Spec => []TypeOK
<1>1. IInv => TypeOK
  BY DEF IInv
<1>. QED
  BY <1>1, Inductive, PTL

\* However the double closes of handleRpc and of other threads interleave, no
\* descriptor stays open once all threads have ended.
THEOREM NothingLeftOpen == Spec => []NoneLeftOpen
<1>1. IInv => NoneLeftOpen
  BY DEF IInv, TypeOK, Opened, NoneLeftOpen
<1>. QED
  BY <1>1, Inductive, PTL

\* As long as no Request message comes in, every thread has its connection to
\* itself until it closes it.
THEOREM OwnWithoutRequests == Spec => []OwnUnlessAsked
<1>1. IInv => OwnUnlessAsked
  BY DEF IInv, Undisturbed, OwnUnlessAsked
<1>. QED
  BY <1>1, Inductive, PTL
=============================================================================
