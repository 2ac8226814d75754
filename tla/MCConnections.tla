---------------------------- MODULE MCConnections ----------------------------
(***************************************************************************)
(* A request for tables and an announcement come in while a repair asks    *)
(* another process for its leaf set and a message is routed on.            *)
(***************************************************************************)
EXTENDS Connections

ComingIn == {"request", "update"}
GoingOut == {"repair", "forward"}
WhatIsSent ==
  [c \in ComingIn \cup GoingOut |->
     IF c \in {"request", "repair"} THEN "request" ELSE "oneway"]
FourDescriptors == 4 .. 7
=============================================================================
