----------------------------- MODULE MCShutdown -----------------------------
(***************************************************************************)
(* A shutdown of the small overlays of MCOverlay.                          *)
(***************************************************************************)
EXTENDS Shutdown, MCOverlay
=============================================================================
