----------------------------- MODULE MCPausedRun ------------------------------
(***************************************************************************)
(* A run with a pause or two of its own, and one that comes later.         *)
(***************************************************************************)
EXTENDS PausedRun, TLC
==============================================================================
