------------------------------ MODULE MCOutbox -------------------------------
(***************************************************************************)
(* A few workers on one event, long enough for its leases to be reaped.    *)
(***************************************************************************)
EXTENDS Outbox, TLC

Symmetry == Permutations(Workers)
==============================================================================
