---------------------------- MODULE MCIdempotency ----------------------------
(***************************************************************************)
(* Two callers of the service as webhooks use it, kept in Redis, and as    *)
(* polling uses it, kept in the database with failures that are retried.   *)
(***************************************************************************)
EXTENDS Idempotency

MCServices ==
  {[storage |-> "redis", retryFailures |-> FALSE, faults |-> {"lost", "applied"}],
   [storage |-> "database", retryFailures |-> TRUE, faults |-> {"lost"}]}
==============================================================================
