------------------------------- MODULE Outbox --------------------------------
(***************************************************************************)
(* The transactional outbox (lib/core/outbox/service.ts).                  *)
(*                                                                         *)
(* Events are rows of a table.  Several workers run at a time (the cron    *)
(* processor of every minute, and requests that process the event they     *)
(* just enqueued).  A worker claims a row by setting it to `processing'    *)
(* with the time at which it read its clock: that time is its lease.  It   *)
(* runs the handler outside of any transaction, and every write it makes   *)
(* afterwards is conditional on the row still carrying its lease.  A       *)
(* reaper takes leases older than StuckThreshold away, for the worker may  *)
(* have died.                                                              *)
(*                                                                         *)
(* Workers share one clock.  Reading the clock and committing the claim    *)
(* are two steps, as are the end of the handler and the write of its       *)
(* result; a worker may crash between any two.  A handler that times out   *)
(* is aborted, but nothing stops it from acting for a while: a ghost.      *)
(***************************************************************************)
EXTENDS Integers

CONSTANTS
  Workers, Events,
  MaxAttempts,       \* maxAttempts of every event
  HandlerTimeout,    \* the execution window of a handler
  StuckThreshold,    \* STUCK_PROCESSING_THRESHOLD_MS
  BaseBackoff, MaxBackoff,
  Latency,           \* bound on the time a claim takes from its clock read
  Punctual,          \* whether handlers start, time out and have their results
                     \* written in time (within Latency)
  GhostTime,         \* how long a handler may ignore its abort signal
  Delays,            \* availableAt of a new event, from now
  Outcomes,          \* what handlers do: "done", "failed" or "continued"
  MaxTime, MaxClaims \* bounds on the clock and on the claims of an event

ASSUME TimesAssumption ==
  /\ HandlerTimeout \in Nat \ {0} /\ StuckThreshold \in Nat /\ Latency \in Nat
  /\ HandlerTimeout + 2 * Latency < StuckThreshold
  /\ GhostTime \in Nat /\ GhostTime <= StuckThreshold
  /\ BaseBackoff \in Nat \ {0} /\ MaxBackoff \in Nat /\ BaseBackoff <= MaxBackoff

ASSUME ValuesAssumption ==
  /\ MaxAttempts \in Nat \ {0} /\ Punctual \in BOOLEAN
  /\ Delays \subseteq Nat /\ Outcomes \subseteq {"done", "failed", "continued"}
  /\ MaxTime \in Nat /\ MaxClaims \in Nat

VARIABLES
  now,     \* Date.now()
  row,     \* event -> its row of outbox_event
  worker,  \* worker -> what it is doing
  claims,  \* event -> how often it has been claimed (history)
  ghosts   \* handlers that were aborted and may go on all the same, with a mark
           \* (history) if their event has been requeued since

vars == <<now, row, worker, claims, ghosts>>

NoTime == -1

\* `saved' is the claim under which the payload was last checkpointed.
NoRow == [status |-> "absent", lockedAt |-> NoTime, availableAt |-> 0, attempts |-> 0,
          saved |-> 0]

\* A worker's copy of the row it claimed; `due' is when its current step is
\* due to end, `claim' the number of the claim.
Idle(e) == [pc |-> "idle", event |-> e, lockedAt |-> NoTime, attempts |-> 0, due |-> 0,
            claim |-> 0, outcome |-> "none"]

Stopped(w) == [worker EXCEPT ![w] = Idle(worker[w].event)]

Init ==
  /\ now = 0
  /\ row = [e \in Events |-> NoRow]
  /\ worker \in [Workers -> {Idle(e) : e \in Events}]
  /\ \A v, w \in Workers : worker[v] = worker[w]
  /\ claims = [e \in Events |-> 0]
  /\ ghosts = {}

------------------------------------------------------------------------------
(* The business transactions and the operator.                              *)

\* enqueueOutboxEvent, committed with the caller's transaction.
Enqueue(e) ==
  /\ row[e].status = "absent"
  /\ \E d \in Delays :
       row' = [row EXCEPT ![e] = [NoRow EXCEPT !.status = "pending", !.availableAt = now + d]]
  /\ UNCHANGED <<now, worker, claims, ghosts>>

Later(a, b) == IF a > b THEN a ELSE b

\* enqueueOrReschedulePendingOutboxEvent on a subject with a pending event.
Reschedule(e) ==
  /\ row[e].status = "pending"
  /\ \E d \in Delays : row' = [row EXCEPT ![e].availableAt = Later(@, now + d)]
  /\ UNCHANGED <<now, worker, claims, ghosts>>

\* claimKnowledgeUploadForAttachment: what the event guards has been settled.
Retire(e) ==
  /\ row[e].status = "pending"
  /\ row' = [row EXCEPT ![e].status = "completed", ![e].lockedAt = NoTime]
  /\ UNCHANGED <<now, worker, claims, ghosts>>

\* An aborted handler of e, marked if the event was requeued since (history).
Marked(g, e) == IF g.event = e THEN [g EXCEPT !.requeued = TRUE] ELSE g

\* POST /api/v1/admin/outbox/[id]/requeue, which updates the row and stops no
\* handler: one that timed out on the last attempt may still be acting.
Requeue(e) ==
  /\ row[e].status = "dead_letter"
  /\ row' = [row EXCEPT ![e].status = "pending", ![e].attempts = 0,
                        ![e].availableAt = now, ![e].lockedAt = NoTime]
  /\ ghosts' = {Marked(g, e) : g \in ghosts}
  /\ UNCHANGED <<now, worker, claims>>

------------------------------------------------------------------------------
(* Claiming.                                                                *)

\* Mutant: the reaper waits for the window of a handler, and no longer.
StuckTooSoon(e) == row[e].lockedAt <= now - HandlerTimeout

IsStuck(e) == row[e].lockedAt <= now - StuckThreshold

\* reapStuckProcessingRows; rows locked by another transaction are skipped.
Reap(e) ==
  /\ row[e].status = "processing" /\ IsStuck(e)
  /\ row' = [row EXCEPT ![e].status = "pending", ![e].lockedAt = NoTime]
  /\ UNCHANGED <<now, worker, claims, ghosts>>

\* claimBatch and processOutboxEventById: the clock is read before the
\* transaction starts.
ReadClock(w) ==
  /\ worker[w].pc = "idle"
  /\ worker' = [worker EXCEPT ![w].pc = "claiming", ![w].lockedAt = now, ![w].due = now + Latency]
  /\ UNCHANGED <<now, row, claims, ghosts>>

\* The transaction: SELECT ... FOR UPDATE SKIP LOCKED, then the update.
Claim(w, e) ==
  /\ worker[w].pc = "claiming" /\ claims[e] < MaxClaims
  /\ row[e].status = "pending" /\ row[e].availableAt <= worker[w].lockedAt
  /\ row' = [row EXCEPT ![e].status = "processing", ![e].lockedAt = worker[w].lockedAt]
  /\ claims' = [claims EXCEPT ![e] = @ + 1]
  /\ worker' = [worker EXCEPT ![w].pc = "claimed", ![w].event = e,
                              ![w].attempts = row[e].attempts, ![w].claim = claims[e] + 1]
  /\ UNCHANGED <<now, ghosts>>

\* No row is due, or the ones that are due are locked by others.
ClaimNothing(w) ==
  /\ worker[w].pc = "claiming"
  /\ worker' = Stopped(w)
  /\ UNCHANGED <<now, row, claims, ghosts>>

\* Mutant: the result is written if the row is being processed, by whomever.
AnyLease(w) == row[worker[w].event].status = "processing"

\* Mutant: the result is written if the lease was not taken over.
LeaseNotTaken(w) == row[worker[w].event].lockedAt \in {NoTime, worker[w].lockedAt}

\* The WHERE clause of updateIfLeaseHeld and its like.
LeaseHeld(w) ==
  /\ row[worker[w].event].status = "processing"
  /\ row[worker[w].event].lockedAt = worker[w].lockedAt

UpdateIfLeaseHeld(w, patched) ==
  row' = IF LeaseHeld(w) THEN [row EXCEPT ![worker[w].event] = patched] ELSE row

\* The invocation is about to end: the event goes back as it came.
Release(w) ==
  /\ worker[w].pc = "claimed"
  /\ UpdateIfLeaseHeld(w, [row[worker[w].event] EXCEPT !.status = "pending", !.lockedAt = NoTime])
  /\ worker' = Stopped(w)
  /\ UNCHANGED <<now, claims, ghosts>>

------------------------------------------------------------------------------
(* The handler (runHandlerWithTimeout).                                     *)

StartHandler(w) ==
  /\ worker[w].pc = "claimed"
  /\ worker' = [worker EXCEPT ![w].pc = "running", ![w].due = now + HandlerTimeout]
  /\ UNCHANGED <<now, row, claims, ghosts>>

Settling(w, outcome) ==
  worker' = [worker EXCEPT ![w].pc = "settling", ![w].due = now + Latency, ![w].outcome = outcome]

\* checkpointPayload: a handler that lost its lease is aborted and throws.  The
\* write may also land when the handler has just been timed out.
Checkpoint(w) ==
  /\ worker[w].pc = "running" \/ worker[w].outcome = "timeout"
  /\ UpdateIfLeaseHeld(w, [row[worker[w].event] EXCEPT !.saved = worker[w].claim])
  /\ IF LeaseHeld(w) \/ worker[w].pc = "settling"
       THEN UNCHANGED worker ELSE Settling(w, "failed")
  /\ UNCHANGED <<now, claims, ghosts>>

HandlerReturns(w) ==
  /\ worker[w].pc = "running"
  /\ \E outcome \in Outcomes : Settling(w, outcome)
  /\ UNCHANGED <<now, row, claims, ghosts>>

\* The timer aborts the handler, which may not listen.
HandlerTimesOut(w) ==
  /\ worker[w].pc = "running" /\ now >= worker[w].due
  /\ Settling(w, "timeout")
  /\ ghosts' = ghosts \cup {[worker |-> w, event |-> worker[w].event,
                              until |-> now + GhostTime, requeued |-> FALSE]}
  /\ UNCHANGED <<now, row, claims>>

------------------------------------------------------------------------------
(* The result of the handler (runHandler).                                  *)

Backoff(n) ==
  LET doubled == BaseBackoff * 2^n
  IN  IF doubled < MaxBackoff THEN doubled ELSE MaxBackoff

\* Another attempt is used up: to the dead letters, or to `again'.
Attempted(r, w, again) ==
  LET n == worker[w].attempts + 1
  IN  IF n >= MaxAttempts
      THEN [r EXCEPT !.attempts = n, !.status = "dead_letter", !.lockedAt = NoTime]
      ELSE [again EXCEPT !.attempts = n]

\* Date.now() as the update of the row is prepared: when the handler ended.
Ended(w) == worker[w].due - Latency

\* Mutant: the backoff is subtracted.
RetriedInThePast(r, w, n) ==
  [r EXCEPT !.status = "pending", !.availableAt = Ended(w) - Backoff(n), !.lockedAt = NoTime]

Retried(r, w, n) ==
  [r EXCEPT !.status = "pending", !.availableAt = Ended(w) + Backoff(n), !.lockedAt = NoTime]

\* Mutant: a timed-out event keeps the lease it was claimed with.
TimedOutOnOldLease(r, w) == Attempted(r, w, r)

\* recordTimedOutAttempt: the row is leased anew, for the handler may still be
\* acting; the reaper is left to free it.
TimedOut(r, w) == Attempted(r, w, [r EXCEPT !.lockedAt = Ended(w)])

Result(w) ==
  LET r == row[worker[w].event]
      n == worker[w].attempts
  IN  CASE worker[w].outcome = "done"      -> [r EXCEPT !.status = "completed", !.lockedAt = NoTime]
        [] worker[w].outcome = "failed"    -> Attempted(r, w, Retried(r, w, n + 1))
        [] worker[w].outcome = "continued" -> [Retried(r, w, n) EXCEPT !.attempts = n]
        [] OTHER                           -> TimedOut(r, w)

Settle(w) ==
  /\ worker[w].pc = "settling"
  /\ UpdateIfLeaseHeld(w, Result(w))
  /\ worker' = Stopped(w)
  /\ UNCHANGED <<now, claims, ghosts>>

\* The process dies, and the handlers it ran with it.
Crash(w) ==
  /\ worker[w].pc # "idle"
  /\ worker' = Stopped(w)
  /\ ghosts' = {g \in ghosts : g.worker # w}
  /\ UNCHANGED <<now, row, claims>>

------------------------------------------------------------------------------
\* The steps that end in time: claims, and where workers are punctual all.
Urgent == {"claiming"} \cup (IF Punctual THEN {"claimed", "running", "settling"} ELSE {})

Tick ==
  /\ now < MaxTime
  /\ \A w \in Workers : worker[w].pc \in Urgent => now < worker[w].due
  /\ now' = now + 1
  /\ ghosts' = {g \in ghosts : g.until > now + 1}
  /\ UNCHANGED <<row, worker, claims>>

Work(w) ==
  \/ ReadClock(w) \/ ClaimNothing(w) \/ Release(w) \/ StartHandler(w)
  \/ Checkpoint(w) \/ HandlerReturns(w) \/ HandlerTimesOut(w) \/ Settle(w) \/ Crash(w)
  \/ \E e \in Events : Claim(w, e)

Next ==
  \/ Tick
  \/ \E w \in Workers : Work(w)
  \/ \E e \in Events : Enqueue(e) \/ Reschedule(e) \/ Retire(e) \/ Requeue(e) \/ Reap(e)

Spec == Init /\ [][Next]_vars

------------------------------------------------------------------------------
(* Correctness.                                                             *)

Holding == {"claimed", "running", "settling"}

Times == Nat \cup {NoTime}

TypeOK ==
  /\ now \in Nat
  /\ row \in [Events -> [status : {"absent", "pending", "processing", "completed", "dead_letter"},
                         lockedAt : Times, availableAt : Nat, attempts : Nat, saved : Nat]]
  /\ worker \in [Workers -> [pc : {"idle", "claiming"} \cup Holding, event : Events,
                             lockedAt : Times, attempts : Nat, due : Nat, claim : Nat,
                             outcome : {"none", "timeout"} \cup Outcomes \cup {"failed"}]]
  /\ claims \in [Events -> Nat]
  /\ ghosts \subseteq [worker : Workers, event : Events, until : Nat, requeued : BOOLEAN]

\* A worker whose lease was reaped never overwrites what the next worker does
\* with the event: only the latest claim writes a result or a checkpoint, though
\* leases are told apart by nothing but the clock they were read from.
NoClobber ==
  [][/\ \A w \in Workers : worker[w].pc \in Holding /\ worker'[w] # worker[w] /\ row' # row
                             => worker[w].claim = claims[worker[w].event]
     /\ \A e \in Events : row'[e].saved # row[e].saved /\ row'[e].saved # 0
                             => row'[e].saved = claims[e]]_vars

\* A completed event stays completed, also one that was settled while a worker
\* that had lost its lease was still at it.
CompletedStays ==
  [][\A e \in Events : row[e].status = "completed" => row'[e].status = "completed"]_vars

\* No used-up attempt is forgotten, short of an operator's requeue: workers write
\* the attempts they counted on from the copy they claimed.
AttemptsNeverLost ==
  [][\A e \in Events : row'[e].attempts < row[e].attempts => row[e].status = "dead_letter"]_vars

\* While its timers are punctual a handler runs under its worker's lease: no two
\* handlers of one event run at a time, and none runs for a finished event.
RunsUnderLease ==
  /\ \A w \in Workers : worker[w].pc = "running" => LeaseHeld(w)
  /\ \A v, w \in Workers : /\ worker[v].pc = "running" /\ worker[w].pc = "running"
                           /\ worker[v].event = worker[w].event
                           => v = w

\* A handler that did not stop when it was aborted is not overlapped by the next
\* attempt on its event, unless an operator has requeued the event since: after a
\* timeout on the last attempt the event is dead at once, and no lease holds it.
NoOverlap ==
  \A w \in Workers : worker[w].pc = "running" =>
    \A g \in ghosts : g.event = worker[w].event /\ g.until > now => g.requeued

\* The outbox keeps the promise of LeaseQueue, though its leases are mere times and
\* its attempts are counted on copies: a write it lets through is the latest claim's.
Held ==
  [w \in Workers |-> IF worker[w].pc \in Holding
                     THEN {<<worker[w].event, worker[w].claim>>} ELSE {}]

Queue == INSTANCE LeaseQueue WITH
  state <- [e \in Events |-> row[e].status],
  attempts <- [e \in Events |-> row[e].attempts],
  saved <- [e \in Events |-> row[e].saved],
  token <- claims, held <- Held

ImplementsLeaseQueue == Queue!Spec
==============================================================================
