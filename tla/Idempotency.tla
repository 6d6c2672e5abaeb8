----------------------------- MODULE Idempotency ------------------------------
(***************************************************************************)
(* The idempotency service (lib/core/idempotency/service.ts), for the      *)
(* calls of executeWithIdempotency with one key.                           *)
(*                                                                         *)
(* A call claims the key by writing an `in-progress' entry with a token of *)
(* its own and a lease, runs the operation and replaces the entry by its   *)
(* result.  Calls that find a live entry return the result, report the     *)
(* failure, wait for the holder or, where failures are retried, clear the  *)
(* failed entry and start over.  Entries are kept in Redis, where they     *)
(* expire by themselves, or in a table, where a claim takes over entries   *)
(* that are too old.                                                       *)
(*                                                                         *)
(* In the database, reading the clock, the claim, and the look at the      *)
(* entry that stood in its way are three steps; in Redis the last two are  *)
(* one script.  A call may crash between any two, and a write may fail,    *)
(* before it took effect or after.                                         *)
(***************************************************************************)
EXTENDS Integers

CONSTANTS
  Callers,        \* deliveries of one event, and their redeliveries
  Services,       \* the services considered, each for one use of them
  Ttl,            \* ttlSeconds: how long a result is kept
  Lease,          \* how long a claim is live
  Budget,         \* time limit of the operation
  Latency,        \* bound on the time from a clock read to the claim
  Punctual,       \* whether claims and operations end in time
  MaxTime, LastCall, MaxClaims \* bounds: the clock while nobody waits, and when
                               \* calls may begin

ASSUME LeaseAssumption ==
  /\ Ttl \in Nat \ {0} /\ Lease \in Nat \ {0} /\ Budget \in Nat \ {0} /\ Latency \in Nat
  /\ Budget + Latency < Lease

ASSUME ChoicesAssumption ==
  /\ Services \subseteq [storage : {"redis", "database"}, retryFailures : BOOLEAN,
                           faults : SUBSET {"lost", "applied"}]
  /\ Punctual \in BOOLEAN /\ MaxTime \in Nat /\ LastCall \in Nat /\ MaxClaims \in Nat

VARIABLES
  service,  \* the service the calls are made of; it does not change
  now,      \* Date.now(), and the clock of Redis
  entry,    \* what is stored under the key
  caller,   \* caller -> what its call is doing
  claims,   \* how often the key has been claimed (tokens are numbered)
  recorded  \* when a success was last stored (history)

vars == <<service, now, entry, caller, claims, recorded>>

\* storageMethod, and retryFailures of its configuration.
Storage       == service.storage
RetryFailures == service.retryFailures

\* Ways in which its writes fail: "lost" (one never arrived) and "applied" (only the
\* reply was lost).
Faults == service.faults

NoTime == -1

NoEntry == [status |-> "none", token |-> 0, created |-> 0, expires |-> 0, gone |-> 0]

\* `due' is when the current step ends at the latest; `seen' the failed entry
\* a call is about to clear.
Idle == [pc |-> "idle", clock |-> 0, token |-> 0, due |-> 0, seen |-> NoEntry]

\* A failure that was recorded before failures were retried for this key.
FailedBefore == [status |-> "failed", token |-> 0, created |-> 0, expires |-> 0, gone |-> Ttl]

Init ==
  /\ service \in Services /\ now = 0
  /\ entry \in {NoEntry, FailedBefore} /\ caller = [c \in Callers |-> Idle]
  /\ claims = 0 /\ recorded = NoTime

\* The call returns or throws.
Ends(c) == caller' = [caller EXCEPT ![c] = Idle]

------------------------------------------------------------------------------
(* Claiming (atomicallyClaim).                                              *)

\* What a read finds: an entry of Redis is gone when its time is up.
Present == entry.status # "none" /\ (Storage = "redis" => now < entry.gone)

\* Mutant: a result is kept no longer than a lease.
ClaimableByLease(t) ==
  IF Storage = "redis" THEN ~Present \/ (entry.status # "in-progress" /\ entry.created + Lease <= t)
  ELSE entry.status = "none" \/ entry.created + Lease <= t

\* SET NX, or the WHERE clause of ON CONFLICT DO UPDATE with the caller's clock.
Claimable(t) ==
  \/ entry.status = "none" \/ ~Present
  \/ Storage = "database" /\ entry.status = "in-progress" /\ entry.expires <= t
  \/ Storage = "database" /\ entry.status # "in-progress" /\ entry.created + Ttl < t

Call(c) ==
  /\ caller[c].pc = "idle" /\ now <= LastCall /\ claims < MaxClaims
  /\ caller' = [caller EXCEPT ![c] = [Idle EXCEPT !.pc = "claiming", !.clock = now,
                                                  !.due = now + Latency]]
  /\ UNCHANGED <<service, now, entry, claims, recorded>>

Claim(c) ==
  /\ caller[c].pc = "claiming" /\ Claimable(caller[c].clock)
  /\ claims' = claims + 1
  /\ entry' = [status |-> "in-progress", token |-> claims + 1, created |-> caller[c].clock,
               expires |-> caller[c].clock + Lease, gone |-> now + Lease]
  /\ caller' = [caller EXCEPT ![c].pc = "running", ![c].token = claims + 1, ![c].due = now + Budget]
  /\ UNCHANGED <<service, now, recorded>>

\* What a call does about the entry that stood in its way.
Heed(c) ==
  CASE entry.status = "failed" /\ RetryFailures ->
         caller' = [caller EXCEPT ![c].pc = "clearing", ![c].seen = entry]
    [] entry.status = "in-progress" ->
         caller' = [caller EXCEPT ![c].pc = "waiting", ![c].due = entry.expires]
    [] OTHER -> Ends(c)

\* The claim is refused.  A script of Redis returns the entry with the refusal;
\* the database is asked for it by a second statement.
Refused(c) ==
  /\ caller[c].pc = "claiming" /\ ~Claimable(caller[c].clock)
  /\ IF Storage = "redis" THEN Heed(c)
     ELSE caller' = [caller EXCEPT ![c].pc = "looking"]
  /\ UNCHANGED <<service, now, entry, claims, recorded>>

Look(c) ==
  /\ caller[c].pc = "looking"
  /\ Heed(c)
  /\ UNCHANGED <<service, now, entry, claims, recorded>>

\* Mutant: the entry is deleted if it is not a result, whatever was observed.
StillThere(c) == entry.status # "completed"

\* The fence of deleteKey: the entry has to be the one that was observed.
Observed(c) == Present /\ entry = caller[c].seen

\* retryFailures: the failed entry is removed, and the call starts over.
Clear(c) ==
  /\ caller[c].pc = "clearing"
  /\ entry' = IF Observed(c) THEN NoEntry ELSE entry
  /\ caller' = [caller EXCEPT ![c] = [Idle EXCEPT !.pc = "claiming", !.clock = now,
                                                  !.due = now + Latency]]
  /\ UNCHANGED <<service, now, claims, recorded>>

------------------------------------------------------------------------------
(* Waiting (waitForResult).                                                 *)

Poll(c) ==
  /\ caller[c].pc = "waiting" /\ now < caller[c].due /\ Present
  /\ entry.status \in {"completed", "failed"}
  /\ Ends(c)
  /\ UNCHANGED <<service, now, entry, claims, recorded>>

\* Mutant: a call waits for as long as the key is held.
WaitIsOverWhenFree(c) == now >= caller[c].due /\ entry.status # "in-progress"

WaitIsOver(c) == now >= caller[c].due

StopWaiting(c) ==
  /\ caller[c].pc = "waiting" /\ WaitIsOver(c)
  /\ Ends(c)
  /\ UNCHANGED <<service, now, entry, claims, recorded>>

------------------------------------------------------------------------------
(* The operation, and what is stored of it.                                 *)

\* The operation returns, having done its work.
Succeeds(c) ==
  /\ caller[c].pc = "running"
  /\ caller' = [caller EXCEPT ![c].pc = "storing"]
  /\ UNCHANGED <<service, now, entry, claims, recorded>>

\* The operation throws.
Throws(c) ==
  /\ caller[c].pc = "running"
  /\ caller' = [caller EXCEPT ![c].pc = "recording"]
  /\ UNCHANGED <<service, now, entry, claims, recorded>>

\* A RetryableSetupError: nothing has been done yet, and the claim is released.
SetupFails(c) ==
  /\ caller[c].pc = "running"
  /\ caller' = [caller EXCEPT ![c].pc = "releasing"]
  /\ UNCHANGED <<service, now, entry, claims, recorded>>

\* Mutant: whoever comes writes.
AnyOwner(c) == Present

\* The fence of storeResult and release: the entry carries the call's token.
Owns(c) == Present /\ entry.token = caller[c].token

\* Mutant: a result is dated back by the time it is to be kept.
StoredExpired(c, status) ==
  IF Owns(c)
  THEN [status |-> status, token |-> caller[c].token, created |-> now - Ttl, expires |-> 0, gone |-> now]
  ELSE entry

Stored(c, status) ==
  IF Owns(c)
  THEN [status |-> status, token |-> caller[c].token, created |-> now, expires |-> 0, gone |-> now + Ttl]
  ELSE entry

Deleted(c) == IF Owns(c) THEN NoEntry ELSE entry

\* The catch block of executeWithIdempotency.
AfterFailure == IF RetryFailures THEN "releasing" ELSE "recording"

StoreResult(c) ==
  /\ caller[c].pc = "storing"
  /\ entry' = Stored(c, "completed")
  /\ recorded' = IF Owns(c) THEN now ELSE recorded
  /\ Ends(c)
  /\ UNCHANGED <<service, now, claims>>

\* The write of the result throws: the operation counts as failed.
StoreThrows(c) ==
  /\ caller[c].pc = "storing"
  /\ \/ "lost" \in Faults /\ UNCHANGED <<entry, recorded>>
     \/ /\ "applied" \in Faults
        /\ entry' = Stored(c, "completed")
        /\ recorded' = IF Owns(c) THEN now ELSE recorded
  /\ caller' = [caller EXCEPT ![c].pc = AfterFailure]
  /\ UNCHANGED <<service, now, claims>>

\* A failed operation: recorded for the callers to come, or released.
RecordFailure(c) ==
  /\ caller[c].pc = "recording"
  /\ IF RetryFailures THEN entry' = Deleted(c) ELSE entry' = Stored(c, "failed")
  /\ Ends(c)
  /\ UNCHANGED <<service, now, claims, recorded>>

Release(c) ==
  /\ caller[c].pc = "releasing"
  /\ entry' = Deleted(c)
  /\ Ends(c)
  /\ UNCHANGED <<service, now, claims, recorded>>

\* The last write fails too, or the process dies.
Abandon(c) ==
  /\ caller[c].pc # "idle"
  /\ Ends(c)
  /\ UNCHANGED <<service, now, entry, claims, recorded>>

------------------------------------------------------------------------------
Urgent == IF Punctual THEN {"claiming", "running"} ELSE {}

Tick ==
  /\ now < MaxTime \/ \E c \in Callers : caller[c].pc = "waiting" /\ now < caller[c].due
  /\ \A c \in Callers : caller[c].pc \in Urgent => now < caller[c].due
  /\ now' = now + 1
  /\ UNCHANGED <<service, entry, caller, claims, recorded>>

\* What a call does by itself.
Proceed(c) ==
  \/ Claim(c) \/ Refused(c) \/ Look(c) \/ Clear(c) \/ Poll(c) \/ StopWaiting(c)
  \/ Succeeds(c) \/ Throws(c) \/ SetupFails(c) \/ StoreResult(c) \/ RecordFailure(c) \/ Release(c)

Next ==
  \/ Tick
  \/ \E c \in Callers : Call(c) \/ Proceed(c) \/ StoreThrows(c) \/ Abandon(c)

Spec == Init /\ [][Next]_vars

\* Timers fire, and promises settle; nobody is obliged to call.
FairSpec == Spec /\ WF_vars(Tick) /\ \A c \in Callers : WF_vars(Proceed(c))

------------------------------------------------------------------------------
(* Correctness.                                                             *)

Steps == {"idle", "claiming", "looking", "clearing", "waiting", "running", "storing", "recording",
          "releasing"}

Entries == [status : {"none", "in-progress", "completed", "failed"}, token : Nat, created : Nat,
            expires : Nat, gone : Nat]

TypeOK ==
  /\ service \in Services /\ now \in Nat /\ entry \in Entries /\ claims \in Nat
  /\ recorded \in Nat \cup {NoTime}
  /\ caller \in [Callers -> [pc : Steps, clock : Nat, token : Nat, due : Nat, seen : Entries]]

\* A live claim is ended by its holder only: not by a holder that lost the key
\* before, nor by a call that clears a failure it saw some time ago, though the
\* key may have passed through several hands since.
ClaimRespected ==
  [][entry.status = "in-progress" /\ entry' # entry
       => \/ \E c \in Callers : caller[c].token = entry.token /\ caller'[c] # caller[c]
          \/ now >= entry.expires]_vars

\* While operations keep their time limit, no two of them run at a time, whoever
\* failed, retried, crashed or was late with its claim.
OneRunner ==
  Punctual => \A b, c \in Callers : caller[b].pc = "running" /\ caller[c].pc = "running" => b = c

\* An operation whose success was stored is not started again while that result
\* is kept, even if its holder was told that the write had failed.  Where failures
\* are retried it holds only as long as no reply is lost: a holder told so there
\* releases the claim, and with it the result (Assured, in IdempotencyProofs).
ResultsHold ==
  [][\A c \in Callers : caller[c].pc # "running" /\ caller'[c].pc = "running" /\ recorded # NoTime
       => now >= recorded + Ttl]_vars

\* Every call ends, also one that waits for a holder that has died.
CallsEnd == \A c \in Callers : caller[c].pc # "idle" ~> caller[c].pc = "idle"
==============================================================================
