---------------------------- MODULE OutboxProofs -----------------------------
(***************************************************************************)
(* What keeps two attempts on an event apart, for any number of workers    *)
(* and events and any setting of the times.                                *)
(*                                                                         *)
(* A lease is told from another by nothing but the clock it was read from, *)
(* so the argument is about time: a claim is made within Latency of its    *)
(* clock read and no lease is reaped before it is StuckThreshold old, hence*)
(* the lease of a later claim of the event is younger than every lease     *)
(* that was taken away from an earlier one.                                *)
(***************************************************************************)
EXTENDS Outbox, FiniteSets, FiniteSetTheorems, TLAPS

\* The part of the type invariant the arguments need; the rest is at the end.
Rows == [status : {"absent", "pending", "processing", "completed", "dead_letter"},
         lockedAt : Int, availableAt : Int, attempts : Nat, saved : Int]

Steps == [pc : {"idle", "claiming", "claimed", "running", "settling"}, event : Events,
          lockedAt : Int, attempts : Nat, due : Int, claim : Int,
          outcome : {"none", "timeout", "done", "failed", "continued"}]

Shape ==
  /\ now \in Nat
  /\ row \in [Events -> Rows]
  /\ worker \in [Workers -> Steps]
  /\ claims \in [Events -> Nat]

\* Where a worker is in time.
Windows ==
  \A w \in Workers :
    /\ worker[w].pc \in {"claiming"} \cup Holding => worker[w].lockedAt <= now
    /\ worker[w].pc \in {"claiming", "claimed"} => worker[w].due = worker[w].lockedAt + Latency
    /\ worker[w].pc = "claiming" => now <= worker[w].due
    /\ worker[w].pc = "settling" => worker[w].lockedAt <= Ended(w)
    /\ worker[w].outcome = "timeout" => worker[w].pc = "settling"
    /\ worker[w].pc \in Holding => worker[w].claim <= claims[worker[w].event]

\* The worker has the latest claim of its event, and its lease.
Current(w) == LeaseHeld(w) /\ worker[w].claim = claims[worker[w].event]

\* The worker's lease was reaped, and can never be mistaken for a later one.
Superseded(w) ==
  /\ worker[w].lockedAt + StuckThreshold <= now
  /\ row[worker[w].event].status = "processing"
       => worker[w].lockedAt < row[worker[w].event].lockedAt

Leases == \A w \in Workers : worker[w].pc \in Holding => Current(w) \/ Superseded(w)

Distinct ==
  \A v, w \in Workers :
    /\ worker[v].pc \in Holding /\ worker[w].pc \in Holding
    /\ worker[v].event = worker[w].event /\ worker[v].claim = worker[w].claim
    => v = w

LeaseInv == Shape /\ Windows /\ Leases /\ Distinct

LEMMA NoTimeTyped == NoTime \in Int
  BY DEF NoTime

LEMMA InitLease == Init => LeaseInv
<1> SUFFICES ASSUME Init PROVE LeaseInv
  OBVIOUS
<1>1. \A w \in Workers : \E e \in Events : worker[w] = Idle(e)
  BY DEF Init
<1>2. \A w \in Workers : worker[w].pc = "idle" /\ worker[w].outcome = "none"
  <2> TAKE w \in Workers
  <2>1. PICK e \in Events : worker[w] = Idle(e)
    BY <1>1
  <2> QED
    BY <2>1 DEF Idle
<1>3. Shape
  <2>1. NoRow \in Rows
    BY NoTimeTyped DEF NoRow, Rows
  <2>2. \A e \in Events : Idle(e) \in Steps
    BY NoTimeTyped DEF Idle, Steps
  <2> QED
    BY <2>1, <2>2 DEF Init, Shape
<1> QED
  BY <1>2, <1>3 DEF LeaseInv, Windows, Leases, Distinct, Holding

LEMMA BackoffTyped == ASSUME NEW n \in Nat PROVE Backoff(n) \in Int
  BY TimesAssumption DEF Backoff

LEMMA RetriedTyped ==
  ASSUME NEW r \in Rows, NEW w, NEW n, Ended(w) \in Int, Backoff(n) \in Int
  PROVE  Retried(r, w, n) \in Rows
<1> DEFINE at == Ended(w) + Backoff(n)
<1>1. at \in Int
  OBVIOUS
<1> HIDE DEF at
<1>2. [r EXCEPT !.status = "pending", !.availableAt = at, !.lockedAt = NoTime] \in Rows
  BY <1>1, NoTimeTyped DEF Rows
<1> QED
  BY <1>2 DEF Retried, at

LEMMA AttemptedTyped ==
  ASSUME NEW r \in Rows, NEW again \in Rows, NEW w, worker[w].attempts \in Nat
  PROVE  Attempted(r, w, again) \in Rows
<1>1. ASSUME NEW n \in Nat
      PROVE  /\ [again EXCEPT !.attempts = n] \in Rows
             /\ [r EXCEPT !.attempts = n, !.status = "dead_letter", !.lockedAt = NoTime] \in Rows
  BY NoTimeTyped DEF Rows
<1>2. worker[w].attempts + 1 \in Nat
  OBVIOUS
<1> QED
  BY <1>1, <1>2 DEF Attempted

\* What a worker writes of its handler's result is a row.
LEMMA ResultTyped ==
  ASSUME Shape, NEW w \in Workers
  PROVE  Result(w) \in Rows
<1> DEFINE r == row[worker[w].event]
           n == worker[w].attempts
<1>1. r \in Rows /\ n \in Nat /\ worker[w].due \in Int
  BY DEF Shape, Rows, Steps
<1>2. Backoff(n) \in Int /\ Backoff(n + 1) \in Int
  BY <1>1, BackoffTyped
<1>3. Ended(w) \in Int
  BY <1>1, TimesAssumption DEF Ended
<1>4. Retried(r, w, n) \in Rows /\ Retried(r, w, n + 1) \in Rows
  BY <1>1, <1>2, <1>3, RetriedTyped
<1>5. Attempted(r, w, Retried(r, w, n + 1)) \in Rows
  BY <1>1, <1>4, AttemptedTyped
<1>6. [Retried(r, w, n) EXCEPT !.attempts = n] \in Rows
  BY <1>1, <1>4 DEF Rows
<1>7. [r EXCEPT !.status = "completed", !.lockedAt = NoTime] \in Rows
  BY <1>1, NoTimeTyped DEF Rows
<1>8. [r EXCEPT !.lockedAt = Ended(w)] \in Rows
  BY <1>1, <1>3 DEF Rows
<1>9. TimedOut(r, w) \in Rows
  BY <1>1, <1>8, AttemptedTyped DEF TimedOut
<1> QED
  BY <1>5, <1>6, <1>7, <1>9 DEF Result

LEMMA WriteTyped ==
  ASSUME Shape, NEW w \in Workers, NEW patched \in Rows, UpdateIfLeaseHeld(w, patched)
  PROVE  row' \in [Events -> Rows]
  BY DEF UpdateIfLeaseHeld, Shape

LEMMA ShapeStep == Shape /\ [Next]_vars => Shape'
<1> SUFFICES ASSUME Shape, [Next]_vars PROVE Shape'
  OBVIOUS
<1> USE NoTimeTyped, TimesAssumption
<1>0. /\ now \in Nat /\ claims \in [Events -> Nat]
      /\ row \in [Events -> Rows] /\ worker \in [Workers -> Steps]
  BY DEF Shape
<1>1. ASSUME NEW w \in Workers PROVE worker[w] \in Steps /\ row[worker[w].event] \in Rows
  BY <1>0 DEF Steps
<1>2. ASSUME NEW w \in Workers PROVE Stopped(w) \in [Workers -> Steps]
  <2>1. worker[w].event \in Events
    BY <1>1 DEF Steps
  <2>2. Idle(worker[w].event) \in Steps
    BY <2>1 DEF Idle, Steps
  <2> QED
    BY <1>0, <2>2 DEF Stopped
<1>3. ASSUME NEW w \in Workers, NEW outcome \in {"timeout", "done", "failed", "continued"},
             Settling(w, outcome)
      PROVE  worker' \in [Workers -> Steps]
  <2> DEFINE ends == now + Latency
  <2>1. ends \in Int
    BY <1>0
  <2> HIDE DEF ends
  <2>2. [worker[w] EXCEPT !.pc = "settling", !.due = ends, !.outcome = outcome] \in Steps
    BY <1>1, <2>1 DEF Steps
  <2> QED
    BY <1>0, <1>3, <2>2 DEF Settling, ends
<1>4. CASE Tick
  BY <1>4, <1>0 DEF Tick, Shape
<1>5. ASSUME NEW w \in Workers, NEW e \in Events, Claim(w, e) PROVE Shape'
  <2>1. row[e] \in Rows /\ worker[w].lockedAt \in Int /\ row[e].attempts \in Nat
        /\ claims[e] + 1 \in Int
    BY <1>0, <1>1 DEF Rows, Steps
  <2> DEFINE c == claims[e] + 1
  <2>2. c \in Int
    BY <2>1
  <2> HIDE DEF c
  <2>3. [row[e] EXCEPT !.status = "processing", !.lockedAt = worker[w].lockedAt] \in Rows
    BY <2>1 DEF Rows
  <2>4. [worker[w] EXCEPT !.pc = "claimed", !.event = e, !.attempts = row[e].attempts,
                          !.claim = c] \in Steps
    BY <1>1, <2>1, <2>2 DEF Steps
  <2>5. row' \in [Events -> Rows] /\ worker' \in [Workers -> Steps]
    BY <1>0, <1>5, <2>3, <2>4 DEF Claim, c
  <2> QED
    BY <1>0, <1>5, <2>5 DEF Claim, Shape
<1>6. ASSUME NEW w \in Workers, ReadClock(w) PROVE Shape'
  <2> DEFINE ends == now + Latency
  <2>1. ends \in Int /\ now \in Int
    BY <1>0
  <2> HIDE DEF ends
  <2>2. [worker[w] EXCEPT !.pc = "claiming", !.lockedAt = now, !.due = ends] \in Steps
    BY <1>1, <2>1 DEF Steps
  <2> QED
    BY <1>0, <1>6, <2>2 DEF ReadClock, Shape, ends
<1>7. ASSUME NEW w \in Workers, ClaimNothing(w) \/ Crash(w) PROVE Shape'
  BY <1>0, <1>2, <1>7 DEF ClaimNothing, Crash, Shape
<1>8. ASSUME NEW w \in Workers, Release(w) PROVE Shape'
  <2>1. [row[worker[w].event] EXCEPT !.status = "pending", !.lockedAt = NoTime] \in Rows
    BY <1>1 DEF Rows
  <2> QED
    BY <1>0, <1>2, <1>8, <2>1, WriteTyped DEF Release, Shape
<1>9. ASSUME NEW w \in Workers, StartHandler(w) PROVE Shape'
  <2> DEFINE ends == now + HandlerTimeout
  <2>1. ends \in Int
    BY <1>0
  <2> HIDE DEF ends
  <2>2. [worker[w] EXCEPT !.pc = "running", !.due = ends] \in Steps
    BY <1>1, <2>1 DEF Steps
  <2> QED
    BY <1>0, <1>9, <2>2 DEF StartHandler, Shape, ends
<1>10. ASSUME NEW w \in Workers, Checkpoint(w) PROVE Shape'
  <2>1. [row[worker[w].event] EXCEPT !.saved = worker[w].claim] \in Rows
    BY <1>1 DEF Rows, Steps
  <2>2. worker' \in [Workers -> Steps]
    BY <1>0, <1>3, <1>10 DEF Checkpoint
  <2> QED
    BY <1>0, <1>10, <2>1, <2>2, WriteTyped DEF Checkpoint, Shape
<1>11. ASSUME NEW w \in Workers, HandlerReturns(w) \/ HandlerTimesOut(w) PROVE Shape'
  <2>1. Outcomes \subseteq {"done", "failed", "continued"}
    BY ValuesAssumption
  <2> QED
    BY <1>0, <1>3, <1>11, <2>1 DEF HandlerReturns, HandlerTimesOut, Shape
<1>12. ASSUME NEW w \in Workers, Settle(w) PROVE Shape'
  BY <1>0, <1>2, <1>12, ResultTyped, WriteTyped DEF Settle, Shape
<1>13. ASSUME NEW e \in Events, Enqueue(e) PROVE Shape'
  <2>1. PICK d \in Delays :
          row' = [row EXCEPT ![e] = [NoRow EXCEPT !.status = "pending", !.availableAt = now + d]]
    BY <1>13 DEF Enqueue
  <2> DEFINE at == now + d
  <2>2. at \in Int
    BY <1>0, ValuesAssumption
  <2> HIDE DEF at
  <2>3. NoRow \in Rows
    BY DEF NoRow, Rows
  <2>4. [NoRow EXCEPT !.status = "pending", !.availableAt = at] \in Rows
    BY <2>2, <2>3 DEF Rows
  <2> QED
    BY <1>0, <1>13, <2>1, <2>4 DEF Enqueue, Shape, at
<1>14. ASSUME NEW e \in Events, Reschedule(e) PROVE Shape'
  <2>1. PICK d \in Delays : row' = [row EXCEPT ![e].availableAt = Later(@, now + d)]
    BY <1>14 DEF Reschedule
  <2> DEFINE at == Later(row[e].availableAt, now + d)
  <2>2. at \in Int
    BY <1>0, ValuesAssumption DEF Later, Rows
  <2>3. row' = [row EXCEPT ![e] = [row[e] EXCEPT !.availableAt = at]]
    BY <1>0, <2>1 DEF Rows
  <2> HIDE DEF at
  <2>4. [row[e] EXCEPT !.availableAt = at] \in Rows
    BY <1>0, <2>2 DEF Rows
  <2> QED
    BY <1>0, <1>14, <2>3, <2>4 DEF Reschedule, Shape
<1>15. ASSUME NEW e \in Events, Retire(e) \/ Requeue(e) \/ Reap(e) PROVE Shape'
  <2>1. row[e] \in Rows /\ now \in Int
    BY <1>0
  <2>2. /\ [row[e] EXCEPT !.status = "completed", !.lockedAt = NoTime] \in Rows
        /\ [row[e] EXCEPT !.status = "pending", !.lockedAt = NoTime] \in Rows
        /\ [row[e] EXCEPT !.status = "pending", !.attempts = 0, !.availableAt = now,
                          !.lockedAt = NoTime] \in Rows
    BY <2>1 DEF Rows
  <2>3. row' \in [Events -> Rows]
    BY <1>0, <1>15, <2>2 DEF Retire, Requeue, Reap
  <2> QED
    BY <1>0, <1>15, <2>3 DEF Retire, Requeue, Reap, Shape
<1>16. CASE UNCHANGED vars
  BY <1>16, <1>0 DEF vars, Shape
<1> QED
  BY <1>4, <1>5, <1>6, <1>7, <1>8, <1>9, <1>10, <1>11, <1>12, <1>13, <1>14, <1>15, <1>16
  DEF Next, Work

\* What a step of one worker leaves of the others.
LEMMA OthersStand ==
  ASSUME Shape, NEW w \in Workers, Work(w), NEW v \in Workers, v # w
  PROVE  worker'[v] = worker[v]
  BY DEF Shape, Work, ReadClock, ClaimNothing, Release, StartHandler, Checkpoint, HandlerReturns,
         HandlerTimesOut, Settle, Crash, Claim, Settling, Stopped

LEMMA ClaimsGrow ==
  ASSUME Shape, NEW w \in Workers, Work(w)
  PROVE  now' = now /\ \A e \in Events : claims[e] <= claims'[e]
<1>0. claims \in [Events -> Nat]
  BY DEF Shape
<1>1. ASSUME NEW e \in Events, Claim(w, e) PROVE now' = now /\ \A f \in Events : claims[f] <= claims'[f]
  BY <1>0, <1>1 DEF Claim
<1>2. CASE ~\E e \in Events : Claim(w, e)
  <2>1. UNCHANGED <<now, claims>>
    BY <1>2 DEF Work, ReadClock, ClaimNothing, Release, StartHandler, Checkpoint, HandlerReturns,
                HandlerTimesOut, Settle, Crash
  <2> QED
    BY <1>0, <2>1
<1> QED
  BY <1>1, <1>2

LEMMA WorkersStand ==
  ASSUME NEW e \in Events, Enqueue(e) \/ Reschedule(e) \/ Retire(e) \/ Requeue(e) \/ Reap(e)
  PROVE  UNCHANGED <<worker, claims, now>>
  BY DEF Enqueue, Reschedule, Retire, Requeue, Reap

LEMMA WindowsStep == LeaseInv /\ [Next]_vars => Windows'
<1> SUFFICES ASSUME LeaseInv, [Next]_vars PROVE Windows'
  OBVIOUS
<1> USE TimesAssumption
<1>0. Shape /\ Windows /\ now \in Nat /\ worker \in [Workers -> Steps] /\ claims \in [Events -> Nat]
  BY DEF LeaseInv, Shape
<1>1. CASE Tick
  <2>1. \A w \in Workers : worker[w].pc = "claiming" => now + 1 <= worker[w].due
    BY <1>0, <1>1 DEF Tick, Urgent, Steps
  <2>2. /\ now' = now + 1 /\ now <= now'
        /\ UNCHANGED <<worker, claims>>
    BY <1>0, <1>1 DEF Tick
  <2>3. \A w \in Workers : worker[w].lockedAt <= now => worker[w].lockedAt <= now'
    BY <1>0, <2>2 DEF Steps
  <2>4. \A w \in Workers : worker[w].pc = "claiming" => now' <= worker[w].due
    BY <2>1, <2>2
  <2> QED
    BY <1>0, <2>2, <2>3, <2>4 DEF Windows, Ended, Holding
<1>2. ASSUME NEW w \in Workers, Work(w) PROVE Windows'
  <2>1. now' = now /\ \A e \in Events : claims[e] <= claims'[e]
    BY <1>0, <1>2, ClaimsGrow
  <2> DEFINE InTime(v) ==
        /\ worker[v].pc \in {"claiming"} \cup Holding => worker[v].lockedAt <= now
        /\ worker[v].pc \in {"claiming", "claimed"} => worker[v].due = worker[v].lockedAt + Latency
        /\ worker[v].pc = "claiming" => now <= worker[v].due
        /\ worker[v].pc = "settling" => worker[v].lockedAt <= Ended(v)
        /\ worker[v].outcome = "timeout" => worker[v].pc = "settling"
        /\ worker[v].pc \in Holding => worker[v].claim <= claims[worker[v].event]
  <2>2. ASSUME NEW v \in Workers, v # w PROVE InTime(v)'
    <3>1. worker'[v] = worker[v] /\ worker[v] \in Steps /\ worker[v].event \in Events
      BY <1>0, <1>2, <2>2, OthersStand DEF Steps
    <3>2. InTime(v)
      BY <1>0 DEF Windows
    <3>3. claims[worker[v].event] <= claims'[worker[v].event]
          /\ claims[worker[v].event] \in Int /\ claims'[worker[v].event] \in Int
      BY <1>0, <2>1, <3>1, ShapeStep DEF Shape
    <3> QED
      BY <2>1, <3>1, <3>2, <3>3 DEF Ended, Steps
  <2>3. InTime(w)'
    <3>1. InTime(w) /\ worker[w] \in Steps
      BY <1>0 DEF Windows
    <3>2. CASE worker' = Stopped(w)
      BY <1>0, <3>2 DEF Stopped, Idle, Holding
    <3>3. CASE ReadClock(w)
      BY <1>0, <3>1, <3>3 DEF ReadClock, Holding, Steps
    <3>4. CASE StartHandler(w)
      BY <1>0, <3>1, <3>4 DEF StartHandler, Holding, Steps
    <3>5. ASSUME NEW o, Settling(w, o), worker[w].pc = "running", UNCHANGED <<now, claims>>
          PROVE  InTime(w)'
      BY <1>0, <3>1, <3>5 DEF Settling, Holding, Steps, Ended
    <3>6. CASE Checkpoint(w)
      <4>1. CASE UNCHANGED worker
        BY <3>1, <3>6, <4>1 DEF Checkpoint, Ended
      <4>2. CASE Settling(w, "failed") /\ worker[w].pc # "settling"
        <5>1. worker[w].pc = "running"
          BY <3>1, <3>6, <4>2 DEF Checkpoint
        <5> QED
          BY <3>5, <3>6, <4>2, <5>1 DEF Checkpoint
      <4> QED
        BY <3>6, <4>1, <4>2 DEF Checkpoint
    <3>7. CASE HandlerReturns(w) \/ HandlerTimesOut(w)
      BY <3>5, <3>7 DEF HandlerReturns, HandlerTimesOut
    <3>8. ASSUME NEW e \in Events, Claim(w, e) PROVE InTime(w)'
      BY <1>0, <3>1, <3>8 DEF Claim, Holding, Steps
    <3> QED
      BY <1>2, <3>2, <3>3, <3>4, <3>6, <3>7, <3>8
      DEF Work, ClaimNothing, Release, Settle, Crash
  <2> QED
    BY <2>2, <2>3 DEF Windows
<1>3. ASSUME NEW e \in Events, Enqueue(e) \/ Reschedule(e) \/ Retire(e) \/ Requeue(e) \/ Reap(e)
      PROVE  Windows'
  BY <1>0, <1>3, WorkersStand DEF Windows, Ended
<1>4. CASE UNCHANGED vars
  BY <1>0, <1>4 DEF vars, Windows, Ended
<1> QED
  BY <1>1, <1>2, <1>3, <1>4 DEF Next

\* A worker's result takes the row out of processing, or leases it anew from the
\* end of the handler.
LEMMA ResultLease ==
  ASSUME Shape, NEW w \in Workers
  PROVE  Result(w).status # "processing" \/ Result(w).lockedAt = Ended(w)
<1> DEFINE r == row[worker[w].event]
           n == worker[w].attempts
<1>1. r \in Rows /\ n \in Nat
  BY DEF Shape, Rows, Steps
<1>2. Retried(r, w, n) \in Rows /\ Retried(r, w, n + 1) \in Rows /\ Ended(w) \in Int
  <2>1. worker[w].due \in Int
    BY DEF Shape, Steps
  <2>2. Ended(w) \in Int
    BY <2>1, TimesAssumption DEF Ended
  <2> QED
    BY <1>1, <2>2, BackoffTyped, RetriedTyped
<1>3. Retried(r, w, n).status = "pending" /\ Retried(r, w, n + 1).status = "pending"
  BY <1>1 DEF Retried, Rows
<1>4. Attempted(r, w, Retried(r, w, n + 1)).status # "processing"
  <2>1. [r EXCEPT !.attempts = n + 1, !.status = "dead_letter", !.lockedAt = NoTime].status
          = "dead_letter"
    BY <1>1 DEF Rows
  <2>2. [Retried(r, w, n + 1) EXCEPT !.attempts = n + 1].status = "pending"
    BY <1>2, <1>3 DEF Rows
  <2> QED
    BY <2>1, <2>2 DEF Attempted
<1>5. [Retried(r, w, n) EXCEPT !.attempts = n].status = "pending"
  BY <1>2, <1>3 DEF Rows
<1>6. [r EXCEPT !.status = "completed", !.lockedAt = NoTime].status = "completed"
  BY <1>1 DEF Rows
<1>7. TimedOut(r, w).status # "processing" \/ TimedOut(r, w).lockedAt = Ended(w)
  <2>1. [r EXCEPT !.attempts = n + 1, !.status = "dead_letter", !.lockedAt = NoTime].status
          = "dead_letter"
    BY <1>1 DEF Rows
  <2>2. [[r EXCEPT !.lockedAt = Ended(w)] EXCEPT !.attempts = n + 1].lockedAt = Ended(w)
    BY <1>1 DEF Rows
  <2> QED
    BY <2>1, <2>2 DEF TimedOut, Attempted
<1> QED
  BY <1>4, <1>5, <1>6, <1>7 DEF Result

Writes(w) == Release(w) \/ Checkpoint(w) \/ Settle(w)

\* A worker writes to the row of its event and to no other, under its lease.
LEMMA WritesUnderLease ==
  ASSUME Shape, Windows, NEW w \in Workers, Writes(w), NEW e \in Events, row'[e] # row[e]
  PROVE  /\ e = worker[w].event /\ LeaseHeld(w) /\ worker[w].pc \in Holding
         /\ \/ row'[e].status # "processing"
            \/ row'[e].lockedAt = row[e].lockedAt
            \/ worker[w].pc = "settling" /\ row'[e].lockedAt = Ended(w)
<1> DEFINE r == row[worker[w].event]
<1>1. row \in [Events -> Rows] /\ r \in Rows
  BY DEF Shape, Steps
<1>2. ASSUME NEW patched, UpdateIfLeaseHeld(w, patched)
      PROVE  e = worker[w].event /\ LeaseHeld(w) /\ row'[e] = patched
  BY <1>1, <1>2 DEF UpdateIfLeaseHeld
<1>3. CASE Release(w)
  <2>1. [r EXCEPT !.status = "pending", !.lockedAt = NoTime].status = "pending"
    BY <1>1 DEF Rows
  <2> QED
    BY <1>2, <1>3, <2>1 DEF Release, Holding
<1>4. CASE Checkpoint(w)
  <2>1. [r EXCEPT !.saved = worker[w].claim].lockedAt = r.lockedAt
    BY <1>1 DEF Rows
  <2>2. worker[w].pc \in Holding
    BY <1>4 DEF Checkpoint, Windows, Holding
  <2> QED
    BY <1>2, <1>4, <2>1, <2>2 DEF Checkpoint
<1>5. CASE Settle(w)
  BY <1>2, <1>5, ResultLease DEF Settle, Holding
<1> QED
  BY <1>3, <1>4, <1>5 DEF Writes

\* A worker with its lease has the latest claim.
LEMMA HeldIsCurrent ==
  ASSUME LeaseInv, NEW w \in Workers, worker[w].pc \in Holding, LeaseHeld(w)
  PROVE  Current(w)
<1>1. worker[w].lockedAt \in Int
  BY DEF LeaseInv, Shape, Steps
<1> QED
  BY <1>1 DEF LeaseInv, Leases, Superseded, LeaseHeld, Shape

Kept(v) ==
  /\ worker[v].pc \in Holding
  /\ worker'[v].event = worker[v].event /\ worker'[v].lockedAt = worker[v].lockedAt
  /\ worker'[v].claim = worker[v].claim /\ worker'[v].attempts = worker[v].attempts

\* As long as status, lease and claims of the event stand, a worker's lease does.
LEMMA LeaseStands ==
  ASSUME LeaseInv, NEW v \in Workers, Kept(v), now <= now', now' \in Nat,
         UNCHANGED claims,
         row'[worker[v].event].status = row[worker[v].event].status,
         row'[worker[v].event].lockedAt = row[worker[v].event].lockedAt
  PROVE  (Current(v) \/ Superseded(v))'
<1>1. worker[v].lockedAt \in Int /\ now \in Nat /\ StuckThreshold \in Nat
  BY TimesAssumption DEF LeaseInv, Shape, Steps
<1>2. CASE Current(v)
  BY <1>2 DEF Current, LeaseHeld, Kept
<1>3. CASE Superseded(v)
  BY <1>1, <1>3 DEF Superseded, Kept
<1> QED
  BY <1>2, <1>3 DEF LeaseInv, Leases, Kept

LEMMA LeasesStep == LeaseInv /\ [Next]_vars => Leases'
<1> SUFFICES ASSUME LeaseInv, [Next]_vars, NEW v \in Workers, (worker[v].pc \in Holding)'
             PROVE  (Current(v) \/ Superseded(v))'
  BY DEF Leases
<1> DEFINE e == worker[v].event
<1>0. /\ Shape /\ Windows /\ Shape' /\ now \in Nat /\ claims \in [Events -> Nat]
      /\ row \in [Events -> Rows] /\ worker[v] \in Steps /\ e \in Events /\ row[e] \in Rows
      /\ worker[v].lockedAt \in Int /\ row[e].lockedAt \in Int
      /\ StuckThreshold \in Nat /\ Latency \in Nat /\ Latency < StuckThreshold
  BY TimesAssumption, ShapeStep DEF LeaseInv, Shape, Steps, Rows
<1>1. CASE UNCHANGED vars
  <2>1. Kept(v)
    BY <1>1 DEF vars, Kept, Holding
  <2> QED
    BY <1>0, <1>1, <2>1, LeaseStands DEF vars
<1>2. CASE Tick
  <2>1. now' = now + 1 /\ Kept(v) /\ UNCHANGED <<row, claims>>
    BY <1>2 DEF Tick, Kept, Holding
  <2> QED
    BY <1>0, <2>1, LeaseStands
<1>3. ASSUME NEW f \in Events, Enqueue(f) \/ Reschedule(f) \/ Retire(f) \/ Requeue(f) \/ Reap(f)
      PROVE  (Current(v) \/ Superseded(v))'
  <2>1. UNCHANGED <<worker, claims, now>> /\ Kept(v)
    BY <1>3, WorkersStand DEF Kept, Holding
  <2>2. CASE e # f
    <3>1. row'[e] = row[e]
      BY <1>0, <1>3, <2>2 DEF Enqueue, Reschedule, Retire, Requeue, Reap
    <3> QED
      BY <1>0, <2>1, <3>1, LeaseStands
  <2>3. CASE e = f /\ Reap(f)
    <3>1. row'[e].status = "pending" /\ row[e].status = "processing"
          /\ row[e].lockedAt <= now - StuckThreshold
      BY <1>0, <2>3 DEF Reap, IsStuck, Rows
    <3>2. worker[v].lockedAt + StuckThreshold <= now
      <4>1. CASE Current(v)
        BY <1>0, <3>1, <4>1 DEF Current, LeaseHeld
      <4>2. CASE Superseded(v)
        BY <4>2 DEF Superseded
      <4> QED
        BY <2>1, <4>1, <4>2 DEF LeaseInv, Leases, Kept
    <3> QED
      BY <2>1, <3>1, <3>2 DEF Superseded
  <2>4. CASE e = f /\ ~Reap(f)
    <3>1. row[e].status # "processing"
      BY <1>3, <2>4 DEF Enqueue, Reschedule, Retire, Requeue
    <3>2. Superseded(v)
      BY <2>1, <3>1 DEF LeaseInv, Leases, Kept, Current, LeaseHeld
    <3>3. row'[e].status # "processing"
      <4>1. NoRow \in Rows
        BY NoTimeTyped DEF NoRow, Rows
      <4>2. ASSUME NEW at PROVE [NoRow EXCEPT !.status = "pending", !.availableAt = at].status = "pending"
        BY <4>1 DEF Rows
      <4>3. CASE Enqueue(f)
        BY <1>0, <2>4, <4>2, <4>3 DEF Enqueue
      <4>4. CASE Reschedule(f)
        BY <1>0, <2>4, <3>1, <4>4 DEF Reschedule, Rows
      <4>5. CASE Retire(f)
        BY <1>0, <2>4, <4>5 DEF Retire, Rows
      <4>6. CASE Requeue(f)
        BY <1>0, <2>4, <4>6 DEF Requeue, Rows
      <4> QED
        BY <1>3, <2>4, <4>3, <4>4, <4>5, <4>6
    <3> QED
      BY <2>1, <3>2, <3>3 DEF Superseded
  <2> QED
    BY <2>2, <2>3, <2>4
<1>4. ASSUME NEW w \in Workers, NEW f \in Events, Claim(w, f)
      PROVE  (Current(v) \/ Superseded(v))'
  <2>0. /\ worker[w] \in Steps /\ row[f] \in Rows /\ now' = now /\ worker[w].lockedAt \in Int
    BY <1>0, <1>4 DEF Shape, Claim, Steps
  <2>1. row'[f].status = "processing" /\ row'[f].lockedAt = worker[w].lockedAt
        /\ row[f].status = "pending" /\ claims'[f] = claims[f] + 1
    BY <1>0, <1>4, <2>0 DEF Claim, Rows
  <2>2. CASE v = w
    <3>1. worker'[v].event = f /\ worker'[v].lockedAt = worker[v].lockedAt
          /\ worker'[v].claim = claims[f] + 1
      BY <1>0, <1>4, <2>2 DEF Claim, Shape, Steps
    <3> QED
      BY <2>1, <2>2, <3>1 DEF Current, LeaseHeld
  <2>3. CASE v # w
    <3>1. worker'[v] = worker[v]
      BY <1>0, <1>4, <2>3, OthersStand DEF Work
    <3>2. Kept(v)
      BY <3>1 DEF Kept, Holding
    <3>3. CASE e # f
      <4>1. row'[e] = row[e] /\ claims'[e] = claims[e]
        BY <1>0, <1>4, <3>3 DEF Claim
      <4>2. CASE Current(v)
        BY <3>1, <4>1, <4>2 DEF Current, LeaseHeld
      <4>3. CASE Superseded(v)
        BY <2>0, <3>1, <4>1, <4>3 DEF Superseded
      <4> QED
        BY <3>2, <4>2, <4>3 DEF LeaseInv, Leases, Kept
    <3>4. CASE e = f
      <4>1. Superseded(v)
        BY <2>1, <3>2, <3>4 DEF LeaseInv, Leases, Kept, Current, LeaseHeld
      <4>2. now <= worker[w].lockedAt + Latency
        BY <1>0, <1>4 DEF Windows, Claim
      <4>3. worker[v].lockedAt < worker[w].lockedAt
        BY <1>0, <2>0, <4>1, <4>2 DEF Superseded
      <4> QED
        BY <2>0, <2>1, <3>1, <3>4, <4>1, <4>3 DEF Superseded
    <3> QED
      BY <3>3, <3>4
  <2> QED
    BY <2>2, <2>3
<1>5. ASSUME NEW w \in Workers, Work(w), ~\E f \in Events : Claim(w, f)
      PROVE  (Current(v) \/ Superseded(v))'
  <2>1. UNCHANGED <<now, claims>>
    BY <1>5 DEF Work, ReadClock, ClaimNothing, Release, StartHandler, Checkpoint, HandlerReturns,
                HandlerTimesOut, Settle, Crash
  <2>2. Kept(v)
    <3>1. CASE v # w
      BY <1>0, <1>5, <3>1, OthersStand DEF Kept, Holding
    <3>2. CASE v = w
      <4>1. worker' # Stopped(w) /\ ~ReadClock(w)
        <5>1. worker'[w].pc \notin {"idle", "claiming"}
          BY <3>2 DEF Holding
        <5>2. worker \in [Workers -> Steps]
          BY <1>0 DEF Shape
        <5>3. Stopped(w)[w].pc = "idle"
          BY <5>2 DEF Stopped, Idle
        <5>4. ReadClock(w) => worker'[w].pc = "claiming"
          BY <5>2 DEF ReadClock, Steps
        <5> QED
          BY <5>1, <5>3, <5>4
      <4>2. StartHandler(w) \/ Checkpoint(w) \/ HandlerReturns(w) \/ HandlerTimesOut(w)
        BY <1>5, <4>1 DEF Work, ClaimNothing, Release, Settle, Crash
      <4>3. worker[w].pc \in Holding
        BY <1>0, <4>2 DEF StartHandler, Checkpoint, HandlerReturns, HandlerTimesOut, Holding, Windows
      <4> QED
        BY <1>0, <3>2, <4>2, <4>3
        DEF Kept, StartHandler, Checkpoint, HandlerReturns, HandlerTimesOut, Settling, Shape, Steps
    <3> QED
      BY <3>1, <3>2
  <2>3. CASE row'[e] = row[e]
    BY <1>0, <2>1, <2>2, <2>3, LeaseStands
  <2>4. CASE row'[e] # row[e]
    <3>1. Writes(w)
      BY <1>5, <2>4 DEF Work, Writes, ReadClock, ClaimNothing, StartHandler, HandlerReturns,
                        HandlerTimesOut, Crash
    <3>2. /\ e = worker[w].event /\ LeaseHeld(w) /\ worker[w].pc \in Holding
          /\ \/ row'[e].status # "processing"
             \/ row'[e].lockedAt = row[e].lockedAt
             \/ worker[w].pc = "settling" /\ row'[e].lockedAt = Ended(w)
      BY <1>0, <2>4, <3>1, WritesUnderLease
    <3>3. Current(w)
      BY <3>2, HeldIsCurrent
    <3>4. CASE v # w
      <4>1. ~Current(v)
        BY <2>2, <3>2, <3>3, <3>4 DEF LeaseInv, Distinct, Current, Kept
      <4>2. Superseded(v)
        BY <2>2, <4>1 DEF LeaseInv, Leases, Kept
      <4>3. worker[v].lockedAt < row[e].lockedAt /\ row[e].lockedAt = worker[w].lockedAt
        BY <3>2, <4>2 DEF Superseded, LeaseHeld
      <4>4. worker[w].pc = "settling" => worker[w].lockedAt <= Ended(w) /\ Ended(w) \in Int
        BY <1>0, TimesAssumption DEF Windows, Ended, Shape, Steps
      <4>5. row'[e].status = "processing" => worker[v].lockedAt < row'[e].lockedAt
        BY <1>0, <3>2, <4>3, <4>4
      <4> QED
        BY <2>1, <2>2, <4>2, <4>5 DEF Superseded, Kept
    <3>5. CASE v = w
      <4>1. Checkpoint(w)
        BY <1>0, <3>1, <3>5 DEF Writes, Release, Settle, Stopped, Idle, Holding, Shape
      <4>2. row'[e] = [row[e] EXCEPT !.saved = worker[w].claim]
        BY <1>0, <3>2, <4>1 DEF Checkpoint, UpdateIfLeaseHeld
      <4>3. row'[e].status = row[e].status /\ row'[e].lockedAt = row[e].lockedAt
        BY <1>0, <4>2 DEF Rows
      <4> QED
        BY <1>0, <2>1, <2>2, <4>3, LeaseStands
    <3> QED
      BY <3>4, <3>5
  <2> QED
    BY <2>3, <2>4
<1> QED
  BY <1>1, <1>2, <1>3, <1>4, <1>5 DEF Next

\* Only a claim brings a worker to hold an event, or changes what it holds.
LEMMA KeptUnlessClaimed ==
  ASSUME LeaseInv, [Next]_vars, NEW v \in Workers, (worker[v].pc \in Holding)',
         ~\E f \in Events : Claim(v, f)
  PROVE  Kept(v)
<1>0. worker \in [Workers -> Steps] /\ Shape /\ Windows
  BY DEF LeaseInv, Shape
<1>1. CASE worker'[v] = worker[v]
  BY <1>1 DEF Kept, Holding
<1>2. CASE Work(v)
  <2>1. worker'[v].pc \notin {"idle", "claiming"}
    BY DEF Holding
  <2>2. Stopped(v)[v].pc = "idle"
    BY <1>0 DEF Stopped, Idle
  <2>3. ReadClock(v) => worker'[v].pc = "claiming"
    BY <1>0 DEF ReadClock, Steps
  <2>4. StartHandler(v) \/ Checkpoint(v) \/ HandlerReturns(v) \/ HandlerTimesOut(v)
    BY <1>2, <2>1, <2>2, <2>3 DEF Work, ClaimNothing, Release, Settle, Crash
  <2>5. worker[v].pc \in Holding
    BY <1>0, <2>4 DEF StartHandler, Checkpoint, HandlerReturns, HandlerTimesOut, Holding, Windows
  <2> QED
    BY <1>0, <2>4, <2>5
    DEF Kept, StartHandler, Checkpoint, HandlerReturns, HandlerTimesOut, Settling, Steps
<1>3. ASSUME NEW w \in Workers, Work(w), w # v PROVE worker'[v] = worker[v]
  BY <1>0, <1>3, OthersStand
<1>4. CASE Tick \/ UNCHANGED vars
  BY <1>1, <1>4 DEF Tick, vars
<1> QED
  BY <1>1, <1>2, <1>3, <1>4, WorkersStand DEF Next

LEMMA DistinctStep == LeaseInv /\ [Next]_vars => Distinct'
<1> SUFFICES ASSUME LeaseInv, [Next]_vars, NEW v \in Workers, NEW w \in Workers,
                    (worker[v].pc \in Holding)', (worker[w].pc \in Holding)',
                    worker'[v].event = worker'[w].event, worker'[v].claim = worker'[w].claim
             PROVE  v = w
  BY DEF Distinct
<1>0. /\ worker \in [Workers -> Steps] /\ claims \in [Events -> Nat] /\ Windows
      /\ Shape
  BY DEF LeaseInv, Shape
\* The claim a worker has just made is greater than all others of the event.
<1>1. ASSUME NEW x \in Workers, NEW y \in Workers, NEW f \in Events, Claim(x, f), x # y,
             Kept(y), worker[y].event = f
      PROVE  worker'[x].claim # worker'[y].claim
  <2>1. worker'[x].claim = claims[f] + 1
    BY <1>0, <1>1 DEF Claim, Steps
  <2>2. worker[y].claim <= claims[f] /\ worker[y].claim \in Int
    BY <1>0, <1>1 DEF Windows, Kept, Steps
  <2>3. worker'[y].claim = worker[y].claim
    BY <1>1 DEF Kept
  <2> QED
    BY <1>0, <2>1, <2>2, <2>3
<1>2. CASE Kept(v) /\ Kept(w)
  BY <1>2 DEF LeaseInv, Distinct, Kept
<1>3. ASSUME NEW x \in Workers, NEW y \in Workers, NEW f \in Events, Claim(x, f), x # y,
             (worker[y].pc \in Holding)'
      PROVE  Kept(y) /\ worker'[x].event = f
  <2>1. worker'[y] = worker[y]
    BY <1>0, <1>3, OthersStand DEF Work
  <2> QED
    BY <1>0, <1>3, <2>1 DEF Kept, Holding, Claim, Steps
<1>4. ASSUME NEW f \in Events, Claim(v, f), v # w PROVE FALSE
  BY <1>1, <1>3, <1>4 DEF Kept
<1>5. ASSUME NEW f \in Events, Claim(w, f), v # w PROVE FALSE
  BY <1>1, <1>3, <1>5 DEF Kept
<1> QED
  BY <1>2, <1>4, <1>5, KeptUnlessClaimed

\* A result leaves the checkpointed payload alone.
LEMMA ResultSaved ==
  ASSUME Shape, NEW w \in Workers
  PROVE  Result(w).saved = row[worker[w].event].saved
<1> DEFINE r == row[worker[w].event]
           n == worker[w].attempts
<1>1. r \in Rows /\ n \in Nat
  BY DEF Shape, Rows, Steps
<1>2. Ended(w) \in Int
  BY TimesAssumption DEF Ended, Shape, Steps
<1>3. Retried(r, w, n) \in Rows /\ Retried(r, w, n + 1) \in Rows
  BY <1>1, <1>2, BackoffTyped, RetriedTyped
<1>4. Retried(r, w, n).saved = r.saved /\ Retried(r, w, n + 1).saved = r.saved
  BY <1>1 DEF Retried, Rows
<1>5. ASSUME NEW again \in Rows, again.saved = r.saved
      PROVE  Attempted(r, w, again).saved = r.saved
  <2>1. [r EXCEPT !.attempts = n + 1, !.status = "dead_letter", !.lockedAt = NoTime].saved = r.saved
    BY <1>1 DEF Rows
  <2>2. [again EXCEPT !.attempts = n + 1].saved = r.saved
    BY <1>5 DEF Rows
  <2> QED
    BY <2>1, <2>2 DEF Attempted
<1>6. [Retried(r, w, n) EXCEPT !.attempts = n].saved = r.saved
  BY <1>3, <1>4 DEF Rows
<1>7. [r EXCEPT !.status = "completed", !.lockedAt = NoTime].saved = r.saved
  BY <1>1 DEF Rows
<1>8. [r EXCEPT !.lockedAt = Ended(w)] \in Rows /\ [r EXCEPT !.lockedAt = Ended(w)].saved = r.saved
  BY <1>1, <1>2 DEF Rows
<1>9. TimedOut(r, w).saved = r.saved
  BY <1>5, <1>8 DEF TimedOut
<1> QED
  BY <1>3, <1>4, <1>5, <1>6, <1>7, <1>9 DEF Result

LEMMA CheckpointsSave ==
  ASSUME Shape, Next, NEW e \in Events, row'[e].saved # row[e].saved, row'[e].saved # 0
  PROVE  \E w \in Workers : Checkpoint(w)
<1>0. row \in [Events -> Rows] /\ worker \in [Workers -> Steps]
  BY DEF Shape
<1>1. ASSUME NEW f \in Events, Enqueue(f) \/ Reschedule(f) \/ Retire(f) \/ Requeue(f) \/ Reap(f)
      PROVE  FALSE
  <2>1. CASE Enqueue(f)
    <3>1. NoRow \in Rows /\ NoRow.saved = 0
      BY NoTimeTyped DEF NoRow, Rows
    <3>2. ASSUME NEW at PROVE [NoRow EXCEPT !.status = "pending", !.availableAt = at].saved = 0
      BY <3>1 DEF Rows
    <3> QED
      BY <1>0, <2>1, <3>2 DEF Enqueue
  <2>2. CASE Reschedule(f)
    BY <1>0, <2>2 DEF Reschedule, Rows
  <2>3. CASE Retire(f)
    BY <1>0, <2>3 DEF Retire, Rows
  <2>4. CASE Requeue(f)
    BY <1>0, <2>4 DEF Requeue, Rows
  <2>5. CASE Reap(f)
    BY <1>0, <2>5 DEF Reap, Rows
  <2> QED
    BY <1>1, <2>1, <2>2, <2>3, <2>4, <2>5
<1>2. ASSUME NEW w \in Workers, NEW f \in Events, Claim(w, f) PROVE FALSE
  BY <1>0, <1>2 DEF Claim, Rows
<1>3. ASSUME NEW w \in Workers, Release(w) PROVE FALSE
  BY <1>0, <1>3 DEF Release, UpdateIfLeaseHeld, Rows, Steps
<1>4. ASSUME NEW w \in Workers, Settle(w) PROVE FALSE
  BY <1>0, <1>4, ResultSaved DEF Settle, UpdateIfLeaseHeld, Steps
<1>5. row' # row
  OBVIOUS
<1> QED
  BY <1>1, <1>2, <1>3, <1>4, <1>5
  DEF Next, Work, Tick, ReadClock, ClaimNothing, StartHandler, HandlerReturns, HandlerTimesOut, Crash

\* The inductive invariant holds: a worker past its claim either has the latest claim
\* and its lease, or a lease older than any the row still carries.
THEOREM LeasesSound == Spec => []LeaseInv
<1>1. LeaseInv /\ [Next]_vars => LeaseInv'
  BY ShapeStep, WindowsStep, LeasesStep, DistinctStep DEF LeaseInv
<1> QED
  BY InitLease, <1>1, PTL DEF Spec

\* Only the worker with the latest claim of an event writes to it, whatever
\* happens to the others: a slow handler whose lease was reaped is not mistaken
\* for the worker that claimed the event after it.
THEOREM LatestClaimWrites == Spec => NoClobber
<1> DEFINE A == /\ \A w \in Workers : worker[w].pc \in Holding /\ worker'[w] # worker[w] /\ row' # row
                                        => worker[w].claim = claims[worker[w].event]
                /\ \A e \in Events : row'[e].saved # row[e].saved /\ row'[e].saved # 0
                                        => row'[e].saved = claims[e]
<1>1. ASSUME LeaseInv, [Next]_vars PROVE [A]_vars
  <2> SUFFICES ASSUME Next PROVE A
    BY <1>1
  <2>0. /\ Shape /\ Windows /\ worker \in [Workers -> Steps] /\ row \in [Events -> Rows]
        /\ row' \in [Events -> Rows]
    BY <1>1, ShapeStep DEF LeaseInv, Shape
  <2>1. ASSUME NEW w \in Workers, Writes(w), row' # row
        PROVE  worker[w].pc \in Holding /\ Current(w)
    <3>1. PICK e \in Events : row'[e] # row[e]
      BY <2>0, <2>1
    <3>2. worker[w].pc \in Holding /\ LeaseHeld(w)
      BY <2>0, <2>1, <3>1, WritesUnderLease
    <3> QED
      BY <1>1, <3>2, HeldIsCurrent
  <2>2. ASSUME NEW w \in Workers, worker[w].pc \in Holding, worker'[w] # worker[w], row' # row
        PROVE  worker[w].claim = claims[worker[w].event]
    <3>1. Work(w)
      <4>1. \A v \in Workers : Work(v) => v = w
        BY <2>0, <2>2, OthersStand
      <4>2. \A e \in Events : ~(Enqueue(e) \/ Reschedule(e) \/ Retire(e) \/ Requeue(e) \/ Reap(e))
        BY <2>2, WorkersStand
      <4>3. ~Tick
        BY <2>2 DEF Tick
      <4> QED
        BY <4>1, <4>2, <4>3 DEF Next
    <3>2. Writes(w)
      BY <2>2, <3>1 DEF Work, Writes, ReadClock, Claim, ClaimNothing, StartHandler, HandlerReturns,
                        HandlerTimesOut, Crash, Holding
    <3> QED
      BY <2>1, <2>2, <3>2 DEF Current
  <2>3. ASSUME NEW e \in Events, row'[e].saved # row[e].saved, row'[e].saved # 0
        PROVE  row'[e].saved = claims[e]
    <3>1. PICK w \in Workers : Checkpoint(w)
      BY <2>0, <2>3, CheckpointsSave
    <3>2. e = worker[w].event /\ LeaseHeld(w) /\ Current(w)
      <4>1. Writes(w) /\ row'[e] # row[e] /\ row' # row
        BY <2>3, <3>1 DEF Writes
      <4> QED
        BY <2>0, <2>1, <4>1, WritesUnderLease
    <3>3. row' = [row EXCEPT ![e] = [row[e] EXCEPT !.saved = worker[w].claim]]
      BY <3>1, <3>2 DEF Checkpoint, UpdateIfLeaseHeld
    <3>4. row'[e].saved = worker[w].claim
      BY <2>0, <3>3 DEF Rows
    <3> QED
      BY <3>2, <3>4 DEF Current
  <2> QED
    BY <2>2, <2>3
<1> QED
  BY LeasesSound, <1>1, PTL DEF Spec, NoClobber

------------------------------------------------------------------------------
(* What becomes of a completed event, and of attempts.                      *)

\* After a step of the business or the reaper a row is nobody's.
LEMMA OperatorsFree ==
  ASSUME row \in [Events -> Rows], NEW e \in Events,
         Enqueue(e) \/ Reschedule(e) \/ Retire(e) \/ Requeue(e) \/ Reap(e)
  PROVE  row'[e].status # "processing"
<1>1. CASE Enqueue(e)
  <2>1. NoRow \in Rows
    BY NoTimeTyped DEF NoRow, Rows
  <2>2. ASSUME NEW at PROVE [NoRow EXCEPT !.status = "pending", !.availableAt = at].status = "pending"
    BY <2>1 DEF Rows
  <2> QED
    BY <1>1, <2>2 DEF Enqueue
<1>2. CASE Reschedule(e)
  BY <1>2 DEF Reschedule, Rows
<1>3. CASE Retire(e)
  BY <1>3 DEF Retire, Rows
<1>4. CASE Requeue(e)
  BY <1>4 DEF Requeue, Rows
<1>5. CASE Reap(e)
  BY <1>5 DEF Reap, Rows
<1> QED
  BY <1>1, <1>2, <1>3, <1>4, <1>5

\* Whoever changes the row of an event acts on that event.
LEMMA WhoWrites ==
  ASSUME LeaseInv, [Next]_vars, NEW e \in Events, row'[e] # row[e]
  PROVE  \/ Enqueue(e) \/ Reschedule(e) \/ Retire(e) \/ Requeue(e) \/ Reap(e)
         \/ \E w \in Workers : Claim(w, e)
         \/ \E w \in Workers : /\ Writes(w) /\ worker[w].pc \in Holding
                               /\ worker[w].event = e /\ LeaseHeld(w)
<1>0. Shape /\ Windows /\ row \in [Events -> Rows]
  BY DEF LeaseInv, Shape
<1>1. ASSUME NEW f \in Events, Enqueue(f) \/ Reschedule(f) \/ Retire(f) \/ Requeue(f) \/ Reap(f)
      PROVE  e = f
  BY <1>0, <1>1 DEF Enqueue, Reschedule, Retire, Requeue, Reap
<1>2. ASSUME NEW w \in Workers, NEW f \in Events, Claim(w, f) PROVE e = f
  BY <1>0, <1>2 DEF Claim
<1>3. ASSUME NEW w \in Workers, Writes(w)
      PROVE  worker[w].pc \in Holding /\ worker[w].event = e /\ LeaseHeld(w)
  BY <1>0, <1>3, WritesUnderLease
<1>4. row' # row
  OBVIOUS
<1> QED
  BY <1>1, <1>2, <1>3, <1>4
  DEF Next, Work, Tick, ReadClock, ClaimNothing, StartHandler, HandlerReturns, HandlerTimesOut,
      Crash, Writes, vars

\* A completed event stays completed: nobody enqueues, reschedules, retires,
\* requeues, reaps or claims it, and whoever ran it has no lease on it.
THEOREM CompletedKept == Spec => CompletedStays
<1> DEFINE A == \A e \in Events : row[e].status = "completed" => row'[e].status = "completed"
<1>1. ASSUME LeaseInv, [Next]_vars PROVE [A]_vars
  <2> SUFFICES ASSUME NEW e \in Events, row[e].status = "completed", row'[e] # row[e] PROVE FALSE
    OBVIOUS
  <2> QED
    BY <1>1, WhoWrites DEF Enqueue, Reschedule, Retire, Requeue, Reap, Claim, LeaseHeld
<1> QED
  BY LeasesSound, <1>1, PTL DEF Spec, CompletedStays

\* The attempts a worker counted from its copy are those of the row.
Counted ==
  /\ \A w \in Workers : worker[w].pc \in Holding /\ Current(w)
                          => worker[w].attempts = row[worker[w].event].attempts
  /\ \A e \in Events : row[e].status = "absent" => row[e].attempts = 0

\* A lease once lost is not regained.
LEMMA StillCurrent ==
  ASSUME LeaseInv, [Next]_vars, NEW v \in Workers, Kept(v), Current(v)'
  PROVE  Current(v)
<1> DEFINE e == worker[v].event
<1>0. /\ Shape /\ row \in [Events -> Rows] /\ worker \in [Workers -> Steps] /\ e \in Events
      /\ claims \in [Events -> Nat] /\ worker[v].claim <= claims[e] /\ worker[v].claim \in Int
  BY DEF LeaseInv, Shape, Steps, Windows, Kept
<1>1. row'[e].status = "processing" /\ row'[e].lockedAt = worker[v].lockedAt
      /\ worker[v].claim = claims'[e]
  BY DEF Current, LeaseHeld, Kept
<1>2. ~\E w \in Workers : Claim(w, e)
  <2> SUFFICES ASSUME NEW w \in Workers, Claim(w, e) PROVE FALSE
    OBVIOUS
  <2>1. claims'[e] = claims[e] + 1
    BY <1>0 DEF Claim
  <2> QED
    BY <1>0, <1>1, <2>1
<1>3. claims'[e] = claims[e]
  <2>1. ASSUME NEW w \in Workers, NEW f \in Events, Claim(w, f) PROVE claims'[e] = claims[e]
    <3>1. f # e
      BY <1>2, <2>1
    <3> QED
      BY <1>0, <2>1, <3>1 DEF Claim
  <2>2. ASSUME NEW w \in Workers, Work(w), ~\E f \in Events : Claim(w, f)
        PROVE  UNCHANGED claims
    BY <2>2 DEF Work, ReadClock, ClaimNothing, Release, StartHandler, Checkpoint, HandlerReturns,
                HandlerTimesOut, Settle, Crash
  <2>3. CASE Tick \/ UNCHANGED vars
    BY <2>3 DEF Tick, vars
  <2> QED
    BY <2>1, <2>2, <2>3, WorkersStand DEF Next
<1>4. CASE row'[e] = row[e]
  BY <1>1, <1>3, <1>4 DEF Current, LeaseHeld
<1>5. ASSUME NEW w \in Workers, worker[w].pc \in Holding, worker[w].event = e, LeaseHeld(w)
      PROVE  Current(v)
  <2>1. Current(w)
    BY <1>5, HeldIsCurrent
  <2>2. v = w
    BY <1>1, <1>3, <1>5, <2>1 DEF LeaseInv, Distinct, Current, Kept
  <2> QED
    BY <2>1, <2>2
<1>6. ~(Enqueue(e) \/ Reschedule(e) \/ Retire(e) \/ Requeue(e) \/ Reap(e))
  BY <1>0, <1>1, OperatorsFree
<1> QED
  BY <1>0, <1>2, <1>4, <1>5, <1>6, WhoWrites

\* What the result of a handler makes of the attempts.
LEMMA ResultCounts ==
  ASSUME Shape, NEW w \in Workers, worker[w].attempts = row[worker[w].event].attempts,
         row[worker[w].event].status = "processing"
  PROVE  /\ row[worker[w].event].attempts <= Result(w).attempts
         /\ Result(w).status # "absent"
<1> DEFINE r == row[worker[w].event]
           n == worker[w].attempts
           Fine(x) == x.status # "absent" /\ n <= x.attempts
<1>1. r \in Rows /\ n \in Nat /\ n = r.attempts /\ r.status = "processing"
  BY DEF Shape, Rows, Steps
<1>2. Ended(w) \in Int
  BY TimesAssumption DEF Ended, Shape, Steps
<1>3. Retried(r, w, n) \in Rows /\ Retried(r, w, n + 1) \in Rows
  BY <1>1, <1>2, BackoffTyped, RetriedTyped
<1>4. Retried(r, w, n).status = "pending" /\ Retried(r, w, n + 1).status = "pending"
  BY <1>1 DEF Retried, Rows
<1>5. ASSUME NEW again \in Rows, again.status # "absent" PROVE Fine(Attempted(r, w, again))
  <2>1. Fine([r EXCEPT !.attempts = n + 1, !.status = "dead_letter", !.lockedAt = NoTime])
    BY <1>1 DEF Rows
  <2>2. Fine([again EXCEPT !.attempts = n + 1])
    BY <1>1, <1>5 DEF Rows
  <2> QED
    BY <2>1, <2>2 DEF Attempted
<1>6. Fine([Retried(r, w, n) EXCEPT !.attempts = n])
  BY <1>1, <1>3, <1>4 DEF Rows
<1>7. Fine([r EXCEPT !.status = "completed", !.lockedAt = NoTime])
  BY <1>1 DEF Rows
<1>8. [r EXCEPT !.lockedAt = Ended(w)] \in Rows /\ [r EXCEPT !.lockedAt = Ended(w)].status = r.status
  BY <1>1, <1>2 DEF Rows
<1>9. Fine(TimedOut(r, w))
  BY <1>1, <1>5, <1>8 DEF TimedOut
<1>10. Fine(Attempted(r, w, Retried(r, w, n + 1)))
  BY <1>3, <1>4, <1>5
<1>11. Fine(Result(w))
  <2> HIDE DEF Fine
  <2> QED
    BY <1>6, <1>7, <1>9, <1>10 DEF Result
<1> QED
  BY <1>1, <1>11

\* Every write keeps the attempts of a row that is not a dead letter.
LEMMA WritesCount ==
  ASSUME LeaseInv, Counted, [Next]_vars, NEW e \in Events, row'[e] # row[e],
         row[e].status # "dead_letter"
  PROVE  row[e].attempts <= row'[e].attempts /\ row'[e].status # "absent"
<1>0. /\ Shape /\ Windows /\ row \in [Events -> Rows] /\ row[e] \in Rows
      /\ row[e].attempts \in Nat /\ worker \in [Workers -> Steps]
  BY DEF LeaseInv, Shape, Rows
<1>1. CASE Enqueue(e)
  <2>1. NoRow \in Rows /\ NoRow.attempts = 0
    BY NoTimeTyped DEF NoRow, Rows
  <2>2. ASSUME NEW at
        PROVE  /\ [NoRow EXCEPT !.status = "pending", !.availableAt = at].attempts = 0
               /\ [NoRow EXCEPT !.status = "pending", !.availableAt = at].status = "pending"
    BY <2>1 DEF Rows
  <2>3. row[e].attempts = 0
    BY <1>1 DEF Enqueue, Counted
  <2> QED
    BY <1>0, <1>1, <2>2, <2>3 DEF Enqueue
<1>2. CASE Reschedule(e)
  BY <1>0, <1>2 DEF Reschedule, Rows
<1>3. CASE Retire(e)
  BY <1>0, <1>3 DEF Retire, Rows
<1>4. CASE Requeue(e)
  BY <1>4 DEF Requeue
<1>5. CASE Reap(e)
  BY <1>0, <1>5 DEF Reap, Rows
<1>6. ASSUME NEW w \in Workers, Claim(w, e)
      PROVE  row[e].attempts <= row'[e].attempts /\ row'[e].status # "absent"
  BY <1>0, <1>6 DEF Claim, Rows
<1>7. ASSUME NEW w \in Workers, Writes(w), worker[w].pc \in Holding, worker[w].event = e, LeaseHeld(w)
      PROVE  row[e].attempts <= row'[e].attempts /\ row'[e].status # "absent"
  <2>1. row[e].status = "processing"
    BY <1>7 DEF LeaseHeld
  <2>2. ASSUME NEW patched, UpdateIfLeaseHeld(w, patched) PROVE row'[e] = patched
    BY <1>0, <1>7, <2>2 DEF UpdateIfLeaseHeld
  <2>3. CASE Release(w)
    <3>1. row'[e] = [row[e] EXCEPT !.status = "pending", !.lockedAt = NoTime]
      BY <1>7, <2>2, <2>3 DEF Release
    <3> QED
      BY <1>0, <3>1 DEF Rows
  <2>4. CASE Checkpoint(w)
    <3>1. row'[e] = [row[e] EXCEPT !.saved = worker[w].claim]
      BY <1>7, <2>2, <2>4 DEF Checkpoint
    <3> QED
      BY <1>0, <2>1, <3>1 DEF Rows
  <2>5. CASE Settle(w)
    <3>1. row'[e] = Result(w)
      BY <2>2, <2>5 DEF Settle
    <3>2. worker[w].attempts = row[e].attempts
      BY <1>7, HeldIsCurrent DEF Counted
    <3> QED
      BY <1>0, <1>7, <2>1, <3>1, <3>2, ResultCounts
  <2> QED
    BY <1>7, <2>3, <2>4, <2>5 DEF Writes
<1> QED
  BY <1>1, <1>2, <1>3, <1>4, <1>5, <1>6, <1>7, WhoWrites

LEMMA CountedStep == LeaseInv /\ Counted /\ [Next]_vars => Counted'
<1> SUFFICES ASSUME LeaseInv, Counted, [Next]_vars PROVE Counted'
  OBVIOUS
<1>0. Shape /\ Windows /\ row \in [Events -> Rows] /\ worker \in [Workers -> Steps]
  BY DEF LeaseInv, Shape
<1>1. ASSUME NEW e \in Events, row'[e].status = "absent" PROVE row'[e].attempts = 0
  <2>1. CASE row'[e] = row[e]
    BY <1>1, <2>1 DEF Counted
  <2>2. CASE row'[e] # row[e] /\ row[e].status = "dead_letter"
    <3>1. Requeue(e)
      BY <2>2, WhoWrites DEF Enqueue, Reschedule, Retire, Reap, Claim, LeaseHeld
    <3> QED
      BY <1>0, <1>1, <3>1 DEF Requeue, Rows
  <2> QED
    BY <1>1, <2>1, <2>2, WritesCount
<1>2. ASSUME NEW v \in Workers, (worker[v].pc \in Holding)', Current(v)'
      PROVE  worker'[v].attempts = row'[worker'[v].event].attempts
  <2>1. ASSUME NEW f \in Events, Claim(v, f)
        PROVE  worker'[v].attempts = row'[worker'[v].event].attempts
    BY <1>0, <2>1 DEF Claim, Rows, Steps
  <2>2. CASE ~\E f \in Events : Claim(v, f)
    <3> DEFINE e == worker[v].event
    <3>1. Kept(v)
      BY <1>2, <2>2, KeptUnlessClaimed
    <3>2. Current(v) /\ e \in Events
      BY <1>0, <1>2, <3>1, StillCurrent DEF Steps
    <3>3. worker'[v].attempts = worker[v].attempts /\ worker'[v].event = e
          /\ worker[v].attempts = row[e].attempts
      BY <3>1, <3>2 DEF Kept, Counted
    <3>4. row'[e].attempts = row[e].attempts
      <4> SUFFICES ASSUME row'[e] # row[e] PROVE row'[e].attempts = row[e].attempts
        OBVIOUS
      <4>1. row[e].status = "processing" /\ row'[e].status = "processing"
        BY <1>2, <3>2, <3>3 DEF Current, LeaseHeld
      <4>2. ~(Enqueue(e) \/ Reschedule(e) \/ Retire(e) \/ Requeue(e) \/ Reap(e))
        BY <1>0, <3>2, <4>1, OperatorsFree
      <4>3. ~\E w \in Workers : Claim(w, e)
        BY <4>1 DEF Claim
      <4>4. PICK w \in Workers : Writes(w) /\ worker[w].pc \in Holding /\ worker[w].event = e
                                 /\ LeaseHeld(w)
        BY <3>2, <4>2, <4>3, WhoWrites
      <4>5. w = v
        <5>1. Current(w)
          BY <4>4, HeldIsCurrent
        <5> QED
          BY <3>1, <3>2, <4>4, <5>1 DEF LeaseInv, Distinct, Current, Kept
      <4>6. Checkpoint(v)
        <5>1. Stopped(v)[v].pc = "idle"
          BY <1>0 DEF Stopped, Idle
        <5> QED
          BY <1>2, <4>4, <4>5, <5>1 DEF Writes, Release, Settle, Holding
      <4>7. row' = [row EXCEPT ![e] = [row[e] EXCEPT !.saved = worker[v].claim]]
        BY <4>4, <4>5, <4>6 DEF Checkpoint, UpdateIfLeaseHeld
      <4> QED
        BY <1>0, <3>2, <4>7 DEF Rows
    <3> QED
      BY <3>3, <3>4
  <2> QED
    BY <2>1, <2>2
<1> QED
  BY <1>1, <1>2 DEF Counted

LEMMA InitHolds == Init => \A w \in Workers : worker[w].pc \notin Holding
<1> SUFFICES ASSUME Init, NEW w \in Workers PROVE worker[w].pc \notin Holding
  OBVIOUS
<1>1. PICK e \in Events : worker[w] = Idle(e)
  BY DEF Init
<1> QED
  BY <1>1 DEF Idle, Holding

LEMMA InitCounted == Init => Counted
  BY InitHolds DEF Init, Counted, NoRow

\* No used-up attempt is forgotten, short of an operator's requeue: whoever
\* writes attempts has the lease, and whoever has the lease counted from what the
\* row still says.
THEOREM AttemptsKept == Spec => AttemptsNeverLost
<1> DEFINE A == \A e \in Events : row'[e].attempts < row[e].attempts => row[e].status = "dead_letter"
<1>1. ASSUME LeaseInv, Counted, [Next]_vars PROVE [A]_vars
  <2> SUFFICES ASSUME NEW e \in Events, row'[e].attempts < row[e].attempts,
                      row[e].status # "dead_letter", row'[e] # row[e]
               PROVE  FALSE
    BY <1>1 DEF LeaseInv, Shape, Rows
  <2>1. row[e].attempts \in Nat /\ row'[e].attempts \in Nat
    BY <1>1, ShapeStep DEF LeaseInv, Shape, Rows
  <2> QED
    BY <1>1, <2>1, WritesCount
<1> QED
  BY LeasesSound, InitCounted, <1>1, CountedStep, PTL DEF Spec, AttemptsNeverLost

------------------------------------------------------------------------------
(* Punctual workers.                                                         *)

\* A punctual worker is done with its claim before the lease is reaped.
OnTime ==
  \A w \in Workers :
    /\ worker[w].pc \in Holding => now <= worker[w].due
    /\ worker[w].pc = "running"
         => worker[w].due <= worker[w].lockedAt + Latency + HandlerTimeout
    /\ worker[w].pc = "settling"
         => worker[w].due <= worker[w].lockedAt + 2 * Latency + HandlerTimeout

LEMMA OnTimeStep == Punctual /\ LeaseInv /\ OnTime /\ [Next]_vars => OnTime'
<1> SUFFICES ASSUME Punctual, LeaseInv, OnTime, [Next]_vars, NEW w \in Workers
             PROVE  /\ (worker[w].pc \in Holding)' => now' <= worker'[w].due
                    /\ worker'[w].pc = "running"
                         => worker'[w].due <= worker'[w].lockedAt + Latency + HandlerTimeout
                    /\ worker'[w].pc = "settling"
                         => worker'[w].due <= worker'[w].lockedAt + 2 * Latency + HandlerTimeout
  BY DEF OnTime
<1>0. /\ Shape /\ Windows /\ worker \in [Workers -> Steps] /\ worker[w] \in Steps /\ now \in Nat
      /\ worker[w].due \in Int /\ worker[w].lockedAt \in Int
      /\ Latency \in Nat /\ HandlerTimeout \in Nat
  BY TimesAssumption DEF LeaseInv, Shape, Steps
<1>1. CASE worker'[w] = worker[w] /\ now' = now
  BY <1>1 DEF OnTime, Holding
<1>2. CASE Tick
  <2>1. worker[w].pc \in Holding => now + 1 <= worker[w].due
    BY <1>0, <1>2 DEF Tick, Urgent, Holding
  <2> QED
    BY <1>2, <2>1 DEF Tick, OnTime, Holding
<1>3. CASE worker' = Stopped(w)
  BY <1>0, <1>3 DEF Stopped, Idle, Holding
<1>4. CASE ReadClock(w)
  BY <1>0, <1>4 DEF ReadClock, Holding, Steps
<1>5. ASSUME NEW e \in Events, Claim(w, e)
      PROVE  worker'[w].pc = "claimed" /\ now' = now /\ worker'[w].due = worker[w].due
             /\ now <= worker[w].due
  BY <1>0, <1>5 DEF Claim, Steps, Windows
<1>6. CASE StartHandler(w)
  <2>1. now <= worker[w].lockedAt + Latency
    BY <1>0, <1>6 DEF StartHandler, OnTime, Windows, Holding
  <2>2. /\ worker'[w].pc = "running" /\ worker'[w].due = now + HandlerTimeout
        /\ worker'[w].lockedAt = worker[w].lockedAt /\ now' = now
    BY <1>0, <1>6 DEF StartHandler, Steps
  <2> QED
    BY <1>0, <2>1, <2>2
<1>7. ASSUME NEW o, Settling(w, o), worker[w].pc = "running", now' = now
      PROVE  /\ worker'[w].pc = "settling" /\ worker'[w].due = now + Latency
             /\ worker'[w].lockedAt = worker[w].lockedAt
             /\ now <= worker[w].lockedAt + Latency + HandlerTimeout
  <2>1. now <= worker[w].due /\ worker[w].due <= worker[w].lockedAt + Latency + HandlerTimeout
    BY <1>7 DEF OnTime, Holding
  <2> QED
    BY <1>0, <1>7, <2>1 DEF Settling, Steps
<1>8. ASSUME NEW o, Settling(w, o), worker[w].pc = "running", now' = now
      PROVE  /\ worker'[w].pc = "settling" /\ now' <= worker'[w].due
             /\ worker'[w].due <= worker'[w].lockedAt + 2 * Latency + HandlerTimeout
  BY <1>0, <1>7, <1>8
<1>9. CASE Checkpoint(w)
  <2>1. CASE UNCHANGED worker
    BY <1>1, <1>9, <2>1 DEF Checkpoint
  <2>2. CASE Settling(w, "failed") /\ worker[w].pc # "settling"
    <3>1. worker[w].pc = "running"
      BY <1>0, <1>9, <2>2 DEF Checkpoint, Windows
    <3> QED
      BY <1>8, <1>9, <2>2, <3>1 DEF Checkpoint
  <2> QED
    BY <1>9, <2>1, <2>2 DEF Checkpoint
<1>10. CASE HandlerReturns(w) \/ HandlerTimesOut(w)
  BY <1>8, <1>10 DEF HandlerReturns, HandlerTimesOut
<1>11. CASE Work(w)
  BY <1>3, <1>4, <1>5, <1>6, <1>9, <1>10, <1>11
  DEF Work, ClaimNothing, Release, Settle, Crash
<1>12. ASSUME NEW v \in Workers, Work(v), v # w PROVE worker'[w] = worker[w] /\ now' = now
  BY <1>0, <1>12, OthersStand, ClaimsGrow
<1>13. CASE UNCHANGED vars
  BY <1>1, <1>13 DEF vars
<1> QED
  BY <1>1, <1>2, <1>11, <1>12, <1>13, WorkersStand DEF Next

\* So it holds the lease until it is done.
LEMMA OnTimeHeld ==
  ASSUME LeaseInv, OnTime, NEW w \in Workers, worker[w].pc \in Holding
  PROVE  Current(w)
<1>0. /\ worker[w].lockedAt \in Int /\ worker[w].due \in Int /\ now \in Nat /\ Windows
      /\ Latency \in Nat /\ HandlerTimeout \in Nat /\ StuckThreshold \in Nat
      /\ HandlerTimeout + 2 * Latency < StuckThreshold
  BY TimesAssumption DEF LeaseInv, Shape, Steps
<1>1. now <= worker[w].lockedAt + 2 * Latency + HandlerTimeout
  BY <1>0 DEF OnTime, Windows, Holding
<1>2. ~Superseded(w)
  BY <1>0, <1>1 DEF Superseded
<1> QED
  BY <1>2 DEF LeaseInv, Leases

LEMMA OneHolder ==
  ASSUME LeaseInv, OnTime, NEW v \in Workers, NEW w \in Workers,
         worker[v].pc \in Holding, worker[w].pc \in Holding, worker[v].event = worker[w].event
  PROVE  v = w
  BY OnTimeHeld DEF LeaseInv, Distinct, Current

LEMMA InitOnTime == Init => OnTime
<1> SUFFICES ASSUME Init, NEW w \in Workers PROVE worker[w].pc = "idle"
  BY DEF OnTime, Holding
<1>1. PICK e \in Events : worker[w] = Idle(e)
  BY DEF Init
<1> QED
  BY <1>1 DEF Idle

\* Where handlers start, time out and have their results written in time, no two
\* of them run for one event, and each runs under its lease.
THEOREM OneHandlerAtATime == Punctual => (Spec => []RunsUnderLease)
<1>1. LeaseInv /\ OnTime => RunsUnderLease
  BY OnTimeHeld, OneHolder DEF RunsUnderLease, Current, Holding
<1>2. ASSUME Punctual PROVE LeaseInv /\ OnTime /\ [Next]_vars => OnTime'
  BY <1>2, OnTimeStep
<1>3. ASSUME Punctual PROVE Spec => []RunsUnderLease
  BY InitOnTime, LeasesSound, <1>1, <1>2, <1>3, PTL DEF Spec
<1> QED
  BY <1>3

\* A handler that was aborted and still acts keeps its event from the others:
\* its worker is about to write the timeout, or has, and the lease it wrote has
\* not run out.
Dead(g) == row[g.event].status = "dead_letter"

Leased(g) ==
  /\ row[g.event].status = "processing"
  /\ g.until <= row[g.event].lockedAt + StuckThreshold
  /\ \A w \in Workers : worker[w].pc \in Holding => worker[w].event # g.event

Expiring(g, w) ==
  /\ worker[w].pc = "settling" /\ worker[w].outcome = "timeout"
  /\ worker[w].event = g.event /\ g.worker = w /\ g.until <= Ended(w) + GhostTime

Guarded(g) == Dead(g) \/ Leased(g) \/ \E w \in Workers : Expiring(g, w)

Aborted == [worker : Workers, event : Events, until : Int, requeued : BOOLEAN]

\* Unless its event has been requeued since: the operator lets go of it.
Ghosts ==
  /\ ghosts \subseteq Aborted
  /\ \A g \in ghosts : g.until > now /\ ~g.requeued => Guarded(g)

\* A requeue marks the aborted handlers of its event, and no others.
LEMMA RequeueMarks ==
  ASSUME ghosts \subseteq Aborted, NEW e \in Events, Requeue(e), NEW g \in ghosts'
  PROVE  g \in Aborted /\ (~g.requeued => g \in ghosts /\ g.event # e)
<1>1. PICK h \in ghosts : g = Marked(h, e)
  BY DEF Requeue
<1>2. h \in Aborted
  OBVIOUS
<1>3. CASE h.event = e
  <2>1. g = [h EXCEPT !.requeued = TRUE]
    BY <1>1, <1>3 DEF Marked
  <2> QED
    BY <1>2, <2>1 DEF Aborted
<1>4. CASE h.event # e
  BY <1>1, <1>2, <1>4 DEF Marked
<1> QED
  BY <1>3, <1>4

\* What the settlement of a timed-out handler leaves.
LEMMA ExpiredResult ==
  ASSUME Shape, NEW w \in Workers, worker[w].outcome = "timeout"
  PROVE  \/ Result(w).status = "dead_letter"
         \/ Result(w).status = row[worker[w].event].status /\ Result(w).lockedAt = Ended(w)
<1> DEFINE r == row[worker[w].event]
           n == worker[w].attempts
<1>1. r \in Rows
  BY DEF Shape, Steps
<1>2. Result(w) = TimedOut(r, w)
  BY DEF Result
<1>3. [r EXCEPT !.attempts = n + 1, !.status = "dead_letter", !.lockedAt = NoTime].status = "dead_letter"
  BY <1>1 DEF Rows
<1>4. /\ [[r EXCEPT !.lockedAt = Ended(w)] EXCEPT !.attempts = n + 1].lockedAt = Ended(w)
      /\ [[r EXCEPT !.lockedAt = Ended(w)] EXCEPT !.attempts = n + 1].status = r.status
  BY <1>1 DEF Rows
<1> QED
  BY <1>2, <1>3, <1>4 DEF TimedOut, Attempted

\* Nobody comes to hold an event that is not pending.
LEMMA NoNewHolder ==
  ASSUME LeaseInv, [Next]_vars, NEW v \in Workers, (worker[v].pc \in Holding)',
         row[worker'[v].event].status # "pending"
  PROVE  Kept(v)
<1>1. ASSUME NEW f \in Events, Claim(v, f) PROVE FALSE
  <2>1. worker'[v].event = f
    BY <1>1 DEF Claim, LeaseInv, Shape, Steps
  <2> QED
    BY <1>1, <2>1 DEF Claim
<1> QED
  BY <1>1, KeptUnlessClaimed

LEMMA GhostsStep == Punctual /\ LeaseInv /\ OnTime /\ Ghosts /\ [Next]_vars => Ghosts'
<1> SUFFICES ASSUME Punctual, LeaseInv, OnTime, Ghosts, [Next]_vars PROVE Ghosts'
  OBVIOUS
<1>0. /\ Shape /\ Windows /\ worker \in [Workers -> Steps] /\ row \in [Events -> Rows] /\ now \in Nat
      /\ GhostTime \in Nat /\ StuckThreshold \in Nat /\ GhostTime <= StuckThreshold
      /\ Latency \in Nat
  BY TimesAssumption DEF LeaseInv, Shape
<1>1. now' \in Nat /\ now <= now'
  <2>1. CASE Tick
    BY <1>0, <2>1 DEF Tick
  <2>2. ASSUME NEW w \in Workers, Work(w) PROVE now' = now
    BY <1>0, <2>2, ClaimsGrow
  <2>3. CASE UNCHANGED vars
    BY <1>0, <2>3 DEF vars
  <2> QED
    BY <1>0, <2>1, <2>2, <2>3, WorkersStand DEF Next
\* Where ghosts come from.
<1> DEFINE Timed(w) == [worker |-> w, event |-> worker[w].event,
                        until |-> now + GhostTime, requeued |-> FALSE]
           Known(g) == /\ g \in Aborted
                       /\ \/ g.requeued
                          \/ g \in ghosts /\ ~Requeue(g.event)
                          \/ \E w \in Workers : HandlerTimesOut(w) /\ g = Timed(w)
<1>2. ASSUME NEW g \in ghosts'
      PROVE  Known(g)
  <2>0. ghosts \subseteq Aborted
    BY DEF Ghosts
  <2>1. ASSUME NEW e \in Events, Requeue(e) PROVE Known(g)
    <3>1. g.requeued \in BOOLEAN
      BY <1>2, <2>0, <2>1, RequeueMarks DEF Aborted
    <3>2. CASE ~g.requeued
      <4>1. g \in ghosts /\ g.event # e /\ g \in Aborted
        BY <1>2, <2>0, <2>1, <3>2, RequeueMarks
      <4>2. ~Requeue(g.event)
        BY <1>2, <2>0, <4>1, <3>2, RequeueMarks DEF Aborted
      <4> QED
        BY <4>1, <4>2
    <3> QED
      BY <1>2, <2>0, <2>1, <3>1, <3>2, RequeueMarks
  <2>2. ASSUME NEW w \in Workers, HandlerTimesOut(w) PROVE Known(g)
    <3>1. Timed(w) \in Aborted
      BY <1>0 DEF Aborted, Steps
    <3>2. g \in ghosts \/ g = Timed(w)
      BY <1>2, <2>2 DEF HandlerTimesOut
    <3>3. worker'[w].pc # worker[w].pc
      BY <1>0, <2>2 DEF HandlerTimesOut, Settling, Steps
    <3>4. ~Requeue(g.event)
      BY <3>3 DEF Requeue
    <3> QED
      BY <2>0, <2>2, <3>1, <3>2, <3>4
  <2>3. CASE /\ \A e \in Events : ~Requeue(e)
             /\ \A w \in Workers : ~HandlerTimesOut(w)
    <3>1. g \in ghosts
      BY <1>2, <2>3 DEF Next, Tick, Work, ReadClock, Claim, ClaimNothing, Release, StartHandler,
         Checkpoint, HandlerReturns, Settle, Crash, Enqueue, Reschedule, Retire, Reap, vars
    <3> QED
      BY <2>0, <2>3, <3>1 DEF Aborted
  <2> QED
    BY <2>1, <2>2, <2>3
<1>3. ghosts' \subseteq Aborted
  BY <1>2
<1>4. ASSUME NEW w \in Workers, HandlerTimesOut(w), NEW g, g = Timed(w)
      PROVE  Guarded(g)'
  <2>1. /\ worker'[w].pc = "settling" /\ worker'[w].outcome = "timeout"
        /\ worker'[w].event = worker[w].event /\ worker'[w].due = now + Latency
    BY <1>0, <1>4 DEF HandlerTimesOut, Settling, Steps
  <2>2. g.until <= Ended(w)' + GhostTime
    BY <1>0, <1>4, <2>1 DEF Ended
  <2> QED
    BY <1>4, <2>1, <2>2 DEF Guarded, Expiring
<1>5. ASSUME NEW g \in ghosts, g \in ghosts', ~Requeue(g.event), ~g.requeued, g.until > now'
      PROVE  Guarded(g)'
  <2>0. g.event \in Events /\ g.worker \in Workers /\ g.until \in Int /\ g.until > now
        /\ row[g.event] \in Rows
    BY <1>0, <1>1, <1>5 DEF Ghosts, Aborted
  <2>1. CASE Dead(g)
    <3>1. row'[g.event] = row[g.event]
      BY <1>5, <2>0, <2>1, WhoWrites
      DEF Dead, Enqueue, Reschedule, Retire, Reap, Claim, LeaseHeld
    <3> QED
      BY <2>1, <3>1 DEF Dead, Guarded
  <2>2. CASE Leased(g)
    <3>1. ~Reap(g.event)
      BY <1>0, <2>0, <2>2 DEF Leased, Reap, IsStuck, Rows
    <3>2. row'[g.event] = row[g.event]
      BY <2>0, <2>2, <3>1, WhoWrites
      DEF Leased, Enqueue, Reschedule, Retire, Requeue, Claim, LeaseHeld
    <3>3. ASSUME NEW w \in Workers, (worker[w].pc \in Holding)', worker'[w].event = g.event
          PROVE  FALSE
      BY <2>2, <3>3, NoNewHolder DEF Leased, Kept
    <3> QED
      BY <2>2, <3>2, <3>3 DEF Leased, Guarded
  <2>3. ASSUME NEW w \in Workers, Expiring(g, w)
        PROVE  Guarded(g)'
    <3>0. worker[w].pc \in Holding /\ Current(w) /\ worker[w] \in Steps
      BY <1>0, <2>3, OnTimeHeld DEF Expiring, Holding
    <3>1. CASE worker'[w] = worker[w]
      BY <2>3, <3>1 DEF Expiring, Guarded, Ended
    <3>2. CASE Settle(w)
      <4>1. row' = [row EXCEPT ![g.event] = Result(w)] /\ worker' = Stopped(w) /\ LeaseHeld(w)
        BY <2>3, <3>0, <3>2 DEF Settle, UpdateIfLeaseHeld, Expiring, Current
      <4>2. row'[g.event] = Result(w)
        BY <1>0, <2>0, <4>1
      <4>3. CASE Result(w).status = "dead_letter"
        BY <4>2, <4>3 DEF Guarded, Dead
      <4>4. CASE Result(w).status = "processing" /\ Result(w).lockedAt = Ended(w)
        <5>1. g.until <= Ended(w) + StuckThreshold
          BY <1>0, <2>0, <2>3, <3>0 DEF Expiring, Ended, Steps
        <5>2. ASSUME NEW v \in Workers, (worker[v].pc \in Holding)', worker'[v].event = g.event
              PROVE  FALSE
          <6>1. v # w
            BY <1>0, <4>1, <5>2 DEF Stopped, Idle, Holding
          <6>2. worker'[v] = worker[v]
            BY <1>0, <4>1, <6>1 DEF Stopped
          <6>3. worker[v].pc \in Holding /\ worker[v].event = worker[w].event
            BY <2>3, <5>2, <6>2 DEF Expiring, Holding
          <6> QED
            BY <3>0, <6>1, <6>3, OneHolder
        <5> QED
          BY <4>2, <4>4, <5>1, <5>2 DEF Guarded, Leased
      <4> QED
        BY <1>0, <2>3, <4>1, <4>3, <4>4, ExpiredResult DEF Expiring, LeaseHeld
    <3>3. ~Crash(w)
      BY <1>5, <2>3 DEF Crash, Expiring
    <3>4. CASE Work(w)
      BY <2>3, <3>1, <3>2, <3>3, <3>4
      DEF Work, ReadClock, Claim, ClaimNothing, Release, StartHandler, Checkpoint, HandlerReturns,
          HandlerTimesOut, Expiring
    <3>5. ASSUME NEW v \in Workers, Work(v), v # w PROVE worker'[w] = worker[w]
      BY <1>0, <3>5, OthersStand
    <3>6. CASE Tick \/ UNCHANGED vars
      BY <3>1, <3>6 DEF Tick, vars
    <3> QED
      BY <3>1, <3>4, <3>5, <3>6, WorkersStand DEF Next
  <2> QED
    BY <1>5, <2>0, <2>1, <2>2, <2>3 DEF Ghosts, Guarded
<1> QED
  BY <1>2, <1>3, <1>4, <1>5 DEF Ghosts

\* Where workers are punctual and an aborted handler stops acting within
\* GhostTime, no attempt on an event overlaps one that timed out before it, unless
\* an operator requeued the event in between.
THEOREM TimedOutNotOverlapped == Punctual => (Spec => []NoOverlap)
<1>1. LeaseInv /\ OnTime /\ Ghosts => NoOverlap
  <2> SUFFICES ASSUME LeaseInv, OnTime, Ghosts, NEW w \in Workers, worker[w].pc = "running",
                      NEW g \in ghosts, g.event = worker[w].event, g.until > now, ~g.requeued
               PROVE  FALSE
    BY DEF NoOverlap
  <2>1. worker[w].pc \in Holding /\ LeaseHeld(w)
    BY OnTimeHeld DEF Holding, Current
  <2>2. ASSUME NEW v \in Workers, Expiring(g, v) PROVE FALSE
    BY <2>1, <2>2, OneHolder DEF Expiring, Holding
  <2> QED
    BY <2>1, <2>2 DEF Ghosts, Guarded, Dead, Leased, LeaseHeld
<1>2. Init => Ghosts
  BY DEF Init, Ghosts
<1>3. ASSUME Punctual
      PROVE  LeaseInv /\ OnTime /\ Ghosts /\ [Next]_vars => OnTime' /\ Ghosts'
  BY <1>3, OnTimeStep, GhostsStep
<1>4. ASSUME Punctual PROVE Spec => []NoOverlap
  BY InitOnTime, LeasesSound, <1>1, <1>2, <1>3, <1>4, PTL DEF Spec
<1> QED
  BY <1>4

------------------------------------------------------------------------------
(* The outbox implements LeaseQueue.                                         *)

\* An event that is not enqueued has no payload.
Fresh == \A e \in Events : row[e].status = "absent" => row[e].saved = 0

LEMMA FreshStep == LeaseInv /\ Counted /\ Fresh /\ [Next]_vars => Fresh'
<1> SUFFICES ASSUME LeaseInv, Counted, Fresh, [Next]_vars, NEW e \in Events,
                    row'[e].status = "absent"
             PROVE  row'[e].saved = 0
  BY DEF Fresh
<1>0. row \in [Events -> Rows]
  BY DEF LeaseInv, Shape
<1>1. CASE row'[e] = row[e]
  BY <1>1 DEF Fresh
<1>2. CASE row'[e] # row[e]
  <2>1. row[e].status = "dead_letter"
    BY <1>2, WritesCount
  <2>2. Requeue(e)
    BY <1>2, <2>1, WhoWrites DEF Enqueue, Reschedule, Retire, Reap, Claim, LeaseHeld
  <2> QED
    BY <1>0, <2>2 DEF Requeue, Rows
<1> QED
  BY <1>1, <1>2

Status == [e \in Events |-> row[e].status]
Attempts == [e \in Events |-> row[e].attempts]
Saved == [e \in Events |-> row[e].saved]

LEMMA HeldStands == ASSUME UNCHANGED worker PROVE UNCHANGED Held
  BY DEF Held

\* A worker that ends a claim holds nothing.
LEMMA HeldDropped ==
  ASSUME Shape, NEW w \in Workers, worker' = Stopped(w)
  PROVE  Held' = [Held EXCEPT ![w] = {}]
<1>1. worker'[w].pc = "idle" /\ \A v \in Workers : v # w => worker'[v] = worker[v]
  BY DEF Stopped, Idle, Shape
<1> QED
  BY <1>1 DEF Held, Holding

\* What LeaseQueue sees of a handler's result.
LEMMA ResultSeen ==
  ASSUME Shape, NEW w \in Workers, worker[w].attempts = row[worker[w].event].attempts,
         row[worker[w].event].status = "processing"
  PROVE  /\ worker[w].outcome = "done"
              => Result(w).status = "completed" /\ Result(w).attempts = worker[w].attempts
         /\ worker[w].outcome = "continued"
              => Result(w).status = "pending" /\ Result(w).attempts = worker[w].attempts
         /\ worker[w].outcome \notin {"done", "continued"}
              => /\ Result(w).attempts = worker[w].attempts + 1
                 /\ IF worker[w].attempts + 1 >= MaxAttempts
                    THEN Result(w).status = "dead_letter"
                    ELSE Result(w).status \in {"pending", "processing"}
<1> DEFINE r == row[worker[w].event]
           n == worker[w].attempts
           Used(x) == /\ x.attempts = n + 1
                      /\ IF n + 1 >= MaxAttempts THEN x.status = "dead_letter"
                         ELSE x.status \in {"pending", "processing"}
<1>1. r \in Rows /\ n \in Nat /\ n = r.attempts /\ r.status = "processing"
  BY DEF Shape, Rows, Steps
<1>2. Ended(w) \in Int
  BY TimesAssumption DEF Ended, Shape, Steps
<1>3. Retried(r, w, n) \in Rows /\ Retried(r, w, n + 1) \in Rows
  BY <1>1, <1>2, BackoffTyped, RetriedTyped
<1>4. Retried(r, w, n).status = "pending" /\ Retried(r, w, n + 1).status = "pending"
  BY <1>1 DEF Retried, Rows
<1>5. ASSUME NEW again \in Rows, again.status \in {"pending", "processing"}
      PROVE  Used(Attempted(r, w, again))
  <2>1. /\ [r EXCEPT !.attempts = n + 1, !.status = "dead_letter", !.lockedAt = NoTime].status = "dead_letter"
        /\ [r EXCEPT !.attempts = n + 1, !.status = "dead_letter", !.lockedAt = NoTime].attempts = n + 1
    BY <1>1 DEF Rows
  <2>2. /\ [again EXCEPT !.attempts = n + 1].status \in {"pending", "processing"}
        /\ [again EXCEPT !.attempts = n + 1].attempts = n + 1
    BY <1>1, <1>5 DEF Rows
  <2> QED
    BY <2>1, <2>2 DEF Attempted
<1>6. /\ [Retried(r, w, n) EXCEPT !.attempts = n].status = "pending"
      /\ [Retried(r, w, n) EXCEPT !.attempts = n].attempts = n
  BY <1>1, <1>3, <1>4 DEF Rows
<1>7. /\ [r EXCEPT !.status = "completed", !.lockedAt = NoTime].status = "completed"
      /\ [r EXCEPT !.status = "completed", !.lockedAt = NoTime].attempts = n
  BY <1>1 DEF Rows
<1>8. [r EXCEPT !.lockedAt = Ended(w)] \in Rows /\ [r EXCEPT !.lockedAt = Ended(w)].status = r.status
  BY <1>1, <1>2 DEF Rows
<1>9. Used(TimedOut(r, w)) /\ Used(Attempted(r, w, Retried(r, w, n + 1)))
  BY <1>1, <1>3, <1>4, <1>5, <1>8 DEF TimedOut
<1>10. CASE worker[w].outcome = "done"
  BY <1>7, <1>10 DEF Result
<1>11. CASE worker[w].outcome = "continued"
  BY <1>6, <1>11 DEF Result
<1>12. CASE worker[w].outcome \notin {"done", "continued"}
  <2>1. Used(Result(w))
    <3> HIDE DEF Used
    <3> QED
      BY <1>9, <1>12 DEF Result
  <2> QED
    BY <1>12, <2>1
<1> QED
  BY <1>10, <1>11, <1>12

\* A worker that writes under its lease acts under a claim that LeaseQueue
\* accepts, with the attempts of the row.
LEMMA LeaseIsValid ==
  ASSUME LeaseInv, Counted, NEW w \in Workers, worker[w].pc \in Holding, LeaseHeld(w),
         NEW e \in Events, e = worker[w].event
  PROVE  /\ Queue!Valid(w, e)
         /\ worker[w].claim = claims[e] /\ worker[w].attempts = row[e].attempts
<1>1. Current(w)
  BY HeldIsCurrent
<1>2. Held[w] = {<<e, worker[w].claim>>}
  BY DEF Held
<1> QED
  BY <1>1, <1>2 DEF Queue!Valid, Current, LeaseHeld, Counted

\* The steps of the business transactions, the operator and the reaper.
LEMMA OperatorQueued ==
  ASSUME LeaseInv, Counted, Fresh, NEW e \in Events,
         Enqueue(e) \/ Reschedule(e) \/ Retire(e) \/ Requeue(e) \/ Reap(e)
  PROVE  [Queue!Next]_(Queue!vars)
<1>0. row \in [Events -> Rows] /\ row[e] \in Rows
  BY DEF LeaseInv, Shape
<1>1. UNCHANGED <<Held, claims>>
  BY WorkersStand, HeldStands
<1>2. CASE Enqueue(e)
  <2>1. NoRow \in Rows /\ NoRow.attempts = 0 /\ NoRow.saved = 0
    BY NoTimeTyped DEF NoRow, Rows
  <2>2. PICK d \in Delays :
          row' = [row EXCEPT ![e] = [NoRow EXCEPT !.status = "pending", !.availableAt = now + d]]
    BY <1>2 DEF Enqueue
  <2> DEFINE at == now + d
             r == [NoRow EXCEPT !.status = "pending", !.availableAt = at]
  <2>3. r.status = "pending" /\ r.attempts = 0 /\ r.saved = 0
    BY <2>1 DEF Rows
  <2>4. row[e].status = "absent" /\ row[e].attempts = 0 /\ row[e].saved = 0
    BY <1>2 DEF Enqueue, Counted, Fresh
  <2>5. row' = [row EXCEPT ![e] = r]
    BY <2>2
  <2> HIDE DEF r
  <2>6. Status' = [Status EXCEPT ![e] = "pending"] /\ UNCHANGED <<Attempts, Saved>>
    BY <1>0, <2>3, <2>4, <2>5 DEF Status, Attempts, Saved
  <2>7. Queue!Add(e)
    BY <1>1, <2>4, <2>6 DEF Queue!Add, Queue!Becomes, Status, Attempts, Saved
  <2> QED
    BY <2>7 DEF Queue!Next
<1>3. CASE Reschedule(e)
  <2>1. PICK d \in Delays : row' = [row EXCEPT ![e].availableAt = Later(@, now + d)]
    BY <1>3 DEF Reschedule
  <2> DEFINE at == Later(row[e].availableAt, now + d)
             r == [row[e] EXCEPT !.availableAt = at]
  <2>2. r.status = row[e].status /\ r.attempts = row[e].attempts /\ r.saved = row[e].saved
    BY <1>0 DEF Rows
  <2>3. row' = [row EXCEPT ![e] = r]
    BY <1>0, <2>1 DEF Rows
  <2> HIDE DEF r
  <2>4. UNCHANGED <<Status, Attempts, Saved>>
    BY <1>0, <2>2, <2>3 DEF Status, Attempts, Saved
  <2> QED
    BY <1>1, <2>4 DEF Queue!vars, Status, Attempts, Saved
<1>4. CASE Retire(e)
  <2> DEFINE r == [row[e] EXCEPT !.status = "completed", !.lockedAt = NoTime]
  <2>1. r.status = "completed" /\ r.attempts = row[e].attempts /\ r.saved = row[e].saved
    BY <1>0 DEF Rows
  <2>2. row' = [row EXCEPT ![e] = r] /\ row[e].status = "pending"
    BY <1>4 DEF Retire
  <2> HIDE DEF r
  <2>3. Status' = [Status EXCEPT ![e] = "completed"] /\ UNCHANGED <<Attempts, Saved>>
    BY <1>0, <2>1, <2>2 DEF Status, Attempts, Saved
  <2>4. Queue!Withdraw(e)
    BY <1>1, <2>2, <2>3 DEF Queue!Withdraw, Queue!Becomes, Status, Attempts, Saved
  <2> QED
    BY <2>4 DEF Queue!Next
<1>5. CASE Requeue(e)
  <2> DEFINE r == [row[e] EXCEPT !.status = "pending", !.attempts = 0,
                                 !.availableAt = now, !.lockedAt = NoTime]
  <2>1. r.status = "pending" /\ r.attempts = 0 /\ r.saved = row[e].saved
    BY <1>0 DEF Rows
  <2>2. row' = [row EXCEPT ![e] = r] /\ row[e].status = "dead_letter"
    BY <1>5 DEF Requeue
  <2> HIDE DEF r
  <2>3. /\ Status' = [Status EXCEPT ![e] = "pending"] /\ Attempts' = [Attempts EXCEPT ![e] = 0]
        /\ UNCHANGED Saved
    BY <1>0, <2>1, <2>2 DEF Status, Attempts, Saved
  <2>4. Queue!Revive(e)
    BY <1>1, <2>2, <2>3 DEF Queue!Revive, Queue!Becomes, Status, Attempts, Saved
  <2> QED
    BY <2>4 DEF Queue!Next
<1>6. CASE Reap(e)
  <2> DEFINE r == [row[e] EXCEPT !.status = "pending", !.lockedAt = NoTime]
  <2>1. r.status = "pending" /\ r.attempts = row[e].attempts /\ r.saved = row[e].saved
    BY <1>0 DEF Rows
  <2>2. row' = [row EXCEPT ![e] = r] /\ row[e].status = "processing"
    BY <1>6 DEF Reap
  <2> HIDE DEF r
  <2>3. Status' = [Status EXCEPT ![e] = "pending"] /\ UNCHANGED <<Attempts, Saved>>
    BY <1>0, <2>1, <2>2 DEF Status, Attempts, Saved
  <2>4. Queue!Expire(e)
    BY <1>1, <2>2, <2>3 DEF Queue!Expire, Queue!Becomes, Status, Attempts, Saved
  <2> QED
    BY <2>4 DEF Queue!Next
<1> QED
  BY <1>2, <1>3, <1>4, <1>5, <1>6

\* A claim.
LEMMA ClaimQueued ==
  ASSUME LeaseInv, NEW w \in Workers, NEW e \in Events, Claim(w, e)
  PROVE  Queue!Take(w, e)
<1>0. /\ row \in [Events -> Rows] /\ row[e] \in Rows /\ worker \in [Workers -> Steps]
      /\ claims \in [Events -> Nat]
  BY DEF LeaseInv, Shape
<1> DEFINE r == [row[e] EXCEPT !.status = "processing", !.lockedAt = worker[w].lockedAt]
<1>1. r.status = "processing" /\ r.attempts = row[e].attempts /\ r.saved = row[e].saved
  BY <1>0 DEF Rows
<1>2. row' = [row EXCEPT ![e] = r] /\ row[e].status = "pending"
  BY <1>0 DEF Claim
<1> HIDE DEF r
<1>3. Status' = [Status EXCEPT ![e] = "processing"] /\ UNCHANGED <<Attempts, Saved>>
  BY <1>0, <1>1, <1>2 DEF Status, Attempts, Saved
<1>4. Held[w] = {}
  BY DEF Claim, Held, Holding
<1>5. Held' = [Held EXCEPT ![w] = {<<e, claims[e] + 1>>}]
  <2>1. /\ worker'[w].pc = "claimed" /\ worker'[w].event = e /\ worker'[w].claim = claims[e] + 1
        /\ \A v \in Workers : v # w => worker'[v] = worker[v]
    BY <1>0 DEF Claim, Steps
  <2> QED
    BY <2>1 DEF Held, Holding
<1>6. claims' = [claims EXCEPT ![e] = claims[e] + 1]
  BY <1>0 DEF Claim
<1> QED
  BY <1>2, <1>3, <1>4, <1>5, <1>6 DEF Queue!Take, Queue!Becomes, Status, Attempts, Saved

\* The writes of a worker that has its lease.
LEMMA WriteQueued ==
  ASSUME LeaseInv, Counted, NEW w \in Workers, Writes(w), LeaseHeld(w),
         NEW e \in Events, e = worker[w].event
  PROVE  Queue!Next
<1>0. /\ row \in [Events -> Rows] /\ row[e] \in Rows /\ worker \in [Workers -> Steps]
      /\ Shape /\ Windows /\ row[e].status = "processing" /\ UNCHANGED claims
  BY DEF LeaseInv, Shape, Steps, LeaseHeld, Writes, Release, Checkpoint, Settle
<1>1. worker[w].pc \in Holding
  BY <1>0 DEF Writes, Release, Checkpoint, Settle, Holding, Windows
<1>2. Queue!Valid(w, e) /\ worker[w].claim = claims[e] /\ worker[w].attempts = row[e].attempts
  BY <1>1, LeaseIsValid
<1>3. CASE Release(w)
  <2> DEFINE r == [row[e] EXCEPT !.status = "pending", !.lockedAt = NoTime]
  <2>1. r.status = "pending" /\ r.attempts = row[e].attempts /\ r.saved = row[e].saved
    BY <1>0 DEF Rows
  <2>2. row' = [row EXCEPT ![e] = r] /\ worker' = Stopped(w)
    BY <1>3 DEF Release, UpdateIfLeaseHeld
  <2> HIDE DEF r
  <2>3. Status' = [Status EXCEPT ![e] = "pending"] /\ UNCHANGED <<Attempts, Saved>>
    BY <1>0, <1>2, <2>1, <2>2 DEF Status, Attempts, Saved
  <2>4. Held' = [Held EXCEPT ![w] = {}]
    BY <1>0, <2>2, HeldDropped
  <2>5. Queue!GiveBack(w, e)
    BY <1>0, <1>2, <2>3, <2>4
    DEF Queue!GiveBack, Queue!Drops, Queue!Becomes, Status, Attempts, Saved
  <2> QED
    BY <1>2, <2>5 DEF Queue!Next
<1>4. CASE Checkpoint(w)
  <2> DEFINE r == [row[e] EXCEPT !.saved = worker[w].claim]
  <2>1. r.status = row[e].status /\ r.attempts = row[e].attempts /\ r.saved = worker[w].claim
    BY <1>0 DEF Rows
  <2>2. row' = [row EXCEPT ![e] = r] /\ UNCHANGED worker
    BY <1>4 DEF Checkpoint, UpdateIfLeaseHeld
  <2> HIDE DEF r
  <2>3. Saved' = [Saved EXCEPT ![e] = claims[e]] /\ UNCHANGED <<Status, Attempts>>
    <3>1. row'[e] = r /\ \A f \in Events \ {e} : row'[f] = row[f]
      BY <1>0, <2>2
    <3> QED
      BY <1>2, <2>1, <3>1 DEF Status, Attempts, Saved
  <2>4. UNCHANGED Held
    BY <2>2, HeldStands
  <2>5. Queue!Save(w, e)
    BY <1>0, <1>2, <2>3, <2>4 DEF Queue!Save, Status, Attempts, Saved
  <2> QED
    BY <1>2, <2>5 DEF Queue!Next
<1>5. CASE Settle(w)
  <2> DEFINE r == Result(w)
             n == worker[w].attempts
  <2>1. row' = [row EXCEPT ![e] = r] /\ worker' = Stopped(w)
    BY <1>5 DEF Settle, UpdateIfLeaseHeld
  <2>2. /\ worker[w].outcome = "done" => r.status = "completed" /\ r.attempts = n
        /\ worker[w].outcome = "continued" => r.status = "pending" /\ r.attempts = n
        /\ worker[w].outcome \notin {"done", "continued"}
             => /\ r.attempts = n + 1
                /\ IF n + 1 >= MaxAttempts THEN r.status = "dead_letter"
                   ELSE r.status \in {"pending", "processing"}
    BY <1>0, <1>2, ResultSeen
  <2>3. r.saved = row[e].saved
    BY <1>0, ResultSaved
  <2> HIDE DEF r
  <2>4. /\ Status' = [Status EXCEPT ![e] = r.status] /\ Attempts' = [Attempts EXCEPT ![e] = r.attempts]
        /\ r.attempts = n => UNCHANGED Attempts
        /\ UNCHANGED Saved
    <3>1. row'[e] = r /\ \A f \in Events \ {e} : row'[f] = row[f]
      BY <1>0, <2>1
    <3> QED
      BY <1>2, <2>3, <3>1 DEF Status, Attempts, Saved
  <2>5. Held' = [Held EXCEPT ![w] = {}]
    BY <1>0, <2>1, HeldDropped
  <2>6. ASSUME worker[w].outcome = "done" PROVE Queue!Complete(w, e)
    BY <1>0, <1>2, <2>2, <2>4, <2>5, <2>6
    DEF Queue!Complete, Queue!Drops, Queue!Becomes, Status, Attempts, Saved
  <2>7. ASSUME worker[w].outcome = "continued" PROVE Queue!GiveBack(w, e)
    BY <1>0, <1>2, <2>2, <2>4, <2>5, <2>7
    DEF Queue!GiveBack, Queue!Drops, Queue!Becomes, Status, Attempts, Saved
  <2>8. ASSUME worker[w].outcome \notin {"done", "continued"} PROVE Queue!Fail(w, e)
    <3>1. r.attempts = row[e].attempts + 1 /\ Attempts' = [Attempts EXCEPT ![e] = row[e].attempts + 1]
      BY <1>2, <2>2, <2>4, <2>8
    <3>2. Attempts[e] = row[e].attempts /\ Status[e] = "processing"
      BY <1>0, <1>2 DEF Attempts, Status
    <3>3. IF row[e].attempts + 1 >= MaxAttempts
          THEN Status' = [Status EXCEPT ![e] = "dead_letter"]
          ELSE \E after \in {"pending", "processing"} : Status' = [Status EXCEPT ![e] = after]
      BY <1>2, <2>2, <2>4, <2>8
    <3> QED
      BY <1>0, <1>2, <2>4, <2>5, <3>1, <3>2, <3>3
      DEF Queue!Fail, Queue!Drops, Queue!Becomes, Status, Attempts, Saved
  <2> QED
    BY <1>2, <2>6, <2>7, <2>8 DEF Queue!Next
<1> QED
  BY <1>3, <1>4, <1>5 DEF Writes

\* The other steps of a worker: LeaseQueue sees none of them, or the end of a
\* claim that has expired.
LEMMA SilentQueued ==
  ASSUME LeaseInv, NEW w \in Workers, Work(w), UNCHANGED <<row, claims>>
  PROVE  [Queue!Next]_(Queue!vars)
<1>0. worker \in [Workers -> Steps] /\ Shape /\ Windows /\ worker[w] \in Steps
  BY DEF LeaseInv, Shape
<1>1. UNCHANGED <<Status, Attempts, Saved>>
  BY DEF Status, Attempts, Saved
<1>2. CASE worker' = Stopped(w)
  <2>1. Queue!Drop(w)
    BY <1>0, <1>1, <1>2, HeldDropped DEF Queue!Drop, Queue!Drops, Status, Attempts, Saved
  <2> QED
    BY <2>1 DEF Queue!Next
<1>3. CASE worker' # Stopped(w)
  <2>1. ASSUME NEW v \in Workers, v # w PROVE worker'[v] = worker[v]
    BY <1>0, <2>1, OthersStand
  <2>2. ASSUME NEW e \in Events PROVE ~Claim(w, e)
    <3>1. claims \in [Events -> Nat]
      BY <1>0 DEF Shape
    <3> QED
      BY <3>1 DEF Claim
  <2>3. CASE ReadClock(w)
    <3>1. worker[w].pc = "idle" /\ worker'[w].pc = "claiming"
      BY <1>0, <2>3 DEF ReadClock, Steps
    <3> QED
      BY <1>1, <2>1, <3>1 DEF Held, Holding, Queue!vars, Status, Attempts, Saved
  <2>4. CASE ~ReadClock(w)
    <3>1. StartHandler(w) \/ Checkpoint(w) \/ HandlerReturns(w) \/ HandlerTimesOut(w)
      BY <1>3, <2>2, <2>4 DEF Work, ClaimNothing, Release, Settle, Crash
    <3>2. worker[w].pc \in Holding
      BY <1>0, <3>1 DEF StartHandler, Checkpoint, HandlerReturns, HandlerTimesOut, Windows, Holding
    <3>3. /\ worker'[w].pc \in Holding /\ worker'[w].event = worker[w].event
          /\ worker'[w].claim = worker[w].claim
      BY <1>0, <3>1, <3>2
      DEF StartHandler, Checkpoint, HandlerReturns, HandlerTimesOut, Settling, Steps, Holding
    <3> QED
      BY <1>1, <2>1, <3>2, <3>3 DEF Held, Queue!vars, Status, Attempts, Saved
  <2> QED
    BY <2>3, <2>4
<1> QED
  BY <1>2, <1>3

LEMMA QueueStep == LeaseInv /\ Counted /\ Fresh /\ [Next]_vars => [Queue!Next]_(Queue!vars)
<1> SUFFICES ASSUME LeaseInv, Counted, Fresh, [Next]_vars PROVE [Queue!Next]_(Queue!vars)
  OBVIOUS
<1>0. worker \in [Workers -> Steps]
  BY DEF LeaseInv, Shape
<1>1. ASSUME NEW e \in Events, Enqueue(e) \/ Reschedule(e) \/ Retire(e) \/ Requeue(e) \/ Reap(e)
      PROVE  [Queue!Next]_(Queue!vars)
  BY <1>1, OperatorQueued
<1>2. ASSUME NEW w \in Workers, NEW e \in Events, Claim(w, e) PROVE [Queue!Next]_(Queue!vars)
  BY <1>2, ClaimQueued DEF Queue!Next
<1>3. ASSUME NEW w \in Workers, Writes(w) PROVE [Queue!Next]_(Queue!vars)
  <2>1. CASE LeaseHeld(w)
    <3>1. PICK e \in Events : e = worker[w].event
      BY <1>0 DEF Steps
    <3> QED
      BY <1>3, <2>1, <3>1, WriteQueued
  <2>2. CASE ~LeaseHeld(w)
    <3>1. UNCHANGED <<row, claims>>
      BY <1>3, <2>2 DEF Writes, Release, Checkpoint, Settle, UpdateIfLeaseHeld
    <3> QED
      BY <1>3, <3>1, SilentQueued DEF Work, Writes
  <2> QED
    BY <2>1, <2>2
<1>4. ASSUME NEW w \in Workers, Work(w), ~Writes(w), ~\E e \in Events : Claim(w, e)
      PROVE  [Queue!Next]_(Queue!vars)
  <2>1. UNCHANGED <<row, claims>>
    BY <1>4 DEF Work, Writes, ReadClock, ClaimNothing, StartHandler, HandlerReturns,
                HandlerTimesOut, Crash
  <2> QED
    BY <1>4, <2>1, SilentQueued
<1>5. CASE Tick \/ UNCHANGED vars
  <2>1. UNCHANGED <<row, worker, claims>>
    BY <1>5 DEF Tick, vars
  <2>2. UNCHANGED Held
    BY <2>1, HeldStands
  <2> QED
    BY <2>1, <2>2 DEF Queue!vars
<1> QED
  BY <1>1, <1>2, <1>3, <1>4, <1>5 DEF Next

LEMMA InitQueued == Init => Fresh /\ Queue!Init
<1> SUFFICES ASSUME Init PROVE Fresh /\ Queue!Init
  OBVIOUS
<1>1. \A e \in Events : row[e].status = "absent" /\ row[e].attempts = 0 /\ row[e].saved = 0
  BY DEF Init, NoRow
<1>2. Held = [w \in Workers |-> {}]
  BY InitHolds DEF Held
<1> QED
  BY <1>1, <1>2 DEF Init, Fresh, Queue!Init

\* The outbox keeps what LeaseQueue promises: whatever the times, the workers and
\* their crashes, an event is settled, given back, checkpointed or charged an
\* attempt by its latest claim only, before that claim expires, and by no other.
THEOREM OutboxIsLeaseQueue == Spec => ImplementsLeaseQueue
  BY LeasesSound, InitCounted, InitQueued, CountedStep, FreshStep, QueueStep, PTL
  DEF Spec, ImplementsLeaseQueue, Queue!Spec

------------------------------------------------------------------------------
(* Types.  Besides the shape: no time and no count is negative.             *)

NatRow(r) == r.lockedAt \in Times /\ r.availableAt \in Nat /\ r.saved \in Nat

\* What is settled ended a Latency before it is due.
NatStep(s) ==
  /\ s.lockedAt \in Times /\ s.due \in Nat /\ s.claim \in Nat
  /\ s.pc = "settling" => Latency <= s.due
  /\ s.outcome \in {"none", "timeout"} \cup Outcomes \cup {"failed"}

GhostsTyped ==
  ghosts \subseteq [worker : Workers, event : Events, until : Nat, requeued : BOOLEAN]

Naturals ==
  /\ \A e \in Events : NatRow(row[e])
  /\ \A w \in Workers : NatStep(worker[w])
  /\ GhostsTyped

\* The provers know of powers only how many subsets a finite set has.
LEMMA PowersOfTwo == ASSUME NEW n \in Nat PROVE 2^n \in Nat
<1>1. IsFiniteSet(1..n) /\ Cardinality(1..n) = n
  BY FS_Interval
<1>2. /\ Cardinality(SUBSET (1..n)) \in Nat
      /\ Cardinality(SUBSET (1..n)) = 2^Cardinality(1..n)
  BY <1>1, FS_SUBSET, FS_CardinalityType
<1> QED
  BY <1>1, <1>2

LEMMA BackoffNatural == ASSUME NEW n \in Nat PROVE Backoff(n) \in Nat
<1> DEFINE power == 2^n
<1>1. power \in Nat
  BY PowersOfTwo
<1> HIDE DEF power
<1>2. BaseBackoff * power \in Nat
  BY <1>1, TimesAssumption
<1> QED
  BY <1>2, TimesAssumption DEF Backoff, power

LEMMA TimesAre == NoTime \in Times /\ Nat \subseteq Times
BY DEF Times

\* What a worker writes of its handler's result.
LEMMA ResultNatural ==
  ASSUME Shape, Naturals, NEW w \in Workers, worker[w].pc = "settling"
  PROVE  NatRow(Result(w))
<1> DEFINE r == row[worker[w].event]
           n == worker[w].attempts
<1>1. r \in Rows /\ n \in Nat /\ n + 1 \in Nat /\ worker[w].event \in Events
  BY DEF Shape, Rows, Steps
<1>2. NatRow(r)
  BY <1>1 DEF Naturals
<1>3. Ended(w) \in Nat
  BY TimesAssumption DEF Naturals, NatStep, Ended
<1>4. \A k \in Nat : Retried(r, w, k) \in Rows /\ NatRow(Retried(r, w, k))
  <2> TAKE k \in Nat
  <2>1. Backoff(k) \in Nat /\ Ended(w) + Backoff(k) \in Nat
    BY <1>3, BackoffNatural
  <2> DEFINE at == Ended(w) + Backoff(k)
  <2>2. at \in Nat
    BY <2>1
  <2>3. Retried(r, w, k) = [r EXCEPT !.status = "pending", !.availableAt = at, !.lockedAt = NoTime]
    BY DEF Retried
  <2> HIDE DEF at
  <2>4. NatRow([r EXCEPT !.status = "pending", !.availableAt = at, !.lockedAt = NoTime])
    BY <1>1, <1>2, <2>2, TimesAre DEF NatRow, Rows
  <2>5. Retried(r, w, k) \in Rows
    BY <1>1, <1>3, <2>1, RetriedTyped
  <2> QED
    BY <2>3, <2>4, <2>5
<1>5. ASSUME NEW again \in Rows, NatRow(again)
      PROVE  NatRow(Attempted(r, w, again)) /\ NatRow([again EXCEPT !.attempts = n])
  <2>1. ASSUME NEW k
        PROVE  /\ NatRow([r EXCEPT !.attempts = k, !.status = "dead_letter", !.lockedAt = NoTime])
               /\ NatRow([again EXCEPT !.attempts = k])
    BY <1>1, <1>2, <1>5, TimesAre DEF NatRow, Rows
  <2> QED
    BY <2>1 DEF Attempted
<1>6. [r EXCEPT !.lockedAt = Ended(w)] \in Rows /\ NatRow([r EXCEPT !.lockedAt = Ended(w)])
  BY <1>1, <1>2, <1>3, TimesAre DEF NatRow, Rows
<1>7. NatRow([r EXCEPT !.status = "completed", !.lockedAt = NoTime])
  BY <1>1, <1>2, TimesAre DEF NatRow, Rows
<1>8. NatRow(Attempted(r, w, Retried(r, w, n + 1)))
      /\ NatRow([Retried(r, w, n) EXCEPT !.attempts = n])
  BY <1>1, <1>4, <1>5
<1>9. NatRow(TimedOut(r, w))
  BY <1>5, <1>6 DEF TimedOut
<1> QED
  BY <1>7, <1>8, <1>9 DEF Result

LEMMA WriteNatural ==
  ASSUME Shape, Naturals, NEW w \in Workers, NEW patched, NatRow(patched),
         UpdateIfLeaseHeld(w, patched)
  PROVE  \A e \in Events : NatRow(row'[e])
BY DEF UpdateIfLeaseHeld, Shape, Naturals

LEMMA StoppedNatural ==
  ASSUME Shape, Naturals, NEW w \in Workers, worker' = Stopped(w)
  PROVE  \A v \in Workers : NatStep(worker'[v])
<1>1. NatStep(Idle(worker[w].event))
  BY TimesAre DEF NatStep, Idle
<1> QED
  BY <1>1 DEF Stopped, Shape, Naturals

LEMMA SettlingNatural ==
  ASSUME Shape, Naturals, NEW w \in Workers, NEW o \in {"timeout", "failed"} \cup Outcomes,
         Settling(w, o)
  PROVE  \A v \in Workers : NatStep(worker'[v])
<1> DEFINE ends == now + Latency
<1>1. ends \in Nat /\ Latency <= ends
  BY TimesAssumption DEF Shape
<1>2. worker' = [worker EXCEPT ![w] = [worker[w] EXCEPT !.pc = "settling", !.due = ends, !.outcome = o]]
  BY DEF Settling, Shape
<1> HIDE DEF ends
<1>3. NatStep([worker[w] EXCEPT !.pc = "settling", !.due = ends, !.outcome = o])
  BY <1>1 DEF NatStep, Naturals, Shape, Steps
<1> QED
  BY <1>2, <1>3 DEF Shape, Naturals

LEMMA NaturalsStep == Shape /\ Naturals /\ [Next]_vars => Naturals'
<1> SUFFICES ASSUME Shape, Naturals, [Next]_vars PROVE Naturals'
  OBVIOUS
<1> USE TimesAssumption, TimesAre
<1>0. /\ now \in Nat /\ claims \in [Events -> Nat] /\ row \in [Events -> Rows]
      /\ worker \in [Workers -> Steps] /\ \A w \in Workers : worker[w].event \in Events
      /\ \A e \in Events : NatRow(row[e])
      /\ \A w \in Workers : NatStep(worker[w])
      /\ GhostsTyped
  BY DEF Shape, Steps, Naturals
<1>1. CASE Tick
  BY <1>0, <1>1 DEF Tick, Naturals, GhostsTyped
<1>2. ASSUME NEW w \in Workers, NEW e \in Events, Claim(w, e) PROVE Naturals'
  <2> DEFINE c == claims[e] + 1
  <2>1. c \in Nat
    BY <1>0
  <2>2. /\ row' = [row EXCEPT ![e] = [row[e] EXCEPT !.status = "processing",
                                                    !.lockedAt = worker[w].lockedAt]]
        /\ worker' = [worker EXCEPT ![w] = [worker[w] EXCEPT !.pc = "claimed", !.event = e,
                                              !.attempts = row[e].attempts, !.claim = c]]
    BY <1>0, <1>2 DEF Claim
  <2> HIDE DEF c
  <2>3. NatRow([row[e] EXCEPT !.status = "processing", !.lockedAt = worker[w].lockedAt])
    BY <1>0 DEF NatRow, NatStep, Rows
  <2>4. NatStep([worker[w] EXCEPT !.pc = "claimed", !.event = e,
                                  !.attempts = row[e].attempts, !.claim = c])
    BY <1>0, <2>1 DEF NatStep, Steps
  <2> QED
    BY <1>0, <1>2, <2>2, <2>3, <2>4 DEF Claim, Naturals, GhostsTyped
<1>3. ASSUME NEW w \in Workers, ReadClock(w) \/ StartHandler(w) PROVE Naturals'
  <2>1. PICK at \in Times, ends \in Nat, pc \in {"claiming", "running"} :
          worker' = [worker EXCEPT ![w] = [worker[w] EXCEPT !.pc = pc, !.lockedAt = at, !.due = ends]]
    <3>1. CASE ReadClock(w)
      <4>1. now + Latency \in Nat /\ now \in Times
        BY <1>0
      <4> QED
        BY <1>0, <3>1, <4>1 DEF ReadClock
    <3>2. CASE StartHandler(w)
      <4>1. now + HandlerTimeout \in Nat /\ worker[w].lockedAt \in Times
        BY <1>0 DEF NatStep
      <4>2. worker' = [worker EXCEPT ![w] = [worker[w] EXCEPT !.pc = "running",
                         !.lockedAt = worker[w].lockedAt, !.due = now + HandlerTimeout]]
        BY <1>0, <3>2 DEF StartHandler, Steps
      <4> QED
        BY <4>1, <4>2
    <3> QED
      BY <1>3, <3>1, <3>2
  <2>2. NatStep([worker[w] EXCEPT !.pc = pc, !.lockedAt = at, !.due = ends])
    BY <1>0 DEF NatStep, Steps
  <2> QED
    BY <1>0, <1>3, <2>1, <2>2 DEF ReadClock, StartHandler, Naturals, GhostsTyped
<1>4. ASSUME NEW w \in Workers, ClaimNothing(w) \/ Crash(w) PROVE Naturals'
  BY <1>0, <1>4, StoppedNatural DEF ClaimNothing, Crash, Naturals, GhostsTyped
<1>5. ASSUME NEW w \in Workers, Release(w) PROVE Naturals'
  <2>1. NatRow([row[worker[w].event] EXCEPT !.status = "pending", !.lockedAt = NoTime])
    BY <1>0 DEF NatRow, Rows
  <2> QED
    BY <1>0, <1>5, <2>1, StoppedNatural, WriteNatural DEF Release, Naturals, GhostsTyped
<1>6. ASSUME NEW w \in Workers, Checkpoint(w) PROVE Naturals'
  <2>1. NatRow([row[worker[w].event] EXCEPT !.saved = worker[w].claim])
    BY <1>0 DEF NatRow, NatStep, Rows
  <2>2. \A v \in Workers : NatStep(worker'[v])
    BY <1>0, <1>6, SettlingNatural DEF Checkpoint
  <2> QED
    BY <1>0, <1>6, <2>1, <2>2, WriteNatural DEF Checkpoint, Naturals, GhostsTyped
<1>7. ASSUME NEW w \in Workers, HandlerReturns(w) PROVE Naturals'
  BY <1>0, <1>7, SettlingNatural DEF HandlerReturns, Naturals, GhostsTyped
<1>8. ASSUME NEW w \in Workers, HandlerTimesOut(w) PROVE Naturals'
  <2>1. [worker |-> w, event |-> worker[w].event, until |-> now + GhostTime, requeued |-> FALSE]
          \in [worker : Workers, event : Events, until : Nat, requeued : BOOLEAN]
    BY <1>0
  <2> QED
    BY <1>0, <1>8, <2>1, SettlingNatural DEF HandlerTimesOut, Naturals, GhostsTyped
<1>9. ASSUME NEW w \in Workers, Settle(w) PROVE Naturals'
  BY <1>0, <1>9, ResultNatural, WriteNatural, StoppedNatural DEF Settle, Naturals, GhostsTyped
<1>10. ASSUME NEW e \in Events, Enqueue(e) \/ Reschedule(e) PROVE Naturals'
  <2>1. PICK r : row' = [row EXCEPT ![e] = r] /\ NatRow(r)
    <3>1. CASE Enqueue(e)
      <4>1. PICK d \in Delays :
              row' = [row EXCEPT ![e] = [NoRow EXCEPT !.status = "pending", !.availableAt = now + d]]
        BY <3>1 DEF Enqueue
      <4>2. now + d \in Nat
        BY <1>0, ValuesAssumption
      <4>3. NatRow([NoRow EXCEPT !.status = "pending", !.availableAt = now + d])
        BY <4>2 DEF NatRow, NoRow
      <4> QED
        BY <4>1, <4>3
    <3>2. CASE Reschedule(e)
      <4>1. PICK d \in Delays : row' = [row EXCEPT ![e].availableAt = Later(@, now + d)]
        BY <3>2 DEF Reschedule
      <4> DEFINE at == Later(row[e].availableAt, now + d)
      <4>2. at \in Nat
        BY <1>0, ValuesAssumption DEF Later, NatRow
      <4>3. row' = [row EXCEPT ![e] = [row[e] EXCEPT !.availableAt = at]]
        BY <1>0, <4>1 DEF Rows
      <4> HIDE DEF at
      <4>4. NatRow([row[e] EXCEPT !.availableAt = at])
        BY <1>0, <4>2 DEF NatRow, Rows
      <4> QED
        BY <4>3, <4>4
    <3> QED
      BY <1>10, <3>1, <3>2
  <2> QED
    BY <1>0, <1>10, <2>1 DEF Enqueue, Reschedule, Naturals, GhostsTyped
<1>11. ASSUME NEW e \in Events, Retire(e) \/ Requeue(e) \/ Reap(e) PROVE Naturals'
  <2>1. /\ NatRow([row[e] EXCEPT !.status = "completed", !.lockedAt = NoTime])
        /\ NatRow([row[e] EXCEPT !.status = "pending", !.lockedAt = NoTime])
        /\ NatRow([row[e] EXCEPT !.status = "pending", !.attempts = 0, !.availableAt = now,
                                 !.lockedAt = NoTime])
    BY <1>0 DEF NatRow, Rows
  <2>2. \A f \in Events : NatRow(row'[f])
    BY <1>0, <1>11, <2>1 DEF Retire, Requeue, Reap
  <2>3. CASE Requeue(e)
    <3>1. \A g \in ghosts :
            Marked(g, e) \in [worker : Workers, event : Events, until : Nat, requeued : BOOLEAN]
      BY <1>0 DEF Marked, GhostsTyped
    <3>2. GhostsTyped'
      BY <2>3, <3>1 DEF Requeue, GhostsTyped
    <3> QED
      BY <1>0, <2>2, <2>3, <3>2 DEF Requeue, Naturals
  <2> QED
    BY <1>0, <1>11, <2>2, <2>3 DEF Retire, Reap, Naturals, GhostsTyped
<1>12. CASE UNCHANGED vars
  BY <1>0, <1>12 DEF vars, Naturals, GhostsTyped
<1> QED
  BY <1>1, <1>2, <1>3, <1>4, <1>5, <1>6, <1>7, <1>8, <1>9, <1>10, <1>11, <1>12 DEF Next, Work

\* Times and counts stay natural numbers, for any number of workers and events and
\* any setting of the times: a retry is never made available before the clock began.
THEOREM OutboxTypes == Spec => []TypeOK
<1>1. Init => Shape /\ Naturals
  <2> SUFFICES ASSUME Init PROVE Naturals
    BY InitLease DEF LeaseInv
  <2>1. NatRow(NoRow) /\ \A e \in Events : NatStep(Idle(e))
    BY TimesAre DEF NatRow, NoRow, NatStep, Idle
  <2> QED
    BY <2>1 DEF Init, Naturals, GhostsTyped
<1>2. Shape /\ Naturals => TypeOK
  <2> SUFFICES ASSUME Shape, Naturals PROVE TypeOK
    OBVIOUS
  <2>1. \A e \in Events : row[e] \in
          [status : {"absent", "pending", "processing", "completed", "dead_letter"},
           lockedAt : Times, availableAt : Nat, attempts : Nat, saved : Nat]
    BY DEF Shape, Rows, Naturals, NatRow
  <2>2. \A w \in Workers : worker[w] \in
          [pc : {"idle", "claiming"} \cup Holding, event : Events,
           lockedAt : Times, attempts : Nat, due : Nat, claim : Nat,
           outcome : {"none", "timeout"} \cup Outcomes \cup {"failed"}]
    BY DEF Shape, Steps, Naturals, NatStep, Holding
  <2> QED
    BY <2>1, <2>2 DEF TypeOK, Shape, Naturals, GhostsTyped
<1> QED
  BY <1>1, <1>2, ShapeStep, NaturalsStep, PTL DEF Spec
==============================================================================
