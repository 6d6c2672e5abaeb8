----------------------------- MODULE PauseResume ------------------------------
(***************************************************************************)
(* One run that pauses and is resumed point by point                       *)
(* (lib/workflows/executor/human-in-the-loop-manager.ts,                   *)
(* resume-execution.ts and pause-persistence.ts).                          *)
(*                                                                         *)
(* Three records are shared, each transaction locking them in one order:   *)
(* the run's log, the row of its paused execution with the state of every  *)
(* pause point, and the queue of resumes.  One resume at a time is         *)
(* claimed; its attempt claims the log, is admitted, runs the engine from  *)
(* the snapshot it read when it was claimed, and settles what came of it.  *)
(* Its process may die between two transactions.  Time is left out: what   *)
(* has a due date is due at once, or any time later.  PausedRun adds the   *)
(* requests to cancel the run and the job that polls for what is due.      *)
(***************************************************************************)
EXTENDS Integers, FiniteSets

CONSTANTS
  Contexts,   \* the contexts the run may pause in
  First,      \* those of its first pause
  Timed,      \* those that wait for a time, and not for a person
  MaxEntries, \* bound on the entries of the resume queue
  MaxRetries, \* MAX_AUTOMATIC_RESUME_ADMISSION_RETRIES
  Outcomes,   \* how the engine may end a resume
  Refusals,   \* how the admission of a resume may fail
  Crashes     \* whether processes may die

Run == 0                 \* the attempt of the run itself
Ids == 1..MaxEntries     \* entries of the queue, in the order of queuedAt
Attempts == {Run} \cup Ids

EngineOutcomes == {"completed", "paused", "failed", "cancelled", "timeout"}
AdmissionFailures == {"retry", "reject", "unbuffered"}

ASSUME PauseAssumption ==
  /\ MaxEntries \in Nat /\ MaxRetries \in Nat
  /\ IsFiniteSet(Contexts) /\ First \subseteq Contexts /\ First # {} /\ Timed \subseteq Contexts
  /\ Outcomes \subseteq EngineOutcomes /\ Refusals \subseteq AdmissionFailures
  /\ Crashes \in BOOLEAN

VARIABLES
  log,      \* workflow_execution_logs.status
  row,      \* the row of paused_executions
  queue,    \* resume_queue, by entry
  attempt,  \* what the process that runs an entry is doing
  stop,     \* the attempts that were told to stop
  answered  \* context -> how often the engine went on from it (history)

vars == <<log, row, queue, attempt, stop, answered>>

\* `snap' is the contexts whose answers the stored snapshot contains, `due'
\* whether next_resume_at is set.
NoRow == [status |-> "none", points |-> [c \in Contexts |-> "none"], resumed |-> 0,
          retries |-> 0, due |-> FALSE, snap |-> {}]

NoEntry(c) == [ctx |-> c, status |-> "absent", staged |-> FALSE]
Idle == [pc |-> "idle", seen |-> {}, outcome |-> "none", fresh |-> {}]

Init ==
  /\ log = "running" /\ row = NoRow
  /\ queue = [i \in Ids |-> NoEntry(CHOOSE c \in First : TRUE)]
  /\ attempt = [i \in Attempts |-> IF i = Run THEN [Idle EXCEPT !.pc = "running"] ELSE Idle]
  /\ stop = {}
  /\ answered = [c \in Contexts |-> 0]

------------------------------------------------------------------------------
(* The records.                                                             *)

Resumable == row.status \in {"paused", "partially_resumed"}

Stored(points) == {c \in Contexts : points[c] # "none"}
Answered(points) == {c \in Contexts : points[c] = "resumed"}

\* The status of a row by its counts: the CASE of every statement that sets it.
Progress(resumed, total) ==
  IF resumed >= total THEN "fully_resumed"
  ELSE IF resumed > 0 THEN "partially_resumed" ELSE "paused"

Claimed == {i \in Ids : queue[i].status = "claimed"}
Pending == {i \in Ids : queue[i].status = "pending"}
Unused == {i \in Ids : queue[i].status = "absent"}
Oldest(ids) == CHOOSE i \in ids : \A j \in ids : i <= j

Context(i) == queue[i].ctx

\* Entries that a transaction ends, and `stages' tells whether the reason it
\* records is the one by which a rollback finds them again.
Failed(ids, stages) ==
  [i \in Ids |-> IF i \in ids THEN [queue[i] EXCEPT !.status = "failed", !.staged = stages]
                 ELSE queue[i]]

\* Mutant: an attempt is started beside the one that is under way.
NobodyElse == TRUE

NothingClaimed == Claimed = {}

\* startResumeExecution with the copy of the row its claim has read.
Started(attempts, i) ==
  [attempts EXCEPT ![i] = [Idle EXCEPT !.pc = "starting", !.seen = row.snap]]

------------------------------------------------------------------------------
(* Resumes are asked for, and served from the queue.                        *)

Admissible(c) == Resumable /\ row.points[c] = "paused"

\* enqueueOrStartResume, of a point that may be resumed.
EnqueueOrStart(c) ==
  LET i == Oldest(Unused)
  IN  IF NothingClaimed
      THEN /\ queue' = [queue EXCEPT ![i] = [NoEntry(c) EXCEPT !.status = "claimed"]]
           /\ row' = [row EXCEPT !.points[c] = "resuming"]
           /\ attempt' = Started(attempt, i)
      ELSE /\ queue' = [queue EXCEPT ![i] = [NoEntry(c) EXCEPT !.status = "pending"]]
           /\ row' = [row EXCEPT !.points[c] = "queued"]
           /\ UNCHANGED attempt

\* A person answers.
Resume(c) ==
  /\ Admissible(c) /\ c \notin Timed /\ Unused # {}
  /\ EnqueueOrStart(c)
  /\ UNCHANGED <<log, stop, answered>>

Serving == Resumable /\ NothingClaimed /\ Pending # {}

\* The oldest entry waits for a point that is queued no longer.
Overtaken == Serving /\ row.points[Context(Oldest(Pending))] # "queued"

\* A transaction of processQueuedResumes; its caller goes on, with `attempts',
\* unless it has to look at the next entry.
ServeQueue(attempts) ==
  LET i == Oldest(Pending)
  IN  IF Overtaken
      THEN queue' = Failed({i}, FALSE) /\ UNCHANGED <<row, attempt>>
      ELSE IF Serving
      THEN /\ queue' = [queue EXCEPT ![i].status = "claimed"]
           /\ row' = [row EXCEPT !.points[Context(i)] = "resuming"]
           /\ attempt' = Started(attempts, i)
      ELSE attempt' = attempts /\ UNCHANGED <<row, queue>>

------------------------------------------------------------------------------
(* An attempt at a resume (startResumeExecution).                           *)

Goes(i, pc) == attempt' = [attempt EXCEPT ![i].pc = pc]
Ends(i, pc, outcome) == attempt' = [attempt EXCEPT ![i].pc = pc, ![i].outcome = outcome]

Claimable == log \in {"pending", "paused"}

\* claimResumeExecutionLog.
ClaimLog(i) ==
  /\ attempt[i].pc = "starting"
  /\ IF Claimable THEN log' = "running" /\ Goes(i, "admitting")
                  ELSE Ends(i, "settling", "reject") /\ UNCHANGED log
  /\ UNCHANGED <<row, queue, stop, answered>>

\* preprocessExecution and the event buffer let the attempt begin, or refuse it.
Admit(i) ==
  /\ attempt[i].pc = "admitting"
  /\ \/ Goes(i, "running")
     \/ \E r \in Refusals : Ends(i, "settling", r)
  /\ UNCHANGED <<log, row, queue, stop, answered>>

\* Mutant: the log of a run that was cancelled is overwritten.
LogAfterAnyway(outcome) ==
  CASE outcome = "completed" -> "completed"
    [] outcome = "paused"    -> "pending"
    [] outcome = "cancelled" -> "cancelled"
    [] OTHER                 -> "failed"

\* What the engine's end makes of the log; a cancelled log stays as it is.
LogAfter(outcome) ==
  IF log = "cancelled" THEN "cancelled"
  ELSE CASE outcome = "completed" -> "completed"
         [] outcome = "paused"    -> "pending"
         [] outcome = "cancelled" -> IF log \in {"completed", "failed"} THEN log ELSE "cancelled"
         [] OTHER                 -> "failed"

\* executeWorkflowCore, which writes the log.  The run itself pauses in First; one
\* that pauses anew does so in contexts of its own.
EngineEnds(i) ==
  /\ attempt[i].pc = "running"
  /\ \E o \in IF i = Run THEN {"paused"} ELSE Outcomes, fresh \in SUBSET Contexts :
       /\ o = "cancelled" => i \in stop
       /\ IF i = Run THEN fresh = First
          ELSE IF o = "paused" THEN fresh # {} /\ fresh \cap Stored(row.points) = {}
          ELSE fresh = {}
       /\ log' = LogAfter(o)
       /\ attempt' = [attempt EXCEPT
            ![i].pc = IF o \in {"completed", "paused"} THEN "ended" ELSE "settling",
            ![i].outcome = o, ![i].fresh = fresh]
       /\ answered' = IF i # Run /\ o \in {"completed", "paused"}
                      THEN [answered EXCEPT ![Context(i)] = @ + 1] ELSE answered
  /\ stop' = stop \ {i}
  /\ UNCHANGED <<row, queue>>

\* The run itself is stopped before it pauses.
RunStops ==
  /\ attempt[Run].pc = "running" /\ Run \in stop
  /\ log' = LogAfter("cancelled")
  /\ attempt' = [attempt EXCEPT ![Run] = Idle]
  /\ stop' = stop \ {Run}
  /\ UNCHANGED <<row, queue, answered>>

\* Mutant: the state an attempt ends with is made from its own answer alone.
OwnAnswer(i) == IF i = Run THEN {} ELSE {Context(i)}

\* The answers in the state an attempt ends with.
Answers(i) == attempt[i].seen \cup (IF i = Run THEN {} ELSE {Context(i)})

\* updateSnapshotAfterResume.
UpdateSnapshot(i) ==
  /\ attempt[i].pc = "ended" /\ attempt[i].outcome = "completed"
  /\ row' = [row EXCEPT !.snap = Answers(i)]
  /\ Goes(i, "settling")
  /\ UNCHANGED <<log, queue, stop, answered>>

\* Mutant: the point that was being resumed is paused as the others are.
MergedAnew(fresh) ==
  [c \in Contexts |-> IF c \in fresh \/ row.points[c] = "resuming" THEN "paused"
                      ELSE row.points[c]]

\* What was being resumed is answered, and the new points are added.
Merged(fresh) ==
  [c \in Contexts |-> IF c \in fresh THEN "paused"
                      ELSE IF row.points[c] = "resuming" THEN "resumed" ELSE row.points[c]]

\* persistPauseResult.
PersistPause(i) ==
  /\ attempt[i].pc = "ended" /\ attempt[i].outcome = "paused"
  /\ LET points == Merged(attempt[i].fresh)
         resumed == Cardinality(Answered(points))
     IN  row' =
           IF log = "cancelled"
           THEN IF row.status = "none" THEN row
                ELSE [row EXCEPT !.status = "cancelled", !.due = FALSE]
           ELSE IF row.status = "cancelled" THEN row
           ELSE [status  |-> IF row.status = "cancelling" THEN "cancelling"
                             ELSE Progress(resumed, Cardinality(Stored(points))),
                 points  |-> points, resumed |-> resumed, retries |-> 0,
                 due     |-> Timed \cap Stored(points) # {},
                 snap    |-> Answers(i)]
  /\ Goes(i, "persisted")
  /\ UNCHANGED <<log, queue, stop, answered>>

\* The queue is served, and the first run is done.
PauseServed(i) ==
  /\ attempt[i].pc = "persisted"
  /\ ServeQueue(IF Overtaken THEN attempt
                ELSE [attempt EXCEPT ![i] = IF i = Run THEN Idle ELSE [@ EXCEPT !.pc = "settling"]])
  /\ UNCHANGED <<log, stop, answered>>

------------------------------------------------------------------------------
(* What an attempt records of its outcome.                                  *)

RowCancelled == [row EXCEPT !.status = "cancelled", !.due = FALSE]

CancelWon == log = "cancelled" \/ row.status \in {"cancelling", "cancelled"}

\* Mutant: an answer is counted again after the new pause has counted it.
CountedAnyway(i) == FALSE

\* persistPauseResult has settled the point: markResumeCompleted gets no context.
SettledByPause(i) == attempt[i].outcome = "paused"

\* Mutant: the last point but one ends the run.
LeavesSeveral(resumed, total) == resumed + 1 < total

LeavesPoints(resumed, total) == resumed < total

\* markResumeCompleted.
MarkCompleted(i) ==
  /\ attempt[i].pc = "settling" /\ attempt[i].outcome \in {"completed", "paused"}
  /\ LET c == Context(i)
         resumed == row.resumed + 1
         total == Cardinality(Stored(row.points))
     IN  IF CancelWon
         THEN /\ queue' = IF queue[i].status = "claimed" THEN Failed({i}, FALSE) ELSE queue
              /\ row' = IF log = "cancelled" /\ row.status # "cancelled" THEN RowCancelled ELSE row
              /\ UNCHANGED log
         ELSE IF queue[i].status # "claimed" THEN UNCHANGED <<log, row, queue>>
         ELSE /\ queue' = [queue EXCEPT ![i].status = "completed"]
              /\ IF SettledByPause(i) THEN UNCHANGED <<log, row>>
                 ELSE /\ row' = [row EXCEPT !.points[c] = "resumed", !.resumed = resumed,
                                   !.retries = 0, !.status = Progress(resumed, total)]
                      /\ log' = IF LeavesPoints(resumed, total) THEN "pending" ELSE log
  /\ Goes(i, "draining")
  /\ UNCHANGED <<stop, answered>>

\* markResumeFailed.
MarkFailed(i) ==
  /\ attempt[i].pc = "settling" /\ attempt[i].outcome = "failed"
  /\ queue' = Failed({i}, FALSE)
  /\ IF log = "cancelled" \/ row.status = "cancelled"
     THEN row' = RowCancelled /\ UNCHANGED log
     ELSE /\ row' = [row EXCEPT !.points[Context(i)] = "failed"]
          /\ log' = IF row.status = "cancelling" THEN log ELSE "failed"
  /\ Goes(i, "draining")
  /\ UNCHANGED <<stop, answered>>

\* Mutant: the retries are not counted.
RetriesForever(retryable) == retryable

\* resolveAutomaticResumeAdmissionFailure: whether there is another retry.
Retries(retryable) == retryable /\ row.retries < MaxRetries

\* Mutant: an attempt that failed before its run began leaves the queue alone.
EndsUnserved(outcome) ==
  CASE outcome \in AdmissionFailures      -> "idle"
    [] outcome \in {"cancelled", "timeout"} -> "checking"
    [] OTHER                                -> "draining"

\* Where an attempt goes once its failure has been recorded: a refused one ends,
\* a stopped one looks after the cancellation, and the others serve the queue.
AfterFailure(outcome) ==
  CASE outcome \in {"retry", "reject"}      -> "idle"
    [] outcome \in {"cancelled", "timeout"} -> "checking"
    [] OTHER                                -> "draining"

\* markResumeAttemptFailed.
MarkAttemptFailed(i) ==
  LET o == attempt[i].outcome
      refused == o \in {"retry", "reject"} /\ Resumable /\ log # "cancelled"
      again == refused /\ Retries(o = "retry")
  IN  /\ attempt[i].pc = "settling"
      /\ o \in AdmissionFailures \cup {"cancelled", "timeout"}
      /\ queue' = IF again THEN [queue EXCEPT ![i].status = "pending"] ELSE Failed({i}, FALSE)
      /\ IF log = "cancelled" \/ row.status = "cancelled"
         THEN row' = RowCancelled /\ UNCHANGED log
         ELSE /\ row' = [row EXCEPT !.points[Context(i)] = IF again THEN "queued" ELSE "paused",
                                    !.retries = IF again THEN @ + 1 ELSE @,
                                    !.due = IF refused THEN again ELSE @]
              /\ log' = IF row.status = "cancelling" \/ log \in {"failed", "completed"}
                        THEN log ELSE "paused"
      /\ attempt' = IF AfterFailure(o) = "idle" THEN [attempt EXCEPT ![i] = Idle]
                    ELSE [attempt EXCEPT ![i].pc = AfterFailure(o)]
      /\ UNCHANGED <<stop, answered>>

\* The transaction of completePausedCancellation.
CompletePausedCancellation ==
  LET staged == row.status \in {"cancelling", "cancelled"}
  IN  IF row.status # "none" /\ (log = "cancelled" \/ (staged /\ log \in {"running", "pending"}))
      THEN /\ log' = "cancelled" /\ row' = RowCancelled
           /\ queue' = Failed(Pending \cup Claimed, FALSE)
      ELSE UNCHANGED <<log, row, queue>>

\* getPausedCancellationStatus, and the cancellation is completed if it is staged.
CheckCancellation(i) ==
  /\ attempt[i].pc = "checking"
  /\ IF NothingClaimed /\ row.status = "cancelling"
     THEN CompletePausedCancellation ELSE UNCHANGED <<log, row, queue>>
  /\ Goes(i, "draining")
  /\ UNCHANGED <<stop, answered>>

\* processQueuedResumes, the last an attempt does.
Drain(i) ==
  /\ attempt[i].pc = "draining"
  /\ ServeQueue(IF Overtaken THEN attempt ELSE [attempt EXCEPT ![i] = Idle])
  /\ UNCHANGED <<log, stop, answered>>

\* The process of an attempt dies.
Crash(i) ==
  /\ Crashes /\ attempt[i].pc # "idle"
  /\ attempt' = [attempt EXCEPT ![i] = Idle]
  /\ stop' = stop \ {i}
  /\ UNCHANGED <<log, row, queue, answered>>

Working == {i \in Attempts : attempt[i].pc # "idle"}

\* cleanup-stale-executions, once nothing can be running any more.
SweepStale ==
  /\ log = "running" /\ Working = {}
  /\ log' = "failed"
  /\ UNCHANGED <<row, queue, attempt, stop, answered>>

Attempting(i) ==
  \/ ClaimLog(i) \/ Admit(i) \/ EngineEnds(i)
  \/ UpdateSnapshot(i) \/ PersistPause(i) \/ PauseServed(i)
  \/ MarkCompleted(i) \/ MarkFailed(i) \/ MarkAttemptFailed(i)
  \/ CheckCancellation(i) \/ Drain(i)

Managing ==
  \/ \E c \in Contexts : Resume(c)
  \/ \E i \in Attempts : Attempting(i) \/ Crash(i)
  \/ RunStops
  \/ SweepStale
==============================================================================
