------------------------------ MODULE PausedRun -------------------------------
(***************************************************************************)
(* A run that pauses while it is cancelled and polled: PauseResume with    *)
(* the requests to cancel it (lib/execution/cancel-workflow-execution.ts)  *)
(* and the cron job that resumes what is due (app/api/resume/poll).        *)
(*                                                                         *)
(* A request to cancel stages the cancellation, which stops the queue from *)
(* being served, signals the attempt under way, claims the log, looks for  *)
(* a pause once more, publishes an event and completes the cancellation.   *)
(* It turns back where the client aborted it, or where no signal got       *)
(* through.  Cancelling through a table's workflow group is left out.      *)
(***************************************************************************)
EXTENDS PauseResume

CONSTANTS
  Cancellers, \* requests to cancel the run
  Signals,    \* whether a stop signal is accepted: Redis may be down
  Publishes,  \* whether the event of a cancellation is published
  Aborts,     \* whether the client aborts its request to cancel
  Polls       \* bound on the polls

ASSUME CancelAssumption ==
  /\ Signals \subseteq BOOLEAN /\ Publishes \subseteq BOOLEAN /\ Aborts \subseteq BOOLEAN
  /\ Polls \in Nat

VARIABLES
  cancel,  \* what a request to cancel is doing
  poll     \* what the cron job is doing

runVars == <<log, row, queue, attempt, stop, answered, cancel, poll>>

\* A request to cancel: whether the run was cancelled when it came, what it staged,
\* and whether it has yet to confirm the stop of its target.
NoCancel == [pc |-> "idle", late |-> FALSE, kind |-> "not_paused", target |-> Run,
             confirm |-> FALSE]

\* The job: the points as it read them, those left to dispatch, the polls left.
NoPoll == [pc |-> "idle", points |-> NoRow.points, todo |-> {}, left |-> Polls]

RunInit == Init /\ cancel = [k \in Cancellers |-> NoCancel] /\ poll = NoPoll

------------------------------------------------------------------------------
(* Staging a cancellation, and taking it back.                              *)

CanStage ==
  /\ log \in {"running", "pending", "cancelled"}
  /\ row.status \in {"paused", "partially_resumed", "cancelling"}

\* stagePausedCancellation: pending entries fail, to be found again.
Stage ==
  IF CanStage
  THEN row' = [row EXCEPT !.status = "cancelling"] /\ queue' = Failed(Pending, TRUE)
  ELSE UNCHANGED <<row, queue>>

StagedKind ==
  IF ~CanStage THEN "not_paused" ELSE IF NothingClaimed THEN "idle" ELSE "active_resume"

Restored == [row EXCEPT !.status = Progress(row.resumed, Cardinality(Stored(row.points)))]

\* Mutant: entries that a staged cancellation failed stay failed.
NotRequeued == queue

\* Entries that a staged cancellation failed wait again.
Requeued ==
  [i \in Ids |-> IF queue[i].status = "failed" /\ queue[i].staged
                 THEN [queue[i] EXCEPT !.status = "pending", !.staged = FALSE] ELSE queue[i]]

CanRollback(target) ==
  /\ log \in {"running", "pending"} /\ row.status = "cancelling"
  /\ queue[target].status \in {"claimed", "failed", "completed"} /\ Claimed \subseteq {target}

\* rollbackActiveResumeCancellation: the point of an attempt that failed
\* meanwhile is paused again.
Rollback(target) ==
  /\ row' = IF queue[target].status = "failed"
            THEN [Restored EXCEPT !.points[Context(target)] = "paused",
                                  !.retries = 0, !.due = FALSE]
            ELSE Restored
  /\ queue' = Requeued

\* clearPausedCancellationIntent.
ClearIntent ==
  IF row.status = "cancelling"
  THEN row' = Restored /\ queue' = IF log \in {"running", "pending"} THEN Requeued ELSE queue
  ELSE UNCHANGED <<row, queue>>

------------------------------------------------------------------------------
(* A request to cancel (cancelWorkflowExecution).                           *)

CancelGoes(k, pc) == cancel' = [cancel EXCEPT ![k].pc = pc]

\* The log is read; what comes after depends on it.
ReadLog(k) ==
  /\ cancel[k].pc = "idle"
  /\ cancel' = [cancel EXCEPT
       ![k].late = log = "cancelled",
       ![k].pc = IF log \in {"running", "pending", "cancelled"} THEN "staging" ELSE "finalizing"]
  /\ UNCHANGED <<log, row, queue, attempt, stop, answered, poll>>

\* Where the log is cancelled already, there is nothing to claim.
Claiming(k) == IF cancel[k].late THEN "publishing" ELSE "claiming"

AfterStaging(k, aborted) ==
  IF StagedKind # "not_paused" /\ aborted THEN "turning back"
  ELSE CASE StagedKind = "active_resume" -> "signalling"
         [] StagedKind = "idle"          -> Claiming(k)
         [] StagedKind = "not_paused"    ->
              IF cancel[k].pc = "staging" /\ ~cancel[k].late THEN "signalling run" ELSE "done"

StageFirst(k) ==
  /\ cancel[k].pc \in {"staging", "restaging"}
  /\ Stage
  /\ \E aborted \in Aborts :
       cancel' = [cancel EXCEPT
         ![k].kind = StagedKind,
         ![k].target = IF StagedKind = "active_resume" THEN CHOOSE i \in Claimed : TRUE ELSE Run,
         ![k].pc = AfterStaging(k, aborted)]
  /\ UNCHANGED <<log, attempt, stop, answered, poll>>

\* A request turned back: by an abort, or for want of a signal.  One that cannot
\* goes on and cancels the run.
TurnBack(k) ==
  LET target == cancel[k].target
      active == cancel[k].kind = "active_resume"
      aborted == cancel[k].pc = "turning back"
  IN  /\ cancel[k].pc \in {"turning back", "undoing"}
      /\ IF ~active
         THEN /\ ClearIntent
              /\ CancelGoes(k, IF row.status = "cancelling" /\ log \in {"running", "pending"}
                               THEN "serving" ELSE "done")
         ELSE IF CanRollback(target)
         THEN /\ Rollback(target)
              /\ CancelGoes(k, IF queue[target].status = "claimed" THEN "done" ELSE "serving")
         ELSE /\ UNCHANGED <<row, queue>>
              /\ cancel' = [cancel EXCEPT ![k].pc = IF aborted THEN "signalling" ELSE "claiming",
                                          ![k].confirm = ~aborted]
      /\ UNCHANGED <<log, attempt, stop, answered, poll>>

\* The queue is served after the cancellation was taken back.
ServeAfter(k) ==
  /\ cancel[k].pc = "serving"
  /\ ServeQueue(attempt)
  /\ IF Overtaken THEN UNCHANGED cancel ELSE CancelGoes(k, "done")
  /\ UNCHANGED <<log, stop, answered, poll>>

\* signalAndRecordActiveResumeStop: a resume that is over needs no signal.
Signal(target, accepted) ==
  IF accepted /\ attempt[target].pc # "idle" THEN stop' = stop \cup {target} ELSE UNCHANGED stop

\* Mutant: a signal that was accepted does not count before the resume is over.
StoppedForSure(accepted) == NothingClaimed

Stopped(accepted) == accepted \/ NothingClaimed

SignalResume(k) ==
  /\ cancel[k].pc = "signalling"
  /\ \E accepted \in Signals :
       /\ Signal(cancel[k].target, accepted)
       /\ CancelGoes(k, IF Stopped(accepted) THEN Claiming(k)
                        ELSE IF cancel[k].late THEN "done" ELSE "undoing")
  /\ UNCHANGED <<log, row, queue, attempt, answered, poll>>

\* No pause is stored: the run itself is told to stop.
SignalRun(k) ==
  /\ cancel[k].pc = "signalling run"
  /\ \E accepted \in Signals :
       /\ Signal(Run, accepted)
       /\ CancelGoes(k, IF accepted THEN "claiming" ELSE "restaging")
  /\ UNCHANGED <<log, row, queue, attempt, answered, poll>>

\* claimExecutionLogCancellation.
ClaimCancellation(k) ==
  /\ cancel[k].pc = "claiming"
  /\ IF log \in {"running", "pending", "cancelled"}
     THEN log' = "cancelled" /\ CancelGoes(k, "confirming")
     ELSE /\ UNCHANGED log
          /\ CancelGoes(k, IF cancel[k].kind = "not_paused" THEN "done" ELSE "finalizing")
  /\ UNCHANGED <<row, queue, attempt, stop, answered, poll>>

\* The log is cancelled; a pause may have been stored meanwhile, or an attempt
\* have begun that is not known to stop.
Confirm(k) ==
  /\ cancel[k].pc = "confirming"
  /\ Stage
  /\ \E accepted \in Signals :
       LET known == CanStage \/ cancel[k].kind # "not_paused"
           target == IF CanStage /\ ~NothingClaimed THEN CHOOSE i \in Claimed : TRUE ELSE Run
           unsure == target # Run /\ (target # cancel[k].target \/ cancel[k].confirm)
       IN  /\ IF unsure THEN Signal(target, accepted) ELSE UNCHANGED stop
           /\ CancelGoes(k, IF known /\ (unsure => Stopped(accepted))
                            THEN "publishing" ELSE "done")
  /\ UNCHANGED <<log, attempt, answered, poll>>

\* ensureCancellationEventPublished; the cancellation is completed after it only.
Publish(k) ==
  /\ cancel[k].pc = "publishing"
  /\ \E published \in Publishes : CancelGoes(k, IF published THEN "completing" ELSE "done")
  /\ UNCHANGED <<log, row, queue, attempt, stop, answered, poll>>

Complete(k) ==
  /\ cancel[k].pc = "completing"
  /\ CompletePausedCancellation
  /\ CancelGoes(k, "done")
  /\ UNCHANGED <<attempt, stop, answered, poll>>

\* finalizePausedCancellationForTerminalRunWithRetry, its last try.
Finalize(k) ==
  /\ cancel[k].pc = "finalizing"
  /\ \E accepted \in Signals :
       /\ IF NothingClaimed THEN UNCHANGED stop
          ELSE Signal(CHOOSE i \in Claimed : TRUE, accepted)
       /\ IF /\ Stopped(accepted) /\ log \notin {"running", "pending"}
             /\ row.status \in {"cancelling", "cancelled"}
          THEN row' = RowCancelled /\ queue' = Failed(Pending \cup Claimed, FALSE)
          ELSE UNCHANGED <<row, queue>>
  /\ CancelGoes(k, "done")
  /\ UNCHANGED <<log, attempt, answered, poll>>

CancelCrash(k) ==
  /\ Crashes /\ cancel[k].pc \notin {"idle", "done"}
  /\ CancelGoes(k, "done")
  /\ UNCHANGED <<log, row, queue, attempt, stop, answered, poll>>

Cancelling(k) ==
  \/ ReadLog(k) \/ StageFirst(k) \/ TurnBack(k) \/ ServeAfter(k)
  \/ SignalResume(k) \/ SignalRun(k) \/ ClaimCancellation(k) \/ Confirm(k)
  \/ Publish(k) \/ Complete(k) \/ Finalize(k)

------------------------------------------------------------------------------
(* The job that polls for resumes that are due.                             *)

PollGoes(pc) == poll' = [poll EXCEPT !.pc = pc]

\* GET: a row that is due is read, with its points.
PollRow ==
  /\ poll.pc = "idle" /\ poll.left > 0
  /\ Resumable /\ row.due
  /\ LET todo == {c \in Timed : row.points[c] = "paused"}
     IN  poll' = [pc |-> IF todo = {} THEN "serving" ELSE "dispatching",
                  points |-> row.points, todo |-> todo, left |-> poll.left - 1]
  /\ UNCHANGED <<log, row, queue, attempt, stop, answered, cancel>>

\* Nothing is to be dispatched: the queue is served, and the date is cleared
\* where the row, as it was read, has nothing under way.
PollServe ==
  /\ poll.pc = "serving"
  /\ ServeQueue(attempt)
  /\ IF Overtaken THEN UNCHANGED poll
     ELSE PollGoes(IF \E c \in Contexts : poll.points[c] \in {"queued", "resuming"}
                   THEN "idle" ELSE "clearing")
  /\ UNCHANGED <<log, stop, answered, cancel>>

\* dispatchRow resumes one point after the other; one that cannot be is skipped.
PollDispatch(c) ==
  /\ poll.pc = "dispatching" /\ c \in poll.todo
  /\ Unused # {}
  /\ IF Admissible(c) THEN EnqueueOrStart(c) ELSE UNCHANGED <<row, queue, attempt>>
  /\ poll' = [poll EXCEPT !.todo = @ \ {c},
                          !.pc = IF poll.todo = {c} THEN "clearing" ELSE @]
  /\ UNCHANGED <<log, stop, answered, cancel>>

\* setAutomaticResumeWaiting, on the first of the points: the row's admission
\* was refused before any of them was dispatched.  Its use for points that were
\* queued or being resumed, where the row's metadata is missing or serving its
\* queue throws, is left out (README.md, section 6).
PollRefused ==
  /\ poll.pc = "dispatching" /\ poll.todo = {c \in Timed : poll.points[c] = "paused"}
  /\ \E c \in poll.todo, r \in Refusals \cap {"retry", "reject"} :
       LET again == Retries(r = "retry")
           running == \E i \in Claimed : Context(i) = c
           waiting == {i \in Pending : Context(i) = c}
       IN  IF Resumable
           THEN /\ row' = [row EXCEPT !.retries = IF again THEN @ + 1 ELSE @, !.due = again,
                                      !.points[c] = IF again \/ running THEN @ ELSE "paused"]
                /\ queue' = IF again THEN queue ELSE Failed(waiting, FALSE)
           ELSE UNCHANGED <<row, queue>>
  /\ PollGoes("idle")
  /\ UNCHANGED <<log, attempt, stop, answered, cancel>>

\* setNextResumeAt; all that has a date has been dispatched.
PollClear ==
  /\ poll.pc = "clearing"
  /\ row' = IF Resumable THEN [row EXCEPT !.due = FALSE] ELSE row
  /\ PollGoes("idle")
  /\ UNCHANGED <<log, queue, attempt, stop, answered, cancel>>

PollCrash ==
  /\ Crashes /\ poll.pc # "idle"
  /\ PollGoes("idle")
  /\ UNCHANGED <<log, row, queue, attempt, stop, answered, cancel>>

Polling == PollRow \/ PollServe \/ (\E c \in Timed : PollDispatch(c)) \/ PollRefused \/ PollClear

------------------------------------------------------------------------------

RunNext ==
  \/ Managing /\ UNCHANGED <<cancel, poll>>
  \/ \E k \in Cancellers : Cancelling(k) \/ CancelCrash(k)
  \/ Polling \/ PollCrash

RunSpec == RunInit /\ [][RunNext]_runVars

\* As long as a process is at work and can go on, one of them does; persons,
\* cancellers and time need not.
Fairness ==
  WF_runVars(\/ \E i \in Attempts : Attempting(i) /\ UNCHANGED <<cancel, poll>>
             \/ \E k \in Cancellers : Cancelling(k) /\ ~ReadLog(k)
             \/ Polling)

FairRunSpec == RunSpec /\ Fairness

------------------------------------------------------------------------------
(* Correctness.                                                             *)

PointStates == {"none", "paused", "queued", "resuming", "resumed", "failed"}

CancelSteps ==
  {"idle", "staging", "restaging", "turning back", "signalling", "undoing",
   "signalling run", "serving", "claiming", "confirming", "publishing", "completing",
   "finalizing", "done"}

Logs == {"running", "pending", "paused", "failed", "completed", "cancelled"}

Rows ==
  [status  : {"none", "paused", "partially_resumed", "fully_resumed", "cancelling", "cancelled"},
   points  : [Contexts -> PointStates],
   resumed : Nat, retries : 0..MaxRetries, due : BOOLEAN, snap : SUBSET Contexts]

Entries ==
  [ctx : Contexts, staged : BOOLEAN,
   status : {"absent", "pending", "claimed", "completed", "failed"}]

Doings ==
  [pc : {"idle", "starting", "admitting", "running", "ended", "persisted", "settling",
         "checking", "draining"},
   seen : SUBSET Contexts, fresh : SUBSET Contexts,
   outcome : {"none"} \cup EngineOutcomes \cup AdmissionFailures]

Requests ==
  [pc : CancelSteps, target : Attempts, confirm : BOOLEAN, late : BOOLEAN,
   kind : {"not_paused", "idle", "active_resume"}]

Jobs ==
  [pc : {"idle", "serving", "dispatching", "clearing"}, left : 0..Polls,
   points : [Contexts -> PointStates], todo : SUBSET Timed]

TypeOK ==
  /\ log \in Logs /\ row \in Rows /\ queue \in [Ids -> Entries]
  /\ attempt \in [Attempts -> Doings] /\ stop \subseteq Attempts
  /\ answered \in [Contexts -> Nat]
  /\ cancel \in [Cancellers -> Requests] /\ poll \in Jobs

Executing == {i \in Attempts : attempt[i].pc \in {"admitting", "running"}}

\* Two attempts never run the engine at a time, though persons, the queue, the
\* poll and cancellations that are taken back all start some.
OneExecutes == \A i, j \in Executing : i = j

\* A cancelled run stays cancelled, and so does its pause: no attempt that was
\* under way revives either of them.
CancelledStays ==
  [][/\ log = "cancelled" => log' = "cancelled"
     /\ row.status = "cancelled" => row'.status = "cancelled"]_runVars

\* An attempt goes on from a snapshot that holds every answer given so far.
SeesEveryAnswer ==
  \A i \in Ids \cap Executing : Answered(row.points) \subseteq attempt[i].seen

\* No answer is acted on twice: the blocks after a pause run once.
AnsweredOnce == \A c \in Contexts : answered[c] <= 1

\* The count of the answered points, by which the run's end is told, is right.
CountsAgree == row.resumed = Cardinality(Answered(row.points))

\* While the run is alive and no cancellation is staged, a point is queued exactly
\* when an entry waits for it: nobody's answer is lost, and none is given to a point
\* that does not expect it, though a cancellation be taken back while another one is
\* staged.  (A third request can break this, see the README.)
QueuedWaits ==
  Resumable /\ log \notin {"failed", "cancelled"} => \A c \in Contexts :
    row.points[c] = "queued" <=> \E i \in Pending : Context(i) = c

\* While a point is paused and nothing is under way the run can be claimed again, or
\* its log says that a resume has failed: it is not left running, completed or
\* cancelled beside answers that are still to come.
StillClaimable ==
  /\ Resumable /\ \E c \in Contexts : row.points[c] = "paused"
  /\ Working = {} /\ \A k \in Cancellers : cancel[k].pc \in {"idle", "done"}
  => Claimable \/ log = "failed"

\* A run that nobody asked to cancel and that says it is completed has had all of its
\* answers.
CompletedIsAnswered ==
  /\ log = "completed" /\ Working = {} /\ \A k \in Cancellers : cancel[k].pc = "idle"
  => Answered(row.points) = Stored(row.points)

\* Whoever asked is served: a queued point does not stay queued, unless the run fails or
\* is cancelled.
QueueServed ==
  \A c \in Contexts :
    row.points[c] = "queued" ~>
      (row.points[c] # "queued" \/ row.status = "cancelled" \/ log = "failed")

\* A cancellation that is staged is settled, one way or the other.
CancellationSettles == row.status = "cancelling" ~> row.status # "cancelling"
==============================================================================
