--------------------------- MODULE PausedRunProofs ----------------------------
(***************************************************************************)
(* What holds of PausedRun for every number of contexts, entries, retries  *)
(* and requests to cancel: its types, that what is cancelled stays so, and *)
(* that no two attempts run the engine at a time.                          *)
(***************************************************************************)
EXTENDS PausedRun, FiniteSetTheorems, WellFoundedInduction, TLAPS

USE PauseAssumption

------------------------------------------------------------------------------
(* Types.                                                                   *)

LEMMA ProgressShape ==
  ASSUME NEW r, NEW t
  PROVE  Progress(r, t) \in {"paused", "partially_resumed", "fully_resumed"}
  BY DEF Progress

LEMMA CountShape ==
  ASSUME NEW points
  PROVE  Cardinality(Answered(points)) \in Nat
<1>1. Answered(points) \subseteq Contexts
  BY DEF Answered
<1> QED
  BY <1>1, FS_Subset, FS_CardinalityType

LEMMA FailedShape ==
  ASSUME queue \in [Ids -> Entries], NEW ids, NEW b \in BOOLEAN
  PROVE  Failed(ids, b) \in [Ids -> Entries]
  BY DEF Failed, Entries

LEMMA StartedShape ==
  ASSUME row \in Rows, NEW attempts \in [Attempts -> Doings], NEW i
  PROVE  Started(attempts, i) \in [Attempts -> Doings]
<1>1. [Idle EXCEPT !.pc = "starting", !.seen = row.snap] \in Doings
  BY DEF Idle, Doings, Rows
<1> QED
  BY <1>1 DEF Started

LEMMA NewEntryShape ==
  ASSUME NEW c \in Contexts, NEW s \in {"claimed", "pending", "absent"}
  PROVE  [NoEntry(c) EXCEPT !.status = s] \in Entries
  BY DEF NoEntry, Entries

LEMMA PointShape ==
  ASSUME row \in Rows, NEW c, NEW s \in PointStates
  PROVE  [row EXCEPT !.points[c] = s] \in Rows
  BY DEF Rows

LEMMA EnqueueShape ==
  ASSUME TypeOK, NEW c \in Contexts, EnqueueOrStart(c)
  PROVE  queue' \in [Ids -> Entries] /\ row' \in Rows /\ attempt' \in [Attempts -> Doings]
<1> DEFINE i == Oldest(Unused)
<1>1. CASE NothingClaimed
  <2>1. queue' = [queue EXCEPT ![i] = [NoEntry(c) EXCEPT !.status = "claimed"]]
    BY <1>1 DEF EnqueueOrStart
  <2>2. row' = [row EXCEPT !.points[c] = "resuming"] /\ attempt' = Started(attempt, i)
    BY <1>1 DEF EnqueueOrStart
  <2> HIDE DEF i
  <2> QED
    BY <2>1, <2>2, NewEntryShape, PointShape, StartedShape DEF TypeOK, PointStates
<1>2. CASE ~NothingClaimed
  <2>1. queue' = [queue EXCEPT ![i] = [NoEntry(c) EXCEPT !.status = "pending"]]
    BY <1>2 DEF EnqueueOrStart
  <2>2. row' = [row EXCEPT !.points[c] = "queued"] /\ attempt' = attempt
    BY <1>2 DEF EnqueueOrStart
  <2> HIDE DEF i
  <2> QED
    BY <2>1, <2>2, NewEntryShape, PointShape DEF TypeOK, PointStates
<1> QED
  BY <1>1, <1>2

LEMMA ServeShape ==
  ASSUME TypeOK, NEW attempts \in [Attempts -> Doings], ServeQueue(attempts)
  PROVE  queue' \in [Ids -> Entries] /\ row' \in Rows /\ attempt' \in [Attempts -> Doings]
<1> DEFINE i == Oldest(Pending)
<1>1. CASE Overtaken
  BY <1>1, FailedShape DEF TypeOK, ServeQueue
<1>2. CASE ~Overtaken /\ Serving
  <2>1. queue' = [queue EXCEPT ![i].status = "claimed"]
    BY <1>2 DEF ServeQueue
  <2>2. row' = [row EXCEPT !.points[Context(i)] = "resuming"] /\ attempt' = Started(attempts, i)
    BY <1>2 DEF ServeQueue
  <2> HIDE DEF i
  <2>3. queue' \in [Ids -> Entries]
    BY <2>1 DEF TypeOK, Entries
  <2> QED
    BY <2>2, <2>3, PointShape, StartedShape DEF TypeOK, PointStates
<1>3. CASE ~Overtaken /\ ~Serving
  BY <1>3 DEF TypeOK, ServeQueue
<1> QED
  BY <1>1, <1>2, <1>3

LEMMA RowCancelledShape == row \in Rows => RowCancelled \in Rows
  BY DEF RowCancelled, Rows

LEMMA CompleteShape ==
  ASSUME TypeOK, CompletePausedCancellation
  PROVE  log' \in Logs /\ queue' \in [Ids -> Entries] /\ row' \in Rows
  BY FailedShape, RowCancelledShape DEF TypeOK, CompletePausedCancellation, Logs

LEMMA GoesShape ==
  ASSUME attempt \in [Attempts -> Doings], NEW i,
         NEW pc \in {"idle", "starting", "admitting", "running", "ended", "persisted",
                     "settling", "checking", "draining"}
  PROVE  [attempt EXCEPT ![i].pc = pc] \in [Attempts -> Doings]
  BY DEF Doings

LEMMA EndsShape ==
  ASSUME attempt \in [Attempts -> Doings], NEW i, NEW pc \in {"ended", "settling"},
         NEW o \in EngineOutcomes \cup AdmissionFailures
  PROVE  [attempt EXCEPT ![i].pc = pc, ![i].outcome = o] \in [Attempts -> Doings]
  BY DEF Doings

LEMMA EndedShape ==
  ASSUME attempt \in [Attempts -> Doings], NEW i, NEW pc \in {"ended", "settling"},
         NEW o \in EngineOutcomes, NEW fresh \in SUBSET Contexts
  PROVE  [attempt EXCEPT ![i].pc = pc, ![i].outcome = o, ![i].fresh = fresh]
           \in [Attempts -> Doings]
<1>1. ASSUME NEW d \in Doings
      PROVE  [d EXCEPT !.pc = pc, !.outcome = o, !.fresh = fresh] \in Doings
  BY <1>1 DEF Doings
<1> QED
  BY <1>1

LEMMA AnsweredShape ==
  ASSUME NEW f \in [Contexts -> Nat], NEW c
  PROVE  [f EXCEPT ![c] = @ + 1] \in [Contexts -> Nat]
<1> DEFINE n == f[c] + 1
<1>1. c \in Contexts => n \in Nat
  OBVIOUS
<1>2. [f EXCEPT ![c] = @ + 1] = [f EXCEPT ![c] = n]
  OBVIOUS
<1> HIDE DEF n
<1> QED
  BY <1>1, <1>2

LEMMA IdleShape ==
  ASSUME attempt \in [Attempts -> Doings], NEW i
  PROVE  [attempt EXCEPT ![i] = Idle] \in [Attempts -> Doings]
  BY DEF Doings, Idle

LEMMA ContextShape == ASSUME TypeOK, NEW i \in Ids PROVE Context(i) \in Contexts
  BY DEF TypeOK, Entries, Context

LEMMA AnswersShape ==
  ASSUME TypeOK, NEW i \in Attempts
  PROVE  Answers(i) \in SUBSET Contexts
<1>1. attempt[i].seen \in SUBSET Contexts
  BY DEF TypeOK, Doings
<1>2. CASE i = Run
  BY <1>1, <1>2 DEF Answers
<1>3. CASE i \in Ids
  BY <1>1, <1>3, ContextShape DEF Answers
<1> QED
  BY <1>2, <1>3 DEF Attempts

LEMMA LogAfterShape ==
  ASSUME log \in Logs, NEW o \in EngineOutcomes PROVE LogAfter(o) \in Logs
  BY DEF LogAfter, Logs

\* The part of TypeOK an attempt works on.
Managed ==
  /\ log' \in Logs /\ row' \in Rows /\ queue' \in [Ids -> Entries]
  /\ attempt' \in [Attempts -> Doings] /\ stop' \subseteq Attempts
  /\ answered' \in [Contexts -> Nat]

LEMMA TypeEngine ==
  ASSUME TypeOK, NEW i \in Attempts,
         ClaimLog(i) \/ Admit(i) \/ EngineEnds(i) \/ UpdateSnapshot(i)
  PROVE  Managed
<1> USE DEF TypeOK, Managed
<1>1. CASE ClaimLog(i)
  <2>1. log' \in Logs
    BY <1>1 DEF ClaimLog, Logs
  <2>2. attempt' \in [Attempts -> Doings]
    <3>1. CASE Claimable
      <4>1. attempt' = [attempt EXCEPT ![i].pc = "admitting"]
        BY <1>1, <3>1 DEF ClaimLog, Goes
      <4> QED
        BY <4>1, GoesShape
    <3>2. CASE ~Claimable
      <4>1. attempt' = [attempt EXCEPT ![i].pc = "settling", ![i].outcome = "reject"]
        BY <1>1, <3>2 DEF ClaimLog, Ends
      <4>2. "reject" \in EngineOutcomes \cup AdmissionFailures
        BY DEF AdmissionFailures
      <4> QED
        BY <4>1, <4>2, EndsShape
    <3> QED
      BY <3>1, <3>2
  <2> QED
    BY <1>1, <2>1, <2>2 DEF ClaimLog
<1>2. CASE Admit(i)
  <2>1. CASE Goes(i, "running")
    BY <1>2, <2>1, GoesShape DEF Admit, Goes
  <2>2. ASSUME NEW r \in Refusals, Ends(i, "settling", r)
        PROVE  attempt' \in [Attempts -> Doings]
    <3>1. r \in EngineOutcomes \cup AdmissionFailures
      OBVIOUS
    <3> QED
      BY <2>2, <3>1, EndsShape DEF Ends
  <2> QED
    BY <1>2, <2>1, <2>2 DEF Admit
<1>3. CASE EngineEnds(i)
  <2>1. PICK o \in IF i = Run THEN {"paused"} ELSE Outcomes, fresh \in SUBSET Contexts :
          /\ log' = LogAfter(o)
          /\ attempt' = [attempt EXCEPT
               ![i].pc = IF o \in {"completed", "paused"} THEN "ended" ELSE "settling",
               ![i].outcome = o, ![i].fresh = fresh]
          /\ answered' = IF i # Run /\ o \in {"completed", "paused"}
                         THEN [answered EXCEPT ![Context(i)] = @ + 1] ELSE answered
    BY <1>3 DEF EngineEnds
  <2>2. o \in EngineOutcomes
    BY <2>1 DEF EngineOutcomes
  <2>3. attempt' \in [Attempts -> Doings]
    <3> DEFINE pc == IF o \in {"completed", "paused"} THEN "ended" ELSE "settling"
    <3>1. pc \in {"ended", "settling"}
      OBVIOUS
    <3>2. attempt' = [attempt EXCEPT ![i].pc = pc, ![i].outcome = o, ![i].fresh = fresh]
      BY <2>1
    <3> HIDE DEF pc
    <3> QED
      BY <2>2, <3>1, <3>2, EndedShape
  <2>4. answered' \in [Contexts -> Nat]
    <3>1. [answered EXCEPT ![Context(i)] = @ + 1] \in [Contexts -> Nat]
      BY AnsweredShape
    <3> QED
      BY <2>1, <3>1
  <2> QED
    BY <1>3, <2>1, <2>2, <2>3, <2>4, LogAfterShape DEF EngineEnds
<1>4. CASE UpdateSnapshot(i)
  <2>1. row' = [row EXCEPT !.snap = Answers(i)] /\ row' \in Rows
    BY <1>4, AnswersShape DEF UpdateSnapshot, Rows
  <2> QED
    BY <1>4, <2>1, GoesShape DEF UpdateSnapshot, Goes
<1> QED
  BY <1>1, <1>2, <1>3, <1>4

LEMMA TypePause ==
  ASSUME TypeOK, NEW i \in Attempts, PersistPause(i) \/ PauseServed(i) \/ Drain(i)
  PROVE  Managed
<1> USE DEF TypeOK, Managed
<1>1. CASE PersistPause(i)
  <2> DEFINE points == Merged(attempt[i].fresh)
             resumed == Cardinality(Answered(points))
  <2>1. points \in [Contexts -> PointStates]
    BY DEF Merged, Rows, PointStates
  <2>2. resumed \in Nat
    BY CountShape
  <2>3. Progress(resumed, Cardinality(Stored(points)))
          \in {"paused", "partially_resumed", "fully_resumed"}
    BY ProgressShape
  <2>4. Answers(i) \in SUBSET Contexts
    BY AnswersShape
  <2>5. \/ row' = row
        \/ row' = [row EXCEPT !.status = "cancelled", !.due = FALSE]
        \/ row' = [status  |-> IF row.status = "cancelling" THEN "cancelling"
                              ELSE Progress(resumed, Cardinality(Stored(points))),
                  points  |-> points, resumed |-> resumed, retries |-> 0,
                  due     |-> Timed \cap Stored(points) # {},
                  snap    |-> Answers(i)]
    BY <1>1, Zenon DEF PersistPause
  <2> HIDE DEF points, resumed
  <2>6. row' \in Rows
    <3> DEFINE status == IF row.status = "cancelling" THEN "cancelling"
                         ELSE Progress(resumed, Cardinality(Stored(points)))
               due == Timed \cap Stored(points) # {}
    <3>1. status \in {"paused", "partially_resumed", "fully_resumed", "cancelling"}
      BY <2>3
    <3>2. due \in BOOLEAN
      OBVIOUS
    <3>3. \/ row' = row
          \/ row' = [row EXCEPT !.status = "cancelled", !.due = FALSE]
          \/ row' = [status  |-> status, points  |-> points, resumed |-> resumed,
                    retries |-> 0, due |-> due, snap |-> Answers(i)]
      BY <2>5
    <3> HIDE DEF status, due
    <3>4. ASSUME row' = [status  |-> status, points  |-> points, resumed |-> resumed,
                         retries |-> 0, due |-> due, snap |-> Answers(i)]
          PROVE  row' \in Rows
      BY <2>1, <2>2, <2>4, <3>1, <3>2, <3>4 DEF Rows
    <3>5. [row EXCEPT !.status = "cancelled", !.due = FALSE] \in Rows
      BY DEF Rows
    <3> QED
      BY <3>3, <3>4, <3>5
  <2> QED
    BY <1>1, <2>6, GoesShape DEF PersistPause, Goes
<1>2. CASE PauseServed(i)
  <2>1. [attempt EXCEPT ![i] = IF i = Run THEN Idle ELSE [@ EXCEPT !.pc = "settling"]]
          \in [Attempts -> Doings]
    BY DEF Doings, Idle
  <2> QED
    BY <1>2, <2>1, ServeShape DEF PauseServed
<1>3. CASE Drain(i)
  <2>1. queue' \in [Ids -> Entries] /\ row' \in Rows /\ attempt' \in [Attempts -> Doings]
    BY <1>3, IdleShape, ServeShape DEF Drain
  <2> QED
    BY <1>3, <2>1 DEF Drain
<1> QED
  BY <1>1, <1>2, <1>3

LEMMA CountedShape ==
  ASSUME row \in Rows, NEW c, NEW p \in PointStates, NEW n \in Nat,
         NEW s \in {"paused", "partially_resumed", "fully_resumed"}
  PROVE  [row EXCEPT !.points[c] = p, !.resumed = n, !.retries = 0, !.status = s] \in Rows
<1>1. 0 \in 0..MaxRetries
  OBVIOUS
<1> QED
  BY <1>1 DEF Rows

LEMMA RetriedShape ==
  ASSUME row \in Rows, NEW c, NEW p \in PointStates, NEW n \in 0..MaxRetries,
         NEW d \in BOOLEAN
  PROVE  [row EXCEPT !.points[c] = p, !.retries = n, !.due = d] \in Rows
  BY DEF Rows

LEMMA TypeMark ==
  ASSUME TypeOK, NEW i \in Attempts,
         MarkCompleted(i) \/ MarkFailed(i) \/ MarkAttemptFailed(i) \/ CheckCancellation(i)
  PROVE  Managed
<1> USE DEF TypeOK, Managed
<1> DEFINE c == Context(i)
<1>a. Failed({i}, FALSE) \in [Ids -> Entries]
  BY FailedShape
<1>b. RowCancelled \in Rows
  BY RowCancelledShape
<1>c. [attempt EXCEPT ![i].pc = "draining"] \in [Attempts -> Doings]
  BY GoesShape
<1>1. CASE MarkCompleted(i)
  <2> DEFINE resumed == row.resumed + 1
             total == Cardinality(Stored(row.points))
  <2>1. CASE CancelWon
    <3>1. queue' = Failed({i}, FALSE) \/ queue' = queue
      BY <1>1, <2>1, Zenon DEF MarkCompleted
    <3>2. row' = RowCancelled \/ row' = row
      BY <1>1, <2>1, Zenon DEF MarkCompleted
    <3>3. log' = log /\ attempt' = [attempt EXCEPT ![i].pc = "draining"] /\ UNCHANGED <<stop, answered>>
      BY <1>1, <2>1 DEF MarkCompleted, Goes
    <3> QED
      BY <1>a, <1>b, <1>c, <3>1, <3>2, <3>3
  <2>2. CASE ~CancelWon
    <3>1. queue' = queue \/ queue' = [queue EXCEPT ![i].status = "completed"]
      BY <1>1, <2>2, Zenon DEF MarkCompleted
    <3>2. \/ row' = row
          \/ row' = [row EXCEPT !.points[c] = "resumed", !.resumed = resumed,
                        !.retries = 0, !.status = Progress(resumed, total)]
      BY <1>1, <2>2, Zenon DEF MarkCompleted
    <3>3. log' = log \/ log' = "pending"
      BY <1>1, <2>2, Zenon DEF MarkCompleted
    <3>4. attempt' = [attempt EXCEPT ![i].pc = "draining"] /\ UNCHANGED <<stop, answered>>
      BY <1>1 DEF MarkCompleted, Goes
    <3>5. resumed \in Nat
      BY DEF Rows
    <3>6. Progress(resumed, total) \in {"paused", "partially_resumed", "fully_resumed"}
      BY ProgressShape
    <3>7. row' \in Rows
      <4> HIDE DEF resumed, total, c
      <4>1. [row EXCEPT !.points[c] = "resumed", !.resumed = resumed, !.retries = 0,
                        !.status = Progress(resumed, total)] \in Rows
        BY <3>5, <3>6, CountedShape DEF PointStates
      <4> QED
        BY <3>2, <4>1
    <3>8. queue' \in [Ids -> Entries]
      BY <3>1 DEF Entries
    <3> QED
      BY <3>3, <3>4, <3>7, <3>8, GoesShape DEF Logs
  <2> QED
    BY <2>1, <2>2
<1>2. CASE MarkFailed(i)
  <2>1. row' = RowCancelled \/ row' = [row EXCEPT !.points[c] = "failed"]
    BY <1>2 DEF MarkFailed
  <2>2. log' \in {log, "failed"}
    BY <1>2 DEF MarkFailed
  <2>3. /\ queue' = Failed({i}, FALSE) /\ attempt' = [attempt EXCEPT ![i].pc = "draining"]
        /\ UNCHANGED <<stop, answered>>
    BY <1>2 DEF MarkFailed, Goes
  <2> QED
    <3>1. [row EXCEPT !.points[c] = "failed"] \in Rows
      BY PointShape DEF PointStates
    <3> QED
      BY <1>a, <1>b, <1>c, <2>1, <2>2, <2>3, <3>1 DEF Logs
<1>3. CASE MarkAttemptFailed(i)
  <2> DEFINE o == attempt[i].outcome
             refused == o \in {"retry", "reject"} /\ Resumable /\ log # "cancelled"
             again == refused /\ Retries(o = "retry")
  <2>1. again => row.retries < MaxRetries
    BY DEF Retries
  <2>2. \/ row' = RowCancelled
        \/ row' = [row EXCEPT !.points[c] = IF again THEN "queued" ELSE "paused",
                              !.retries = IF again THEN @ + 1 ELSE @,
                              !.due = IF refused THEN again ELSE @]
    BY <1>3, Zenon DEF MarkAttemptFailed
  <2>3. queue' = [queue EXCEPT ![i].status = "pending"] \/ queue' = Failed({i}, FALSE)
    BY <1>3, Zenon DEF MarkAttemptFailed
  <2>4. log' = log \/ log' = "paused"
    BY <1>3, Zenon DEF MarkAttemptFailed
  <2>5. \/ attempt' = [attempt EXCEPT ![i] = Idle]
        \/ attempt' = [attempt EXCEPT ![i].pc = AfterFailure(o)]
    BY <1>3, Zenon DEF MarkAttemptFailed
  <2>6. AfterFailure(o) \in {"idle", "checking", "draining"}
    BY DEF AfterFailure
  <2>7. UNCHANGED <<stop, answered>>
    BY <1>3 DEF MarkAttemptFailed
  <2>8. again \in BOOLEAN /\ refused \in BOOLEAN
    BY DEF Retries
  <2>9. row' \in Rows
    <3> HIDE DEF refused, again, c
    <3>1. row.retries \in 0..MaxRetries /\ row.due \in BOOLEAN
      BY DEF Rows
    <3>2. CASE again
      <4>1. row.retries + 1 \in 0..MaxRetries
        BY <2>1, <3>1, <3>2
      <4>2. \/ row' = RowCancelled
            \/ row' = [row EXCEPT !.points[c] = "queued", !.retries = row.retries + 1,
                                  !.due = IF refused THEN TRUE ELSE row.due]
        BY <2>2, <3>2
      <4>3. (IF refused THEN TRUE ELSE row.due) \in BOOLEAN
        BY <3>1
      <4> QED
        <5> DEFINE d == IF refused THEN TRUE ELSE row.due
        <5> HIDE DEF d
        <5>1. [row EXCEPT !.points[c] = "queued", !.retries = row.retries + 1, !.due = d] \in Rows
          BY <4>1, <4>3, RetriedShape DEF PointStates, d
        <5> QED
          BY <1>b, <4>2, <5>1 DEF d
    <3>3. CASE ~again
      <4>1. \/ row' = RowCancelled
            \/ row' = [row EXCEPT !.points[c] = "paused", !.retries = row.retries,
                                  !.due = IF refused THEN FALSE ELSE row.due]
        BY <2>2, <2>8, <3>3
      <4>2. (IF refused THEN FALSE ELSE row.due) \in BOOLEAN
        BY <3>1
      <4> QED
        <5> DEFINE d == IF refused THEN FALSE ELSE row.due
        <5> HIDE DEF d
        <5>1. [row EXCEPT !.points[c] = "paused", !.retries = row.retries, !.due = d] \in Rows
          BY <3>1, <4>2, RetriedShape DEF PointStates, d
        <5> QED
          BY <1>b, <4>1, <5>1 DEF d
    <3> QED
      BY <3>2, <3>3
  <2>10. queue' \in [Ids -> Entries]
    <3>1. [queue EXCEPT ![i].status = "pending"] \in [Ids -> Entries]
      BY DEF Entries
    <3> QED
      BY <1>a, <2>3, <3>1
  <2>11. attempt' \in [Attempts -> Doings]
    <3>1. [attempt EXCEPT ![i].pc = AfterFailure(o)] \in [Attempts -> Doings]
      <4> HIDE DEF o
      <4> QED
        BY <2>6, GoesShape
    <3> QED
      BY <2>5, <3>1, IdleShape
  <2> QED
    BY <2>4, <2>7, <2>9, <2>10, <2>11 DEF Logs
<1>4. CASE CheckCancellation(i)
  <2>1. log' \in Logs /\ queue' \in [Ids -> Entries] /\ row' \in Rows
    BY <1>4, CompleteShape DEF CheckCancellation
  <2> QED
    BY <1>4, <2>1, GoesShape DEF CheckCancellation, Goes
<1> QED
  BY <1>1, <1>2, <1>3, <1>4

LEMMA TypeManaging == TypeOK /\ Managing => Managed
<1> SUFFICES ASSUME TypeOK, Managing PROVE Managed
  OBVIOUS
<1> USE DEF TypeOK, Managed
<1>1. ASSUME NEW c \in Contexts, Resume(c) PROVE Managed
  BY <1>1, EnqueueShape DEF Resume
<1>2. ASSUME NEW i \in Attempts, Attempting(i) PROVE Managed
  BY <1>2, TypeEngine, TypePause, TypeMark DEF Attempting
<1>3. ASSUME NEW i \in Attempts, Crash(i) PROVE Managed
  BY <1>3, IdleShape DEF Crash
<1>4. CASE RunStops
  BY <1>4, IdleShape, LogAfterShape DEF RunStops, EngineOutcomes
<1>5. CASE SweepStale
  BY <1>5 DEF SweepStale, Logs
<1> QED
  BY <1>1, <1>2, <1>3, <1>4, <1>5 DEF Managing

LEMMA CancelShape ==
  ASSUME TypeOK, NEW k, NEW pc \in CancelSteps, CancelGoes(k, pc)
  PROVE  cancel' \in [Cancellers -> Requests]
  BY DEF CancelGoes, TypeOK, Requests

LEMMA ReadShape ==
  ASSUME cancel \in [Cancellers -> Requests], NEW k, NEW pc \in CancelSteps, NEW b \in BOOLEAN
  PROVE  [cancel EXCEPT ![k].late = b, ![k].pc = pc] \in [Cancellers -> Requests]
<1>1. ASSUME NEW r \in Requests
      PROVE  [r EXCEPT !.late = b, !.pc = pc] \in Requests
  BY <1>1 DEF Requests
<1> QED
  BY <1>1

LEMMA ConfirmingShape ==
  ASSUME cancel \in [Cancellers -> Requests], NEW k, NEW pc \in CancelSteps, NEW b \in BOOLEAN
  PROVE  [cancel EXCEPT ![k].pc = pc, ![k].confirm = b] \in [Cancellers -> Requests]
<1>1. ASSUME NEW r \in Requests
      PROVE  [r EXCEPT !.pc = pc, !.confirm = b] \in Requests
  BY <1>1 DEF Requests
<1> QED
  BY <1>1

LEMMA StagedShape ==
  ASSUME cancel \in [Cancellers -> Requests], NEW k, NEW pc \in CancelSteps,
         NEW target \in Attempts, NEW kind \in {"not_paused", "idle", "active_resume"}
  PROVE  [cancel EXCEPT ![k].kind = kind, ![k].target = target, ![k].pc = pc]
           \in [Cancellers -> Requests]
<1>1. ASSUME NEW r \in Requests
      PROVE  [r EXCEPT !.kind = kind, !.target = target, !.pc = pc] \in Requests
  BY <1>1 DEF Requests
<1> QED
  BY <1>1

LEMMA RestoredShape ==
  ASSUME TypeOK
  PROVE  Restored \in Rows /\ Requeued \in [Ids -> Entries]
<1>1. Progress(row.resumed, Cardinality(Stored(row.points)))
        \in {"paused", "partially_resumed", "fully_resumed"}
  BY ProgressShape
<1>2. Restored \in Rows
  BY <1>1 DEF Restored, TypeOK, Rows
<1>3. Requeued \in [Ids -> Entries]
  BY DEF Requeued, TypeOK, Entries
<1> QED
  BY <1>2, <1>3

LEMMA StageShape ==
  ASSUME TypeOK, Stage
  PROVE  row' \in Rows /\ queue' \in [Ids -> Entries]
<1>1. [row EXCEPT !.status = "cancelling"] \in Rows
  BY DEF TypeOK, Rows
<1>2. Failed(Pending, TRUE) \in [Ids -> Entries]
  BY FailedShape DEF TypeOK
<1> QED
  BY <1>1, <1>2 DEF Stage, TypeOK

LEMMA SignalShape ==
  ASSUME TypeOK, NEW t \in Attempts, NEW b, Signal(t, b)
  PROVE  stop' \subseteq Attempts
  BY DEF TypeOK, Signal

LEMMA ActiveShape ==
  ASSUME ~NothingClaimed
  PROVE  (CHOOSE i \in Claimed : TRUE) \in Claimed
  BY DEF NothingClaimed

LEMMA ClaimedShape == Claimed \subseteq Attempts
  BY DEF Claimed, Attempts

LEMMA TypeStaging ==
  ASSUME TypeOK, NEW k \in Cancellers,
         ReadLog(k) \/ StageFirst(k) \/ TurnBack(k) \/ ServeAfter(k)
  PROVE  TypeOK'
<1>1. CASE ReadLog(k)
  <2>1. cancel' \in [Cancellers -> Requests]
    <3> DEFINE late == log = "cancelled"
               pc == IF log \in {"running", "pending", "cancelled"} THEN "staging" ELSE "finalizing"
    <3>1. pc \in CancelSteps /\ late \in BOOLEAN
      BY DEF CancelSteps
    <3>2. cancel' = [cancel EXCEPT ![k].late = late, ![k].pc = pc]
      BY <1>1 DEF ReadLog
    <3> HIDE DEF late, pc
    <3> QED
      BY <3>1, <3>2, ReadShape DEF TypeOK
  <2> QED
    BY <1>1, <2>1 DEF ReadLog, TypeOK
<1>2. CASE StageFirst(k)
  <2>1. row' \in Rows /\ queue' \in [Ids -> Entries]
    BY <1>2, StageShape DEF StageFirst
  <2> DEFINE target == IF StagedKind = "active_resume" THEN CHOOSE i \in Claimed : TRUE ELSE Run
  <2>2. StagedKind \in {"not_paused", "idle", "active_resume"}
    BY DEF StagedKind
  <2>3. target \in Attempts
    <3>1. CASE StagedKind = "active_resume"
      <4>1. ~NothingClaimed
        BY <3>1 DEF StagedKind
      <4> QED
        BY <3>1, <4>1, ActiveShape, ClaimedShape
    <3>2. CASE StagedKind # "active_resume"
      BY <3>2 DEF Attempts
    <3> QED
      BY <3>1, <3>2
  <2>4. Claiming(k) \in CancelSteps
    BY DEF Claiming, CancelSteps
  <2>5. PICK aborted \in Aborts :
          cancel' = [cancel EXCEPT ![k].kind = StagedKind, ![k].target = target,
                                   ![k].pc = AfterStaging(k, aborted)]
    BY <1>2 DEF StageFirst
  <2> HIDE DEF target
  <2>6. AfterStaging(k, aborted) \in CancelSteps
    <3>1. AfterStaging(k, aborted)
            \in {"turning back", "signalling", "done", "signalling run", Claiming(k)}
      BY <2>2 DEF AfterStaging
    <3> QED
      BY <2>4, <3>1 DEF CancelSteps
  <2>7. cancel' \in [Cancellers -> Requests]
    BY <2>2, <2>3, <2>5, <2>6, StagedShape DEF TypeOK
  <2> QED
    BY <1>2, <2>1, <2>7 DEF StageFirst, TypeOK
<1>3. CASE TurnBack(k)
  <2> DEFINE target == cancel[k].target
  <2>1. [Restored EXCEPT !.points[Context(target)] = "paused", !.retries = 0, !.due = FALSE]
          \in Rows
    <3>1. 0 \in 0..MaxRetries /\ Restored \in Rows
      BY RestoredShape
    <3> QED
      BY <3>1 DEF Rows, PointStates
  <2>2. row' \in Rows /\ queue' \in [Ids -> Entries]
    <3>1. \/ ClearIntent
          \/ Rollback(target)
          \/ UNCHANGED <<row, queue>>
      BY <1>3 DEF TurnBack
    <3>2. CASE ClearIntent
      BY <3>2, RestoredShape DEF ClearIntent, TypeOK
    <3>3. CASE Rollback(target)
      BY <2>1, <3>3, RestoredShape DEF Rollback
    <3> QED
      BY <3>1, <3>2, <3>3 DEF TypeOK
  <2>3. cancel' \in [Cancellers -> Requests]
    <3>1. \/ \E pc \in CancelSteps : CancelGoes(k, pc)
          \/ \E pc \in {"signalling", "claiming"}, b \in BOOLEAN :
               cancel' = [cancel EXCEPT ![k].pc = pc, ![k].confirm = b]
      <4>1. \/ CancelGoes(k, IF row.status = "cancelling" /\ log \in {"running", "pending"}
                             THEN "serving" ELSE "done")
            \/ CancelGoes(k, IF queue[target].status = "claimed" THEN "done" ELSE "serving")
            \/ cancel' = [cancel EXCEPT
                 ![k].pc = IF cancel[k].pc = "turning back" THEN "signalling" ELSE "claiming",
                 ![k].confirm = ~(cancel[k].pc = "turning back")]
        BY <1>3, Zenon DEF TurnBack
      <4> QED
        BY <4>1 DEF CancelSteps
    <3>2. ASSUME NEW pc \in CancelSteps, NEW b \in BOOLEAN,
                 cancel' = [cancel EXCEPT ![k].pc = pc, ![k].confirm = b]
          PROVE  cancel' \in [Cancellers -> Requests]
      BY <3>2, ConfirmingShape DEF TypeOK
    <3> QED
      BY <3>1, <3>2, CancelShape DEF CancelSteps
  <2> QED
    BY <1>3, <2>2, <2>3 DEF TurnBack, TypeOK
<1>4. CASE ServeAfter(k)
  <2>1. queue' \in [Ids -> Entries] /\ row' \in Rows /\ attempt' \in [Attempts -> Doings]
    BY <1>4, ServeShape DEF ServeAfter, TypeOK
  <2>2. cancel' \in [Cancellers -> Requests]
    BY <1>4, CancelShape DEF ServeAfter, TypeOK, CancelSteps
  <2> QED
    BY <1>4, <2>1, <2>2 DEF ServeAfter, TypeOK
<1> QED
  BY <1>1, <1>2, <1>3, <1>4

LEMMA TypeSignalling ==
  ASSUME TypeOK, NEW k \in Cancellers,
         SignalResume(k) \/ SignalRun(k) \/ ClaimCancellation(k) \/ Confirm(k) \/ Publish(k)
  PROVE  TypeOK'
<1>0. Claiming(k) \in CancelSteps
  BY DEF Claiming, CancelSteps
<1>1. CASE SignalResume(k)
  <2>1. PICK accepted \in Signals :
          /\ Signal(cancel[k].target, accepted)
          /\ CancelGoes(k, IF Stopped(accepted) THEN Claiming(k)
                           ELSE IF cancel[k].late THEN "done" ELSE "undoing")
    BY <1>1 DEF SignalResume
  <2>2. cancel[k].target \in Attempts
    BY DEF TypeOK, Requests
  <2>3. PICK pc \in CancelSteps : CancelGoes(k, pc)
    <3> DEFINE pc == IF Stopped(accepted) THEN Claiming(k)
                     ELSE IF cancel[k].late THEN "done" ELSE "undoing"
    <3>1. pc \in {"done", "undoing", Claiming(k)}
      OBVIOUS
    <3>2. pc \in CancelSteps
      <4> HIDE DEF pc
      <4> QED
        BY <1>0, <3>1 DEF CancelSteps
    <3> QED
      BY <2>1, <3>2
  <2> QED
    BY <1>1, <2>1, <2>2, <2>3, SignalShape, CancelShape DEF SignalResume, TypeOK
<1>2. CASE SignalRun(k)
  <2>1. PICK accepted \in Signals :
          /\ Signal(Run, accepted)
          /\ CancelGoes(k, IF accepted THEN "claiming" ELSE "restaging")
    BY <1>2 DEF SignalRun
  <2>2. PICK pc \in CancelSteps : CancelGoes(k, pc)
    BY <2>1 DEF CancelSteps
  <2>3. stop' \subseteq Attempts
    BY <2>1, SignalShape DEF Attempts
  <2>4. cancel' \in [Cancellers -> Requests]
    BY <2>2, CancelShape
  <2> QED
    BY <1>2, <2>3, <2>4 DEF SignalRun, TypeOK
<1>3. CASE ClaimCancellation(k)
  <2>1. log' \in Logs
    BY <1>3 DEF ClaimCancellation, TypeOK, Logs
  <2>2. PICK pc \in CancelSteps : CancelGoes(k, pc)
    BY <1>3 DEF ClaimCancellation, CancelSteps
  <2>3. cancel' \in [Cancellers -> Requests]
    BY <2>2, CancelShape
  <2> QED
    BY <1>3, <2>1, <2>3 DEF ClaimCancellation, TypeOK
<1>4. CASE Confirm(k)
  <2>1. row' \in Rows /\ queue' \in [Ids -> Entries]
    BY <1>4, StageShape DEF Confirm
  <2> DEFINE target == IF CanStage /\ ~NothingClaimed THEN CHOOSE i \in Claimed : TRUE ELSE Run
  <2>2. target \in Attempts
    <3>1. CASE CanStage /\ ~NothingClaimed
      BY <3>1, ActiveShape, ClaimedShape
    <3>2. CASE ~(CanStage /\ ~NothingClaimed)
      BY <3>2 DEF Attempts
    <3> QED
      BY <3>1, <3>2
  <2>3. PICK accepted \in Signals :
          /\ Signal(target, accepted) \/ UNCHANGED stop
          /\ CancelGoes(k, "done") \/ CancelGoes(k, "publishing")
    <3>1. PICK accepted \in Signals :
            LET known == CanStage \/ cancel[k].kind # "not_paused"
                unsure == target # Run /\ (target # cancel[k].target \/ cancel[k].confirm)
            IN  /\ IF unsure THEN Signal(target, accepted) ELSE UNCHANGED stop
                /\ CancelGoes(k, IF known /\ (unsure => Stopped(accepted))
                                 THEN "publishing" ELSE "done")
      BY <1>4 DEF Confirm
    <3> HIDE DEF target
    <3> QED
      BY <3>1
  <2>4. stop' \subseteq Attempts
    <3> HIDE DEF target
    <3> QED
      BY <2>2, <2>3, SignalShape DEF TypeOK
  <2>5. cancel' \in [Cancellers -> Requests]
    BY <2>3, CancelShape DEF CancelSteps
  <2> QED
    BY <1>4, <2>1, <2>4, <2>5 DEF Confirm, TypeOK
<1>5. CASE Publish(k)
  <2>1. CancelGoes(k, "completing") \/ CancelGoes(k, "done")
    BY <1>5 DEF Publish
  <2>2. cancel' \in [Cancellers -> Requests]
    BY <2>1, CancelShape DEF CancelSteps
  <2> QED
    BY <1>5, <2>2 DEF Publish, TypeOK
<1> QED
  BY <1>1, <1>2, <1>3, <1>4, <1>5

LEMMA TypeSettling ==
  ASSUME TypeOK, NEW k \in Cancellers, Complete(k) \/ Finalize(k) \/ CancelCrash(k)
  PROVE  TypeOK'
<1>1. CancelGoes(k, "done") /\ UNCHANGED <<attempt, answered, poll>>
  BY DEF Complete, Finalize, CancelCrash
<1>2. cancel' \in [Cancellers -> Requests]
  BY <1>1, CancelShape DEF CancelSteps
<1>3. CASE Complete(k)
  BY <1>1, <1>2, <1>3, CompleteShape DEF Complete, TypeOK
<1>4. CASE Finalize(k)
  <2>1. PICK accepted \in Signals :
          /\ IF NothingClaimed THEN UNCHANGED stop
             ELSE Signal(CHOOSE i \in Claimed : TRUE, accepted)
          /\ \/ row' = RowCancelled /\ queue' = Failed(Pending \cup Claimed, FALSE)
             \/ UNCHANGED <<row, queue>>
    BY <1>4 DEF Finalize
  <2>2. stop' \subseteq Attempts
    <3>1. CASE NothingClaimed
      BY <2>1, <3>1 DEF TypeOK
    <3>2. CASE ~NothingClaimed
      <4>1. (CHOOSE i \in Claimed : TRUE) \in Attempts
        BY <3>2, ActiveShape, ClaimedShape
      <4> QED
        BY <2>1, <3>2, <4>1, SignalShape
    <3> QED
      BY <3>1, <3>2
  <2>3. Failed(Pending \cup Claimed, FALSE) \in [Ids -> Entries] /\ RowCancelled \in Rows
    BY FailedShape, RowCancelledShape DEF TypeOK
  <2>4. row' \in Rows /\ queue' \in [Ids -> Entries]
    BY <2>1, <2>3 DEF TypeOK
  <2> QED
    BY <1>1, <1>2, <1>4, <2>2, <2>4 DEF Finalize, TypeOK
<1>5. CASE CancelCrash(k)
  BY <1>1, <1>2, <1>5 DEF CancelCrash, TypeOK
<1> QED
  BY <1>3, <1>4, <1>5

LEMMA TypePolling ==
  ASSUME TypeOK, Polling \/ PollCrash
  PROVE  TypeOK'
<1>1. CASE PollRow
  <2> DEFINE todo == {c \in Timed : row.points[c] = "paused"}
             pc == IF todo = {} THEN "serving" ELSE "dispatching"
  <2>1. poll' = [pc |-> pc, points |-> row.points, todo |-> todo, left |-> poll.left - 1]
    BY <1>1 DEF PollRow
  <2>2. poll.left - 1 \in 0..Polls
    BY <1>1, CancelAssumption DEF PollRow, TypeOK, Jobs
  <2>3. row.points \in [Contexts -> PointStates]
    BY DEF TypeOK, Rows
  <2>4. pc \in {"serving", "dispatching"} /\ todo \subseteq Timed
    OBVIOUS
  <2>5. poll' \in Jobs
    <3> HIDE DEF todo, pc
    <3> QED
      BY <2>1, <2>2, <2>3, <2>4 DEF Jobs
  <2> QED
    BY <1>1, <2>5 DEF PollRow, TypeOK
<1>2. ASSUME NEW pc \in {"idle", "clearing"}, PollGoes(pc) PROVE poll' \in Jobs
  BY <1>2 DEF PollGoes, TypeOK, Jobs
<1>3. CASE PollServe
  <2>1. queue' \in [Ids -> Entries] /\ row' \in Rows /\ attempt' \in [Attempts -> Doings]
    BY <1>3, ServeShape DEF PollServe, TypeOK
  <2>2. UNCHANGED poll \/ PollGoes("idle") \/ PollGoes("clearing")
    BY <1>3, Zenon DEF PollServe
  <2>3. poll' \in Jobs
    BY <1>2, <2>2 DEF TypeOK
  <2> QED
    BY <1>3, <2>1, <2>3 DEF PollServe, TypeOK
<1>4. ASSUME NEW c \in Timed, PollDispatch(c) PROVE TypeOK'
  <2>1. queue' \in [Ids -> Entries] /\ row' \in Rows /\ attempt' \in [Attempts -> Doings]
    BY <1>4, EnqueueShape DEF PollDispatch, TypeOK
  <2> DEFINE pc == IF poll.todo = {c} THEN "clearing" ELSE poll.pc
  <2>2. poll' = [poll EXCEPT !.todo = @ \ {c}, !.pc = pc]
    BY <1>4 DEF PollDispatch
  <2>3. pc \in {"idle", "serving", "dispatching", "clearing"}
    BY DEF TypeOK, Jobs
  <2>4. poll' \in Jobs
    <3> HIDE DEF pc
    <3> QED
      BY <2>2, <2>3 DEF TypeOK, Jobs
  <2> QED
    BY <1>4, <2>1, <2>4 DEF PollDispatch, TypeOK
<1>5. CASE PollRefused
  <2>1. PICK c \in poll.todo, r \in Refusals :
          LET again == Retries(r = "retry")
              running == \E i \in Claimed : Context(i) = c
              waiting == {i \in Pending : Context(i) = c}
          IN  \/ /\ row' = [row EXCEPT !.retries = IF again THEN @ + 1 ELSE @, !.due = again,
                                       !.points[c] = IF again \/ running THEN @ ELSE "paused"]
                 /\ queue' = IF again THEN queue ELSE Failed(waiting, FALSE)
              \/ UNCHANGED <<row, queue>>
    BY <1>5 DEF PollRefused
  <2> DEFINE again == Retries(r = "retry")
             running == \E i \in Claimed : Context(i) = c
             waiting == {i \in Pending : Context(i) = c}
             retries == IF again THEN row.retries + 1 ELSE row.retries
             point == IF again \/ running THEN row.points[c] ELSE "paused"
  <2>2. again \in BOOLEAN /\ (again => row.retries < MaxRetries)
    BY DEF Retries
  <2>3. retries \in 0..MaxRetries
    <3>1. row.retries \in 0..MaxRetries
      BY DEF TypeOK, Rows
    <3> HIDE DEF again
    <3> QED
      BY <2>2, <3>1
  <2>4. point \in PointStates
    <3>1. c \in Contexts
      BY DEF TypeOK, Jobs
    <3>2. row.points[c] \in PointStates
      BY <3>1 DEF TypeOK, Rows
    <3> HIDE DEF again, running
    <3> QED
      BY <3>2 DEF PointStates
  <2>5. Failed(waiting, FALSE) \in [Ids -> Entries]
    BY FailedShape DEF TypeOK
  <2>6. \/ /\ row' = [row EXCEPT !.retries = retries, !.due = again, !.points[c] = point]
           /\ queue' = queue \/ queue' = Failed(waiting, FALSE)
        \/ UNCHANGED <<row, queue>>
    BY <2>1, Zenon
  <2>7. row' \in Rows /\ queue' \in [Ids -> Entries]
    <3> HIDE DEF again, waiting, retries, point
    <3>1. [row EXCEPT !.retries = retries, !.due = again, !.points[c] = point] \in Rows
      <4>1. row \in Rows
        BY DEF TypeOK
      <4> QED
        BY <2>2, <2>3, <2>4, <4>1 DEF Rows
    <3> QED
      BY <2>5, <2>6, <3>1 DEF TypeOK
  <2>8. poll' \in Jobs
    BY <1>2, <1>5 DEF PollRefused
  <2> QED
    BY <1>5, <2>7, <2>8 DEF PollRefused, TypeOK
<1>6. CASE PollClear
  <2>1. row' \in Rows
    BY <1>6 DEF PollClear, TypeOK, Rows
  <2> QED
    BY <1>2, <1>6, <2>1 DEF PollClear, TypeOK
<1>7. CASE PollCrash
  BY <1>2, <1>7 DEF PollCrash, TypeOK
<1> QED
  BY <1>1, <1>3, <1>4, <1>5, <1>6, <1>7 DEF Polling

LEMMA TypeInit == RunInit => TypeOK
<1> SUFFICES ASSUME RunInit PROVE TypeOK
  OBVIOUS
<1>1. row \in Rows
  <2>1. 0 \in 0..MaxRetries
    OBVIOUS
  <2> QED
    BY <2>1 DEF RunInit, Init, NoRow, Rows, PointStates
<1>2. queue \in [Ids -> Entries]
  <2>1. (CHOOSE c \in First : TRUE) \in Contexts
    OBVIOUS
  <2> QED
    BY <2>1 DEF RunInit, Init, NoEntry, Entries
<1>3. attempt \in [Attempts -> Doings]
  BY DEF RunInit, Init, Idle, Doings
<1>4. cancel \in [Cancellers -> Requests]
  BY DEF RunInit, NoCancel, Requests, CancelSteps, Attempts, Run
<1>5. poll \in Jobs
  BY CancelAssumption DEF RunInit, NoPoll, NoRow, Jobs, PointStates
<1> QED
  BY <1>1, <1>2, <1>3, <1>4, <1>5 DEF TypeOK, RunInit, Init, Logs

LEMMA TypeNext == TypeOK /\ [RunNext]_runVars => TypeOK'
<1> SUFFICES ASSUME TypeOK, [RunNext]_runVars PROVE TypeOK'
  OBVIOUS
<1>1. CASE Managing /\ UNCHANGED <<cancel, poll>>
  BY <1>1, TypeManaging DEF Managed, TypeOK
<1>2. ASSUME NEW k \in Cancellers, Cancelling(k) \/ CancelCrash(k) PROVE TypeOK'
  BY <1>2, TypeStaging, TypeSignalling, TypeSettling DEF Cancelling
<1>3. CASE Polling \/ PollCrash
  BY <1>3, TypePolling
<1>4. CASE UNCHANGED runVars
  BY <1>4 DEF runVars, TypeOK
<1> QED
  BY <1>1, <1>2, <1>3, <1>4 DEF RunNext

\* Every record is of its type: the retries of a row stay within their bound however
\* attempts, polls and cancellations that are taken back count them.
THEOREM RunIsTyped == RunSpec => []TypeOK
  BY TypeInit, TypeNext, PTL DEF RunSpec

------------------------------------------------------------------------------
(* What is cancelled stays cancelled.                                       *)

\* The two ways a step may change what has been cancelled.
LogStays == log = "cancelled" => log' = "cancelled"
RowStays == row.status = "cancelled" => row'.status = "cancelled"

LEMMA EnqueueStays ==
  ASSUME TypeOK, NEW c, Resumable, EnqueueOrStart(c)
  PROVE  row'.status = row.status
<1>1. row' = [row EXCEPT !.points[c] = "resuming"] \/ row' = [row EXCEPT !.points[c] = "queued"]
  BY Zenon DEF EnqueueOrStart
<1> QED
  BY <1>1 DEF TypeOK, Rows

LEMMA ServeStays ==
  ASSUME TypeOK, NEW attempts, ServeQueue(attempts)
  PROVE  row'.status = row.status
<1>1. row' = row \/ \E c : row' = [row EXCEPT !.points[c] = "resuming"]
  BY DEF ServeQueue
<1> QED
  BY <1>1 DEF TypeOK, Rows

LEMMA CompleteStays ==
  ASSUME TypeOK, CompletePausedCancellation
  PROVE  LogStays /\ RowStays
  BY DEF TypeOK, Rows, CompletePausedCancellation, RowCancelled, LogStays, RowStays

LEMMA AttemptingStays ==
  ASSUME TypeOK, NEW i \in Attempts, Attempting(i)
  PROVE  LogStays /\ RowStays
<1> USE DEF LogStays, RowStays
<1>1. CASE ClaimLog(i)
  BY <1>1 DEF ClaimLog, Claimable
<1>2. CASE Admit(i) \/ EngineEnds(i)
  BY <1>2 DEF Admit, EngineEnds, LogAfter
<1>3. CASE UpdateSnapshot(i)
  BY <1>3 DEF UpdateSnapshot, TypeOK, Rows
<1>4. CASE PersistPause(i)
  <2>1. log' = log
    BY <1>4 DEF PersistPause
  <2>2. row.status = "cancelled" =>
          row' = row \/ row' = [row EXCEPT !.status = "cancelled", !.due = FALSE]
    BY <1>4, Zenon DEF PersistPause
  <2> QED
    BY <2>1, <2>2 DEF TypeOK, Rows
<1>5. CASE PauseServed(i) \/ Drain(i)
  BY <1>5, ServeStays DEF PauseServed, Drain
<1>6. CASE MarkCompleted(i)
  <2>1. CASE CancelWon
    <3>1. log' = log /\ (row' = RowCancelled \/ row' = row)
      BY <1>6, <2>1, Zenon DEF MarkCompleted
    <3> QED
      BY <3>1 DEF RowCancelled, TypeOK, Rows
  <2>2. CASE ~CancelWon
    BY <2>2 DEF CancelWon
  <2> QED
    BY <2>1, <2>2
<1>7. CASE MarkFailed(i)
  <2>1. CASE log = "cancelled" \/ row.status = "cancelled"
    BY <1>7, <2>1 DEF MarkFailed, RowCancelled, TypeOK, Rows
  <2> QED
    BY <2>1
<1>8. CASE MarkAttemptFailed(i)
  <2>1. CASE log = "cancelled" \/ row.status = "cancelled"
    <3>1. row' = RowCancelled /\ log' = log
      BY <1>8, <2>1 DEF MarkAttemptFailed
    <3> QED
      BY <3>1 DEF RowCancelled, TypeOK, Rows
  <2> QED
    BY <2>1
<1>9. CASE CheckCancellation(i)
  BY <1>9, CompleteStays DEF CheckCancellation
<1> QED
  BY <1>1, <1>2, <1>3, <1>4, <1>5, <1>6, <1>7, <1>8, <1>9 DEF Attempting

LEMMA StageStays == ASSUME TypeOK, Stage PROVE RowStays
  BY DEF TypeOK, Rows, Stage, CanStage, RowStays

LEMMA CancellingStays ==
  ASSUME TypeOK, NEW k \in Cancellers, Cancelling(k) \/ CancelCrash(k)
  PROVE  LogStays /\ RowStays
<1>1. CASE StageFirst(k) \/ Confirm(k)
  BY <1>1, StageStays DEF StageFirst, Confirm, LogStays
<1>2. CASE TurnBack(k)
  <2>1. row.status = "cancelled" => row' = row
    BY <1>2 DEF TurnBack, ClearIntent, CanRollback
  <2> QED
    BY <1>2, <2>1 DEF TurnBack, LogStays, RowStays
<1>3. CASE ServeAfter(k)
  BY <1>3, ServeStays DEF ServeAfter, LogStays, RowStays
<1>4. CASE ClaimCancellation(k)
  BY <1>4 DEF ClaimCancellation, LogStays, RowStays
<1>5. CASE Complete(k)
  BY <1>5, CompleteStays DEF Complete
<1>6. CASE Finalize(k)
  <2>1. log' = log /\ (row' = RowCancelled \/ row' = row)
    BY <1>6, Zenon DEF Finalize
  <2> QED
    BY <2>1 DEF RowCancelled, TypeOK, Rows, LogStays, RowStays
<1>7. CASE ReadLog(k) \/ SignalResume(k) \/ SignalRun(k) \/ Publish(k) \/ CancelCrash(k)
  BY <1>7 DEF ReadLog, SignalResume, SignalRun, Publish, CancelCrash, LogStays, RowStays
<1> QED
  BY <1>1, <1>2, <1>3, <1>4, <1>5, <1>6, <1>7 DEF Cancelling

LEMMA PollingStays == ASSUME TypeOK, Polling \/ PollCrash PROVE LogStays /\ RowStays
<1> USE DEF LogStays, RowStays
<1>1. ASSUME NEW c \in Timed, PollDispatch(c) PROVE LogStays /\ RowStays
  BY <1>1, EnqueueStays DEF PollDispatch, Admissible
<1>2. CASE PollRefused
  <2>1. row.status = "cancelled" => row' = row
    BY <1>2 DEF PollRefused, Resumable
  <2> QED
    BY <1>2, <2>1 DEF PollRefused
<1>3. CASE PollServe
  BY <1>3, ServeStays DEF PollServe
<1>4. CASE PollClear
  BY <1>4 DEF PollClear, Resumable
<1>5. CASE PollRow \/ PollCrash
  BY <1>5 DEF PollRow, PollCrash
<1> QED
  BY <1>1, <1>2, <1>3, <1>4, <1>5 DEF Polling

LEMMA StepStays == ASSUME TypeOK, [RunNext]_runVars PROVE LogStays /\ RowStays
<1>1. ASSUME NEW c \in Contexts, Resume(c) PROVE LogStays /\ RowStays
  BY <1>1, EnqueueStays DEF Resume, Admissible, LogStays, RowStays
<1>2. ASSUME NEW i \in Attempts, Attempting(i) PROVE LogStays /\ RowStays
  BY <1>2, AttemptingStays
<1>3. ASSUME (\E i \in Attempts : Crash(i)) \/ RunStops \/ SweepStale \/ UNCHANGED runVars
      PROVE  LogStays /\ RowStays
  BY <1>3 DEF Crash, RunStops, SweepStale, LogAfter, runVars, LogStays, RowStays
<1> QED
  BY <1>1, <1>2, <1>3, CancellingStays, PollingStays DEF RunNext, Managing

\* No attempt that was under way, no poll and no other request to cancel revives a
\* run, or a pause, that has been cancelled.
THEOREM WhatIsCancelledStays == RunSpec => CancelledStays
<1>1. TypeOK /\ [RunNext]_runVars =>
        [/\ log = "cancelled" => log' = "cancelled"
         /\ row.status = "cancelled" => row'.status = "cancelled"]_runVars
  BY StepStays DEF LogStays, RowStays
<1> QED
  BY <1>1, RunIsTyped, PTL DEF RunSpec, CancelledStays

------------------------------------------------------------------------------
(* Two attempts never run the engine at a time.                             *)

LiveSteps == {"starting", "admitting", "running", "ended", "persisted", "settling"}
LiveOf(attempts) == {i \in Ids : attempts[i].pc \in LiveSteps}

\* The attempts that have yet to record what came of them.
Live == LiveOf(attempt)

RunSteps ==
  /\ attempt[Run].pc \in {"idle", "running", "ended", "persisted"}
  /\ attempt[Run].outcome # "completed"

\* While the run itself is under way no pause is stored, and nothing is resumed.
RunFirst == attempt[Run].pc \in {"running", "ended"} => row.status = "none" /\ Live = {}

\* The entry of an attempt stays claimed until it has recorded what came of it, unless
\* the pause is cancelled, after which nothing is started.
LiveIsClaimed == \A i \in Live : queue[i].status = "claimed" \/ row.status = "cancelled"

OneLive == \A i, j \in Live : i = j

OneInv == TypeOK /\ RunSteps /\ RunFirst /\ LiveIsClaimed /\ OneLive

\* A step that starts no attempt, and takes no claim from one that is live.
Keeps ==
  /\ Live' \subseteq Live
  /\ \A i \in Live' : queue[i].status = "claimed" =>
       queue'[i].status = "claimed" \/ row'.status = "cancelled"

\* A step that starts an attempt.
Starts ==
  /\ Live = {} /\ row.status # "none"
  /\ \E i \in Ids : Live' = {i} /\ queue'[i].status = "claimed"

\* What a step makes of the run itself.
KeepsRun ==
  /\ RunSteps'
  /\ attempt'[Run].pc \in {"running", "ended"} =>
       /\ attempt[Run].pc \in {"running", "ended"}
       /\ row.status = "none" => row'.status = "none"

LEMMA OldestShape ==
  ASSUME NEW ids, ids \subseteq Ids, ids # {}
  PROVE  Oldest(ids) \in ids
<1> DEFINE Upto(i) == {j \in ids : j <= i}
           T == {Upto(i) : i \in ids}
<1>1. T \subseteq FiniteSubsetsOf(ids)
  <2>1. IsFiniteSet(1..MaxEntries)
    BY FS_Interval
  <2>2. IsFiniteSet(ids)
    BY <2>1, FS_Subset DEF Ids
  <2>3. FiniteSubsetsOf(ids) = SUBSET ids
    BY <2>2, FS_FiniteSubsetsOfFinite
  <2> QED
    BY <2>3
<1>2. IsWellFoundedOn(StrictSubsetOrdering(ids), FiniteSubsetsOf(ids))
  BY FS_StrictSubsetOrderingWellFounded
<1>3. T # {}
  OBVIOUS
<1> HIDE DEF T
<1>4. PICK x \in T : \A y \in T : <<y, x>> \notin StrictSubsetOrdering(ids)
  BY <1>1, <1>2, <1>3, WFMin
<1> USE DEF T
<1>5. PICK i \in ids : x = Upto(i)
  BY <1>4
<1>6. \A m \in ids : m \in Int
  BY DEF Ids
<1>7. ASSUME NEW j \in ids PROVE i <= j
  <2>1. SUFFICES ASSUME j < i PROVE FALSE
    BY <1>6
  <2>2. i \in Upto(i) /\ i \notin Upto(j)
    BY <1>6, <2>1
  <2>3. Upto(j) \subseteq Upto(i)
    <3>1. ASSUME NEW m \in Upto(j) PROVE m \in Upto(i)
      BY <1>6, <2>1
    <3> QED
      BY <3>1
  <2>4. <<Upto(j), x>> \in StrictSubsetOrdering(ids)
    BY <1>5, <2>2, <2>3 DEF StrictSubsetOrdering
  <2> QED
    BY <1>4, <2>4
<1> QED
  BY <1>7 DEF Oldest

LEMMA RunIsNoEntry == Run \notin Ids /\ Run \in Attempts /\ Ids \subseteq Attempts
  BY DEF Run, Ids, Attempts

\* Nothing is live where nothing is claimed and the pause is not cancelled.
LEMMA NobodyLives ==
  ASSUME TypeOK, LiveIsClaimed, Resumable, NothingClaimed
  PROVE  Live = {} /\ row.status # "none"
  BY DEF LiveIsClaimed, Resumable, NothingClaimed, Claimed, Live, LiveOf

LEMMA StartedLives ==
  ASSUME NEW attempts \in [Attempts -> Doings], LiveOf(attempts) = {}, NEW i \in Ids,
         attempt' = Started(attempts, i)
  PROVE  Live' = {i} /\ attempt'[Run] = attempts[Run]
<1>1. attempt'[i].pc = "starting" /\ \A j \in Attempts \ {i} : attempt'[j] = attempts[j]
  BY RunIsNoEntry DEF Started, Idle
<1>2. attempt'[Run] = attempts[Run]
  BY <1>1, RunIsNoEntry
<1>3. ASSUME NEW j \in Ids PROVE j \in Live' <=> j = i
  BY <1>1, <1>3, RunIsNoEntry DEF Live, LiveOf, LiveSteps
<1> QED
  BY <1>2, <1>3 DEF Live, LiveOf

LEMMA EnqueueLives ==
  ASSUME TypeOK, LiveIsClaimed, NEW c \in Contexts, Resumable, Unused # {}, EnqueueOrStart(c)
  PROVE  (Keeps \/ Starts) /\ attempt'[Run] = attempt[Run]
<1> DEFINE i == Oldest(Unused)
<1>1. i \in Unused /\ i \in Ids
  BY OldestShape DEF Unused
<1>2. CASE NothingClaimed
  <2>1. queue' = [queue EXCEPT ![i] = [NoEntry(c) EXCEPT !.status = "claimed"]]
    BY <1>2 DEF EnqueueOrStart
  <2>2. attempt' = Started(attempt, i)
    BY <1>2 DEF EnqueueOrStart
  <2> HIDE DEF i
  <2>3. Live = {} /\ row.status # "none"
    BY <1>2, NobodyLives
  <2>4. Live' = {i} /\ attempt'[Run] = attempt[Run]
    BY <1>1, <2>2, <2>3, StartedLives DEF TypeOK, Live
  <2>5. queue'[i].status = "claimed"
    BY <1>1, <2>1 DEF TypeOK, NoEntry
  <2> QED
    BY <1>1, <2>3, <2>4, <2>5 DEF Starts
<1>3. CASE ~NothingClaimed
  <2>1. queue' = [queue EXCEPT ![i] = [NoEntry(c) EXCEPT !.status = "pending"]]
    BY <1>3 DEF EnqueueOrStart
  <2>2. attempt' = attempt
    BY <1>3 DEF EnqueueOrStart
  <2> HIDE DEF i
  <2>3. ASSUME NEW j \in Ids, queue[j].status = "claimed" PROVE queue'[j].status = "claimed"
    BY <1>1, <2>1, <2>3 DEF TypeOK, Unused
  <2> QED
    BY <2>2, <2>3 DEF Keeps, Live, LiveOf
<1> QED
  BY <1>2, <1>3

\* Entries that are not claimed may fail.
LEMMA FailedKeeps ==
  ASSUME TypeOK, NEW ids, ids \cap Claimed = {}, NEW b \in BOOLEAN,
         queue' = queue \/ queue' = Failed(ids, b), Live' \subseteq Live
  PROVE  Keeps
<1>1. ASSUME NEW i \in Ids, queue[i].status = "claimed" PROVE queue'[i].status = "claimed"
  BY <1>1 DEF Failed, Claimed, TypeOK
<1> QED
  BY <1>1 DEF Keeps, Live, LiveOf

LEMMA ServeLives ==
  ASSUME TypeOK, LiveIsClaimed, NEW attempts \in [Attempts -> Doings],
         LiveOf(attempts) \subseteq Live, Overtaken => attempts = attempt,
         ServeQueue(attempts)
  PROVE  (Keeps \/ Starts) /\ attempt'[Run] = attempts[Run]
<1> DEFINE i == Oldest(Pending)
<1>1. Pending # {} => i \in Pending /\ i \in Ids
  BY OldestShape DEF Pending
<1>2. CASE Overtaken
  <2>1. queue' = Failed({i}, FALSE) /\ attempt' = attempt
    BY <1>2 DEF ServeQueue
  <2>2. i \in Pending
    BY <1>1, <1>2 DEF Overtaken, Serving
  <2> HIDE DEF i
  <2>3. {i} \cap Claimed = {}
    BY <2>2 DEF Pending, Claimed
  <2> QED
    BY <1>2, <2>1, <2>3, FailedKeeps DEF Live, LiveOf
<1>3. CASE ~Overtaken /\ Serving
  <2>1. queue' = [queue EXCEPT ![i].status = "claimed"] /\ attempt' = Started(attempts, i)
    BY <1>3 DEF ServeQueue
  <2>2. i \in Ids
    BY <1>1, <1>3 DEF Serving
  <2> HIDE DEF i
  <2>3. Live = {} /\ row.status # "none"
    BY <1>3, NobodyLives DEF Serving
  <2>4. Live' = {i} /\ attempt'[Run] = attempts[Run]
    BY <2>1, <2>2, <2>3, StartedLives
  <2>5. queue'[i].status = "claimed"
    BY <2>1, <2>2 DEF TypeOK, Entries
  <2> QED
    BY <2>2, <2>3, <2>4, <2>5 DEF Starts
<1>4. CASE ~Overtaken /\ ~Serving
  <2>1. attempt' = attempts /\ queue' = queue
    BY <1>4 DEF ServeQueue
  <2> QED
    BY <2>1 DEF Keeps, Live, LiveOf
<1> QED
  BY <1>2, <1>3, <1>4

\* A step that changes no attempt but the one that takes it.
LEMMA GoesLives ==
  ASSUME TypeOK, NEW i \in Attempts, NEW r, attempt' = [attempt EXCEPT ![i] = r],
         attempt[i].pc \in LiveSteps \/ r.pc \notin LiveSteps
  PROVE  /\ Live' \subseteq Live
         /\ i # Run => attempt'[Run] = attempt[Run]
         /\ attempt'[i] = r
<1>1. ASSUME NEW j \in Ids, j \in Live' PROVE j \in Live
  BY <1>1, RunIsNoEntry DEF TypeOK, Live, LiveOf
<1> QED
  BY <1>1, RunIsNoEntry DEF TypeOK, Live, LiveOf

\* An attempt that was live, or is no longer; its entry is left alone.
LEMMA MovesKeeps ==
  ASSUME TypeOK, NEW i \in Attempts, NEW r, attempt' = [attempt EXCEPT ![i] = r],
         attempt[i].pc \in LiveSteps \/ r.pc \notin LiveSteps, queue' = queue
  PROVE  Keeps
  BY GoesLives DEF Keeps

\* What an attempt but the run itself does to that.
LEMMA OthersKeepRun ==
  ASSUME OneInv, attempt'[Run] = attempt[Run],
         row.status = "none" => row'.status = "none"
  PROVE  KeepsRun
  BY DEF OneInv, KeepsRun, RunSteps

LEMMA EngineLives ==
  ASSUME OneInv, NEW i \in Attempts,
         ClaimLog(i) \/ Admit(i) \/ EngineEnds(i) \/ UpdateSnapshot(i)
  PROVE  Keeps /\ KeepsRun
<1>1. PICK r : /\ attempt' = [attempt EXCEPT ![i] = r]
               /\ i = Run => /\ attempt[i].pc = "running"
                            /\ r.pc = "ended" /\ r.outcome # "completed"
  <2>1. CASE ClaimLog(i)
    <3>1. i # Run
      BY <2>1 DEF ClaimLog, OneInv, RunSteps
    <3> QED
      BY <2>1, <3>1 DEF ClaimLog, Goes, Ends
  <2>2. CASE Admit(i)
    <3>1. i # Run
      BY <2>2 DEF Admit, OneInv, RunSteps
    <3> QED
      BY <2>2, <3>1 DEF Admit, Goes, Ends
  <2>3. CASE EngineEnds(i)
    <3>1. PICK o \in IF i = Run THEN {"paused"} ELSE Outcomes, fresh \in SUBSET Contexts :
            attempt' = [attempt EXCEPT
              ![i].pc = IF o \in {"completed", "paused"} THEN "ended" ELSE "settling",
              ![i].outcome = o, ![i].fresh = fresh]
      BY <2>3 DEF EngineEnds
    <3> DEFINE pc == IF o \in {"completed", "paused"} THEN "ended" ELSE "settling"
               r == [attempt[i] EXCEPT !.pc = pc, !.outcome = o, !.fresh = fresh]
    <3>2. attempt' = [attempt EXCEPT ![i] = r]
      BY <3>1 DEF OneInv, TypeOK
    <3>3. r.pc = pc /\ r.outcome = o
      BY DEF OneInv, TypeOK, Doings
    <3>4. i = Run => pc = "ended" /\ o # "completed"
      BY <3>1
    <3> QED
      BY <2>3, <3>2, <3>3, <3>4 DEF EngineEnds
  <2>4. CASE UpdateSnapshot(i)
    <3>1. i # Run
      BY <2>4 DEF UpdateSnapshot, OneInv, RunSteps
    <3> QED
      BY <2>4, <3>1 DEF UpdateSnapshot, Goes
  <2> QED
    BY <2>1, <2>2, <2>3, <2>4
<1>2. attempt[i].pc \in LiveSteps /\ queue' = queue /\ row'.status = row.status
  <2>1. row' = row \/ \E snap : row' = [row EXCEPT !.snap = snap]
    BY DEF ClaimLog, Admit, EngineEnds, UpdateSnapshot
  <2>2. row'.status = row.status
    BY <2>1 DEF OneInv, TypeOK, Rows
  <2>3. queue' = queue /\ attempt[i].pc \in {"starting", "admitting", "running", "ended"}
    BY DEF ClaimLog, Admit, EngineEnds, UpdateSnapshot
  <2> QED
    BY <2>2, <2>3 DEF LiveSteps
<1>3. Keeps
  BY <1>1, <1>2, MovesKeeps DEF OneInv
<1>4. CASE i # Run
  <2>1. attempt'[Run] = attempt[Run]
    BY <1>1, <1>2, <1>4, GoesLives DEF OneInv
  <2> QED
    BY <1>2, <1>3, <2>1, OthersKeepRun
<1>5. CASE i = Run
  <2>1. attempt'[Run].pc = "ended" /\ attempt'[Run].outcome # "completed"
    BY <1>1, <1>5, GoesLives, <1>2 DEF OneInv
  <2> QED
    BY <1>1, <1>2, <1>3, <1>5, <2>1 DEF KeepsRun, RunSteps
<1> QED
  BY <1>3, <1>4, <1>5

LEMMA PauseLives ==
  ASSUME OneInv, NEW i \in Attempts, PersistPause(i) \/ PauseServed(i) \/ Drain(i)
  PROVE  (Keeps \/ Starts) /\ KeepsRun
<1>1. CASE PersistPause(i)
  <2> DEFINE r == [attempt[i] EXCEPT !.pc = "persisted"]
  <2>1. attempt' = [attempt EXCEPT ![i] = r] /\ queue' = queue
    BY <1>1 DEF PersistPause, Goes
  <2>2. attempt[i].pc \in LiveSteps /\ r.pc = "persisted" /\ r.outcome = attempt[i].outcome
    BY <1>1 DEF PersistPause, LiveSteps, OneInv, TypeOK, Doings
  <2> HIDE DEF r
  <2>3. Keeps
    BY <2>1, <2>2, MovesKeeps DEF OneInv
  <2>4. CASE i # Run
    <3>1. attempt'[Run] = attempt[Run]
      BY <2>1, <2>2, <2>4, GoesLives DEF OneInv
    <3>2. attempt[Run].pc \in {"running", "ended"} => i \notin Live
      BY DEF OneInv, RunFirst
    <3>3. i \in Live
      BY <2>2, <2>4 DEF Attempts, Live, LiveOf
    <3> QED
      BY <2>3, <3>1, <3>2, <3>3 DEF KeepsRun, OneInv, RunSteps
  <2>5. CASE i = Run
    <3>1. attempt'[Run].pc = "persisted" /\ attempt'[Run].outcome # "completed"
      BY <2>1, <2>2, <2>5, GoesLives DEF OneInv, RunSteps
    <3> QED
      BY <2>3, <3>1 DEF KeepsRun, RunSteps
  <2> QED
    BY <2>4, <2>5
<1>2. CASE PauseServed(i)
  <2> DEFINE r == IF i = Run THEN Idle ELSE [attempt[i] EXCEPT !.pc = "settling"]
             attempts == IF Overtaken THEN attempt ELSE [attempt EXCEPT ![i] = r]
  <2>1. ServeQueue(attempts) /\ attempt[i].pc = "persisted"
    BY <1>2 DEF PauseServed, OneInv, TypeOK
  <2>2. r \in Doings /\ r.pc \in {"idle", "settling"} /\ (i = Run => r = Idle)
    BY DEF OneInv, TypeOK, Doings, Idle
  <2>3. attempts \in [Attempts -> Doings] /\ LiveOf(attempts) \subseteq Live
    <3> HIDE DEF r
    <3> QED
      BY <2>1, <2>2, RunIsNoEntry DEF OneInv, TypeOK, Live, LiveOf, LiveSteps
  <2>4. (Keeps \/ Starts) /\ attempt'[Run] = attempts[Run]
    <3> HIDE DEF attempts
    <3>1. Overtaken => attempts = attempt
      BY DEF attempts
    <3> QED
      BY <2>1, <2>3, <3>1, ServeLives DEF OneInv
  <2>5. row'.status = row.status
    BY <2>1, <2>3, ServeStays DEF OneInv
  <2>6. attempts[Run] = attempt[Run] \/ attempts[Run] = Idle
    <3> HIDE DEF r
    <3> QED
      BY <2>2, RunIsNoEntry DEF OneInv, TypeOK
  <2>7. KeepsRun
    <3> HIDE DEF attempts
    <3> QED
      BY <2>4, <2>5, <2>6 DEF KeepsRun, RunSteps, OneInv, Idle
  <2> QED
    BY <2>4, <2>7
<1>3. CASE Drain(i)
  <2> DEFINE attempts == IF Overtaken THEN attempt ELSE [attempt EXCEPT ![i] = Idle]
  <2>1. ServeQueue(attempts)
    BY <1>3 DEF Drain
  <2>2. i # Run
    BY <1>3 DEF Drain, OneInv, RunSteps
  <2>3. attempts \in [Attempts -> Doings] /\ LiveOf(attempts) \subseteq Live
    BY RunIsNoEntry, IdleShape DEF OneInv, TypeOK, Live, LiveOf, LiveSteps, Idle
  <2>4. attempts[Run] = attempt[Run]
    BY <2>2, RunIsNoEntry DEF OneInv, TypeOK
  <2> HIDE DEF attempts
  <2>5. Overtaken => attempts = attempt
    BY DEF attempts
  <2>6. (Keeps \/ Starts) /\ attempt'[Run] = attempt[Run]
    BY <2>1, <2>3, <2>4, <2>5, ServeLives DEF OneInv
  <2>7. row'.status = row.status
    BY <2>1, <2>3, ServeStays DEF OneInv
  <2> QED
    BY <2>6, <2>7, OthersKeepRun
<1> QED
  BY <1>1, <1>2, <1>3

\* The run itself is not under way while another attempt is live.
LEMMA LiveKeepsRun ==
  ASSUME OneInv, attempt'[Run] = attempt[Run], Live # {}
  PROVE  KeepsRun
  BY DEF OneInv, KeepsRun, RunSteps, RunFirst

\* An attempt that records what came of it changes the claim of nobody else.
LEMMA MarkKeeps ==
  ASSUME TypeOK, NEW i \in Attempts, NEW r, attempt' = [attempt EXCEPT ![i] = r],
         r.pc \notin LiveSteps,
         \A j \in Ids \ {i} : queue[j].status = "claimed" => queue'[j].status = "claimed"
  PROVE  Keeps
<1>1. Live' \subseteq Live /\ attempt'[i] = r
  BY GoesLives
<1>2. i \notin Live'
  BY <1>1 DEF Live, LiveOf
<1> QED
  BY <1>1, <1>2 DEF Keeps, Live, LiveOf

LEMMA OneFails ==
  ASSUME TypeOK, NEW i, NEW b
  PROVE  \A j \in Ids \ {i} : Failed({i}, b)[j] = queue[j]
  BY DEF Failed

LEMMA MarkLives ==
  ASSUME OneInv, NEW i \in Attempts,
         MarkCompleted(i) \/ MarkFailed(i) \/ MarkAttemptFailed(i)
  PROVE  Keeps /\ KeepsRun
<1>1. attempt[i].pc = "settling"
  BY DEF MarkCompleted, MarkFailed, MarkAttemptFailed
<1>2. i # Run /\ i \in Ids
  BY <1>1 DEF OneInv, RunSteps, Attempts
<1>3. i \in Live
  BY <1>1, <1>2 DEF Live, LiveOf, LiveSteps
<1>4. PICK r : attempt' = [attempt EXCEPT ![i] = r] /\ r.pc \notin LiveSteps
  <2>1. attempt[i] \in Doings
    BY DEF OneInv, TypeOK
  <2>2. ASSUME NEW pc \in {"draining", "checking"}, attempt' = [attempt EXCEPT ![i].pc = pc]
        PROVE  \E r : attempt' = [attempt EXCEPT ![i] = r] /\ r.pc \notin LiveSteps
    <3> DEFINE r == [attempt[i] EXCEPT !.pc = pc]
    <3>1. attempt' = [attempt EXCEPT ![i] = r]
      BY <2>2 DEF OneInv, TypeOK
    <3>2. r.pc = pc
      BY <2>1 DEF Doings
    <3>3. r.pc \notin LiveSteps
      BY <3>2 DEF LiveSteps
    <3> QED
      BY <3>1, <3>3
  <2>3. CASE MarkCompleted(i) \/ MarkFailed(i)
    BY <2>2, <2>3 DEF MarkCompleted, MarkFailed, Goes
  <2>4. CASE MarkAttemptFailed(i)
    <3>1. attempt' = IF AfterFailure(attempt[i].outcome) = "idle"
                     THEN [attempt EXCEPT ![i] = Idle]
                     ELSE [attempt EXCEPT ![i].pc = AfterFailure(attempt[i].outcome)]
      BY <2>4, Zenon DEF MarkAttemptFailed
    <3>2. AfterFailure(attempt[i].outcome) \in {"idle", "draining", "checking"}
      BY DEF AfterFailure
    <3>3. Idle.pc \notin LiveSteps
      BY DEF Idle, LiveSteps
    <3> QED
      BY <2>2, <3>1, <3>2, <3>3
  <2> QED
    BY <2>3, <2>4
<1>5. \A j \in Ids \ {i} : queue'[j] = queue[j]
  <2> DEFINE failed == Failed({i}, FALSE)
  <2>a. \A j \in Ids \ {i} : failed[j] = queue[j]
    BY OneFails DEF OneInv
  <2> HIDE DEF failed
  <2>1. CASE MarkCompleted(i)
    <3>1. \/ queue' = queue \/ queue' = failed
          \/ queue' = [queue EXCEPT ![i].status = "completed"]
      BY <2>1, Zenon DEF failed, MarkCompleted
    <3> QED
      BY <2>a, <3>1 DEF OneInv, TypeOK
  <2>2. CASE MarkFailed(i)
    BY <2>2, <2>a DEF failed, MarkFailed
  <2>3. CASE MarkAttemptFailed(i)
    <3>1. \/ queue' = failed
          \/ queue' = [queue EXCEPT ![i].status = "pending"]
      BY <2>3, Zenon DEF failed, MarkAttemptFailed
    <3> QED
      BY <2>a, <3>1 DEF OneInv, TypeOK
  <2> QED
    BY <2>1, <2>2, <2>3
<1>6. Keeps
  BY <1>4, <1>5, MarkKeeps DEF OneInv
<1>7. attempt'[Run] = attempt[Run]
  BY <1>2, <1>4, RunIsNoEntry DEF OneInv, TypeOK
<1> QED
  BY <1>3, <1>6, <1>7, LiveKeepsRun

\* A pause that is completed as cancelled starts nothing any more.
LEMMA CompleteLives ==
  ASSUME TypeOK, CompletePausedCancellation, Live' \subseteq Live
  PROVE  Keeps /\ (row.status = "none" => row'.status = "none")
<1>1. row' = RowCancelled => row'.status = "cancelled"
  BY DEF RowCancelled, TypeOK, Rows
<1>2. (row.status # "none" /\ row' = RowCancelled) \/ UNCHANGED <<row, queue>>
  BY DEF CompletePausedCancellation
<1> QED
  BY <1>1, <1>2 DEF Keeps

LEMMA AttemptingLives ==
  ASSUME OneInv, NEW i \in Attempts, Attempting(i)
  PROVE  (Keeps \/ Starts) /\ KeepsRun
<1>1. CASE CheckCancellation(i)
  <2> DEFINE r == [attempt[i] EXCEPT !.pc = "draining"]
  <2>1. attempt' = [attempt EXCEPT ![i] = r]
    BY <1>1 DEF CheckCancellation, Goes
  <2>2. r.pc = "draining"
    BY DEF OneInv, TypeOK, Doings
  <2>3. i # Run
    BY <1>1 DEF CheckCancellation, OneInv, RunSteps
  <2> HIDE DEF r
  <2>4. Live' \subseteq Live /\ attempt'[Run] = attempt[Run]
    BY <2>1, <2>2, <2>3, GoesLives DEF OneInv, LiveSteps
  <2>5. CompletePausedCancellation \/ UNCHANGED <<row, queue>>
    BY <1>1 DEF CheckCancellation
  <2>6. Keeps /\ (row.status = "none" => row'.status = "none")
    BY <2>4, <2>5, CompleteLives DEF OneInv, Keeps
  <2> QED
    BY <2>4, <2>6, OthersKeepRun
<1> QED
  BY <1>1, EngineLives, PauseLives, MarkLives DEF Attempting

LEMMA ManagingLives ==
  ASSUME OneInv, Managing
  PROVE  (Keeps \/ Starts) /\ KeepsRun
<1>1. ASSUME NEW c \in Contexts, Resume(c) PROVE (Keeps \/ Starts) /\ KeepsRun
  <2>1. (Keeps \/ Starts) /\ attempt'[Run] = attempt[Run]
    BY <1>1, EnqueueLives DEF Resume, Admissible, OneInv
  <2>2. row.status = "none" => row'.status = "none"
    BY <1>1 DEF Resume, Admissible, Resumable
  <2> QED
    BY <2>1, <2>2, OthersKeepRun
<1>2. ASSUME NEW i \in Attempts, Attempting(i) PROVE (Keeps \/ Starts) /\ KeepsRun
  BY <1>2, AttemptingLives
<1>3. ASSUME NEW i \in Attempts, attempt' = [attempt EXCEPT ![i] = Idle],
             UNCHANGED <<row, queue>>
      PROVE  Keeps /\ KeepsRun
  <2>1. Keeps
    BY <1>3, MovesKeeps DEF OneInv, Idle, LiveSteps
  <2>2. attempt'[Run] = attempt[Run] \/ attempt'[Run] = Idle
    BY <1>3, RunIsNoEntry DEF OneInv, TypeOK
  <2> QED
    BY <1>3, <2>1, <2>2 DEF KeepsRun, OneInv, RunSteps, Idle
<1>4. CASE (\E i \in Attempts : Crash(i)) \/ RunStops
  BY <1>3, <1>4, RunIsNoEntry DEF Crash, RunStops
<1>5. CASE SweepStale
  BY <1>5, OthersKeepRun DEF SweepStale, Keeps, Live, LiveOf
<1> QED
  BY <1>1, <1>2, <1>4, <1>5 DEF Managing

\* Serving the queue beside an attempt.
LEMMA ServingLives ==
  ASSUME OneInv, ServeQueue(attempt)
  PROVE  (Keeps \/ Starts) /\ KeepsRun
<1>1. (Keeps \/ Starts) /\ attempt'[Run] = attempt[Run]
  BY ServeLives DEF OneInv, TypeOK, Live
<1>2. row'.status = row.status
  BY ServeStays DEF OneInv, TypeOK
<1> QED
  BY <1>1, <1>2, OthersKeepRun

LEMMA SameLives == attempt' = attempt => Live' \subseteq Live
  BY DEF Live, LiveOf

LEMMA CancellingLives ==
  ASSUME OneInv, NEW k \in Cancellers, Cancelling(k) \/ CancelCrash(k)
  PROVE  (Keeps \/ Starts) /\ KeepsRun
<1>1. CASE StageFirst(k) \/ Confirm(k)
  <2>1. attempt' = attempt /\ Stage
    BY <1>1 DEF StageFirst, Confirm
  <2>2. queue' = queue \/ queue' = Failed(Pending, TRUE)
    BY <2>1 DEF Stage
  <2>3. Pending \cap Claimed = {}
    BY DEF Pending, Claimed
  <2>4. row.status = "none" => row' = row
    BY <2>1 DEF Stage, CanStage
  <2> QED
    BY <2>1, <2>2, <2>3, <2>4, FailedKeeps, SameLives, OthersKeepRun DEF OneInv
<1>2. CASE TurnBack(k)
  <2>1. attempt' = attempt /\ (queue' = queue \/ queue' = Requeued)
    BY <1>2 DEF TurnBack, ClearIntent, Rollback
  <2>2. \A i \in Ids : queue[i].status = "claimed" => Requeued[i] = queue[i]
    BY DEF Requeued
  <2>3. Keeps
    BY <2>1, <2>2, SameLives DEF Keeps, Live, LiveOf
  <2>4. row.status = "none" => row' = row
    BY <1>2 DEF TurnBack, ClearIntent, CanRollback
  <2> QED
    BY <2>1, <2>3, <2>4, OthersKeepRun
<1>3. CASE ServeAfter(k)
  BY <1>3, ServingLives DEF ServeAfter
<1>4. CASE Complete(k)
  BY <1>4, SameLives, CompleteLives, OthersKeepRun DEF Complete, OneInv
<1>5. CASE Finalize(k)
  <2>1. \/ row.status \in {"cancelling", "cancelled"} /\ row' = RowCancelled
        \/ UNCHANGED <<row, queue>>
    BY <1>5, Zenon DEF Finalize
  <2>2. row' = RowCancelled => row'.status = "cancelled"
    BY DEF OneInv, TypeOK, Rows, RowCancelled
  <2>3. attempt' = attempt
    BY <1>5 DEF Finalize
  <2> QED
    BY <2>1, <2>2, <2>3, SameLives, OthersKeepRun DEF Keeps
<1>6. CASE \/ ReadLog(k) \/ SignalResume(k) \/ SignalRun(k) \/ ClaimCancellation(k)
           \/ Publish(k) \/ CancelCrash(k)
  <2>1. UNCHANGED <<row, queue, attempt>>
    BY <1>6 DEF ReadLog, SignalResume, SignalRun, ClaimCancellation, Publish, CancelCrash
  <2> QED
    BY <2>1, SameLives, OthersKeepRun DEF Keeps
<1> QED
  BY <1>1, <1>2, <1>3, <1>4, <1>5, <1>6 DEF Cancelling

LEMMA PollingLives ==
  ASSUME OneInv, Polling \/ PollCrash
  PROVE  (Keeps \/ Starts) /\ KeepsRun
<1>1. ASSUME NEW c \in Timed, PollDispatch(c) PROVE (Keeps \/ Starts) /\ KeepsRun
  <2>1. CASE Admissible(c)
    <3>1. (Keeps \/ Starts) /\ attempt'[Run] = attempt[Run]
      BY <1>1, <2>1, EnqueueLives DEF PollDispatch, Admissible, OneInv
    <3>2. row.status # "none"
      BY <2>1 DEF Admissible, Resumable
    <3> QED
      BY <3>1, <3>2, OthersKeepRun
  <2>2. CASE ~Admissible(c)
    BY <1>1, <2>2, SameLives, OthersKeepRun DEF PollDispatch, Keeps
  <2> QED
    BY <2>1, <2>2
<1>2. CASE PollServe
  BY <1>2, ServingLives DEF PollServe
<1>3. CASE PollRefused
  <2>1. PICK waiting : /\ waiting \subseteq Pending
                       /\ queue' = queue \/ queue' = Failed(waiting, FALSE)
    <3>1. PICK c \in poll.todo, r \in Refusals :
            \/ queue' = IF Retries(r = "retry") THEN queue
                       ELSE Failed({i \in Pending : Context(i) = c}, FALSE)
            \/ queue' = queue
      BY <1>3 DEF PollRefused
    <3>2. {i \in Pending : Context(i) = c} \subseteq Pending
      OBVIOUS
    <3> QED
      BY <3>1, <3>2
  <2>2. waiting \cap Claimed = {}
    BY <2>1 DEF Pending, Claimed
  <2>3. row.status = "none" => row' = row
    BY <1>3 DEF PollRefused, Resumable
  <2>4. attempt' = attempt
    BY <1>3 DEF PollRefused
  <2> QED
    BY <2>1, <2>2, <2>3, <2>4, SameLives, FailedKeeps, OthersKeepRun DEF OneInv
<1>4. CASE PollRow \/ PollClear \/ PollCrash
  <2>1. attempt' = attempt /\ queue' = queue /\ (row.status = "none" => row' = row)
    BY <1>4 DEF PollRow, PollClear, PollCrash, Resumable
  <2> QED
    BY <2>1, SameLives, OthersKeepRun DEF Keeps
<1> QED
  BY <1>1, <1>2, <1>3, <1>4 DEF Polling

LEMMA OneInit == RunInit => OneInv
<1> SUFFICES ASSUME RunInit PROVE OneInv
  OBVIOUS
<1>1. attempt[Run].pc = "running" /\ attempt[Run].outcome = "none" /\ row.status = "none"
  BY RunIsNoEntry DEF RunInit, Init, Idle, NoRow
<1>2. Live = {}
  BY RunIsNoEntry DEF RunInit, Init, Idle, Live, LiveOf, LiveSteps
<1> QED
  BY <1>1, <1>2, TypeInit DEF OneInv, RunSteps, RunFirst, LiveIsClaimed, OneLive

LEMMA OneNext == OneInv /\ [RunNext]_runVars => OneInv'
<1> SUFFICES ASSUME OneInv, [RunNext]_runVars PROVE OneInv'
  OBVIOUS
<1>1. TypeOK' /\ RowStays
  BY TypeNext, StepStays DEF OneInv
<1>2. (Keeps \/ Starts) /\ KeepsRun
  <2>1. CASE UNCHANGED runVars
    BY <2>1, SameLives, OthersKeepRun DEF runVars, Keeps
  <2> QED
    BY <2>1, ManagingLives, CancellingLives, PollingLives DEF RunNext
<1>3. CASE Keeps
  <2>1. OneLive' /\ LiveIsClaimed'
    BY <1>1, <1>3 DEF Keeps, OneInv, OneLive, LiveIsClaimed, RowStays
  <2>2. RunFirst'
    BY <1>2, <1>3 DEF Keeps, KeepsRun, RunFirst, OneInv
  <2> QED
    BY <1>1, <1>2, <2>1, <2>2 DEF OneInv, KeepsRun
<1>4. CASE Starts
  <2>1. OneLive' /\ LiveIsClaimed'
    BY <1>4 DEF Starts, OneLive, LiveIsClaimed
  <2>2. RunFirst'
    BY <1>2, <1>4 DEF Starts, KeepsRun, RunFirst, OneInv
  <2> QED
    BY <1>1, <1>2, <2>1, <2>2 DEF OneInv, KeepsRun
<1> QED
  BY <1>2, <1>3, <1>4

LEMMA OneIsEnough == OneInv => OneExecutes
<1> SUFFICES ASSUME OneInv, NEW i \in Executing, NEW j \in Executing PROVE i = j
  BY DEF OneExecutes
<1>1. ASSUME NEW m \in Executing PROVE m \in Live \/ (m = Run /\ attempt[Run].pc = "running")
  BY <1>1 DEF OneInv, RunSteps, Executing, Attempts, Live, LiveOf, LiveSteps
<1> QED
  BY <1>1 DEF OneInv, OneLive, RunFirst

\* Whoever starts an attempt - a person, the queue, the poll, a cancellation that is taken
\* back - it never runs the engine beside another one, nor beside the run itself.
THEOREM OneAttemptExecutes == RunSpec => []OneExecutes
  BY OneInit, OneNext, OneIsEnough, PTL DEF RunSpec
==============================================================================
