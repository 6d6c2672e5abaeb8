------------------------- MODULE PausedAnswersProofs --------------------------
(***************************************************************************)
(* What becomes of the answers of a paused run, for every number of        *)
(* contexts, entries, retries and requests to cancel, with processes dying *)
(* anywhere: none is lost, none is acted on twice, each is counted, as     *)
(* long as no cancellation is taken back.                                  *)
(***************************************************************************)
EXTENDS PausedRunProofs

USE PauseAssumption

\* No client aborts its request to cancel and every signal is accepted: no
\* cancellation is taken back.  (Where one is, an answer may be acted on twice.)
Steady == Aborts \subseteq {FALSE} /\ Signals \subseteq {TRUE}

\* Nobody has asked to cancel the run.
Quiet == \A k \in Cancellers : cancel[k].pc = "idle"

Forward == Steady \/ Quiet

Straight == Steady => \A k \in Cancellers : cancel[k].pc \notin {"turning back", "undoing"}

\* How far an attempt is with its answer: the engine has not gone on from it yet,
\* or will not; has, and the state it ended with is not stored; the state is stored
\* and the point is not; the point is settled; nothing is left to record.
Phase(a) ==
  CASE a.pc \in {"starting", "admitting", "running"} -> "before"
    [] a.pc = "ended"     -> "ended"
    [] a.pc = "persisted" -> "settled"
    [] a.pc = "settling"  -> IF a.outcome = "completed" THEN "noted"
                             ELSE IF a.outcome = "paused" THEN "settled" ELSE "before"
    [] OTHER              -> "out"

Nobody == \A i \in Ids : Phase(attempt[i]) = "out"
Closed == row.status \in {"cancelling", "cancelled"}

\* Until a pause is stored nothing is resumed.
Blank ==
  row.status = "none" =>
    /\ Nobody /\ row.resumed = 0 /\ log # "completed"
    /\ \A c \in Contexts : row.points[c] = "none"

OneClaim == \A i, j \in Claimed : i = j

\* A point is being resumed for an entry that is claimed.
Held ==
  \/ row.status = "cancelled" \/ (row.status = "cancelling" /\ Nobody)
  \/ \A c \in Contexts : row.points[c] = "resuming" => \E i \in Claimed : Context(i) = c

\* A point is queued for the one entry that waits for it.
Waiting ==
  ~Closed =>
    /\ \A c \in Contexts : row.points[c] = "queued" <=> \E i \in Pending : Context(i) = c
    /\ \A i, j \in Pending : Context(i) = Context(j) => i = j

\* What the poll has yet to dispatch is still paused: nobody else resumes it.
Dispatched == poll.pc = "dispatching" => \A c \in poll.todo : row.points[c] = "paused"

\* The engine has not gone on from a point that can still be resumed.
Untouched ==
  \A c \in Contexts : row.points[c] \in {"none", "paused", "queued"} => answered[c] = 0

\* The stored snapshot holds every answer.
Snapped == Answered(row.points) \subseteq row.snap

\* What an attempt knows, and what it may rely on.
Sound(i) ==
  /\ Phase(attempt[i]) \in {"before", "ended", "noted"} => row.points[Context(i)] = "resuming"
  /\ Phase(attempt[i]) = "settled" =>
       row.points[Context(i)] # "resuming" \/ row.status = "cancelled"
  /\ Phase(attempt[i]) = "before" => answered[Context(i)] = 0
  /\ Phase(attempt[i]) \in {"before", "ended"} => Answered(row.points) \subseteq attempt[i].seen
  /\ Phase(attempt[i]) = "noted" => Context(i) \in row.snap
  /\ attempt[i].pc = "ended" /\ attempt[i].outcome = "paused" =>
       attempt[i].fresh \cap Stored(row.points) = {}
  /\ attempt[i].pc = "persisted" => attempt[i].outcome = "paused"

Ledger ==
  /\ Blank /\ Held /\ Waiting /\ Dispatched /\ Untouched /\ CountsAgree /\ AnsweredOnce
  /\ Snapped /\ \A i \in Ids : Sound(i)

------------------------------------------------------------------------------
(* The steps that leave the ledger as it is.                                *)

\* An attempt goes on, and its answer is where it was.
Continues(i) ==
  /\ \/ Phase(attempt'[i]) = Phase(attempt[i])
     \/ Phase(attempt'[i]) = "settled" /\ row'.status = "cancelled"
  /\ attempt'[i].seen = attempt[i].seen
  /\ Context(i)' = Context(i)
  /\ attempt'[i].pc = "ended" => attempt'[i] = attempt[i]
  /\ attempt'[i].pc = "persisted" => attempt'[i].outcome = "paused"

\* The queue is left alone, unless a cancellation is staged or completed.
QueueStands ==
  \/ row'.status = "cancelled"
  \/ row'.status = "cancelling" /\ Nobody'
  \/ /\ row'.status = "cancelling" \/ (queue' = queue /\ ~Closed)
     /\ row.status # "cancelled"
     /\ \A i \in Claimed : queue'[i] = queue[i]

Calm ==
  /\ row'.points = row.points /\ row'.resumed = row.resumed /\ row'.snap = row.snap
  /\ answered' = answered /\ (log' = "completed" => log = "completed" \/ row.status # "none")
  /\ \A i \in Ids : Phase(attempt'[i]) = "out" \/ Continues(i)
  /\ row'.status = "none" => row.status = "none"
  /\ QueueStands
  /\ Dispatched'

LEMMA CalmLedger == ASSUME Ledger, RowStays, Calm PROVE Ledger'
<1>1. Blank'
  BY DEF Ledger, Calm, Continues, Blank, Nobody
<1>2. Nobody => Nobody' \/ row'.status = "cancelled"
  BY DEF Calm, Continues, Nobody
<1>3. Held'
  <2>1. CASE row'.status = "cancelled" \/ (row'.status = "cancelling" /\ Nobody')
    BY <2>1 DEF Held
  <2>2. CASE ~(row'.status = "cancelled" \/ (row'.status = "cancelling" /\ Nobody'))
    <3>1. row.status # "cancelled" /\ \A i \in Claimed : queue'[i] = queue[i]
      BY <2>2 DEF Calm, QueueStands
    <3>2. \A i \in Claimed : i \in Claimed' /\ Context(i)' = Context(i)
      BY <3>1 DEF Claimed, Context
    <3>3. ~(row.status = "cancelling" /\ Nobody)
      BY <1>2, <2>2 DEF Calm, QueueStands, Closed
    <3>4. \A c \in Contexts : row.points[c] = "resuming" => \E i \in Claimed : Context(i) = c
      BY <3>1, <3>3 DEF Ledger, Held
    <3>5. row'.points = row.points
      BY DEF Calm
    <3> QED
      BY <3>2, <3>4, <3>5 DEF Held
  <2> QED
    BY <2>1, <2>2
<1>4. Waiting'
  <2>1. SUFFICES ASSUME ~Closed' PROVE Waiting'
    BY DEF Waiting
  <2>2. queue' = queue /\ ~Closed /\ row'.points = row.points
    BY <2>1 DEF Closed, Calm, QueueStands
  <2> QED
    BY <2>2 DEF Ledger, Waiting, Pending, Context
<1>5. Untouched' /\ CountsAgree' /\ AnsweredOnce' /\ Snapped'
  BY DEF Ledger, Calm, Untouched, CountsAgree, AnsweredOnce, Snapped
<1>6. ASSUME NEW i \in Ids PROVE Sound(i)'
  <2>1. CASE Phase(attempt'[i]) = "out"
    BY <2>1 DEF Sound, Phase
  <2>2. CASE Continues(i) /\ Phase(attempt'[i]) = Phase(attempt[i])
    <3>1. row'.points = row.points /\ row'.snap = row.snap /\ answered' = answered
      BY DEF Calm
    <3>2. row.status = "cancelled" => row'.status = "cancelled"
      BY DEF RowStays
    <3>3. Sound(i)
      BY DEF Ledger
    <3>4. Phase(attempt'[i]) = Phase(attempt[i])
      BY <2>2
    <3>5. /\ attempt'[i].seen = attempt[i].seen /\ Context(i)' = Context(i)
          /\ attempt'[i].pc = "ended" => attempt'[i] = attempt[i]
          /\ attempt'[i].pc = "persisted" => attempt'[i].outcome = "paused"
      BY <2>2 DEF Continues
    <3> QED
      BY <3>1, <3>2, <3>3, <3>4, <3>5 DEF Sound, Answered, Stored
  <2>3. CASE Phase(attempt'[i]) = "settled" /\ row'.status = "cancelled"
    BY <2>3 DEF Sound, Phase, Calm, Continues
  <2> QED
    BY <2>1, <2>2, <2>3 DEF Calm, Continues
<1> QED
  BY <1>1, <1>3, <1>4, <1>5, <1>6 DEF Ledger, Calm

------------------------------------------------------------------------------
(* The steps that move a point.                                             *)

LEMMA PointSet ==
  ASSUME row \in Rows, NEW c \in Contexts, NEW p, row' = [row EXCEPT !.points[c] = p]
  PROVE  /\ row'.status = row.status /\ row'.resumed = row.resumed /\ row'.snap = row.snap
         /\ row'.points[c] = p /\ \A d \in Contexts \ {c} : row'.points[d] = row.points[d]
  BY DEF Rows

\* Only the point c moves, and it is not answered by that.
Moved(c) ==
  /\ row'.resumed = row.resumed /\ row'.snap = row.snap
  /\ row.points[c] # "resumed" /\ row'.points[c] # "resumed"
  /\ \A d \in Contexts \ {c} : row'.points[d] = row.points[d]

LEMMA MovedCounts ==
  ASSUME Ledger, NEW c \in Contexts, Moved(c)
  PROVE  CountsAgree' /\ Snapped' /\ Answered(row'.points) = Answered(row.points)
<1>1. Answered(row'.points) = Answered(row.points)
  BY DEF Moved, Answered
<1> QED
  BY <1>1 DEF Ledger, Moved, CountsAgree, Snapped

\* A resume is started, of a point that was paused or queued.
LEMMA BeginLedger ==
  ASSUME TypeOK, TypeOK', Ledger, Nobody, Resumable, NothingClaimed,
         NEW i \in Ids, NEW c \in Contexts, Moved(c), row'.points[c] = "resuming",
         row'.status = row.status,
         \/ row.points[c] = "paused" /\ queue[i].status = "absent"
         \/ row.points[c] = "queued" /\ queue[i].status = "pending" /\ Context(i) = c,
         queue'[i].status = "claimed", Context(i)' = c,
         \A j \in Ids \ {i} : queue'[j] = queue[j] /\ Phase(attempt'[j]) = "out",
         attempt'[i].pc = "starting", attempt'[i].seen = row.snap,
         answered' = answered, Dispatched'
  PROVE  Ledger'
<1>1. ~Closed /\ row.status # "none" /\ ~Closed'
  BY DEF Resumable, Closed
<1>2. Blank'
  BY <1>1 DEF Blank
<1>3. Held'
  <2>1. \A d \in Contexts : row.points[d] # "resuming"
    BY <1>1 DEF Ledger, Held, Closed, NothingClaimed
  <2>2. \A d \in Contexts : row'.points[d] = "resuming" => d = c
    BY <2>1 DEF Moved
  <2>3. i \in Claimed' /\ Context(i)' = c
    BY DEF Claimed
  <2> QED
    BY <2>2, <2>3 DEF Held
<1>4. Waiting'
  <2>1. \A d \in Contexts : row.points[d] = "queued" <=> \E j \in Pending : Context(j) = d
    BY <1>1 DEF Ledger, Waiting
  <2>2. \A j, m \in Pending : Context(j) = Context(m) => j = m
    BY <1>1 DEF Ledger, Waiting
  <2>3. Pending' = Pending \ {i} /\ \A j \in Pending' : Context(j)' = Context(j)
    BY DEF Pending, Context
  <2>4. \A j \in Pending' : Context(j) # c
    <3>1. CASE row.points[c] = "paused"
      BY <2>1, <2>3, <3>1
    <3>2. CASE queue[i].status = "pending" /\ Context(i) = c
      BY <2>2, <2>3, <3>2 DEF Pending
    <3> QED
      BY <3>1, <3>2
  <2>5. \A d \in Contexts \ {c} : \A j \in Pending : Context(j) = d => j # i
    BY DEF Pending
  <2>6. ASSUME NEW d \in Contexts
        PROVE  row'.points[d] = "queued" <=> \E j \in Pending' : Context(j)' = d
    <3>1. CASE d = c
      BY <2>3, <2>4, <3>1
    <3>2. CASE d # c
      BY <2>1, <2>3, <2>5, <3>2 DEF Moved
    <3> QED
      BY <3>1, <3>2
  <2>7. \A j, m \in Pending' : Context(j)' = Context(m)' => j = m
    BY <2>2, <2>3
  <2> QED
    BY <2>6, <2>7 DEF Waiting
<1>5. Untouched' /\ AnsweredOnce'
  BY DEF Ledger, Untouched, AnsweredOnce, Moved
<1>6. CountsAgree' /\ Snapped' /\ Answered(row'.points) = Answered(row.points)
  BY MovedCounts
<1>7. ASSUME NEW j \in Ids PROVE Sound(j)'
  <2>1. CASE j # i
    BY <2>1 DEF Sound, Phase
  <2>2. CASE j = i
    <3>1. Phase(attempt'[i]) = "before"
      BY DEF Phase
    <3>2. answered[c] = 0
      BY DEF Ledger, Untouched
    <3> QED
      BY <1>6, <2>2, <3>1, <3>2 DEF Sound, Ledger, Snapped, Moved
  <2> QED
    BY <2>1, <2>2
<1> QED
  BY <1>2, <1>3, <1>4, <1>5, <1>6, <1>7 DEF Ledger

\* A resume waits behind another one.
LEMMA QueueLedger ==
  ASSUME TypeOK, TypeOK', Ledger, Resumable,
         NEW i \in Ids, NEW c \in Contexts, Moved(c),
         row.points[c] = "paused", row'.points[c] = "queued", row'.status = row.status,
         queue[i].status = "absent", queue'[i].status = "pending", Context(i)' = c,
         \A j \in Ids \ {i} : queue'[j] = queue[j],
         \A j \in Ids : Phase(attempt[j]) # "out" => j # i,
         attempt' = attempt, answered' = answered, Dispatched'
  PROVE  Ledger'
<1>1. ~Closed /\ row.status # "none" /\ ~Closed'
  BY DEF Resumable, Closed
<1>2. Blank'
  BY <1>1 DEF Blank
<1>3. Held'
  <2>1. \A d \in Contexts : row.points[d] = "resuming" => \E j \in Claimed : Context(j) = d
    BY <1>1 DEF Ledger, Held, Closed
  <2>2. \A j \in Claimed : j \in Claimed' /\ Context(j)' = Context(j)
    BY DEF Claimed, Context
  <2>3. \A d \in Contexts : row'.points[d] = "resuming" => row.points[d] = "resuming"
    BY DEF Moved
  <2> QED
    BY <2>1, <2>2, <2>3 DEF Held
<1>4. Waiting'
  <2>1. \A d \in Contexts : row.points[d] = "queued" <=> \E j \in Pending : Context(j) = d
    BY <1>1 DEF Ledger, Waiting
  <2>2. \A j, m \in Pending : Context(j) = Context(m) => j = m
    BY <1>1 DEF Ledger, Waiting
  <2>3. Pending' = Pending \cup {i} /\ \A j \in Pending : Context(j)' = Context(j)
    BY DEF Pending, Context
  <2>4. \A j \in Pending : Context(j) # c
    BY <2>1
  <2>5. ASSUME NEW d \in Contexts
        PROVE  row'.points[d] = "queued" <=> \E j \in Pending' : Context(j)' = d
    <3>1. CASE d = c
      BY <2>3, <3>1
    <3>2. CASE d # c
      BY <2>1, <2>3, <3>2 DEF Moved
    <3> QED
      BY <3>1, <3>2
  <2>6. \A j, m \in Pending' : Context(j)' = Context(m)' => j = m
    BY <2>2, <2>3, <2>4
  <2> QED
    BY <2>5, <2>6 DEF Waiting
<1>5. Untouched' /\ AnsweredOnce'
  BY DEF Ledger, Untouched, AnsweredOnce, Moved
<1>6. CountsAgree' /\ Snapped' /\ Answered(row'.points) = Answered(row.points)
  BY MovedCounts
<1>7. ASSUME NEW j \in Ids PROVE Sound(j)'
  <2>1. CASE Phase(attempt[j]) = "out"
    BY <2>1 DEF Sound, Phase
  <2>2. CASE Phase(attempt[j]) # "out"
    <3>1. Context(j)' = Context(j) /\ Context(j) \in Contexts /\ Sound(j)
      BY <2>2, ContextShape DEF Ledger, Context
    <3>2. row.points[Context(j)] = "resuming" => row'.points[Context(j)] = "resuming"
      BY <3>1 DEF Moved
    <3>3. row.points[Context(j)] # "resuming" => row'.points[Context(j)] # "resuming"
      BY <3>1 DEF Moved
    <3>4. Stored(row'.points) = Stored(row.points)
      BY DEF Moved, Stored
    <3> QED
      BY <1>6, <3>1, <3>2, <3>3, <3>4 DEF Sound, Moved
  <2> QED
    BY <2>1, <2>2
<1> QED
  BY <1>2, <1>3, <1>4, <1>5, <1>6, <1>7 DEF Ledger

\* The engine goes on from an answer.
LEMMA GoesOnLedger ==
  ASSUME TypeOK, Ledger, NEW i \in Ids, Phase(attempt[i]) = "before",
         Phase(attempt'[i]) = "ended", attempt'[i].seen = attempt[i].seen,
         attempt'[i].outcome = "paused" => attempt'[i].fresh \cap Stored(row.points) = {},
         \A j \in Ids \ {i} : Phase(attempt'[j]) = "out",
         answered' = [answered EXCEPT ![Context(i)] = @ + 1],
         UNCHANGED <<row, queue, poll>>
  PROVE  Ledger'
<1> DEFINE c == Context(i)
<1>1. c \in Contexts /\ row.points[c] = "resuming" /\ answered[c] = 0
  BY ContextShape DEF Ledger, Sound
<1>2. answered'[c] = 1 /\ \A d \in Contexts \ {c} : answered'[d] = answered[d]
  BY <1>1 DEF TypeOK
<1> HIDE DEF c
<1>3. Blank' /\ Held'
  <2>1. row.status # "none"
    BY DEF Ledger, Blank, Nobody
  <2>2. row.status # "cancelling" \/ ~Nobody
    BY DEF Nobody
  <2> QED
    BY <2>1, <2>2 DEF Ledger, Held, Blank, Claimed, Context
<1>4. Waiting' /\ Dispatched' /\ CountsAgree' /\ Snapped'
  BY DEF Ledger, Waiting, Closed, Pending, Context, Dispatched, CountsAgree, Snapped
<1>5. Untouched'
  BY <1>1, <1>2 DEF Ledger, Untouched
<1>6. AnsweredOnce'
  BY <1>2 DEF Ledger, AnsweredOnce
<1>7. ASSUME NEW j \in Ids PROVE Sound(j)'
  <2>1. CASE j # i
    BY <2>1 DEF Sound, Phase
  <2>2. CASE j = i
    <3>1. Context(i)' = c /\ Answered(row.points) \subseteq attempt[i].seen
      BY DEF c, Context, Ledger, Sound
    <3>2. attempt'[i].pc = "ended"
      BY DEF Phase
    <3> QED
      BY <1>1, <2>2, <3>1, <3>2 DEF Sound
  <2> QED
    BY <2>1, <2>2
<1> QED
  BY <1>3, <1>4, <1>5, <1>6, <1>7 DEF Ledger

\* The state an engine ended with is stored.
LEMMA NotedLedger ==
  ASSUME TypeOK, Ledger, NEW i \in Ids, Phase(attempt[i]) = "ended",
         Phase(attempt'[i]) = "noted",
         \A j \in Ids \ {i} : Phase(attempt'[j]) = "out",
         row' = [row EXCEPT !.snap = attempt[i].seen \cup {Context(i)}],
         UNCHANGED <<queue, poll, answered>>
  PROVE  Ledger'
<1>1. /\ row'.status = row.status /\ row'.points = row.points /\ row'.resumed = row.resumed
      /\ row'.snap = attempt[i].seen \cup {Context(i)}
  BY DEF TypeOK, Rows
<1>2. Blank' /\ Held'
  <2>1. row.status # "none"
    BY DEF Ledger, Blank, Nobody
  <2>2. row.status # "cancelling" \/ ~Nobody
    BY DEF Nobody
  <2> QED
    BY <1>1, <2>1, <2>2 DEF Ledger, Held, Blank, Claimed, Context
<1>3. Waiting' /\ Dispatched' /\ CountsAgree' /\ AnsweredOnce' /\ Untouched'
  BY <1>1 DEF Ledger, Waiting, Closed, Pending, Context, Dispatched, CountsAgree, AnsweredOnce,
              Untouched
<1>4. Sound(i)
  BY DEF Ledger
<1>5. Snapped'
  BY <1>1, <1>4 DEF Sound, Snapped
<1>6. ASSUME NEW j \in Ids PROVE Sound(j)'
  <2>1. CASE j # i
    BY <2>1 DEF Sound, Phase
  <2>2. CASE j = i
    BY <1>1, <1>4, <2>2 DEF Sound, Context, Phase
  <2> QED
    BY <2>1, <2>2
<1> QED
  BY <1>2, <1>3, <1>5, <1>6 DEF Ledger

\* A new pause is stored: what was resumed is answered.
LEMMA MergedLedger ==
  ASSUME TypeOK, Ledger, NEW i \in Attempts,
         attempt[i].fresh \cap Stored(row.points) = {},
         \A c \in Contexts : row.points[c] = "resuming" => c \in Answers(i),
         Answered(row.points) \subseteq Answers(i),
         row'.points = Merged(attempt[i].fresh), row'.snap = Answers(i),
         row'.resumed = Cardinality(Answered(row'.points)),
         row'.status # "none", Closed <=> Closed',
         \A j \in Ids \ {i} : Phase(attempt'[j]) = "out",
         i \in Ids => attempt'[i].pc = "persisted" /\ attempt'[i].outcome = "paused",
         UNCHANGED <<queue, poll, answered>>
  PROVE  Ledger'
<1> DEFINE fresh == attempt[i].fresh
<1>1. ASSUME NEW c \in Contexts
      PROVE  /\ c \in fresh => row.points[c] = "none" /\ row'.points[c] = "paused"
             /\ c \notin fresh => row'.points[c] =
                  IF row.points[c] = "resuming" THEN "resumed" ELSE row.points[c]
  BY DEF Merged, Stored
<1> HIDE DEF fresh
<1>2. \A c \in Contexts : row'.points[c] # "resuming"
  BY <1>1
<1>3. Blank' /\ Held' /\ CountsAgree'
  BY <1>2 DEF Blank, Held, CountsAgree
<1>4. Waiting'
  <2>1. \A c \in Contexts : row'.points[c] = "queued" <=> row.points[c] = "queued"
    BY <1>1
  <2> QED
    BY <2>1 DEF Ledger, Waiting, Pending, Context
<1>5. Dispatched'
  <2>1. \A c \in Contexts : row.points[c] = "paused" => row'.points[c] = "paused"
    BY <1>1
  <2>2. poll.todo \subseteq Contexts
    BY DEF TypeOK, Jobs
  <2> QED
    BY <2>1, <2>2 DEF Ledger, Dispatched
<1>6. Untouched' /\ AnsweredOnce'
  BY <1>1 DEF Ledger, Untouched, AnsweredOnce
<1>7. Snapped'
  BY <1>1 DEF Snapped, Answered
<1>8. ASSUME NEW j \in Ids PROVE Sound(j)'
  <2>1. CASE j # i
    BY <2>1 DEF Sound, Phase
  <2>2. CASE j = i
    <3>1. row'.points[Context(j)'] # "resuming"
      <4>1. Context(j)' = Context(j) /\ Context(j) \in Contexts
        BY ContextShape DEF Context
      <4> QED
        BY <1>2, <4>1
    <3> QED
      BY <2>2, <3>1 DEF Sound, Phase
  <2> QED
    BY <2>1, <2>2
<1> QED
  BY <1>3, <1>4, <1>5, <1>6, <1>7, <1>8 DEF Ledger

\* An attempt ends without an answer that counts: its point fails, or is resumed
\* another time.
LEMMA WithdrawnLedger ==
  ASSUME TypeOK, Ledger, OneClaim, NEW i \in Ids, Phase(attempt[i]) = "before",
         i \in Claimed, Nobody', NEW p \in {"failed", "paused", "queued"},
         row'.points = [row.points EXCEPT ![Context(i)] = p],
         row'.status = row.status, row'.resumed = row.resumed, row'.snap = row.snap,
         Context(i)' = Context(i),
         queue'[i].status = IF p = "queued" THEN "pending" ELSE "failed",
         \A j \in Ids \ {i} : queue'[j] = queue[j],
         UNCHANGED <<poll, answered>>
  PROVE  Ledger'
<1> DEFINE c == Context(i)
<1>1. c \in Contexts /\ row.points[c] = "resuming" /\ answered[c] = 0
  BY ContextShape DEF Ledger, Sound
<1>2. row'.points[c] = p /\ \A d \in Contexts \ {c} : row'.points[d] = row.points[d]
  BY <1>1 DEF TypeOK, Rows
<1> HIDE DEF c
<1>3. Moved(c)
  BY <1>1, <1>2 DEF Moved
<1>4. Blank'
  BY DEF Ledger, Blank, Nobody
<1>5. Held'
  <2>1. CASE row.status \in {"cancelled", "cancelling"}
    BY <2>1 DEF Held
  <2>2. CASE row.status \notin {"cancelled", "cancelling"}
    <3>1. \A d \in Contexts : row.points[d] = "resuming" => d = c
      BY <2>2 DEF Ledger, Held, OneClaim, c
    <3> QED
      BY <1>2, <3>1 DEF Held
  <2> QED
    BY <2>1, <2>2
<1>6. Waiting'
  <2> SUFFICES ASSUME ~Closed PROVE Waiting'
    BY DEF Waiting, Closed
  <2>1. \A d \in Contexts : row.points[d] = "queued" <=> \E j \in Pending : Context(j) = d
    BY DEF Ledger, Waiting
  <2>2. \A j, m \in Pending : Context(j) = Context(m) => j = m
    BY DEF Ledger, Waiting
  <2>3. /\ Pending' = IF p = "queued" THEN Pending \cup {i} ELSE Pending
        /\ \A j \in Ids : Context(j)' = Context(j)
    BY DEF Pending, Claimed, Context
  <2>4. \A j \in Pending : Context(j) # c
    BY <1>1, <2>1
  <2>5. ASSUME NEW d \in Contexts
        PROVE  row'.points[d] = "queued" <=> \E j \in Pending' : Context(j)' = d
    <3>1. CASE d = c
      <4>1. p = "queued" => i \in Pending' /\ Context(i)' = d
        BY <2>3, <3>1 DEF c
      <4>2. p # "queued" => ~ \E j \in Pending' : Context(j)' = d
        BY <2>3, <2>4, <3>1 DEF Pending
      <4> QED
        BY <1>2, <3>1, <4>1, <4>2
    <3>2. CASE d # c
      <4>1. (\E j \in Pending' : Context(j)' = d) <=> \E j \in Pending : Context(j) = d
        BY <2>3, <3>2 DEF c, Pending
      <4> QED
        BY <1>2, <2>1, <3>2, <4>1
    <3> QED
      BY <3>1, <3>2
  <2>6. \A j, m \in Pending' : Context(j)' = Context(m)' => j = m
    BY <2>2, <2>3, <2>4 DEF c, Pending
  <2> QED
    BY <2>5, <2>6 DEF Waiting
<1>7. Dispatched'
  <2>1. poll.todo \subseteq Contexts
    BY DEF TypeOK, Jobs
  <2> QED
    BY <1>1, <1>2, <2>1 DEF Ledger, Dispatched
<1>8. Untouched' /\ AnsweredOnce'
  BY <1>1, <1>2 DEF Ledger, Untouched, AnsweredOnce
<1>9. CountsAgree' /\ Snapped'
  BY <1>1, <1>3, MovedCounts
<1>10. \A j \in Ids : Sound(j)'
  BY DEF Nobody, Sound, Phase
<1> QED
  BY <1>4, <1>5, <1>6, <1>7, <1>8, <1>9, <1>10 DEF Ledger

LEMMA OneMore ==
  ASSUME NEW p \in [Contexts -> PointStates], NEW c \in Contexts, p[c] # "resumed",
         NEW q, q = [p EXCEPT ![c] = "resumed"]
  PROVE  Cardinality(Answered(q)) = Cardinality(Answered(p)) + 1
<1>1. Answered(q) = Answered(p) \cup {c} /\ c \notin Answered(p)
  BY DEF Answered
<1>2. IsFiniteSet(Answered(p))
  BY FS_Subset DEF Answered
<1> QED
  BY <1>1, <1>2, FS_AddElement

\* An attempt is done: its answer is counted, unless its pause has settled it.
LEMMA CompletedLedger ==
  ASSUME TypeOK, Ledger, OneClaim, NEW i \in Ids, i \in Claimed, Nobody', ~Closed, ~Closed',
         \/ Phase(attempt[i]) = "settled" /\ row' = row
         \/ /\ Phase(attempt[i]) = "noted"
            /\ row'.points = [row.points EXCEPT ![Context(i)] = "resumed"]
            /\ row'.resumed = row.resumed + 1 /\ row'.snap = row.snap,
         row'.status # "none",
         queue'[i].status = "completed", \A j \in Ids \ {i} : queue'[j] = queue[j],
         UNCHANGED <<poll, answered>>
  PROVE  Ledger'
<1> DEFINE c == Context(i)
<1>1. c \in Contexts /\ Sound(i)
  BY ContextShape DEF Ledger
<1>2. /\ \A d \in Contexts \ {c} : row'.points[d] = row.points[d]
      /\ row'.points[c] # "resuming"
      /\ row'.points[c] = row.points[c]
           \/ (row.points[c] = "resuming" /\ row'.points[c] = "resumed")
  BY <1>1 DEF TypeOK, Rows, Sound, Closed
<1> HIDE DEF c
<1>3. Blank'
  BY DEF Blank
<1>4. Held'
  <2>1. \A d \in Contexts : row.points[d] = "resuming" => d = c
    BY DEF Ledger, Held, OneClaim, Closed, c
  <2> QED
    BY <1>2, <2>1 DEF Held
<1>5. Waiting'
  <2>1. \A d \in Contexts : row'.points[d] = "queued" <=> row.points[d] = "queued"
    BY <1>2
  <2>2. Pending' = Pending /\ \A j \in Pending : Context(j)' = Context(j)
    BY DEF Pending, Claimed, Context
  <2> QED
    BY <2>1, <2>2 DEF Ledger, Waiting
<1>6. Dispatched'
  <2>1. poll.todo \subseteq Contexts
    BY DEF TypeOK, Jobs
  <2> QED
    BY <1>2, <2>1 DEF Ledger, Dispatched
<1>7. Untouched' /\ AnsweredOnce'
  BY <1>2 DEF Ledger, Untouched, AnsweredOnce
<1>8. CountsAgree' /\ Snapped'
  <2>1. CASE row' = row
    BY <2>1 DEF Ledger, CountsAgree, Snapped
  <2>2. CASE /\ Phase(attempt[i]) = "noted"
             /\ row'.points = [row.points EXCEPT ![c] = "resumed"]
             /\ row'.resumed = row.resumed + 1 /\ row'.snap = row.snap
    <3>1. row.points \in [Contexts -> PointStates] /\ row.points[c] # "resumed"
      BY <1>1, <2>2 DEF c, Sound, TypeOK, Rows
    <3>2. Cardinality(Answered(row'.points)) = Cardinality(Answered(row.points)) + 1
      BY <1>1, <2>2, <3>1, OneMore
    <3>3. c \in row.snap
      BY <1>1, <2>2 DEF c, Sound
    <3>4. Answered(row'.points) \subseteq Answered(row.points) \cup {c}
      BY <1>2 DEF Answered
    <3> QED
      BY <2>2, <3>2, <3>3, <3>4 DEF Ledger, CountsAgree, Snapped
  <2> QED
    BY <2>1, <2>2 DEF c
<1>9. \A j \in Ids : Sound(j)'
  BY DEF Nobody, Sound, Phase
<1> QED
  BY <1>3, <1>4, <1>5, <1>6, <1>7, <1>8, <1>9 DEF Ledger

------------------------------------------------------------------------------
(* Each step is one of these, as long as no cancellation is taken back.     *)

AnswerInv == OneInv /\ OneClaim /\ Straight /\ (Forward => Ledger)

LEMMA PhaseLives ==
  ASSUME NEW i \in Ids PROVE Phase(attempt[i]) # "out" <=> i \in Live
  BY DEF Phase, Live, LiveOf, LiveSteps

LEMMA OutLives == Nobody <=> Live = {}
  BY PhaseLives DEF Nobody, Live, LiveOf

LEMMA QueueSame == row'.status = row.status /\ queue' = queue => QueueStands
  BY DEF QueueStands, Closed

\* An attempt goes on by itself; nothing else happens to it or to the others.
LEMMA MovesCalm ==
  ASSUME TypeOK, Ledger, NEW i \in Attempts, NEW r, attempt' = [attempt EXCEPT ![i] = r],
         \A j \in Ids : Context(j)' = Context(j),
         \/ i = Run \/ Phase(r) = "out"
         \/ /\ Phase(r) = Phase(attempt[i]) /\ r.seen = attempt[i].seen
            /\ r.pc \notin {"ended", "persisted"}
  PROVE  \A j \in Ids : Phase(attempt'[j]) = "out" \/ Continues(j)
<1>1. attempt'[i] = r /\ \A j \in Attempts \ {i} : attempt'[j] = attempt[j]
  BY DEF TypeOK
<1>2. ASSUME NEW j \in Ids, j # i PROVE Continues(j)
  BY <1>1, <1>2, RunIsNoEntry DEF Continues, Ledger, Sound
<1>3. ASSUME i \in Ids PROVE Phase(attempt'[i]) = "out" \/ Continues(i)
  BY <1>1, <1>3, RunIsNoEntry DEF Continues
<1> QED
  BY <1>2, <1>3

\* What is dispatched stays paused where points do not move.
LEMMA PollSame ==
  ASSUME Ledger, row'.points = row.points,
         poll'.pc = "dispatching" => poll.pc = "dispatching" /\ poll'.todo \subseteq poll.todo
  PROVE  Dispatched'
  BY DEF Ledger, Dispatched

LEMMA EnqueueLedger ==
  ASSUME AnswerInv, Ledger, TypeOK', NEW c \in Contexts, Admissible(c), Unused # {},
         EnqueueOrStart(c), answered' = answered,
         poll'.pc = "dispatching" => poll.pc = "dispatching" /\ poll'.todo \subseteq poll.todo \ {c}
  PROVE  Ledger'
<1>1. PICK i \in Ids : i = Oldest(Unused) /\ queue[i].status = "absent"
  BY OldestShape DEF Unused
<1>2. TypeOK /\ row \in Rows /\ Resumable /\ row.points[c] = "paused"
  BY DEF AnswerInv, OneInv, TypeOK, Admissible
<1>3. poll.todo \subseteq Contexts
  BY <1>2 DEF TypeOK, Jobs
<1>4. CASE NothingClaimed
  <2>1. queue' = [queue EXCEPT ![i] = [NoEntry(c) EXCEPT !.status = "claimed"]]
    BY <1>1, <1>4 DEF EnqueueOrStart
  <2>2. row' = [row EXCEPT !.points[c] = "resuming"] /\ attempt' = Started(attempt, i)
    BY <1>1, <1>4 DEF EnqueueOrStart
  <2>3. /\ row'.status = row.status /\ row'.resumed = row.resumed /\ row'.snap = row.snap
        /\ row'.points[c] = "resuming"
        /\ \A d \in Contexts \ {c} : row'.points[d] = row.points[d]
    BY <1>2, <2>2, PointSet
  <2>4. Moved(c)
    BY <1>2, <2>3 DEF Moved
  <2>5. Nobody
    BY <1>2, <1>4, NobodyLives, OutLives DEF AnswerInv, OneInv
  <2>6. /\ attempt'[i].pc = "starting" /\ attempt'[i].seen = row.snap
        /\ \A j \in Ids \ {i} : attempt'[j] = attempt[j]
    BY <1>1, <1>2, <2>2, RunIsNoEntry DEF TypeOK, Started, Idle
  <2>7. queue'[i].status = "claimed" /\ Context(i)' = c
    <3>1. queue'[i] = [NoEntry(c) EXCEPT !.status = "claimed"]
      BY <1>1, <1>2, <2>1 DEF TypeOK
    <3> QED
      BY <3>1 DEF NoEntry, Context
  <2>8. \A j \in Ids \ {i} : queue'[j] = queue[j] /\ Phase(attempt'[j]) = "out"
    BY <1>2, <2>1, <2>5, <2>6 DEF TypeOK, Nobody
  <2>9. Dispatched'
    BY <1>3, <2>3 DEF Ledger, Dispatched
  <2> QED
    BY <1>1, <1>2, <1>4, <2>3, <2>4, <2>5, <2>6, <2>7, <2>8, <2>9, BeginLedger
<1>5. CASE ~NothingClaimed
  <2>1. queue' = [queue EXCEPT ![i] = [NoEntry(c) EXCEPT !.status = "pending"]]
    BY <1>1, <1>5 DEF EnqueueOrStart
  <2>2. row' = [row EXCEPT !.points[c] = "queued"] /\ attempt' = attempt
    BY <1>1, <1>5 DEF EnqueueOrStart
  <2>3. /\ row'.status = row.status /\ row'.resumed = row.resumed /\ row'.snap = row.snap
        /\ row'.points[c] = "queued"
        /\ \A d \in Contexts \ {c} : row'.points[d] = row.points[d]
    BY <1>2, <2>2, PointSet
  <2>4. Moved(c)
    BY <1>2, <2>3 DEF Moved
  <2>5. \A j \in Ids : Phase(attempt[j]) # "out" => j # i
    BY <1>1, <1>2, PhaseLives DEF AnswerInv, OneInv, LiveIsClaimed, Resumable
  <2>6. /\ queue'[i].status = "pending" /\ Context(i)' = c
        /\ \A j \in Ids \ {i} : queue'[j] = queue[j]
    <3>1. /\ queue'[i] = [NoEntry(c) EXCEPT !.status = "pending"]
          /\ \A j \in Ids \ {i} : queue'[j] = queue[j]
      BY <1>1, <1>2, <2>1 DEF TypeOK
    <3> QED
      BY <3>1 DEF NoEntry, Context
  <2>7. Dispatched'
    BY <1>3, <2>3 DEF Ledger, Dispatched
  <2> QED
    BY <1>1, <1>2, <2>2, <2>3, <2>4, <2>5, <2>6, <2>7, QueueLedger
<1> QED
  BY <1>4, <1>5

\* Serving the queue, for a caller that leaves the other attempts alone.
LEMMA ServeLedger ==
  ASSUME AnswerInv, Ledger, TypeOK', RowStays, NEW attempts \in [Attempts -> Doings],
         ServeQueue(attempts), answered' = answered, log' = log,
         \A j \in Ids :
           \/ Phase(attempts[j]) = "out" \/ attempts[j] = attempt[j]
           \/ /\ Phase(attempts[j]) = Phase(attempt[j]) /\ attempts[j].seen = attempt[j].seen
              /\ attempts[j].pc \notin {"ended", "persisted"},
         poll'.pc = "dispatching" => poll.pc = "dispatching" /\ poll'.todo \subseteq poll.todo
  PROVE  Ledger' /\ ~Overtaken
<1>1. Pending # {} => Oldest(Pending) \in Pending /\ Oldest(Pending) \in Ids
  BY OldestShape DEF Pending
<1>2. TypeOK /\ row \in Rows
  BY DEF AnswerInv, OneInv, TypeOK
<1>3. Serving => /\ Context(Oldest(Pending)) \in Contexts
                /\ row.points[Context(Oldest(Pending))] = "queued"
  BY <1>1, <1>2, ContextShape DEF Serving, Resumable, Ledger, Waiting, Closed
<1>4. ~Overtaken
  BY <1>3 DEF Overtaken
<1>5. CASE Serving
  <2>b. PICK i \in Ids : i = Oldest(Pending)
    BY <1>1, <1>5 DEF Serving
  <2>a. PICK c \in Contexts : c = Context(i)
    BY <1>3, <1>5, <2>b
  <2>1. queue' = [queue EXCEPT ![i].status = "claimed"]
    BY <1>4, <1>5, <2>b DEF ServeQueue
  <2>2. row' = [row EXCEPT !.points[c] = "resuming"] /\ attempt' = Started(attempts, i)
    BY <1>4, <1>5, <2>a, <2>b DEF ServeQueue
  <2>3. row.points[c] = "queued" /\ queue[i].status = "pending"
    BY <1>1, <1>3, <1>5, <2>a, <2>b DEF Serving, Pending
  <2>4. queue'[i].status = "claimed" /\ Context(i)' = c
    <3>1. queue[i] \in Entries /\ queue'[i] = [queue[i] EXCEPT !.status = "claimed"]
      BY <1>2, <2>1, <2>3 DEF TypeOK
    <3>2. queue'[i].status = "claimed" /\ queue'[i].ctx = queue[i].ctx
      BY <3>1 DEF Entries
    <3> QED
      BY <2>a, <3>2 DEF Context
  <2>5. /\ row'.status = row.status /\ row'.resumed = row.resumed /\ row'.snap = row.snap
        /\ row'.points[c] = "resuming"
        /\ \A d \in Contexts \ {c} : row'.points[d] = row.points[d]
    BY <1>2, <2>2, <2>3, PointSet
  <2>6. Moved(c)
    BY <2>3, <2>5 DEF Moved
  <2>7. Nobody
    BY <1>2, <1>5, NobodyLives, OutLives DEF AnswerInv, OneInv, Serving
  <2>8. /\ attempt'[i].pc = "starting" /\ attempt'[i].seen = row.snap
        /\ \A j \in Ids \ {i} : attempt'[j] = attempts[j]
    BY <2>2, <2>3, RunIsNoEntry DEF Started, Idle
  <2>9. \A j \in Ids \ {i} : queue'[j] = queue[j] /\ Phase(attempt'[j]) = "out"
    BY <1>2, <2>1, <2>7, <2>8 DEF TypeOK, Nobody
  <2>10. Dispatched'
    <3>1. poll.todo \subseteq Contexts
      BY <1>2 DEF TypeOK, Jobs
    <3> QED
      BY <2>3, <2>5, <3>1 DEF Ledger, Dispatched
  <2> QED
    BY <1>2, <1>4, <1>5, <2>a, <2>3, <2>4, <2>5, <2>6, <2>7, <2>8, <2>9, <2>10, BeginLedger
       DEF Serving
<1>6. CASE ~Serving
  <2>1. attempt' = attempts /\ UNCHANGED <<row, queue>>
    BY <1>4, <1>6 DEF ServeQueue
  <2>2. \A j \in Ids : Phase(attempt'[j]) = "out" \/ Continues(j)
    BY <2>1 DEF Continues, Context, Ledger, Sound
  <2>3. Calm
    BY <2>1, <2>2, QueueSame, PollSame DEF Calm
  <2> QED
    BY <1>4, <2>3, CalmLedger
<1> QED
  BY <1>5, <1>6

\* An attempt moves, and nothing of the records.
LEMMA AttemptMoves ==
  ASSUME AnswerInv, Ledger, RowStays, NEW i \in Attempts, NEW r,
         attempt' = [attempt EXCEPT ![i] = r],
         \/ i = Run \/ Phase(r) = "out"
         \/ /\ Phase(r) = Phase(attempt[i]) /\ r.seen = attempt[i].seen
            /\ r.pc \notin {"ended", "persisted"},
         UNCHANGED <<row, queue, answered, poll>>,
         log' = "completed" => log = "completed" \/ row.status # "none"
  PROVE  Ledger'
<1>1. \A j \in Ids : Context(j)' = Context(j)
  BY DEF Context
<1>2. \A j \in Ids : Phase(attempt'[j]) = "out" \/ Continues(j)
  BY <1>1, MovesCalm DEF AnswerInv, OneInv
<1> QED
  BY <1>2, QueueSame, PollSame, CalmLedger DEF Calm

\* While one attempt is live no other one is.
LEMMA OthersAreOut ==
  ASSUME AnswerInv, Ledger, NEW i \in Ids, Phase(attempt[i]) # "out"
  PROVE  /\ \A j \in Ids \ {i} : Phase(attempt[j]) = "out"
         /\ row.status # "none" /\ ~Nobody
         /\ row.status # "cancelled" => i \in Claimed
<1>1. i \in Live
  BY PhaseLives
<1> QED
  BY <1>1, PhaseLives DEF AnswerInv, OneInv, OneLive, LiveIsClaimed, Claimed, Ledger, Blank, Nobody

LEMMA ClaimLedger ==
  ASSUME AnswerInv, Ledger, RowStays, NEW i \in Attempts, ClaimLog(i) \/ Admit(i),
         UNCHANGED poll
  PROVE  Ledger'
<1>1. attempt[i] \in Doings /\ i # Run
  BY DEF AnswerInv, OneInv, TypeOK, RunSteps, ClaimLog, Admit
<1>2. PICK pc \in {"admitting", "running", "settling"}, o \in AdmissionFailures :
        \/ pc # "settling" /\ attempt' = [attempt EXCEPT ![i].pc = pc]
        \/ pc = "settling" /\ attempt' = [attempt EXCEPT ![i].pc = pc, ![i].outcome = o]
  <2>1. CASE ClaimLog(i)
    BY <2>1 DEF ClaimLog, Goes, Ends, AdmissionFailures
  <2>2. CASE Admit(i)
    <3>1. "retry" \in AdmissionFailures
      BY DEF AdmissionFailures
    <3> QED
      BY <2>2, <3>1 DEF Admit, Goes, Ends
  <2> QED
    BY <2>1, <2>2
<1> DEFINE r == IF pc = "settling" THEN [attempt[i] EXCEPT !.pc = pc, !.outcome = o]
                ELSE [attempt[i] EXCEPT !.pc = pc]
<1>3. attempt' = [attempt EXCEPT ![i] = r]
  BY <1>2 DEF AnswerInv, OneInv, TypeOK
<1>4. r.pc = pc /\ r.seen = attempt[i].seen /\ (pc = "settling" => r.outcome = o)
  BY <1>1 DEF Doings
<1> HIDE DEF r
<1>5. Phase(r) = "before"
  BY <1>2, <1>4 DEF Phase, AdmissionFailures
<1>6. Phase(attempt[i]) = "before"
  BY DEF ClaimLog, Admit, Phase
<1>7. UNCHANGED <<row, queue, answered>> /\ (log' = "completed" => log = "completed")
  BY DEF ClaimLog, Admit
<1> QED
  BY <1>2, <1>3, <1>4, <1>5, <1>6, <1>7, AttemptMoves

LEMMA EngineLedger ==
  ASSUME AnswerInv, Ledger, RowStays, NEW i \in Attempts, EngineEnds(i), UNCHANGED poll
  PROVE  Ledger'
<1>1. attempt[i] \in Doings /\ attempt[i].pc = "running" /\ TypeOK
  BY DEF AnswerInv, OneInv, TypeOK, EngineEnds
<1>2. PICK o \in IF i = Run THEN {"paused"} ELSE Outcomes, fresh \in SUBSET Contexts :
        /\ i # Run /\ o = "paused" => fresh \cap Stored(row.points) = {}
        /\ log' = LogAfter(o)
        /\ attempt' = [attempt EXCEPT
             ![i].pc = IF o \in {"completed", "paused"} THEN "ended" ELSE "settling",
             ![i].outcome = o, ![i].fresh = fresh]
        /\ answered' = IF i # Run /\ o \in {"completed", "paused"}
                       THEN [answered EXCEPT ![Context(i)] = @ + 1] ELSE answered
  BY DEF EngineEnds
<1> DEFINE pc == IF o \in {"completed", "paused"} THEN "ended" ELSE "settling"
           r == [attempt[i] EXCEPT !.pc = pc, !.outcome = o, !.fresh = fresh]
<1>3. attempt' = [attempt EXCEPT ![i] = r]
  BY <1>1, <1>2 DEF TypeOK
<1>4. r.pc = pc /\ r.outcome = o /\ r.fresh = fresh /\ r.seen = attempt[i].seen
  BY <1>1 DEF Doings
<1> HIDE DEF r
<1>5. Phase(attempt[i]) = "before"
  BY <1>1 DEF Phase
<1>6. UNCHANGED <<row, queue>>
  BY DEF EngineEnds
<1>7. CASE i = Run
  <2>1. answered' = answered /\ o = "paused"
    BY <1>2, <1>7
  <2>2. log' # "completed"
    BY <1>2, <2>1 DEF LogAfter
  <2> QED
    BY <1>3, <1>6, <1>7, <2>1, <2>2, AttemptMoves
<1>8. CASE i # Run
  <2>1. i \in Ids
    BY <1>8 DEF Attempts
  <2>2. /\ \A j \in Ids \ {i} : Phase(attempt[j]) = "out"
        /\ row.status # "none"
    BY <1>5, <2>1, OthersAreOut
  <2>3. CASE o \in {"completed", "paused"}
    <3>1. attempt'[i] = r /\ \A j \in Ids \ {i} : attempt'[j] = attempt[j]
      BY <1>1, <1>3, RunIsNoEntry DEF TypeOK
    <3>2. Phase(r) = "ended" /\ r.pc = "ended"
      BY <1>4, <2>3 DEF Phase
    <3>3. answered' = [answered EXCEPT ![Context(i)] = @ + 1]
      BY <1>2, <1>8, <2>3
    <3>4. \A j \in Ids \ {i} : Phase(attempt'[j]) = "out"
      BY <2>2, <3>1
    <3>5. r.outcome = "paused" => r.fresh \cap Stored(row.points) = {}
      BY <1>2, <1>4, <1>8
    <3> QED
      BY <1>1, <1>4, <1>5, <1>6, <2>1, <3>1, <3>2, <3>3, <3>4, <3>5, GoesOnLedger
  <2>4. CASE o \notin {"completed", "paused"}
    <3>1. Phase(r) = "before" /\ r.pc = "settling"
      BY <1>4, <2>4 DEF Phase
    <3>2. answered' = answered
      BY <1>2, <2>4
    <3> QED
      BY <1>3, <1>4, <1>5, <1>6, <2>2, <3>1, <3>2, AttemptMoves
  <2> QED
    BY <2>3, <2>4
<1> QED
  BY <1>7, <1>8

LEMMA UpdateLedger ==
  ASSUME AnswerInv, Ledger, NEW i \in Attempts, UpdateSnapshot(i), UNCHANGED poll
  PROVE  Ledger'
<1>1. attempt[i] \in Doings /\ i # Run /\ TypeOK
  BY DEF AnswerInv, OneInv, TypeOK, RunSteps, UpdateSnapshot
<1>2. i \in Ids /\ Phase(attempt[i]) = "ended"
  BY <1>1 DEF Attempts, UpdateSnapshot, Phase
<1> DEFINE r == [attempt[i] EXCEPT !.pc = "settling"]
<1>3. attempt'[i] = r /\ \A j \in Ids \ {i} : attempt'[j] = attempt[j]
  BY <1>1, RunIsNoEntry DEF UpdateSnapshot, Goes, TypeOK
<1>4. r.pc = "settling" /\ r.outcome = "completed"
  BY <1>1 DEF UpdateSnapshot, Doings
<1> HIDE DEF r
<1>5. Phase(attempt'[i]) = "noted"
  BY <1>3, <1>4 DEF Phase
<1>6. \A j \in Ids \ {i} : Phase(attempt'[j]) = "out"
  BY <1>2, <1>3, OthersAreOut
<1>7. row' = [row EXCEPT !.snap = attempt[i].seen \cup {Context(i)}]
  BY <1>1 DEF UpdateSnapshot, Answers
<1>8. UNCHANGED <<queue, poll, answered>>
  BY DEF UpdateSnapshot
<1> QED
  BY <1>1, <1>2, <1>5, <1>6, <1>7, <1>8, NotedLedger

LEMMA PersistLedger ==
  ASSUME AnswerInv, Ledger, RowStays, NEW i \in Attempts, PersistPause(i), UNCHANGED poll
  PROVE  Ledger'
<1>1. TypeOK /\ attempt[i] \in Doings /\ row \in Rows
  BY DEF AnswerInv, OneInv, TypeOK
<1>2. attempt[i].pc = "ended" /\ attempt[i].outcome = "paused"
  BY DEF PersistPause
<1> DEFINE r == [attempt[i] EXCEPT !.pc = "persisted"]
<1>3. attempt' = [attempt EXCEPT ![i] = r]
  BY <1>1 DEF PersistPause, Goes, TypeOK
<1>4. r.pc = "persisted" /\ r.outcome = "paused" /\ r.seen = attempt[i].seen
  BY <1>1, <1>2 DEF Doings
<1> HIDE DEF r
<1>5. attempt'[i] = r /\ \A j \in Attempts \ {i} : attempt'[j] = attempt[j]
  BY <1>1, <1>3 DEF TypeOK
<1>6. UNCHANGED <<log, queue, answered>>
  BY DEF PersistPause
<1>7. i = Run => row.status = "none" /\ Nobody
  BY <1>2, OutLives DEF AnswerInv, OneInv, RunFirst
<1>8. \A j \in Ids \ {i} : Phase(attempt'[j]) = "out"
  <2>1. CASE i = Run
    BY <1>5, <1>7, <2>1, RunIsNoEntry DEF Nobody
  <2>2. CASE i \in Ids
    <3>1. Phase(attempt[i]) # "out"
      BY <1>2 DEF Phase
    <3> QED
      BY <1>5, <2>2, <3>1, OthersAreOut, RunIsNoEntry
  <2> QED
    BY <2>1, <2>2 DEF Attempts
<1>9. CASE log = "cancelled" \/ row.status = "cancelled"
  <2>1. CASE i = Run
    <3>1. row' = row
      BY <1>7, <1>9, <2>1 DEF PersistPause
    <3> QED
      BY <1>3, <1>6, <2>1, <3>1, AttemptMoves
  <2>2. CASE i \in Ids
    <3>1. Phase(attempt[i]) = "ended" /\ Phase(r) = "settled"
      BY <1>2, <1>4 DEF Phase
    <3>2. row.status # "none"
      BY <2>2, <3>1, OthersAreOut
    <3>3. \/ row' = row /\ row.status = "cancelled"
          \/ row' = [row EXCEPT !.status = "cancelled", !.due = FALSE]
      BY <1>9, <3>2 DEF PersistPause
    <3>4. /\ row'.status = "cancelled" /\ row'.points = row.points
          /\ row'.resumed = row.resumed /\ row'.snap = row.snap
      BY <1>1, <3>3 DEF Rows
    <3>5. Continues(i)
      BY <1>4, <1>5, <1>6, <3>1, <3>4 DEF Continues, Context
    <3>6. Calm
      BY <1>6, <1>8, <3>4, <3>5, PollSame DEF Calm, QueueStands
    <3> QED
      BY <3>6, CalmLedger
  <2> QED
    BY <2>1, <2>2 DEF Attempts
<1>10. CASE ~(log = "cancelled" \/ row.status = "cancelled")
  <2> DEFINE points == Merged(attempt[i].fresh)
             resumed == Cardinality(Answered(points))
             status == IF row.status = "cancelling" THEN "cancelling"
                       ELSE Progress(resumed, Cardinality(Stored(points)))
             due == Timed \cap Stored(points) # {}
  <2>1. row' = [status |-> status, points |-> points, resumed |-> resumed, retries |-> 0,
                due |-> due, snap |-> Answers(i)]
    BY <1>10 DEF PersistPause
  <2>2. status = "cancelling" <=> row.status = "cancelling"
    BY ProgressShape
  <2>3. status \in {"cancelling", "paused", "partially_resumed", "fully_resumed"}
    BY ProgressShape
  <2> HIDE DEF status, points, due, resumed
  <2>4. /\ row'.points = points /\ row'.resumed = resumed /\ row'.snap = Answers(i)
        /\ row'.status = status
    BY <2>1
  <2>5. row'.status # "none" /\ (Closed <=> Closed')
    BY <1>10, <2>2, <2>3, <2>4 DEF Closed
  <2>6. /\ attempt[i].fresh \cap Stored(row.points) = {}
        /\ \A c \in Contexts : row.points[c] = "resuming" => c \in Answers(i)
        /\ Answered(row.points) \subseteq Answers(i)
    <3>1. CASE i = Run
      <4>1. \A c \in Contexts : row.points[c] = "none"
        BY <1>7, <3>1 DEF Ledger, Blank
      <4> QED
        BY <4>1 DEF Answered, Stored
    <3>2. CASE i \in Ids
      <4>1. Sound(i) /\ Phase(attempt[i]) = "ended"
        BY <1>2, <3>2 DEF Ledger, Phase
      <4>2. i \in Claimed /\ ~Nobody
        BY <1>10, <3>2, <4>1, OthersAreOut
      <4>3. \A c \in Contexts : row.points[c] = "resuming" => c = Context(i)
        BY <1>10, <4>2 DEF Ledger, Held, AnswerInv, OneClaim
      <4>4. Answers(i) = attempt[i].seen \cup {Context(i)}
        BY <3>2, RunIsNoEntry DEF Answers
      <4> QED
        BY <1>2, <4>1, <4>3, <4>4 DEF Sound
    <3> QED
      BY <3>1, <3>2 DEF Attempts
  <2>7. row'.points = Merged(attempt[i].fresh) /\ row'.resumed = Cardinality(Answered(row'.points))
    BY <2>4 DEF points, resumed
  <2> QED
    BY <1>1, <1>4, <1>5, <1>6, <1>8, <2>4, <2>5, <2>6, <2>7, MergedLedger
<1> QED
  BY <1>9, <1>10

LEMMA ServingLedger ==
  ASSUME AnswerInv, Ledger, TypeOK', RowStays, NEW i \in Attempts, PauseServed(i) \/ Drain(i),
         UNCHANGED poll
  PROVE  Ledger'
<1>1. attempt[i] \in Doings /\ attempt \in [Attempts -> Doings]
  BY DEF AnswerInv, OneInv, TypeOK
<1>2. Phase(Idle) = "out"
  BY DEF Idle, Phase
<1>3. CASE PauseServed(i)
  <2> DEFINE r == IF i = Run THEN Idle ELSE [attempt[i] EXCEPT !.pc = "settling"]
             attempts == IF Overtaken THEN attempt ELSE [attempt EXCEPT ![i] = r]
  <2>1. ServeQueue(attempts) /\ attempt[i].pc = "persisted" /\ UNCHANGED <<answered, log>>
    BY <1>1, <1>3 DEF PauseServed
  <2>2. r \in Doings
    BY <1>1 DEF Doings, Idle
  <2>3. i # Run => /\ Phase(r) = Phase(attempt[i]) /\ r.seen = attempt[i].seen
                  /\ r.pc = "settling"
    <3> SUFFICES ASSUME i # Run PROVE /\ Phase(r) = Phase(attempt[i])
                                     /\ r.seen = attempt[i].seen /\ r.pc = "settling"
      OBVIOUS
    <3>1. i \in Ids
      BY DEF Attempts
    <3>2. attempt[i].outcome = "paused"
      BY <2>1, <3>1 DEF Ledger, Sound
    <3>3. r.pc = "settling" /\ r.outcome = "paused" /\ r.seen = attempt[i].seen
      BY <1>1, <3>2 DEF Doings
    <3> HIDE DEF r
    <3> QED
      BY <2>1, <3>3 DEF Phase
  <2> HIDE DEF r
  <2>4. attempts \in [Attempts -> Doings]
    BY <1>1, <2>2
  <2>5. \A j \in Ids :
          \/ attempts[j] = attempt[j]
          \/ /\ Phase(attempts[j]) = Phase(attempt[j]) /\ attempts[j].seen = attempt[j].seen
             /\ attempts[j].pc = "settling"
    BY <1>1, <2>3, RunIsNoEntry
  <2> HIDE DEF attempts
  <2> QED
    BY <2>1, <2>4, <2>5, ServeLedger
<1>4. CASE Drain(i)
  <2> DEFINE attempts == IF Overtaken THEN attempt ELSE [attempt EXCEPT ![i] = Idle]
  <2>1. ServeQueue(attempts) /\ UNCHANGED <<answered, log>>
    BY <1>4 DEF Drain
  <2>2. attempts \in [Attempts -> Doings]
    BY <1>1, IdleShape
  <2>3. \A j \in Ids : Phase(attempts[j]) = "out" \/ attempts[j] = attempt[j]
    BY <1>1, <1>2, RunIsNoEntry
  <2> HIDE DEF attempts
  <2> QED
    BY <2>1, <2>2, <2>3, ServeLedger
<1> QED
  BY <1>3, <1>4

LEMMA FailedEntry ==
  ASSUME TypeOK, NEW ids, NEW b \in BOOLEAN, NEW i \in Ids
  PROVE  /\ Failed(ids, b)[i].ctx = queue[i].ctx
         /\ i \in ids => Failed(ids, b)[i].status = "failed"
         /\ i \notin ids => Failed(ids, b)[i] = queue[i]
<1>1. queue[i] \in Entries
  BY DEF TypeOK
<1> QED
  BY <1>1 DEF Failed, Entries

LEMMA RowCancelledIs ==
  ASSUME TypeOK, row' = RowCancelled
  PROVE  /\ row'.status = "cancelled" /\ row'.points = row.points
         /\ row'.resumed = row.resumed /\ row'.snap = row.snap
  BY DEF RowCancelled, TypeOK, Rows

\* The pause is completed as cancelled, or a cancellation is staged.
LEMMA CancelledLedger ==
  ASSUME TypeOK, Ledger, RowStays,
         \A j \in Ids : Phase(attempt'[j]) = "out" \/ attempt'[j] = attempt[j],
         \A j \in Ids : Context(j)' = Context(j),
         QueueStands, row'.status = "none" => row.status = "none",
         row'.points = row.points, row'.resumed = row.resumed, row'.snap = row.snap,
         log' = "completed" => log = "completed" \/ row.status # "none",
         poll'.pc = "dispatching" => poll.pc = "dispatching" /\ poll'.todo \subseteq poll.todo,
         answered' = answered
  PROVE  Ledger'
<1>1. \A j \in Ids : Phase(attempt'[j]) = "out" \/ Continues(j)
  BY DEF Continues, Ledger, Sound
<1> QED
  BY <1>1, PollSame, CalmLedger DEF Calm

\* An attempt that has recorded what came of it leaves nobody live.
LEMMA MarkedOut ==
  ASSUME AnswerInv, Ledger, NEW i \in Ids, Phase(attempt[i]) # "out",
         NEW r, Phase(r) = "out", attempt' = [attempt EXCEPT ![i] = r]
  PROVE  Nobody'
<1>1. \A j \in Ids \ {i} : Phase(attempt[j]) = "out"
  BY OthersAreOut
<1> QED
  BY <1>1, RunIsNoEntry DEF AnswerInv, OneInv, TypeOK, Nobody

LEMMA MarkIs ==
  ASSUME AnswerInv, NEW i \in Attempts,
         MarkCompleted(i) \/ MarkFailed(i) \/ MarkAttemptFailed(i)
  PROVE  i \in Ids /\ attempt[i].pc = "settling" /\ Phase(attempt[i]) # "out"
<1>1. attempt[i].pc = "settling"
  BY DEF MarkCompleted, MarkFailed, MarkAttemptFailed
<1> QED
  BY <1>1 DEF AnswerInv, OneInv, RunSteps, Attempts, Phase

LEMMA GoneIs ==
  ASSUME TypeOK, NEW i \in Attempts, NEW pc \in {"draining", "checking"}, Goes(i, pc)
  PROVE  \E r : Phase(r) = "out" /\ attempt' = [attempt EXCEPT ![i] = r]
<1> DEFINE r == [attempt[i] EXCEPT !.pc = pc]
<1>1. attempt' = [attempt EXCEPT ![i] = r]
  BY DEF Goes, TypeOK
<1>2. attempt[i] \in Doings
  BY DEF TypeOK
<1>3. r.pc = pc
  BY <1>2 DEF Doings
<1> HIDE DEF r
<1>4. Phase(r) = "out"
  BY <1>3 DEF Phase
<1> QED
  BY <1>1, <1>4

LEMMA MarkFailedLedger ==
  ASSUME AnswerInv, Ledger, RowStays, NEW i \in Attempts, MarkFailed(i), UNCHANGED poll
  PROVE  Ledger'
<1>1. TypeOK /\ row \in Rows /\ attempt[i].outcome = "failed" /\ answered' = answered
  BY DEF AnswerInv, OneInv, TypeOK, MarkFailed
<1>2. i \in Ids /\ attempt[i].pc = "settling" /\ Phase(attempt[i]) # "out"
  BY MarkIs
<1>3. PICK r : Phase(r) = "out" /\ attempt' = [attempt EXCEPT ![i] = r]
  BY <1>1, GoneIs DEF MarkFailed
<1>4. Nobody'
  BY <1>2, <1>3, MarkedOut
<1>5. /\ queue' = Failed({i}, FALSE) /\ queue'[i].status = "failed"
      /\ \A j \in Ids : Context(j)' = Context(j)
      /\ \A j \in Ids \ {i} : queue'[j] = queue[j]
  <2>1. queue' = Failed({i}, FALSE)
    BY DEF MarkFailed
  <2> QED
    BY <1>1, <1>2, <2>1, FailedEntry DEF Context
<1>6. CASE log = "cancelled" \/ row.status = "cancelled"
  <2>1. row' = RowCancelled /\ log' = log
    BY <1>6 DEF MarkFailed
  <2> QED
    BY <1>1, <1>4, <1>5, <2>1, RowCancelledIs, CancelledLedger DEF Nobody, QueueStands
<1>7. CASE ~(log = "cancelled" \/ row.status = "cancelled")
  <2>1. row' = [row EXCEPT !.points[Context(i)] = "failed"]
    BY <1>7 DEF MarkFailed
  <2>2. /\ row'.points = [row.points EXCEPT ![Context(i)] = "failed"]
        /\ row'.status = row.status /\ row'.resumed = row.resumed /\ row'.snap = row.snap
    BY <1>1, <2>1 DEF Rows
  <2>3. Phase(attempt[i]) = "before"
    BY <1>1, <1>2 DEF Phase
  <2>4. i \in Claimed
    BY <1>2, <1>7, OthersAreOut
  <2> QED
    BY <1>1, <1>2, <1>4, <1>5, <2>2, <2>3, <2>4, WithdrawnLedger DEF AnswerInv
<1> QED
  BY <1>6, <1>7

LEMMA MarkAttemptLedger ==
  ASSUME AnswerInv, Ledger, RowStays, NEW i \in Attempts, MarkAttemptFailed(i), UNCHANGED poll
  PROVE  Ledger'
<1> DEFINE o == attempt[i].outcome
           refused == o \in {"retry", "reject"} /\ Resumable /\ log # "cancelled"
           again == refused /\ Retries(o = "retry")
<1>1. TypeOK /\ row \in Rows /\ answered' = answered
  BY DEF AnswerInv, OneInv, TypeOK, MarkAttemptFailed
<1>2. i \in Ids /\ attempt[i].pc = "settling" /\ Phase(attempt[i]) # "out"
  BY MarkIs
<1>3. PICK r : Phase(r) = "out" /\ attempt' = [attempt EXCEPT ![i] = r]
  <2>1. attempt' = IF AfterFailure(o) = "idle" THEN [attempt EXCEPT ![i] = Idle]
                   ELSE [attempt EXCEPT ![i].pc = AfterFailure(o)]
    BY Zenon DEF MarkAttemptFailed
  <2>2. AfterFailure(o) \in {"idle", "draining", "checking"}
    BY DEF AfterFailure
  <2>3. Phase(Idle) = "out"
    BY DEF Idle, Phase
  <2>4. AfterFailure(o) # "idle" => AfterFailure(o) \in {"draining", "checking"} /\ Goes(i, AfterFailure(o))
    BY <2>1, <2>2 DEF Goes
  <2> HIDE DEF o
  <2> QED
    BY <1>1, <2>1, <2>3, <2>4, GoneIs
<1>4. Nobody'
  BY <1>2, <1>3, MarkedOut
<1>5. queue' = IF again THEN [queue EXCEPT ![i].status = "pending"] ELSE Failed({i}, FALSE)
  BY Zenon DEF MarkAttemptFailed
<1>6. /\ queue'[i].status = IF again THEN "pending" ELSE "failed"
      /\ \A j \in Ids : Context(j)' = Context(j)
      /\ \A j \in Ids \ {i} : queue'[j] = queue[j]
  <2> HIDE DEF again
  <2>1. CASE again
    <3>1. queue[i] \in Entries /\ queue'[i] = [queue[i] EXCEPT !.status = "pending"]
      BY <1>1, <1>2, <1>5, <2>1 DEF TypeOK
    <3>2. queue'[i].status = "pending" /\ queue'[i].ctx = queue[i].ctx
      BY <3>1 DEF Entries
    <3>3. \A j \in Ids \ {i} : queue'[j] = queue[j]
      BY <1>1, <1>5, <2>1 DEF TypeOK
    <3> QED
      BY <2>1, <3>2, <3>3 DEF Context
  <2>2. CASE ~again
    <3>1. queue' = Failed({i}, FALSE)
      BY <1>5, <2>2
    <3> QED
      BY <1>1, <1>2, <2>2, <3>1, FailedEntry DEF Context
  <2> QED
    BY <2>1, <2>2
<1>7. CASE log = "cancelled" \/ row.status = "cancelled"
  <2>1. row' = RowCancelled /\ log' = log
    BY <1>7, Zenon DEF MarkAttemptFailed
  <2> QED
    BY <1>1, <1>4, <1>6, <2>1, RowCancelledIs, CancelledLedger DEF Nobody, QueueStands
<1>8. CASE ~(log = "cancelled" \/ row.status = "cancelled")
  <2>1. row' = [row EXCEPT !.points[Context(i)] = IF again THEN "queued" ELSE "paused",
                           !.retries = IF again THEN @ + 1 ELSE @,
                           !.due = IF refused THEN again ELSE @]
    BY <1>8, Zenon DEF MarkAttemptFailed
  <2>2. PICK p \in {"paused", "queued"} : p = IF again THEN "queued" ELSE "paused"
    OBVIOUS
  <2>3. /\ row'.points = [row.points EXCEPT ![Context(i)] = p]
        /\ row'.status = row.status /\ row'.resumed = row.resumed /\ row'.snap = row.snap
    <3> HIDE DEF again, refused
    <3> QED
      BY <1>1, <2>1, <2>2 DEF Rows
  <2>4. Phase(attempt[i]) = "before"
    BY <1>2 DEF MarkAttemptFailed, Phase, AdmissionFailures
  <2>5. i \in Claimed
    BY <1>2, <1>8, OthersAreOut
  <2>6. queue'[i].status = IF p = "queued" THEN "pending" ELSE "failed"
    <3> HIDE DEF again
    <3> QED
      BY <1>6, <2>2
  <2> QED
    BY <1>1, <1>2, <1>4, <1>6, <2>3, <2>4, <2>5, <2>6, WithdrawnLedger DEF AnswerInv
<1> QED
  BY <1>7, <1>8

LEMMA MarkCompletedLedger ==
  ASSUME AnswerInv, Ledger, RowStays, NEW i \in Attempts, MarkCompleted(i), UNCHANGED poll
  PROVE  Ledger'
<1>1. TypeOK /\ row \in Rows /\ answered' = answered /\ attempt[i].outcome \in {"completed", "paused"}
  BY DEF AnswerInv, OneInv, TypeOK, MarkCompleted
<1>2. i \in Ids /\ attempt[i].pc = "settling" /\ Phase(attempt[i]) # "out"
  BY MarkIs
<1>3. PICK r : Phase(r) = "out" /\ attempt' = [attempt EXCEPT ![i] = r]
  BY <1>1, GoneIs DEF MarkCompleted
<1>4. Nobody' /\ row.status # "none"
  BY <1>2, <1>3, MarkedOut, OthersAreOut
<1>5. CASE CancelWon
  <2>1. queue' = queue \/ queue' = Failed({i}, FALSE)
    BY <1>5, Zenon DEF MarkCompleted
  <2>2. /\ row' = IF log = "cancelled" /\ row.status # "cancelled" THEN RowCancelled ELSE row
        /\ log' = log
    BY <1>5 DEF MarkCompleted
  <2>3. \A j \in Ids : Context(j)' = Context(j)
    <3>1. \A j \in Ids : Failed({i}, FALSE)[j].ctx = queue[j].ctx
      BY <1>1, FailedEntry
    <3> QED
      BY <2>1, <3>1 DEF Context
  <2>4. /\ row'.status \in {"cancelling", "cancelled"} /\ row'.points = row.points
        /\ row'.resumed = row.resumed /\ row'.snap = row.snap
    BY <1>1, <1>5, <2>2, RowCancelledIs DEF CancelWon
  <2> QED
    BY <1>1, <1>4, <2>2, <2>3, <2>4, CancelledLedger DEF Nobody, QueueStands
<1>6. CASE ~CancelWon
  <2>1. ~Closed /\ i \in Claimed /\ queue[i].status = "claimed"
    BY <1>2, <1>6, OthersAreOut DEF CancelWon, Closed, Claimed
  <2>2. queue' = [queue EXCEPT ![i].status = "completed"]
    BY <1>6, <2>1, Zenon DEF MarkCompleted
  <2>3. /\ queue'[i].status = "completed" /\ \A j \in Ids \ {i} : queue'[j] = queue[j]
    <3>1. queue[i] \in Entries /\ queue'[i] = [queue[i] EXCEPT !.status = "completed"]
      BY <1>1, <1>2, <2>2 DEF TypeOK
    <3>2. queue'[i].status = "completed"
      BY <3>1 DEF Entries
    <3> QED
      BY <1>1, <2>2, <3>2 DEF TypeOK
  <2>4. CASE SettledByPause(i)
    <3>1. row' = row
      BY <1>6, <2>1, <2>4, Zenon DEF MarkCompleted
    <3>2. Phase(attempt[i]) = "settled"
      BY <1>2, <2>4 DEF SettledByPause, Phase
    <3>3. ~Closed'
      BY <2>1, <3>1 DEF Closed
    <3> QED
      BY <1>1, <1>2, <1>4, <2>1, <2>3, <3>1, <3>2, <3>3, CompletedLedger DEF AnswerInv
  <2>5. CASE ~SettledByPause(i)
    <3> DEFINE resumed == row.resumed + 1
               status == Progress(resumed, Cardinality(Stored(row.points)))
    <3>1. row' = [row EXCEPT !.points[Context(i)] = "resumed", !.resumed = resumed,
                             !.retries = 0, !.status = status]
      BY <1>6, <2>1, <2>5, Zenon DEF MarkCompleted
    <3>2. status \in {"paused", "partially_resumed", "fully_resumed"}
      BY ProgressShape
    <3> HIDE DEF status
    <3>3. /\ row'.points = [row.points EXCEPT ![Context(i)] = "resumed"]
          /\ row'.resumed = resumed /\ row'.snap = row.snap /\ row'.status = status
      <4> HIDE DEF resumed
      <4> QED
        BY <1>1, <3>1 DEF Rows
    <3>4. Phase(attempt[i]) = "noted"
      BY <1>1, <1>2, <2>5 DEF SettledByPause, Phase
    <3>5. ~Closed' /\ row'.status # "none"
      BY <3>2, <3>3 DEF Closed
    <3> QED
      BY <1>1, <1>2, <1>4, <2>1, <2>3, <3>3, <3>4, <3>5, CompletedLedger DEF AnswerInv
  <2> QED
    BY <2>4, <2>5
<1> QED
  BY <1>5, <1>6

\* The transaction that completes a cancellation, or none.
LEMMA CompletesLedger ==
  ASSUME TypeOK, Ledger, RowStays,
         CompletePausedCancellation \/ UNCHANGED <<log, row, queue>>,
         \A j \in Ids : Phase(attempt'[j]) = "out" \/ attempt'[j] = attempt[j],
         UNCHANGED <<answered, poll>>
  PROVE  Ledger'
<1>1. CASE UNCHANGED <<log, row, queue>>
  BY <1>1, QueueSame, CancelledLedger DEF Context
<1>2. CASE row.status # "none" /\ row' = RowCancelled /\ queue' = Failed(Pending \cup Claimed, FALSE)
  <2>1. \A j \in Ids : Context(j)' = Context(j)
    <3>1. \A j \in Ids : Failed(Pending \cup Claimed, FALSE)[j].ctx = queue[j].ctx
      BY FailedEntry
    <3> QED
      BY <1>2, <3>1 DEF Context
  <2> QED
    BY <1>2, <2>1, RowCancelledIs, CancelledLedger DEF QueueStands
<1> QED
  BY <1>1, <1>2 DEF CompletePausedCancellation

LEMMA ManagingLedger ==
  ASSUME AnswerInv, Ledger, TypeOK', RowStays, Managing, UNCHANGED poll
  PROVE  Ledger'
<1>1. TypeOK /\ Phase(Idle) = "out"
  BY DEF AnswerInv, OneInv, Idle, Phase
<1>2. ASSUME NEW c \in Contexts, Resume(c) PROVE Ledger'
  <2>1. Admissible(c) /\ Unused # {} /\ EnqueueOrStart(c) /\ answered' = answered /\ c \notin Timed
    BY <1>2 DEF Resume
  <2>2. poll.todo \subseteq Timed
    BY <1>1 DEF TypeOK, Jobs
  <2> QED
    BY <2>1, <2>2, EnqueueLedger
<1>3. ASSUME NEW i \in Attempts, CheckCancellation(i) PROVE Ledger'
  <2>1. PICK r : Phase(r) = "out" /\ attempt' = [attempt EXCEPT ![i] = r]
    BY <1>1, <1>3, GoneIs DEF CheckCancellation
  <2>2. \A j \in Ids : Phase(attempt'[j]) = "out" \/ attempt'[j] = attempt[j]
    BY <1>1, <2>1, RunIsNoEntry DEF TypeOK
  <2>3. CompletePausedCancellation \/ UNCHANGED <<log, row, queue>>
    BY <1>3 DEF CheckCancellation
  <2>4. answered' = answered
    BY <1>3 DEF CheckCancellation
  <2> QED
    BY <1>1, <2>2, <2>3, <2>4, CompletesLedger
<1>4. ASSUME NEW i \in Attempts, Attempting(i) PROVE Ledger'
  BY <1>3, <1>4, ClaimLedger, EngineLedger, UpdateLedger, PersistLedger, ServingLedger,
     MarkFailedLedger, MarkAttemptLedger, MarkCompletedLedger DEF Attempting
<1>5. ASSUME NEW i \in Attempts, attempt' = [attempt EXCEPT ![i] = Idle],
             UNCHANGED <<row, queue, answered>>, log' = "completed" => log = "completed"
      PROVE  Ledger'
  BY <1>1, <1>5, AttemptMoves
<1>6. CASE \E i \in Attempts : Crash(i)
  BY <1>5, <1>6 DEF Crash
<1>7. CASE RunStops
  <2>1. log' = "completed" => log = "completed"
    BY <1>7 DEF RunStops, LogAfter
  <2> QED
    BY <1>5, <1>7, <2>1, RunIsNoEntry DEF RunStops
<1>8. CASE SweepStale
  BY <1>1, <1>8, QueueSame, CancelledLedger DEF SweepStale, Context
<1> QED
  BY <1>2, <1>4, <1>6, <1>7, <1>8 DEF Managing

LEMMA StagedLedger ==
  ASSUME TypeOK, Ledger, RowStays, Stage, log' = log, UNCHANGED <<attempt, answered, poll>>
  PROVE  Ledger'
<1>1. CASE ~CanStage
  <2>1. UNCHANGED <<row, queue>>
    BY <1>1 DEF Stage
  <2> QED
    BY <2>1, QueueSame, CancelledLedger DEF Context
<1>2. CASE CanStage
  <2>1. row' = [row EXCEPT !.status = "cancelling"] /\ queue' = Failed(Pending, TRUE)
    BY <1>2 DEF Stage
  <2>2. /\ row'.status = "cancelling" /\ row'.points = row.points
        /\ row'.resumed = row.resumed /\ row'.snap = row.snap
    BY <2>1 DEF TypeOK, Rows
  <2>3. /\ \A j \in Ids : Failed(Pending, TRUE)[j].ctx = queue[j].ctx
        /\ \A j \in Claimed : Failed(Pending, TRUE)[j] = queue[j]
    <3>1. ASSUME NEW j \in Ids PROVE Failed(Pending, TRUE)[j].ctx = queue[j].ctx
      BY FailedEntry
    <3>2. ASSUME NEW j \in Claimed PROVE Failed(Pending, TRUE)[j] = queue[j]
      <4>1. j \in Ids /\ j \notin Pending
        BY DEF Claimed, Pending
      <4> QED
        BY <4>1, FailedEntry
    <3> QED
      BY <3>1, <3>2
  <2>4. row.status # "cancelled"
    BY <1>2 DEF CanStage
  <2>5. QueueStands
    BY <2>1, <2>2, <2>3, <2>4 DEF QueueStands
  <2> QED
    BY <2>1, <2>2, <2>3, <2>5, CancelledLedger DEF Context
<1> QED
  BY <1>1, <1>2

LEMMA CancellingLedger ==
  ASSUME AnswerInv, Forward, Ledger, TypeOK', RowStays,
         NEW k \in Cancellers, Cancelling(k) \/ CancelCrash(k)
  PROVE  Ledger'
<1>1. TypeOK
  BY DEF AnswerInv, OneInv
<1>2. CASE TurnBack(k)
  <2>1. cancel[k].pc \in {"turning back", "undoing"}
    BY <1>2 DEF TurnBack
  <2> QED
    BY <2>1 DEF AnswerInv, Straight, Forward, Quiet
<1>3. CASE StageFirst(k) \/ Confirm(k)
  BY <1>1, <1>3, StagedLedger DEF StageFirst, Confirm
<1>4. CASE ServeAfter(k)
  <2>1. ServeQueue(attempt) /\ UNCHANGED <<log, answered, poll>> /\ attempt \in [Attempts -> Doings]
    BY <1>1, <1>4 DEF ServeAfter, TypeOK
  <2> QED
    BY <2>1, ServeLedger
<1>5. CASE Complete(k)
  BY <1>1, <1>5, CompletesLedger DEF Complete
<1>6. CASE Finalize(k)
  <2>1. UNCHANGED <<log, attempt, answered, poll>>
    BY <1>6 DEF Finalize
  <2>2. \/ /\ row.status \in {"cancelling", "cancelled"}
           /\ row' = RowCancelled /\ queue' = Failed(Pending \cup Claimed, FALSE)
        \/ UNCHANGED <<row, queue>>
    BY <1>6, Zenon DEF Finalize
  <2>3. CASE row' = RowCancelled /\ queue' = Failed(Pending \cup Claimed, FALSE)
    <3>1. \A j \in Ids : Failed(Pending \cup Claimed, FALSE)[j].ctx = queue[j].ctx
      BY <1>1, FailedEntry
    <3> QED
      BY <1>1, <2>1, <2>3, <3>1, RowCancelledIs, CancelledLedger DEF QueueStands, Context
  <2>4. CASE UNCHANGED <<row, queue>>
    BY <1>1, <2>1, <2>4, QueueSame, CancelledLedger DEF Context
  <2> QED
    BY <2>2, <2>3, <2>4
<1>7. CASE \/ ReadLog(k) \/ SignalResume(k) \/ SignalRun(k) \/ ClaimCancellation(k)
           \/ Publish(k) \/ CancelCrash(k)
  <2>1. UNCHANGED <<row, queue, attempt, answered, poll>>
    BY <1>7 DEF ReadLog, SignalResume, SignalRun, ClaimCancellation, Publish, CancelCrash
  <2>2. log' = "completed" => log = "completed"
    BY <1>7 DEF ReadLog, SignalResume, SignalRun, ClaimCancellation, Publish, CancelCrash
  <2> QED
    BY <1>1, <2>1, <2>2, QueueSame, CancelledLedger DEF Context
<1> QED
  BY <1>2, <1>3, <1>4, <1>5, <1>6, <1>7 DEF Cancelling

LEMMA PollingLedger ==
  ASSUME AnswerInv, Ledger, TypeOK', RowStays, Polling \/ PollCrash
  PROVE  Ledger'
<1>1. TypeOK /\ row \in Rows /\ poll \in Jobs /\ poll' \in Jobs
  BY DEF AnswerInv, OneInv, TypeOK
<1>2. CASE PollRow
  <2>1. UNCHANGED <<log, row, queue, attempt, answered>>
    BY <1>2 DEF PollRow
  <2>2. poll'.todo = {c \in Timed : row.points[c] = "paused"}
    BY <1>2 DEF PollRow
  <2>3. Dispatched'
    BY <2>1, <2>2 DEF Dispatched
  <2>4. \A j \in Ids : Continues(j)
    BY <2>1 DEF Continues, Context, Ledger, Sound
  <2> QED
    BY <2>1, <2>3, <2>4, QueueSame, CalmLedger DEF Calm
<1>3. CASE PollServe
  <2>1. ServeQueue(attempt) /\ UNCHANGED <<log, answered>> /\ attempt \in [Attempts -> Doings]
    BY <1>1, <1>3 DEF PollServe, TypeOK
  <2>2. poll'.pc # "dispatching"
    BY <1>1, <1>3 DEF PollServe, PollGoes, Jobs
  <2> QED
    BY <2>1, <2>2, ServeLedger
<1>4. ASSUME NEW c \in Timed, PollDispatch(c) PROVE Ledger'
  <2>1. /\ UNCHANGED <<log, answered>> /\ Unused # {} /\ poll.pc = "dispatching"
        /\ poll'.todo = poll.todo \ {c}
    BY <1>1, <1>4 DEF PollDispatch, Jobs
  <2>2. CASE Admissible(c)
    BY <1>4, <2>1, <2>2, EnqueueLedger DEF PollDispatch
  <2>3. CASE ~Admissible(c)
    <3>1. UNCHANGED <<row, queue, attempt>>
      BY <1>4, <2>3 DEF PollDispatch
    <3> QED
      BY <1>1, <2>1, <3>1, QueueSame, CancelledLedger DEF Context
  <2> QED
    BY <2>2, <2>3
<1>5. CASE PollRefused
  <2>1. UNCHANGED <<log, attempt, answered>> /\ poll.pc = "dispatching" /\ poll'.pc # "dispatching"
    BY <1>1, <1>5 DEF PollRefused, PollGoes, Jobs
  <2>2. CASE ~Resumable
    <3>1. UNCHANGED <<row, queue>>
      BY <1>5, <2>2 DEF PollRefused
    <3> QED
      BY <1>1, <2>1, <3>1, QueueSame, CancelledLedger DEF Context
  <2>3. CASE Resumable
    <3>1. PICK c \in poll.todo, again \in BOOLEAN, running \in BOOLEAN :
            /\ row' = [row EXCEPT !.retries = IF again THEN @ + 1 ELSE @, !.due = again,
                                  !.points[c] = IF again \/ running THEN @ ELSE "paused"]
            /\ queue' = IF again THEN queue
                        ELSE Failed({i \in Pending : Context(i) = c}, FALSE)
      BY <1>5, <2>3, Zenon DEF PollRefused, Retries
    <3>2. c \in Contexts /\ row.points[c] = "paused"
      BY <1>1, <2>1 DEF Jobs, Ledger, Dispatched
    <3>3. {i \in Pending : Context(i) = c} = {}
      BY <2>3, <3>2 DEF Ledger, Waiting, Closed, Resumable
    <3>4. Failed({}, FALSE) = queue
      BY <1>1 DEF Failed, TypeOK
    <3>5. queue' = queue
      BY <3>1, <3>3, <3>4
    <3>6. /\ row'.status = row.status /\ row'.resumed = row.resumed /\ row'.snap = row.snap
          /\ row'.points = [row.points EXCEPT ![c] = IF again \/ running THEN @ ELSE "paused"]
      BY <1>1, <3>1 DEF Rows
    <3>7. row'.points = row.points
      BY <1>1, <3>2, <3>6 DEF Rows
    <3> QED
      BY <1>1, <2>1, <3>5, <3>6, <3>7, QueueSame, CancelledLedger DEF Context
  <2> QED
    BY <2>2, <2>3
<1>6. CASE PollClear \/ PollCrash
  <2>1. UNCHANGED <<log, queue, attempt, answered>> /\ poll'.pc # "dispatching"
    BY <1>1, <1>6 DEF PollClear, PollCrash, PollGoes, Jobs
  <2>2. row' = row \/ row' = [row EXCEPT !.due = FALSE]
    BY <1>6 DEF PollClear, PollCrash
  <2>3. /\ row'.status = row.status /\ row'.resumed = row.resumed /\ row'.snap = row.snap
        /\ row'.points = row.points
    BY <1>1, <2>2 DEF Rows
  <2> QED
    BY <1>1, <2>1, <2>3, QueueSame, CancelledLedger DEF Context
<1> QED
  BY <1>2, <1>3, <1>4, <1>5, <1>6 DEF Polling

------------------------------------------------------------------------------
(* One entry at a time is claimed.                                          *)

\* Entries are claimed no more, or one of them is and it is the only one.
ClaimsFew == Claimed' \subseteq Claimed \/ \E i \in Ids : Claimed' \subseteq {i}

LEMMA EndedClaims ==
  ASSUME TypeOK, NEW i, NEW s, s # "claimed", queue' = [queue EXCEPT ![i].status = s]
  PROVE  ClaimsFew
<1>1. \A j \in Ids : queue[j] \in Entries
  BY DEF TypeOK
<1>2. DOMAIN queue = Ids
  BY DEF TypeOK
<1>3. ASSUME NEW j \in Ids, queue'[j].status = "claimed" PROVE queue[j].status = "claimed"
  <2>1. CASE j = i
    BY <1>1, <1>2, <1>3, <2>1 DEF Entries
  <2>2. CASE j # i
    BY <1>2, <1>3, <2>2
  <2> QED
    BY <2>1, <2>2
<1> QED
  BY <1>3 DEF ClaimsFew, Claimed

LEMMA FailedClaims ==
  ASSUME TypeOK, NEW ids, NEW b \in BOOLEAN, queue' = Failed(ids, b)
  PROVE  ClaimsFew
<1>1. ASSUME NEW j \in Claimed' PROVE j \in Claimed
  <2>1. j \in Ids /\ queue'[j].status = "claimed"
    BY DEF Claimed
  <2>2. queue'[j] = queue[j]
    BY <2>1, FailedEntry
  <2> QED
    BY <2>1, <2>2 DEF Claimed
<1> QED
  BY <1>1 DEF ClaimsFew

LEMMA SameClaims == queue' = queue => ClaimsFew
  BY DEF ClaimsFew, Claimed

LEMMA EnqueueClaims ==
  ASSUME TypeOK, NEW c \in Contexts, Unused # {}, EnqueueOrStart(c)
  PROVE  ClaimsFew
<1>1. Oldest(Unused) \in Ids /\ DOMAIN queue = Ids
  BY OldestShape DEF Unused, TypeOK
<1>2. \A j \in Ids \ {Oldest(Unused)} : queue'[j] = queue[j]
  BY <1>1 DEF EnqueueOrStart
<1>3. CASE NothingClaimed
  BY <1>1, <1>2, <1>3 DEF ClaimsFew, Claimed, NothingClaimed
<1>4. CASE ~NothingClaimed
  <2>1. queue'[Oldest(Unused)].status = "pending"
    BY <1>1, <1>4 DEF EnqueueOrStart, NoEntry
  <2> QED
    BY <1>2, <2>1 DEF ClaimsFew, Claimed
<1> QED
  BY <1>3, <1>4

LEMMA ServeClaims ==
  ASSUME TypeOK, NEW attempts, ServeQueue(attempts) PROVE ClaimsFew
<1>1. CASE Overtaken
  BY <1>1, FailedClaims DEF ServeQueue
<1>2. CASE ~Overtaken /\ Serving
  <2>1. Oldest(Pending) \in Ids /\ DOMAIN queue = Ids
    BY <1>2, OldestShape DEF Pending, Serving, TypeOK
  <2>2. \A j \in Ids \ {Oldest(Pending)} : queue'[j] = queue[j]
    BY <1>2, <2>1 DEF ServeQueue
  <2> QED
    BY <1>2, <2>1, <2>2 DEF ClaimsFew, Claimed, Serving, NothingClaimed
<1>3. CASE ~Overtaken /\ ~Serving
  BY <1>3, SameClaims DEF ServeQueue
<1> QED
  BY <1>1, <1>2, <1>3

LEMMA CompleteClaims == ASSUME TypeOK, CompletePausedCancellation PROVE ClaimsFew
  BY FailedClaims, SameClaims DEF CompletePausedCancellation

LEMMA AttemptingClaims ==
  ASSUME TypeOK, NEW i \in Attempts, Attempting(i)
  PROVE  ClaimsFew
<1>1. CASE ClaimLog(i) \/ Admit(i) \/ EngineEnds(i) \/ UpdateSnapshot(i) \/ PersistPause(i)
  BY <1>1, SameClaims DEF ClaimLog, Admit, EngineEnds, UpdateSnapshot, PersistPause
<1>2. CASE PauseServed(i) \/ Drain(i)
  BY <1>2, ServeClaims DEF PauseServed, Drain
<1>3. CASE MarkCompleted(i)
  <2>1. \/ queue' = queue \/ queue' = Failed({i}, FALSE)
        \/ queue' = [queue EXCEPT ![i].status = "completed"]
    BY <1>3, Zenon DEF MarkCompleted
  <2> QED
    BY <2>1, SameClaims, FailedClaims, EndedClaims
<1>4. CASE MarkFailed(i)
  BY <1>4, FailedClaims DEF MarkFailed
<1>5. CASE MarkAttemptFailed(i)
  <2>1. \/ queue' = Failed({i}, FALSE)
        \/ queue' = [queue EXCEPT ![i].status = "pending"]
    BY <1>5, Zenon DEF MarkAttemptFailed
  <2> QED
    BY <2>1, FailedClaims, EndedClaims
<1>6. CASE CheckCancellation(i)
  BY <1>6, CompleteClaims, SameClaims DEF CheckCancellation
<1> QED
  BY <1>1, <1>2, <1>3, <1>4, <1>5, <1>6 DEF Attempting

LEMMA CancellingClaims ==
  ASSUME TypeOK, NEW k \in Cancellers, Cancelling(k) \/ CancelCrash(k)
  PROVE  ClaimsFew
<1>1. CASE StageFirst(k) \/ Confirm(k)
  BY <1>1, FailedClaims, SameClaims DEF StageFirst, Confirm, Stage
<1>2. CASE TurnBack(k)
  <2>1. queue' = queue \/ queue' = Requeued
    BY <1>2 DEF TurnBack, ClearIntent, Rollback
  <2>2. \A j \in Ids : Requeued[j].status = "claimed" => queue[j].status = "claimed"
    <3> SUFFICES ASSUME NEW j \in Ids, Requeued[j].status = "claimed"
                 PROVE  queue[j].status = "claimed"
      OBVIOUS
    <3>1. queue[j] \in Entries
      BY DEF TypeOK
    <3> QED
      BY <3>1 DEF Requeued, Entries
  <2> QED
    BY <2>1, <2>2 DEF ClaimsFew, Claimed
<1>3. CASE ServeAfter(k)
  BY <1>3, ServeClaims DEF ServeAfter
<1>4. CASE Complete(k)
  BY <1>4, CompleteClaims DEF Complete
<1>5. CASE Finalize(k)
  <2>1. queue' = Failed(Pending \cup Claimed, FALSE) \/ queue' = queue
    BY <1>5, Zenon DEF Finalize
  <2> QED
    BY <2>1, FailedClaims, SameClaims
<1>6. CASE \/ ReadLog(k) \/ SignalResume(k) \/ SignalRun(k) \/ ClaimCancellation(k)
           \/ Publish(k) \/ CancelCrash(k)
  BY <1>6, SameClaims
     DEF ReadLog, SignalResume, SignalRun, ClaimCancellation, Publish, CancelCrash
<1> QED
  BY <1>1, <1>2, <1>3, <1>4, <1>5, <1>6 DEF Cancelling

LEMMA PollingClaims ==
  ASSUME TypeOK, Polling \/ PollCrash
  PROVE  ClaimsFew
<1>1. ASSUME NEW c \in Timed, PollDispatch(c) PROVE ClaimsFew
  BY <1>1, EnqueueClaims, SameClaims DEF PollDispatch
<1>2. CASE PollServe
  BY <1>2, ServeClaims DEF PollServe
<1>3. CASE PollRefused
  <2>1. \E ids : queue' = queue \/ queue' = Failed(ids, FALSE)
    BY <1>3, Zenon DEF PollRefused
  <2> QED
    BY <2>1, FailedClaims, SameClaims
<1>4. CASE PollRow \/ PollClear \/ PollCrash
  BY <1>4, SameClaims DEF PollRow, PollClear, PollCrash
<1> QED
  BY <1>1, <1>2, <1>3, <1>4 DEF Polling

LEMMA StepClaims == ASSUME TypeOK, [RunNext]_runVars PROVE ClaimsFew
<1>1. CASE UNCHANGED runVars
  BY <1>1, SameClaims DEF runVars
<1>2. CASE Managing
  <2>1. ASSUME NEW c \in Contexts, Resume(c) PROVE ClaimsFew
    BY <2>1, EnqueueClaims DEF Resume
  <2>2. CASE (\E i \in Attempts : Crash(i)) \/ RunStops \/ SweepStale
    BY <2>2, SameClaims DEF Crash, RunStops, SweepStale
  <2> QED
    BY <1>2, <2>1, <2>2, AttemptingClaims DEF Managing
<1> QED
  BY <1>1, <1>2, CancellingClaims, PollingClaims DEF RunNext

------------------------------------------------------------------------------
(* A cancellation that goes forward, and the induction.                     *)

LEMMA CancelMoves ==
  ASSUME TypeOK, NEW k \in Cancellers, NEW pc, CancelGoes(k, pc)
  PROVE  cancel'[k].pc = pc /\ \A j \in Cancellers \ {k} : cancel'[j] = cancel[j]
<1>1. cancel[k] \in Requests
  BY DEF TypeOK
<1> QED
  BY <1>1 DEF CancelGoes, TypeOK, Requests

\* No request begins anew, and while none is taken back none turns back.
Onward ==
  \A k \in Cancellers :
    /\ cancel'[k].pc = "idle" => cancel[k].pc = "idle"
    /\ Steady /\ cancel[k].pc \notin {"turning back", "undoing"} =>
         cancel'[k].pc \notin {"turning back", "undoing"}

LEMMA CancellingOnward ==
  ASSUME TypeOK, NEW k \in Cancellers, Cancelling(k) \/ CancelCrash(k)
  PROVE  Onward
<1> DEFINE Good(pc) == pc # "idle" /\ (Steady /\ cancel[k].pc \notin {"turning back", "undoing"}
                                        => pc \notin {"turning back", "undoing"})
<1>a. cancel[k] \in Requests /\ DOMAIN cancel = Cancellers
  BY DEF TypeOK
<1>b. ASSUME NEW pc, Good(pc), cancel'[k].pc = pc, \A j \in Cancellers \ {k} : cancel'[j] = cancel[j]
      PROVE  Onward
  BY <1>b DEF Onward
<1>c. ASSUME NEW pc, Good(pc), CancelGoes(k, pc) PROVE Onward
  BY <1>b, <1>c, CancelMoves
<1> HIDE DEF Good
<1>1. CASE ReadLog(k)
  <2> DEFINE pc == IF log \in {"running", "pending", "cancelled"} THEN "staging" ELSE "finalizing"
  <2>1. cancel'[k].pc = pc /\ \A j \in Cancellers \ {k} : cancel'[j] = cancel[j]
    BY <1>1, <1>a DEF ReadLog, Requests
  <2>2. Good(pc)
    BY DEF Good
  <2> QED
    BY <1>b, <2>1, <2>2
<1>2. CASE StageFirst(k)
  <2>1. PICK aborted \in Aborts :
          cancel' = [cancel EXCEPT
            ![k].kind = StagedKind,
            ![k].target = IF StagedKind = "active_resume" THEN CHOOSE i \in Claimed : TRUE ELSE Run,
            ![k].pc = AfterStaging(k, aborted)]
    BY <1>2 DEF StageFirst
  <2> DEFINE pc == AfterStaging(k, aborted)
  <2>2. Good(pc)
    BY CancelAssumption DEF Good, AfterStaging, StagedKind, Claiming, Steady
  <2> HIDE DEF pc
  <2>3. cancel'[k].pc = pc /\ \A j \in Cancellers \ {k} : cancel'[j] = cancel[j]
    BY <1>a, <2>1 DEF Requests, pc
  <2> QED
    BY <1>b, <2>2, <2>3
<1>3. CASE TurnBack(k)
  <2>1. cancel[k].pc \in {"turning back", "undoing"}
    BY <1>3 DEF TurnBack
  <2>2. \A pc \in {"serving", "done", "signalling", "claiming"} : Good(pc)
    BY <2>1 DEF Good
  <2>3. \/ \E pc \in {"serving", "done"} : CancelGoes(k, pc)
        \/ \E pc \in {"signalling", "claiming"}, confirm \in BOOLEAN :
             cancel' = [cancel EXCEPT ![k].pc = pc, ![k].confirm = confirm]
    <3>1. \/ CancelGoes(k, IF row.status = "cancelling" /\ log \in {"running", "pending"}
                           THEN "serving" ELSE "done")
          \/ CancelGoes(k, IF queue[cancel[k].target].status = "claimed" THEN "done" ELSE "serving")
          \/ cancel' = [cancel EXCEPT
               ![k].pc = IF cancel[k].pc = "turning back" THEN "signalling" ELSE "claiming",
               ![k].confirm = ~(cancel[k].pc = "turning back")]
      BY <1>3, Zenon DEF TurnBack
    <3> QED
      BY <3>1
  <2>4. ASSUME NEW pc \in {"signalling", "claiming"}, NEW confirm \in BOOLEAN,
               cancel' = [cancel EXCEPT ![k].pc = pc, ![k].confirm = confirm]
        PROVE  cancel'[k].pc = pc /\ \A j \in Cancellers \ {k} : cancel'[j] = cancel[j]
    BY <1>a, <2>4 DEF Requests
  <2> QED
    BY <1>b, <1>c, <2>2, <2>3, <2>4
<1>4. CASE ServeAfter(k)
  <2>1. cancel' = cancel \/ CancelGoes(k, "done")
    BY <1>4 DEF ServeAfter
  <2>2. Good("done")
    BY DEF Good
  <2> QED
    BY <1>c, <2>1, <2>2 DEF Onward
<1>5. CASE SignalResume(k)
  <2>1. PICK accepted \in Signals :
          CancelGoes(k, IF Stopped(accepted) THEN Claiming(k)
                        ELSE IF cancel[k].late THEN "done" ELSE "undoing")
    BY <1>5 DEF SignalResume
  <2>2. Good(IF Stopped(accepted) THEN Claiming(k)
             ELSE IF cancel[k].late THEN "done" ELSE "undoing")
    BY DEF Good, Steady, Stopped, Claiming
  <2> QED
    BY <1>c, <2>1, <2>2
<1>6. CASE \/ SignalRun(k) \/ ClaimCancellation(k) \/ Confirm(k) \/ Publish(k) \/ Complete(k)
           \/ Finalize(k) \/ CancelCrash(k)
  <2> DEFINE pcs == {"claiming", "restaging", "confirming", "done", "finalizing", "publishing",
                     "completing"}
  <2>1. \E pc \in pcs : CancelGoes(k, pc)
    BY <1>6, Zenon
       DEF SignalRun, ClaimCancellation, Confirm, Publish, Complete, Finalize, CancelCrash
  <2>2. \A pc \in pcs : Good(pc)
    BY DEF Good
  <2> QED
    BY <1>c, <2>1, <2>2
<1> QED
  BY <1>1, <1>2, <1>3, <1>4, <1>5, <1>6 DEF Cancelling

LEMMA StepOnward == ASSUME TypeOK, [RunNext]_runVars PROVE Onward
<1>1. CASE cancel' = cancel
  BY <1>1 DEF Onward
<1>2. CASE Polling \/ PollCrash
  BY <1>1, <1>2 DEF Polling, PollRow, PollServe, PollDispatch, PollRefused, PollClear, PollCrash
<1> QED
  BY <1>1, <1>2, CancellingOnward DEF RunNext, runVars

LEMMA AnswerInit == RunInit => AnswerInv
<1> SUFFICES ASSUME RunInit PROVE AnswerInv
  OBVIOUS
<1>1. /\ log = "running" /\ row = NoRow
      /\ \A i \in Ids : queue[i].status = "absent" /\ attempt[i] = Idle
      /\ \A c \in Contexts : answered[c] = 0
      /\ \A k \in Cancellers : cancel[k].pc = "idle"
      /\ poll.pc = "idle"
  BY RunIsNoEntry DEF RunInit, Init, NoEntry, NoCancel, NoPoll
<1>2. Claimed = {} /\ Pending = {}
  BY <1>1 DEF Claimed, Pending
<1>3. /\ row.status = "none" /\ row.resumed = 0 /\ row.snap = {}
      /\ \A c \in Contexts : row.points[c] = "none"
  BY <1>1 DEF NoRow
<1>4. Answered(row.points) = {} /\ Cardinality({}) = 0
  BY <1>3, FS_EmptySet DEF Answered
<1>5. \A i \in Ids : Phase(attempt[i]) = "out" /\ attempt[i].pc = "idle"
  BY <1>1 DEF Phase, Idle
<1>6. \A i \in Ids : Sound(i)
  BY <1>5 DEF Sound
<1>7. Ledger
  BY <1>1, <1>2, <1>3, <1>4, <1>5, <1>6
     DEF Ledger, Blank, Nobody, Held, Waiting, Dispatched, Untouched, CountsAgree, AnsweredOnce,
         Snapped
<1> QED
  BY <1>1, <1>2, <1>7, OneInit DEF AnswerInv, OneClaim, Straight

LEMMA AnswerNext == AnswerInv /\ [RunNext]_runVars => AnswerInv'
<1> SUFFICES ASSUME AnswerInv, [RunNext]_runVars PROVE AnswerInv'
  OBVIOUS
<1>1. TypeOK /\ TypeOK' /\ OneInv' /\ RowStays
  BY OneNext, TypeNext, StepStays DEF AnswerInv, OneInv
<1>2. OneClaim'
  BY <1>1, StepClaims DEF AnswerInv, OneClaim, ClaimsFew
<1>3. Onward
  BY <1>1, StepOnward
<1>4. Straight' /\ (Forward' => Forward)
  BY <1>3 DEF Onward, AnswerInv, Straight, Forward, Quiet, Steady
<1>5. ASSUME Forward' PROVE Ledger'
  <2>1. Ledger /\ Forward
    BY <1>4, <1>5 DEF AnswerInv
  <2>2. CASE Managing /\ UNCHANGED <<cancel, poll>>
    BY <1>1, <2>1, <2>2, ManagingLedger
  <2>3. CASE \E k \in Cancellers : Cancelling(k) \/ CancelCrash(k)
    BY <1>1, <2>1, <2>3, CancellingLedger
  <2>4. CASE Polling \/ PollCrash
    BY <1>1, <2>1, <2>4, PollingLedger
  <2>5. CASE UNCHANGED runVars
    BY <1>1, <2>1, <2>5, QueueSame, CancelledLedger DEF runVars, Context
  <2> QED
    BY <2>2, <2>3, <2>4, <2>5 DEF RunNext
<1> QED
  BY <1>1, <1>2, <1>4, <1>5 DEF AnswerInv

LEMMA AnswersAreKept == RunSpec => []AnswerInv
  BY AnswerInit, AnswerNext, PTL DEF RunSpec

------------------------------------------------------------------------------
(* What the log says of the answers, where no process dies.                 *)

\* Nobody asked to cancel, and nothing is cancelled.
Uncancelled == stop = {} /\ log # "cancelled" /\ ~Closed

\* An attempt has completed the run and has not recorded it yet.
Completes(i) == attempt[i].outcome = "completed" /\ Phase(attempt[i]) \in {"ended", "noted"}

AllAnswered == Answered(row.points) = Stored(row.points)

\* A log that says the run is completed is right, but for the last attempt's answer.
Finishing == log = "completed" => Closed \/ AllAnswered \/ \E i \in Ids : Completes(i)

\* The engine ends no resume with an error.
Succeeds == Outcomes \subseteq {"completed", "paused", "cancelled"}

\* The outcomes an attempt ends with where the engine does not fail.
Unfailing == \A i \in Attempts : attempt[i].outcome \notin {"failed", "timeout"}

Runs(i) ==
  \/ attempt[i].pc \in {"admitting", "running"}
  \/ attempt[i].pc = "settling" /\ attempt[i].outcome \in AdmissionFailures

Stops(i) == attempt[i].pc = "settling" /\ attempt[i].outcome = "cancelled"

\* Whoever has taken the log will give it back.
Taken ==
  /\ log = "running" => Closed \/ \E i \in Attempts : Runs(i)
  /\ log = "cancelled" /\ Resumable =>
       (\E k \in Cancellers : cancel[k].pc = "confirming") \/ \E i \in Ids : Stops(i)
  /\ log = "failed" => Closed

AccountInv ==
  /\ AnswerInv
  /\ Quiet => Uncancelled
  /\ ~Crashes /\ Forward => Finishing
  /\ ~Crashes /\ Steady /\ Succeeds => Unfailing /\ Taken

LEMMA GoesOne ==
  ASSUME TypeOK, NEW i \in Attempts, NEW r, attempt' = [attempt EXCEPT ![i] = r]
  PROVE  attempt'[i] = r /\ \A j \in Attempts \ {i} : attempt'[j] = attempt[j]
  BY DEF TypeOK

------------------------------------------------------------------------------
(* A cancellation that goes forward is not taken back.                      *)

LEMMA ServeClosed == ASSUME Closed, NEW attempts, ServeQueue(attempts) PROVE row' = row
  BY DEF Closed, ServeQueue, Serving, Overtaken, Resumable

LEMMA AttemptingClosed ==
  ASSUME TypeOK, Closed, NEW i \in Attempts, Attempting(i) PROVE Closed'
<1>1. row \in Rows
  BY DEF TypeOK
<1>2. RowCancelled.status = "cancelled"
  BY <1>1 DEF RowCancelled, Rows
<1>3. ASSUME row' = row \/ row' = RowCancelled PROVE Closed'
  BY <1>2, <1>3 DEF Closed
<1>4. CASE ClaimLog(i) \/ Admit(i) \/ EngineEnds(i)
  BY <1>3, <1>4 DEF ClaimLog, Admit, EngineEnds
<1>5. CASE UpdateSnapshot(i)
  BY <1>1, <1>5 DEF UpdateSnapshot, Rows, Closed
<1>6. CASE PersistPause(i)
  BY <1>1, <1>6 DEF PersistPause, Rows, Closed
<1>7. CASE PauseServed(i) \/ Drain(i)
  BY <1>3, <1>7, ServeClosed DEF PauseServed, Drain
<1>8. CASE MarkCompleted(i)
  BY <1>3, <1>8 DEF MarkCompleted, CancelWon, Closed
<1>9. CASE MarkFailed(i)
  <2>1. row' = RowCancelled \/ row' = [row EXCEPT !.points[Context(i)] = "failed"]
    BY <1>9 DEF MarkFailed
  <2> QED
    BY <1>1, <1>3, <2>1 DEF Rows, Closed
<1>10. CASE MarkAttemptFailed(i)
  <2>1. row' = RowCancelled \/ row'.status = row.status
    <3> DEFINE o == attempt[i].outcome
               refused == o \in {"retry", "reject"} /\ Resumable /\ log # "cancelled"
               again == refused /\ Retries(o = "retry")
    <3>1. \/ row' = RowCancelled
          \/ row' = [row EXCEPT !.points[Context(i)] = IF again THEN "queued" ELSE "paused",
                                !.retries = IF again THEN @ + 1 ELSE @,
                                !.due = IF refused THEN again ELSE @]
      BY <1>10, Zenon DEF MarkAttemptFailed
    <3> HIDE DEF again, refused
    <3> QED
      BY <1>1, <3>1 DEF Rows
  <2> QED
    BY <1>3, <2>1 DEF Closed
<1>11. CASE CheckCancellation(i)
  BY <1>3, <1>11 DEF CheckCancellation, CompletePausedCancellation
<1> QED
  BY <1>4, <1>5, <1>6, <1>7, <1>8, <1>9, <1>10, <1>11 DEF Attempting

LEMMA StepClosed ==
  ASSUME AnswerInv, Forward, Closed, [RunNext]_runVars
  PROVE  Closed'
<1>1. TypeOK /\ row \in Rows
  BY DEF AnswerInv, OneInv, TypeOK
<1>2. RowCancelled.status = "cancelled" /\ [row EXCEPT !.status = "cancelling"].status = "cancelling"
  BY <1>1 DEF RowCancelled, Rows
<1>3. ASSUME row' = row \/ row' = RowCancelled \/ row' = [row EXCEPT !.status = "cancelling"]
      PROVE  Closed'
  BY <1>2, <1>3 DEF Closed
<1>4. CASE Managing
  <2>1. \A c \in Contexts : ~Resume(c)
    BY DEF Resume, Admissible, Resumable, Closed
  <2>2. CASE (\E i \in Attempts : Crash(i)) \/ RunStops \/ SweepStale
    BY <1>3, <2>2 DEF Crash, RunStops, SweepStale
  <2> QED
    BY <1>1, <1>4, <2>1, <2>2, AttemptingClosed DEF Managing
<1>5. ASSUME NEW k \in Cancellers, Cancelling(k) \/ CancelCrash(k) PROVE Closed'
  <2>1. ~TurnBack(k)
    BY DEF TurnBack, AnswerInv, Straight, Forward, Quiet
  <2>2. CASE StageFirst(k) \/ Confirm(k)
    BY <1>3, <2>2 DEF StageFirst, Confirm, Stage
  <2>3. CASE ServeAfter(k)
    BY <1>3, <2>3, ServeClosed DEF ServeAfter
  <2>4. CASE Complete(k)
    BY <1>3, <2>4 DEF Complete, CompletePausedCancellation
  <2>5. CASE Finalize(k)
    <3>1. row' = RowCancelled \/ row' = row
      BY <2>5, Zenon DEF Finalize
    <3> QED
      BY <1>3, <3>1
  <2>6. CASE \/ ReadLog(k) \/ SignalResume(k) \/ SignalRun(k) \/ ClaimCancellation(k)
             \/ Publish(k) \/ CancelCrash(k)
    BY <1>3, <2>6
       DEF ReadLog, SignalResume, SignalRun, ClaimCancellation, Publish, CancelCrash
  <2> QED
    BY <1>5, <2>1, <2>2, <2>3, <2>4, <2>5, <2>6 DEF Cancelling
<1>6. CASE Polling \/ PollCrash
  <2>1. ~Resumable
    BY DEF Closed, Resumable
  <2>2. CASE PollServe
    BY <1>3, <2>2, ServeClosed DEF PollServe
  <2>3. ASSUME NEW c \in Timed, PollDispatch(c) PROVE row' = row
    BY <2>1, <2>3 DEF PollDispatch, Admissible
  <2>4. CASE PollRow \/ PollRefused \/ PollClear \/ PollCrash
    BY <1>3, <2>1, <2>4 DEF PollRow, PollRefused, PollClear, PollCrash
  <2> QED
    BY <1>3, <1>6, <2>2, <2>3, <2>4 DEF Polling
<1>7. CASE UNCHANGED runVars
  BY <1>3, <1>7 DEF runVars
<1> QED
  BY <1>4, <1>5, <1>6, <1>7 DEF RunNext

------------------------------------------------------------------------------
(* Until somebody asks to cancel, nothing is.                               *)

\* A row is left as open as it was.
Open == row'.status = row.status \/ row'.status \in {"paused", "partially_resumed", "fully_resumed"}

LEMMA OpenStays == ASSUME ~Closed, Open PROVE ~Closed'
  BY DEF Closed, Open

LEMMA AttemptingOpen ==
  ASSUME TypeOK, Uncancelled, NEW i \in Attempts, Attempting(i) PROVE Uncancelled'
<1>1. row \in Rows /\ log # "cancelled" /\ row.status \notin {"cancelling", "cancelled"} /\ stop = {}
  BY DEF TypeOK, Uncancelled, Closed
<1>2. ASSUME stop' = stop \/ stop' = stop \ {i}, log' # "cancelled", Open PROVE Uncancelled'
  BY <1>1, <1>2, OpenStays DEF Uncancelled
<1>3. CASE ClaimLog(i) \/ Admit(i)
  BY <1>1, <1>2, <1>3 DEF ClaimLog, Admit, Open
<1>4. CASE EngineEnds(i)
  <2>1. PICK o \in EngineOutcomes : o # "cancelled" /\ log' = LogAfter(o)
    BY <1>1, <1>4 DEF EngineEnds, EngineOutcomes
  <2>2. log' # "cancelled"
    BY <1>1, <2>1 DEF LogAfter
  <2> QED
    BY <1>2, <1>4, <2>2 DEF EngineEnds, Open
<1>5. CASE UpdateSnapshot(i)
  BY <1>1, <1>2, <1>5 DEF UpdateSnapshot, Rows, Open
<1>6. CASE PersistPause(i)
  <2>1. row'.status \in {"paused", "partially_resumed", "fully_resumed"}
    BY <1>1, <1>6, ProgressShape DEF PersistPause
  <2> QED
    BY <1>1, <1>2, <1>6, <2>1 DEF PersistPause, Open
<1>7. CASE PauseServed(i) \/ Drain(i)
  BY <1>1, <1>2, <1>7, ServeStays DEF PauseServed, Drain, Open
<1>8. CASE MarkCompleted(i)
  <2> DEFINE c == Context(i)
             n == row.resumed + 1
             status == Progress(n, Cardinality(Stored(row.points)))
  <2>1. ~CancelWon
    BY <1>1 DEF CancelWon
  <2>2. \/ row' = row
        \/ row' = [row EXCEPT !.points[c] = "resumed", !.resumed = n, !.retries = 0,
                              !.status = status]
    BY <1>8, <2>1, Zenon DEF MarkCompleted
  <2>3. log' = log \/ log' = "pending"
    BY <1>8, <2>1, Zenon DEF MarkCompleted
  <2>4. status \in {"paused", "partially_resumed", "fully_resumed"}
    BY ProgressShape
  <2> HIDE DEF status, n, c
  <2>5. Open
    BY <1>1, <2>2, <2>4 DEF Rows, Open
  <2> QED
    BY <1>1, <1>2, <1>8, <2>3, <2>5 DEF MarkCompleted
<1>9. CASE MarkFailed(i)
  <2>1. row' = [row EXCEPT !.points[Context(i)] = "failed"] /\ log' = "failed" /\ stop' = stop
    BY <1>1, <1>9 DEF MarkFailed
  <2> QED
    BY <1>1, <1>2, <2>1 DEF Rows, Open
<1>10. CASE MarkAttemptFailed(i)
  <2> DEFINE o == attempt[i].outcome
             refused == o \in {"retry", "reject"} /\ Resumable /\ log # "cancelled"
             again == refused /\ Retries(o = "retry")
  <2>1. row' = [row EXCEPT !.points[Context(i)] = IF again THEN "queued" ELSE "paused",
                           !.retries = IF again THEN @ + 1 ELSE @,
                           !.due = IF refused THEN again ELSE @]
    BY <1>1, <1>10, Zenon DEF MarkAttemptFailed
  <2> HIDE DEF again, refused
  <2>2. Open
    BY <1>1, <2>1 DEF Rows, Open
  <2> QED
    BY <1>1, <1>2, <1>10, <2>2 DEF MarkAttemptFailed
<1>11. CASE CheckCancellation(i)
  BY <1>1, <1>2, <1>11 DEF CheckCancellation, Open
<1> QED
  BY <1>3, <1>4, <1>5, <1>6, <1>7, <1>8, <1>9, <1>10, <1>11 DEF Attempting

LEMMA UncancelledNext ==
  ASSUME TypeOK, Uncancelled, Quiet', [RunNext]_runVars PROVE Uncancelled'
<1>1. row \in Rows /\ log # "cancelled" /\ ~Closed /\ stop = {}
  BY DEF TypeOK, Uncancelled
<1>2. ASSUME stop' \subseteq stop, log' # "cancelled", Open PROVE Uncancelled'
  BY <1>1, <1>2, OpenStays DEF Uncancelled
<1>3. CASE Managing
  <2>1. ASSUME NEW c \in Contexts, Resume(c) PROVE Uncancelled'
    BY <1>1, <1>2, <2>1, EnqueueStays DEF Resume, Admissible, Open
  <2>2. CASE (\E i \in Attempts : Crash(i)) \/ RunStops \/ SweepStale
    BY <1>1, <1>2, <2>2 DEF Crash, RunStops, SweepStale, Open
  <2> QED
    BY <1>3, <2>1, <2>2, AttemptingOpen DEF Managing
<1>4. ASSUME NEW k \in Cancellers, Cancelling(k) \/ CancelCrash(k) PROVE FALSE
  <2>1. cancel'[k].pc = "idle" /\ cancel[k].pc = "idle"
    BY <1>4, CancellingOnward DEF Quiet, Onward
  <2>2. ReadLog(k)
    BY <1>4, <2>1 DEF Cancelling, CancelCrash, StageFirst, TurnBack, ServeAfter, SignalResume,
      SignalRun, ClaimCancellation, Confirm, Publish, Complete, Finalize
  <2> QED
    BY <2>1, <2>2 DEF ReadLog, TypeOK, Requests
<1>5. CASE Polling \/ PollCrash
  <2>1. CASE PollServe
    BY <1>1, <1>2, <2>1, ServeStays DEF PollServe, Open
  <2>2. ASSUME NEW c \in Timed, PollDispatch(c) PROVE Uncancelled'
    BY <1>1, <1>2, <2>2, EnqueueStays DEF PollDispatch, Admissible, Open
  <2>3. CASE PollRefused
    <3>1. row' = row \/ \E c \in poll.todo, again \in BOOLEAN, running \in BOOLEAN :
            row' = [row EXCEPT !.retries = IF again THEN @ + 1 ELSE @, !.due = again,
                               !.points[c] = IF again \/ running THEN @ ELSE "paused"]
      BY <2>3, Zenon DEF PollRefused, Retries
    <3>2. Open
      BY <1>1, <3>1 DEF Rows, Open
    <3> QED
      BY <1>1, <1>2, <2>3, <3>2 DEF PollRefused
  <2>4. CASE PollRow \/ PollClear \/ PollCrash
    BY <1>1, <1>2, <2>4 DEF PollRow, PollClear, PollCrash, Open, Rows
  <2> QED
    BY <1>5, <2>1, <2>2, <2>3, <2>4 DEF Polling
<1>6. CASE UNCHANGED runVars
  BY <1>1, <1>2, <1>6 DEF runVars, Open
<1> QED
  BY <1>3, <1>4, <1>5, <1>6 DEF RunNext

------------------------------------------------------------------------------
(* The outcomes of attempts.                                                *)

Unharmed == {"none", "completed", "paused", "cancelled"} \cup AdmissionFailures

\* An attempt's outcome is as it was, or no failure of the engine.
Fares ==
  \A j \in Attempts : attempt'[j].outcome = attempt[j].outcome \/ attempt'[j].outcome \in Unharmed

LEMMA FaresOn == ASSUME Unfailing, Fares PROVE Unfailing'
  BY DEF Unfailing, Fares, Unharmed, AdmissionFailures

LEMMA FaresOne ==
  ASSUME TypeOK, NEW i \in Attempts, NEW r, attempt' = [attempt EXCEPT ![i] = r],
         r.outcome = attempt[i].outcome \/ r.outcome \in Unharmed
  PROVE  Fares
  BY GoesOne DEF Fares

LEMMA GoesFares ==
  ASSUME TypeOK, NEW i \in Attempts, NEW pc, Goes(i, pc) PROVE Fares
<1> DEFINE r == [attempt[i] EXCEPT !.pc = pc]
<1>1. attempt' = [attempt EXCEPT ![i] = r]
  BY DEF Goes, TypeOK
<1>2. attempt[i] \in Doings
  BY DEF TypeOK
<1>3. r.outcome = attempt[i].outcome
  BY <1>2 DEF Doings
<1> HIDE DEF r
<1> QED
  BY <1>1, <1>3, FaresOne

LEMMA StartedFares ==
  ASSUME TypeOK, NEW i, NEW attempts \in [Attempts -> Doings], attempt' = Started(attempts, i),
         \A j \in Attempts : attempts[j].outcome = attempt[j].outcome \/ attempts[j].outcome \in Unharmed
  PROVE  Fares
<1>1. [Idle EXCEPT !.pc = "starting", !.seen = row.snap].outcome = "none"
  BY DEF Idle
<1>2. \A j \in Attempts : attempt'[j] = attempts[j] \/ attempt'[j].outcome = "none"
  BY <1>1 DEF Started
<1> QED
  BY <1>2 DEF Fares, Unharmed

LEMMA ServeFares ==
  ASSUME TypeOK, NEW attempts \in [Attempts -> Doings], ServeQueue(attempts),
         \A j \in Attempts : attempts[j].outcome = attempt[j].outcome \/ attempts[j].outcome \in Unharmed
  PROVE  Fares
<1>1. \/ attempt' = attempt \/ attempt' = attempts
      \/ attempt' = Started(attempts, Oldest(Pending))
  BY DEF ServeQueue
<1> QED
  BY <1>1, StartedFares DEF Fares

LEMMA EnqueueFares == ASSUME TypeOK, NEW c, EnqueueOrStart(c) PROVE Fares
<1>1. attempt \in [Attempts -> Doings]
  BY DEF TypeOK
<1>2. attempt' = attempt \/ attempt' = Started(attempt, Oldest(Unused))
  BY DEF EnqueueOrStart
<1> QED
  BY <1>1, <1>2, StartedFares DEF Fares

LEMMA AttemptingFares ==
  ASSUME TypeOK, Succeeds, NEW i \in Attempts, Attempting(i) PROVE Fares
<1>1. attempt \in [Attempts -> Doings] /\ attempt[i] \in Doings
  BY DEF TypeOK
<1>2. ASSUME NEW pc, NEW o \in Unharmed, Ends(i, pc, o) PROVE Fares
  <2> DEFINE r == [attempt[i] EXCEPT !.pc = pc, !.outcome = o]
  <2>1. attempt' = [attempt EXCEPT ![i] = r] /\ r.outcome = o
    BY <1>1, <1>2 DEF Ends, Doings
  <2> HIDE DEF r
  <2> QED
    BY <2>1, FaresOne
<1>3. CASE ClaimLog(i) \/ Admit(i)
  <2>1. Refusals \subseteq Unharmed /\ "reject" \in Unharmed
    BY DEF Unharmed, AdmissionFailures
  <2> QED
    BY <1>2, <1>3, <2>1, GoesFares DEF ClaimLog, Admit
<1>4. CASE EngineEnds(i)
  <2>1. PICK o \in IF i = Run THEN {"paused"} ELSE Outcomes, fresh \in SUBSET Contexts :
          attempt' = [attempt EXCEPT
             ![i].pc = IF o \in {"completed", "paused"} THEN "ended" ELSE "settling",
             ![i].outcome = o, ![i].fresh = fresh]
    BY <1>4 DEF EngineEnds
  <2> DEFINE pc == IF o \in {"completed", "paused"} THEN "ended" ELSE "settling"
             r == [attempt[i] EXCEPT !.pc = pc, !.outcome = o, !.fresh = fresh]
  <2>2. attempt' = [attempt EXCEPT ![i] = r]
    BY <1>1, <2>1
  <2>3. r.outcome = o
    BY <1>1 DEF Doings
  <2> HIDE DEF r
  <2>4. o \in Unharmed
    BY DEF Unharmed, Succeeds
  <2> QED
    BY <2>2, <2>3, <2>4, FaresOne
<1>5. CASE \/ UpdateSnapshot(i) \/ PersistPause(i) \/ MarkCompleted(i) \/ MarkFailed(i)
           \/ CheckCancellation(i)
  BY <1>5, GoesFares DEF UpdateSnapshot, PersistPause, MarkCompleted, MarkFailed, CheckCancellation
<1>6. CASE MarkAttemptFailed(i)
  <2>1. attempt' = IF AfterFailure(attempt[i].outcome) = "idle" THEN [attempt EXCEPT ![i] = Idle]
                   ELSE [attempt EXCEPT ![i].pc = AfterFailure(attempt[i].outcome)]
    BY <1>6, Zenon DEF MarkAttemptFailed
  <2>2. Idle.outcome \in Unharmed
    BY DEF Idle, Unharmed
  <2> QED
    BY <2>1, <2>2, FaresOne, GoesFares DEF Goes
<1>7. CASE PauseServed(i) \/ Drain(i)
  <2>1. \E attempts \in [Attempts -> Doings] :
          /\ ServeQueue(attempts)
          /\ \A j \in Attempts :
               attempts[j].outcome = attempt[j].outcome \/ attempts[j].outcome \in Unharmed
    <3> DEFINE served == [attempt EXCEPT ![i] = IF i = Run THEN Idle ELSE [@ EXCEPT !.pc = "settling"]]
               drained == [attempt EXCEPT ![i] = Idle]
    <3>1. Idle \in Doings /\ Idle.outcome \in Unharmed
      BY DEF Idle, Doings, Unharmed
    <3>2. drained \in [Attempts -> Doings] /\ \A j \in Attempts : drained[j] = attempt[j] \/ drained[j] = Idle
      BY <1>1, <3>1
    <3>3. /\ [attempt[i] EXCEPT !.pc = "settling"] \in Doings
          /\ [attempt[i] EXCEPT !.pc = "settling"].outcome = attempt[i].outcome
      BY <1>1 DEF Doings
    <3>4. /\ served \in [Attempts -> Doings]
          /\ \A j \in Attempts :
               \/ served[j] = attempt[j] \/ served[j] = Idle
               \/ j = i /\ served[j] = [attempt[i] EXCEPT !.pc = "settling"]
      BY <1>1, <3>1, <3>3
    <3>5. ServeQueue(attempt) \/ ServeQueue(served) \/ ServeQueue(drained)
      BY <1>7 DEF PauseServed, Drain
    <3> HIDE DEF served, drained
    <3> QED
      BY <1>1, <3>1, <3>2, <3>3, <3>4, <3>5
  <2> QED
    BY <2>1, ServeFares
<1> QED
  BY <1>3, <1>4, <1>5, <1>6, <1>7 DEF Attempting

LEMMA StepFares == ASSUME TypeOK, Succeeds, [RunNext]_runVars PROVE Fares
<1>1. attempt' = attempt => Fares
  BY DEF Fares
<1>2. attempt \in [Attempts -> Doings]
  BY DEF TypeOK
<1>3. CASE Managing
  <2>1. ASSUME NEW i \in Attempts, attempt' = [attempt EXCEPT ![i] = Idle] PROVE Fares
    BY <2>1, FaresOne DEF Idle, Unharmed
  <2>2. CASE (\E i \in Attempts : Crash(i)) \/ RunStops \/ SweepStale
    BY <1>1, <2>1, <2>2, RunIsNoEntry DEF Crash, RunStops, SweepStale
  <2> QED
    BY <1>3, <2>2, EnqueueFares, AttemptingFares DEF Managing, Resume
<1>4. ASSUME NEW k \in Cancellers, Cancelling(k) \/ CancelCrash(k) PROVE Fares
  <2>1. CASE ServeAfter(k)
    BY <1>2, <2>1, ServeFares DEF ServeAfter
  <2> QED
    BY <1>1, <1>4, <2>1 DEF Cancelling, CancelCrash, ReadLog, StageFirst, TurnBack, SignalResume,
      SignalRun, ClaimCancellation, Confirm, Publish, Complete, Finalize
<1>5. CASE Polling \/ PollCrash
  <2>1. CASE PollServe
    BY <1>2, <2>1, ServeFares DEF PollServe
  <2>2. ASSUME NEW c \in Timed, PollDispatch(c) PROVE Fares
    BY <1>1, <2>2, EnqueueFares DEF PollDispatch
  <2> QED
    BY <1>1, <1>5, <2>1, <2>2 DEF Polling, PollRow, PollRefused, PollClear, PollCrash
<1> QED
  BY <1>1, <1>3, <1>4, <1>5 DEF RunNext, runVars

------------------------------------------------------------------------------
(* The log and the attempts that account for it.                            *)

Idling(i) == ~Completes(i) /\ ~Runs(i) /\ ~Stops(i)

\* Whoever accounts for the log still does.
Witnessed ==
  /\ \A i \in Attempts :
       /\ Completes(i) => Completes(i)'
       /\ Runs(i) => Runs(i)'
       /\ Stops(i) => Stops(i)'
  /\ \A k \in Cancellers : cancel[k].pc = "confirming" => cancel'[k].pc = "confirming"

Balanced == (Finishing => Finishing') /\ (Taken => Taken')

LEMMA ClosedBalances == ASSUME Closed' PROVE Finishing' /\ Taken'
  BY DEF Finishing, Taken, Closed, Resumable

LEMMA SameBalances ==
  ASSUME Witnessed, log' = log, row'.status = row.status,
         row'.points = row.points \/ ~AllAnswered
  PROVE  Balanced
<1>1. Closed' = Closed /\ Resumable' = Resumable
  BY DEF Closed, Resumable
<1>2. AllAnswered => AllAnswered'
  BY DEF AllAnswered, Answered, Stored
<1>3. (\E i \in Ids : Completes(i)) => \E i \in Ids : Completes(i)'
  BY RunIsNoEntry DEF Witnessed
<1>4. (\E i \in Attempts : Runs(i)) => \E i \in Attempts : Runs(i)'
  BY DEF Witnessed
<1>5. (\E i \in Ids : Stops(i)) => \E i \in Ids : Stops(i)'
  BY RunIsNoEntry DEF Witnessed
<1>6. (\E k \in Cancellers : cancel[k].pc = "confirming")
        => \E k \in Cancellers : cancel'[k].pc = "confirming"
  BY DEF Witnessed
<1>7. Finishing => Finishing'
  BY <1>1, <1>2, <1>3 DEF Finishing
<1>8. Taken => Taken'
  BY <1>1, <1>4, <1>5, <1>6 DEF Taken
<1> QED
  BY <1>7, <1>8 DEF Balanced

\* The attempts but i are left alone, and i does not account for the log.
LEMMA OneWitness ==
  ASSUME TypeOK, NEW i \in Attempts, NEW r, attempt' = [attempt EXCEPT ![i] = r], Idling(i),
         UNCHANGED cancel
  PROVE  Witnessed
<1>1. \A j \in Attempts \ {i} : attempt'[j] = attempt[j]
  BY GoesOne
<1> QED
  BY <1>1 DEF Witnessed, Idling, Completes, Runs, Stops

LEMMA SameWitness ==
  ASSUME attempt' = attempt,
         \A k \in Cancellers : cancel[k].pc = "confirming" => cancel'[k].pc = "confirming"
  PROVE  Witnessed
  BY DEF Witnessed, Completes, Runs, Stops

LEMMA NoWitness ==
  ASSUME OneInv, Live = {}, row.status # "none" PROVE \A j \in Attempts : Idling(j)
<1>1. ASSUME NEW j \in Ids PROVE Idling(j)
  <2>1. attempt[j].pc \notin LiveSteps
    BY DEF Live, LiveOf
  <2> QED
    BY <2>1 DEF LiveSteps, Idling, Completes, Runs, Stops, Phase
<1>2. Idling(Run)
  BY DEF OneInv, RunSteps, RunFirst, Idling, Completes, Runs, Stops, Phase
<1> QED
  BY <1>1, <1>2 DEF Attempts

LEMMA EnqueueBalances ==
  ASSUME AnswerInv, ~Closed, NEW c \in Contexts, Admissible(c), EnqueueOrStart(c),
         log' = log, \A k \in Cancellers : cancel[k].pc = "confirming" => cancel'[k].pc = "confirming"
  PROVE  Balanced
<1>1. TypeOK /\ Resumable /\ row.points[c] = "paused" /\ OneInv
  BY DEF AnswerInv, OneInv, Admissible
<1>2. ~AllAnswered
  BY <1>1 DEF AllAnswered, Answered, Stored
<1>3. row'.status = row.status
  BY <1>1, EnqueueStays
<1>4. Witnessed
  <2>1. CASE NothingClaimed
    <3>1. \A j \in Attempts : Idling(j)
      BY <1>1, <2>1, NobodyLives, NoWitness DEF OneInv
    <3> QED
      BY <3>1 DEF Witnessed, Idling
  <2>2. CASE ~NothingClaimed
    BY <2>2, SameWitness DEF EnqueueOrStart
  <2> QED
    BY <2>1, <2>2
<1> QED
  BY <1>2, <1>3, <1>4, SameBalances

LEMMA ServeBalances ==
  ASSUME AnswerInv, ~Closed, NEW attempts \in [Attempts -> Doings], ServeQueue(attempts),
         \A j \in Attempts : attempts[j] = attempt[j] \/ Idling(j),
         log' = log, \A k \in Cancellers : cancel[k].pc = "confirming" => cancel'[k].pc = "confirming"
  PROVE  Balanced
<1>1. TypeOK /\ OneInv
  BY DEF AnswerInv, OneInv
<1>2. row'.status = row.status
  BY <1>1, ServeStays
<1>3. CASE Overtaken
  <2>1. attempt' = attempt /\ row' = row
    BY <1>3 DEF ServeQueue
  <2> QED
    BY <2>1, SameWitness, SameBalances
<1>4. CASE Serving /\ ~Overtaken
  <2>1. Oldest(Pending) \in Ids /\ row.points[Context(Oldest(Pending))] = "queued"
    BY <1>4, OldestShape DEF Serving, Overtaken, Pending
  <2>2. Context(Oldest(Pending)) \in Contexts
    BY <1>1, <2>1, ContextShape
  <2>3. ~AllAnswered
    BY <2>1, <2>2 DEF AllAnswered, Answered, Stored
  <2>4. \A j \in Attempts : Idling(j)
    BY <1>1, <1>4, NobodyLives, NoWitness DEF Serving, OneInv
  <2>5. Witnessed
    BY <2>4 DEF Witnessed, Idling
  <2> QED
    BY <1>2, <2>3, <2>5, SameBalances
<1>5. CASE ~Serving /\ ~Overtaken
  <2>1. attempt' = attempts /\ row' = row
    BY <1>5 DEF ServeQueue
  <2>2. Witnessed
    BY <2>1 DEF Witnessed, Idling, Completes, Runs, Stops
  <2> QED
    BY <2>1, <2>2, SameBalances
<1> QED
  BY <1>3, <1>4, <1>5

LEMMA ClaimBalances ==
  ASSUME AnswerInv, NEW i \in Attempts, ClaimLog(i) \/ Admit(i), UNCHANGED cancel
  PROVE  Balanced
<1>1. TypeOK /\ attempt[i] \in Doings /\ DOMAIN attempt = Attempts
  BY DEF AnswerInv, OneInv, TypeOK
<1>2. ~Completes(i) /\ ~Stops(i)
  BY DEF ClaimLog, Admit, Completes, Stops, Phase
<1>3. row' = row
  BY DEF ClaimLog, Admit
<1>4. CASE ClaimLog(i) /\ Claimable
  <2>1. attempt'[i].pc = "admitting" /\ log' = "running"
    BY <1>1, <1>4 DEF ClaimLog, Goes, Doings
  <2> QED
    BY <2>1 DEF Balanced, Finishing, Taken, Runs
<1>5. CASE ClaimLog(i) /\ ~Claimable
  <2>1. Idling(i)
    BY <1>2, <1>5 DEF ClaimLog, Runs, Idling
  <2> DEFINE r == [attempt[i] EXCEPT !.pc = "settling", !.outcome = "reject"]
  <2>2. attempt' = [attempt EXCEPT ![i] = r] /\ log' = log
    BY <1>1, <1>5 DEF ClaimLog, Ends
  <2> HIDE DEF r
  <2> QED
    BY <1>1, <1>3, <2>1, <2>2, OneWitness, SameBalances
<1>6. CASE Admit(i)
  <2>1. Runs(i)' /\ \A j \in Attempts \ {i} : attempt'[j] = attempt[j]
    <3>1. CASE Goes(i, "running")
      BY <1>1, <3>1 DEF Goes, Doings, Runs
    <3>2. ASSUME NEW o \in Refusals, Ends(i, "settling", o)
          PROVE  Runs(i)' /\ \A j \in Attempts \ {i} : attempt'[j] = attempt[j]
      BY <1>1, <3>2 DEF Ends, Doings, Runs
    <3> QED
      BY <1>6, <3>1, <3>2 DEF Admit
  <2>2. Witnessed
    BY <1>2, <2>1 DEF Witnessed, Completes, Runs, Stops
  <2> QED
    BY <1>3, <1>6, <2>2, SameBalances DEF Admit
<1> QED
  BY <1>4, <1>5, <1>6

LEMMA EngineBalances ==
  ASSUME AnswerInv, ~Closed, NEW i \in Attempts, EngineEnds(i), UNCHANGED cancel
  PROVE  (Finishing => Finishing') /\ (Succeeds /\ Taken => Taken')
<1>1. TypeOK /\ attempt[i] \in Doings /\ attempt[i].pc = "running" /\ row' = row
  BY DEF AnswerInv, OneInv, TypeOK, EngineEnds
<1>2. PICK o \in IF i = Run THEN {"paused"} ELSE Outcomes, fresh \in SUBSET Contexts :
        /\ log' = LogAfter(o)
        /\ attempt' = [attempt EXCEPT
             ![i].pc = IF o \in {"completed", "paused"} THEN "ended" ELSE "settling",
             ![i].outcome = o, ![i].fresh = fresh]
  BY DEF EngineEnds
<1> DEFINE pc == IF o \in {"completed", "paused"} THEN "ended" ELSE "settling"
           r == [attempt[i] EXCEPT !.pc = pc, !.outcome = o, !.fresh = fresh]
<1>3. attempt' = [attempt EXCEPT ![i] = r]
  BY <1>1, <1>2 DEF TypeOK
<1>4. r.pc = pc /\ r.outcome = o
  BY <1>1 DEF Doings
<1> HIDE DEF r
<1>5. attempt'[i] = r /\ \A j \in Attempts \ {i} : attempt'[j] = attempt[j]
  BY <1>1, <1>3, GoesOne
<1>6. i = Run \/ i \in Ids
  BY DEF Attempts
<1>7. ~Completes(i) /\ ~Stops(i)
  BY <1>1 DEF Completes, Stops, Phase
<1>8. Closed' = Closed /\ Resumable' = Resumable /\ AllAnswered' = AllAnswered
  BY <1>1 DEF Closed, Resumable, AllAnswered
<1>9. CASE o = "completed"
  <2>1. i \in Ids /\ Completes(i)'
    BY <1>2, <1>4, <1>5, <1>6, <1>9 DEF Completes, Phase
  <2>2. log' \in {"completed", "cancelled"} /\ (log' = "cancelled" => log = "cancelled")
    BY <1>2, <1>9 DEF LogAfter
  <2>3. \A j \in Ids : Stops(j) => Stops(j)'
    BY <1>5, <1>7, RunIsNoEntry DEF Stops
  <2> QED
    BY <1>8, <2>1, <2>2, <2>3 DEF Finishing, Taken
<1>10. CASE o # "completed"
  <2>1. log' = "completed" => log = "completed"
    BY <1>2, <1>10 DEF LogAfter
  <2>2. \A j \in Ids : /\ Completes(j) => Completes(j)'
                       /\ Stops(j) => Stops(j)'
    BY <1>5, <1>7, RunIsNoEntry DEF Completes, Stops
  <2>3. Finishing => Finishing'
    BY <1>8, <2>1, <2>2 DEF Finishing
  <2>4. ASSUME Succeeds, Taken PROVE Taken'
    <3>1. o = "paused" \/ (o = "cancelled" /\ i \in Ids)
      BY <1>2, <1>6, <1>10, <2>4 DEF Succeeds
    <3>2. /\ log' # "running"
          /\ log' = "failed" => log = "failed"
          /\ log' = "cancelled" => log = "cancelled" \/ o = "cancelled"
      BY <1>2, <3>1 DEF LogAfter
    <3>3. o = "cancelled" => i \in Ids /\ Stops(i)'
      BY <1>4, <1>5, <3>1 DEF Stops
    <3> QED
      BY <1>8, <2>2, <2>4, <3>2, <3>3 DEF Taken
  <2> QED
    BY <2>3, <2>4
<1> QED
  BY <1>9, <1>10

\* An attempt that has ended the engine's run, or has given up, and what it knows of it.
LEMMA EndedAccounts ==
  ASSUME AnswerInv, Ledger, ~Closed, Finishing, NEW i \in Ids, Phase(attempt[i]) # "out",
         row.points[Context(i)] = "resuming", log = "completed"
  PROVE  Completes(i)
<1>1. Context(i) \in Contexts
  BY ContextShape DEF AnswerInv, OneInv
<1>2. ~AllAnswered
  BY <1>1 DEF AllAnswered, Answered, Stored
<1>3. \A j \in Ids \ {i} : ~Completes(j)
  BY OthersAreOut DEF Completes
<1> QED
  BY <1>2, <1>3 DEF Finishing

LEMMA UpdateBalances ==
  ASSUME AnswerInv, NEW i \in Attempts, UpdateSnapshot(i), UNCHANGED cancel
  PROVE  Balanced
<1>1. TypeOK /\ attempt[i] \in Doings /\ row \in Rows
  BY DEF AnswerInv, OneInv, TypeOK
<1> DEFINE r == [attempt[i] EXCEPT !.pc = "settling"]
<1>2. attempt' = [attempt EXCEPT ![i] = r]
  BY <1>1 DEF UpdateSnapshot, Goes, TypeOK
<1>3. r.pc = "settling" /\ r.outcome = "completed"
  BY <1>1 DEF UpdateSnapshot, Doings
<1> HIDE DEF r
<1>4. attempt'[i] = r /\ \A j \in Attempts \ {i} : attempt'[j] = attempt[j]
  BY <1>1, <1>2, GoesOne
<1>5. Completes(i)' /\ ~Runs(i) /\ ~Stops(i)
  BY <1>3, <1>4 DEF UpdateSnapshot, Completes, Phase, Runs, Stops
<1>6. Witnessed
  BY <1>4, <1>5 DEF Witnessed, Completes, Runs, Stops
<1>7. row'.status = row.status /\ row'.points = row.points /\ log' = log
  BY <1>1 DEF UpdateSnapshot, Rows
<1> QED
  BY <1>6, <1>7, SameBalances

LEMMA PersistBalances ==
  ASSUME AnswerInv, Ledger, ~Closed, ~Closed', NEW i \in Attempts, PersistPause(i),
         UNCHANGED cancel
  PROVE  Balanced
<1>1. TypeOK /\ attempt[i] \in Doings /\ row \in Rows
  BY DEF AnswerInv, OneInv, TypeOK
<1>2. attempt[i].pc = "ended" /\ attempt[i].outcome = "paused" /\ log' = log
  BY DEF PersistPause
<1>3. Idling(i)
  BY <1>2 DEF Idling, Completes, Runs, Stops
<1>4. Witnessed
  <2> DEFINE r == [attempt[i] EXCEPT !.pc = "persisted"]
  <2>1. attempt' = [attempt EXCEPT ![i] = r]
    BY <1>1 DEF PersistPause, Goes, TypeOK
  <2> HIDE DEF r
  <2> QED
    BY <1>1, <1>3, <2>1, OneWitness
<1>5. ASSUME Finishing PROVE log # "completed"
  <2>1. CASE i = Run
    BY <1>2, <2>1 DEF AnswerInv, OneInv, RunFirst, Ledger, Blank
  <2>2. CASE i \in Ids
    <3>1. Phase(attempt[i]) = "ended"
      BY <1>2 DEF Phase
    <3>2. row.points[Context(i)] = "resuming"
      BY <2>2, <3>1 DEF Ledger, Sound
    <3> QED
      BY <1>3, <1>5, <2>2, <3>1, <3>2, EndedAccounts DEF Idling
  <2> QED
    BY <2>1, <2>2 DEF Attempts
<1>6. log = "cancelled" => row' = row
  BY <1>1 DEF PersistPause, Rows, Closed
<1>7. log = "cancelled" => row.status = "none"
  BY <1>1 DEF PersistPause, Rows, Closed
<1>8. ASSUME Taken PROVE Taken'
  <2>1. (\E j \in Attempts : Runs(j)) => \E j \in Attempts : Runs(j)'
    BY <1>4 DEF Witnessed
  <2> QED
    BY <1>2, <1>6, <1>7, <1>8, <2>1 DEF Taken, Resumable
<1> QED
  BY <1>2, <1>5, <1>8 DEF Balanced, Finishing

\* Counting the last answer.
LEMMA LastAnswer ==
  ASSUME row \in Rows, CountsAgree, NEW c \in Contexts, row.points[c] = "resuming",
         row'.points = [row.points EXCEPT ![c] = "resumed"],
         ~LeavesPoints(row.resumed + 1, Cardinality(Stored(row.points)))
  PROVE  AllAnswered'
<1>1. row.points \in [Contexts -> PointStates] /\ row'.points \in [Contexts -> PointStates]
  BY DEF Rows, PointStates
<1>2. Cardinality(Answered(row'.points)) = row.resumed + 1
  BY <1>1, OneMore DEF CountsAgree
<1>3. Stored(row'.points) = Stored(row.points)
  BY <1>1 DEF Stored
<1>4. Answered(row'.points) \subseteq Stored(row'.points) /\ IsFiniteSet(Stored(row'.points))
  BY FS_Subset DEF Answered, Stored
<1>5. /\ Cardinality(Answered(row'.points)) <= Cardinality(Stored(row'.points))
      /\ Cardinality(Stored(row'.points)) = Cardinality(Answered(row'.points))
           => Stored(row'.points) = Answered(row'.points)
  BY <1>4, FS_Subset
<1>6. Cardinality(Stored(row'.points)) \in Nat /\ row.resumed \in Nat
  BY <1>4, FS_CardinalityType DEF Rows
<1>7. Cardinality(Stored(row'.points)) <= row.resumed + 1
  BY <1>3, <1>6 DEF LeavesPoints
<1>8. Cardinality(Stored(row'.points)) = Cardinality(Answered(row'.points))
  BY <1>2, <1>5, <1>6, <1>7
<1> QED
  BY <1>5, <1>8 DEF AllAnswered

LEMMA MarkCompletedBalances ==
  ASSUME AnswerInv, Ledger, ~Closed, ~Closed', NEW i \in Attempts, MarkCompleted(i),
         UNCHANGED cancel
  PROVE  Balanced
<1>1. TypeOK /\ attempt[i] \in Doings /\ row \in Rows
  BY DEF AnswerInv, OneInv, TypeOK
<1>2. i \in Ids /\ attempt[i].pc = "settling" /\ Phase(attempt[i]) # "out"
  BY MarkIs
<1>3. queue[i].status = "claimed"
  BY <1>2, OthersAreOut DEF Closed, Claimed
<1>4. attempt[i].outcome \in {"completed", "paused"} /\ ~Runs(i) /\ ~Stops(i)
  BY <1>2 DEF MarkCompleted, Runs, Stops, AdmissionFailures
<1>5. ~CancelWon
  <2>1. RowCancelled.status = "cancelled"
    BY <1>1 DEF RowCancelled, Rows
  <2> QED
    BY <2>1 DEF MarkCompleted, CancelWon, Closed
<1> DEFINE r == [attempt[i] EXCEPT !.pc = "draining"]
<1>6. attempt' = [attempt EXCEPT ![i] = r]
  BY <1>1 DEF MarkCompleted, Goes, TypeOK
<1> HIDE DEF r
<1>7. CASE attempt[i].outcome = "paused"
  <2>1. UNCHANGED <<log, row>>
    BY <1>3, <1>5, <1>7 DEF MarkCompleted, SettledByPause
  <2>2. Idling(i)
    BY <1>4, <1>7 DEF Idling, Completes
  <2> QED
    BY <1>1, <1>6, <2>1, <2>2, OneWitness, SameBalances
<1>8. CASE attempt[i].outcome = "completed"
  <2> DEFINE c == Context(i)
             resumed == row.resumed + 1
             total == Cardinality(Stored(row.points))
             status == Progress(resumed, total)
  <2>1. /\ row' = [row EXCEPT !.points[c] = "resumed", !.resumed = resumed, !.retries = 0,
                              !.status = status]
        /\ log' = IF LeavesPoints(resumed, total) THEN "pending" ELSE log
    BY <1>3, <1>5, <1>8, Zenon DEF MarkCompleted, SettledByPause
  <2>2. c \in Contexts /\ row.points[c] = "resuming"
    BY <1>1, <1>2, <1>8, ContextShape DEF Ledger, Sound, Phase
  <2> HIDE DEF status, resumed, total, c
  <2>3. row'.points = [row.points EXCEPT ![c] = "resumed"]
    BY <1>1, <2>1 DEF Rows
  <2>4. ~LeavesPoints(resumed, total) => AllAnswered'
    BY <1>1, <2>2, <2>3, LastAnswer DEF resumed, total, Ledger
  <2>5. Finishing'
    BY <2>1, <2>4 DEF Finishing
  <2>6. \A j \in Attempts : Runs(j) => Runs(j)'
    BY <1>1, <1>4, <1>6, GoesOne DEF Runs
  <2>7. log # "cancelled" /\ log' \in {log, "pending"}
    BY <1>5, <2>1 DEF CancelWon
  <2>8. Taken => Taken'
    BY <2>6, <2>7 DEF Taken
  <2> QED
    BY <2>5, <2>8 DEF Balanced
<1> QED
  BY <1>4, <1>7, <1>8

LEMMA MarkAttemptBalances ==
  ASSUME AnswerInv, Ledger, ~Closed, ~Closed', NEW i \in Attempts, MarkAttemptFailed(i)
  PROVE  Balanced
<1>1. TypeOK /\ row \in Rows
  BY DEF AnswerInv, OneInv, TypeOK
<1>2. i \in Ids /\ attempt[i].pc = "settling" /\ Phase(attempt[i]) # "out"
  BY MarkIs
<1>3. attempt[i].outcome \in AdmissionFailures \cup {"cancelled", "timeout"}
  BY DEF MarkAttemptFailed
<1>4. ~(log = "cancelled" \/ row.status = "cancelled")
  <2>1. RowCancelled.status = "cancelled"
    BY <1>1 DEF RowCancelled, Rows
  <2> QED
    BY <2>1 DEF MarkAttemptFailed, Closed
<1>5. log' = IF row.status = "cancelling" \/ log \in {"failed", "completed"} THEN log ELSE "paused"
  BY <1>4, Zenon DEF MarkAttemptFailed
<1>6. log' \in {"failed", "completed", "paused"} /\ (log' # "paused" => log' = log)
  BY <1>5 DEF Closed
<1>7. Finishing => log # "completed"
  <2>1. ~Completes(i)
    BY <1>3 DEF Completes, AdmissionFailures
  <2>2. row.points[Context(i)] = "resuming"
    BY <1>2, <1>3 DEF Ledger, Sound, Phase, AdmissionFailures
  <2> QED
    BY <1>2, <2>1, <2>2, EndedAccounts
<1>8. Finishing => Finishing'
  BY <1>6, <1>7 DEF Finishing
<1>9. Taken => Taken'
  BY <1>6 DEF Taken
<1> QED
  BY <1>8, <1>9 DEF Balanced

LEMMA AttemptingBalances ==
  ASSUME AnswerInv, Ledger, ~Closed, ~Closed', NEW i \in Attempts, Attempting(i),
         UNCHANGED cancel
  PROVE  (Finishing => Finishing') /\ (Succeeds /\ Unfailing /\ Taken => Taken')
<1>1. TypeOK /\ attempt \in [Attempts -> Doings] /\ attempt[i] \in Doings /\ row \in Rows
  BY DEF AnswerInv, OneInv, TypeOK
<1>2. CASE ClaimLog(i) \/ Admit(i)
  BY <1>2, ClaimBalances DEF Balanced
<1>3. CASE EngineEnds(i)
  BY <1>3, EngineBalances
<1>4. CASE UpdateSnapshot(i) \/ PersistPause(i)
  BY <1>4, UpdateBalances, PersistBalances DEF Balanced
<1>5. CASE PauseServed(i) \/ Drain(i)
  <2>1. Idling(i)
    BY <1>5 DEF PauseServed, Drain, Idling, Completes, Runs, Stops, Phase
  <2>2. \E attempts \in [Attempts -> Doings] :
          /\ ServeQueue(attempts)
          /\ \A j \in Attempts \ {i} : attempts[j] = attempt[j]
    <3> DEFINE served == [attempt EXCEPT ![i] = IF i = Run THEN Idle ELSE [@ EXCEPT !.pc = "settling"]]
               drained == [attempt EXCEPT ![i] = Idle]
    <3>1. Idle \in Doings
      BY DEF Idle, Doings
    <3>2. drained \in [Attempts -> Doings] /\ \A j \in Attempts \ {i} : drained[j] = attempt[j]
      BY <1>1, <3>1
    <3>3. [attempt[i] EXCEPT !.pc = "settling"] \in Doings
      BY <1>1 DEF Doings
    <3>4. served \in [Attempts -> Doings] /\ \A j \in Attempts \ {i} : served[j] = attempt[j]
      BY <1>1, <3>1, <3>3
    <3>5. ServeQueue(attempt) \/ ServeQueue(served) \/ ServeQueue(drained)
      BY <1>5 DEF PauseServed, Drain
    <3> HIDE DEF served, drained
    <3> QED
      BY <1>1, <3>2, <3>4, <3>5
  <2>3. log' = log
    BY <1>5 DEF PauseServed, Drain
  <2> QED
    BY <2>1, <2>2, <2>3, ServeBalances DEF Balanced
<1>6. CASE MarkCompleted(i) \/ MarkAttemptFailed(i)
  BY <1>6, MarkCompletedBalances, MarkAttemptBalances DEF Balanced
<1>7. CASE MarkFailed(i)
  <2>1. RowCancelled.status = "cancelled"
    BY <1>1 DEF RowCancelled, Rows
  <2>2. log' = "failed" /\ attempt[i].outcome = "failed"
    BY <1>7, <2>1 DEF MarkFailed, Closed
  <2> QED
    BY <2>2 DEF Finishing, Unfailing
<1>8. CASE CheckCancellation(i)
  <2>1. UNCHANGED <<log, row>>
    BY <1>8 DEF CheckCancellation, Closed
  <2>2. Idling(i)
    BY <1>8 DEF CheckCancellation, Idling, Completes, Runs, Stops, Phase
  <2> DEFINE r == [attempt[i] EXCEPT !.pc = "draining"]
  <2>3. attempt' = [attempt EXCEPT ![i] = r]
    BY <1>1, <1>8 DEF CheckCancellation, Goes
  <2> HIDE DEF r
  <2>4. Witnessed
    BY <1>1, <2>2, <2>3, OneWitness
  <2> QED
    BY <2>1, <2>4, SameBalances DEF Balanced
<1> QED
  BY <1>2, <1>3, <1>4, <1>5, <1>6, <1>7, <1>8 DEF Attempting

LEMMA CancellingBalances ==
  ASSUME AnswerInv, Forward, ~Closed, ~Closed', NEW k \in Cancellers, Cancelling(k)
  PROVE  Balanced
<1>1. TypeOK /\ attempt \in [Attempts -> Doings] /\ row \in Rows
  BY DEF AnswerInv, OneInv, TypeOK
<1>2. ~TurnBack(k)
  BY DEF TurnBack, AnswerInv, Straight, Forward, Quiet
<1>3. ASSUME cancel[k].pc # "confirming", \A j \in Cancellers \ {k} : cancel'[j] = cancel[j]
      PROVE  \A j \in Cancellers : cancel[j].pc = "confirming" => cancel'[j].pc = "confirming"
  BY <1>3
<1>4. DOMAIN cancel = Cancellers
  BY <1>1 DEF TypeOK
<1>5. RowCancelled.status = "cancelled" /\ [row EXCEPT !.status = "cancelling"].status = "cancelling"
  BY <1>1 DEF RowCancelled, Rows
<1>6. CASE StageFirst(k) \/ Confirm(k)
  <2>1. ~CanStage /\ UNCHANGED <<log, row, attempt>>
    BY <1>5, <1>6 DEF StageFirst, Confirm, Stage, Closed
  <2>2. \A j \in Cancellers \ {k} : cancel'[j] = cancel[j]
    BY <1>4, <1>6 DEF StageFirst, Confirm, CancelGoes
  <2>3. CASE cancel[k].pc # "confirming"
    BY <1>3, <2>1, <2>2, <2>3, SameWitness, SameBalances
  <2>4. CASE cancel[k].pc = "confirming"
    <3>1. log = "cancelled" => ~Resumable
      BY <2>1 DEF CanStage, Resumable
    <3>2. \A j \in Attempts : Runs(j)' = Runs(j) /\ Completes(j)' = Completes(j)
      BY <2>1 DEF Runs, Completes
    <3>3. Closed' = Closed /\ Resumable' = Resumable /\ AllAnswered' = AllAnswered
      BY <2>1 DEF Closed, Resumable, AllAnswered
    <3>4. Finishing => Finishing'
      BY <2>1, <3>2, <3>3, RunIsNoEntry DEF Finishing
    <3>5. Taken => Taken'
      BY <2>1, <3>1, <3>2, <3>3 DEF Taken
    <3> QED
      BY <3>4, <3>5 DEF Balanced
  <2> QED
    BY <2>3, <2>4
<1>7. CASE ServeAfter(k)
  <2>1. \A j \in Cancellers \ {k} : cancel'[j] = cancel[j]
    BY <1>4, <1>7 DEF ServeAfter, CancelGoes
  <2> QED
    BY <1>1, <1>3, <1>7, <2>1, ServeBalances DEF ServeAfter
<1>8. CASE ClaimCancellation(k)
  <2>1. \A j \in Cancellers \ {k} : cancel'[j] = cancel[j]
    BY <1>4, <1>8 DEF ClaimCancellation, CancelGoes
  <2>2. CASE log \in {"running", "pending", "cancelled"}
    <3>1. log' = "cancelled" /\ CancelGoes(k, "confirming")
      BY <1>8, <2>2 DEF ClaimCancellation
    <3>2. cancel'[k].pc = "confirming"
      BY <1>1, <3>1, CancelMoves
    <3> QED
      BY <3>1, <3>2 DEF Balanced, Finishing, Taken
  <2>3. CASE log \notin {"running", "pending", "cancelled"}
    BY <1>3, <1>8, <2>1, <2>3, SameWitness, SameBalances DEF ClaimCancellation
  <2> QED
    BY <2>2, <2>3
<1>9. CASE Complete(k)
  <2>1. UNCHANGED <<log, row, attempt>>
    BY <1>5, <1>9 DEF Complete, CompletePausedCancellation, Closed
  <2>2. \A j \in Cancellers \ {k} : cancel'[j] = cancel[j]
    BY <1>4, <1>9 DEF Complete, CancelGoes
  <2> QED
    BY <1>3, <1>9, <2>1, <2>2, SameWitness, SameBalances DEF Complete
<1>10. CASE Finalize(k)
  <2>1. row' = RowCancelled \/ row' = row
    BY <1>10, Zenon DEF Finalize
  <2>2. row' = row
    BY <1>5, <2>1 DEF Closed
  <2>3. UNCHANGED <<log, attempt>> /\ cancel[k].pc # "confirming"
    BY <1>10 DEF Finalize
  <2>4. \A j \in Cancellers \ {k} : cancel'[j] = cancel[j]
    BY <1>4, <1>10 DEF Finalize, CancelGoes
  <2> QED
    BY <1>3, <2>2, <2>3, <2>4, SameWitness, SameBalances
<1>11. CASE ReadLog(k) \/ SignalResume(k) \/ SignalRun(k) \/ Publish(k)
  <2>1. UNCHANGED <<log, row, attempt>> /\ cancel[k].pc # "confirming"
    BY <1>11 DEF ReadLog, SignalResume, SignalRun, Publish
  <2>2. \A j \in Cancellers \ {k} : cancel'[j] = cancel[j]
    BY <1>4, <1>11 DEF ReadLog, SignalResume, SignalRun, Publish, CancelGoes
  <2> QED
    BY <1>3, <2>1, <2>2, SameWitness, SameBalances
<1> QED
  BY <1>2, <1>6, <1>7, <1>8, <1>9, <1>10, <1>11 DEF Cancelling

LEMMA PollingBalances ==
  ASSUME AnswerInv, Ledger, ~Closed, Polling
  PROVE  Balanced
<1>1. TypeOK /\ attempt \in [Attempts -> Doings] /\ row \in Rows /\ poll \in Jobs
  BY DEF AnswerInv, OneInv, TypeOK
<1>2. \A k \in Cancellers : cancel[k].pc = "confirming" => cancel'[k].pc = "confirming"
  BY DEF Polling, PollRow, PollServe, PollDispatch, PollRefused, PollClear
<1>3. CASE PollServe
  BY <1>1, <1>2, <1>3, ServeBalances DEF PollServe
<1>4. ASSUME NEW c \in Timed, PollDispatch(c) PROVE Balanced
  <2>1. CASE Admissible(c)
    BY <1>2, <1>4, <2>1, EnqueueBalances DEF PollDispatch
  <2>2. CASE ~Admissible(c)
    BY <1>2, <1>4, <2>2, SameWitness, SameBalances DEF PollDispatch
  <2> QED
    BY <2>1, <2>2
<1>5. CASE PollRefused
  <2>1. row' = row \/ \E c \in poll.todo, again \in BOOLEAN, running \in BOOLEAN :
          row' = [row EXCEPT !.retries = IF again THEN @ + 1 ELSE @, !.due = again,
                             !.points[c] = IF again \/ running THEN @ ELSE "paused"]
    BY <1>5, Zenon DEF PollRefused, Retries
  <2>2. \A c \in poll.todo : c \in Contexts /\ row.points[c] = "paused"
    BY <1>1, <1>5 DEF PollRefused, Jobs, Ledger, Dispatched
  <2>3. row'.status = row.status /\ row'.points = row.points
    <3>1. ASSUME NEW c \in poll.todo, NEW again \in BOOLEAN, NEW running \in BOOLEAN,
                 row' = [row EXCEPT !.retries = IF again THEN @ + 1 ELSE @, !.due = again,
                                    !.points[c] = IF again \/ running THEN @ ELSE "paused"]
          PROVE  row'.status = row.status /\ row'.points = row.points
      <4>1. /\ row'.status = row.status
            /\ row'.points = [row.points EXCEPT ![c] = IF again \/ running THEN @ ELSE "paused"]
        BY <1>1, <3>1 DEF Rows
      <4> QED
        BY <1>1, <2>2, <4>1 DEF Rows
    <3> QED
      BY <2>1, <3>1
  <2>4. UNCHANGED <<log, attempt>>
    BY <1>5 DEF PollRefused
  <2> QED
    BY <1>2, <2>3, <2>4, SameWitness, SameBalances
<1>6. CASE PollRow \/ PollClear
  <2>1. UNCHANGED <<log, attempt>>
    BY <1>6 DEF PollRow, PollClear
  <2>2. row'.status = row.status /\ row'.points = row.points
    BY <1>1, <1>6 DEF PollRow, PollClear, Rows
  <2> QED
    BY <1>2, <2>1, <2>2, SameWitness, SameBalances
<1> QED
  BY <1>3, <1>4, <1>5, <1>6 DEF Polling

LEMMA ManagingBalances ==
  ASSUME AnswerInv, Ledger, ~Closed, ~Closed', ~Crashes, Managing, UNCHANGED cancel
  PROVE  (Finishing => Finishing') /\ (Succeeds /\ Unfailing /\ Taken => Taken')
<1>1. ASSUME NEW c \in Contexts, Resume(c) PROVE Balanced
  BY <1>1, EnqueueBalances DEF Resume
<1>2. CASE RunStops
  <2>1. row.status = "none" /\ log # "completed" /\ row' = row
    BY <1>2 DEF RunStops, AnswerInv, OneInv, RunFirst, Ledger, Blank
  <2>2. log' \in {"cancelled", "failed"} /\ (log' = "failed" => log = "failed")
    BY <1>2, <2>1 DEF RunStops, LogAfter
  <2> QED
    BY <2>1, <2>2 DEF Finishing, Taken, Resumable
<1>3. CASE SweepStale
  <2>1. \A i \in Attempts : ~Runs(i)
    BY <1>3 DEF SweepStale, Working, Runs
  <2>2. log = "running" /\ log' = "failed"
    BY <1>3 DEF SweepStale
  <2> QED
    BY <2>1, <2>2 DEF Finishing, Taken
<1>4. \A i \in Attempts : ~Crash(i)
  BY DEF Crash
<1> QED
  BY <1>1, <1>2, <1>3, <1>4, AttemptingBalances DEF Managing, Balanced

LEMMA AccountInit == RunInit => AccountInv
<1> SUFFICES ASSUME RunInit PROVE AccountInv
  OBVIOUS
<1>1. AnswerInv /\ log = "running" /\ row.status = "none" /\ stop = {}
  BY AnswerInit DEF RunInit, Init, NoRow
<1>2. attempt[Run].pc = "running" /\ \A i \in Attempts : attempt[i].outcome = "none"
  BY RunIsNoEntry DEF RunInit, Init, Idle
<1>3. Runs(Run)
  BY <1>2 DEF Runs
<1> QED
  BY <1>1, <1>2, <1>3, RunIsNoEntry
     DEF AccountInv, Uncancelled, Closed, Finishing, Unfailing, Taken

LEMMA AccountNext == AccountInv /\ [RunNext]_runVars => AccountInv'
<1> SUFFICES ASSUME AccountInv, [RunNext]_runVars PROVE AccountInv'
  OBVIOUS
<1>1. AnswerInv /\ AnswerInv' /\ TypeOK
  BY AnswerNext DEF AccountInv, AnswerInv, OneInv
<1>2. Onward
  BY <1>1, StepOnward
<1>3. (Quiet' => Quiet) /\ (Forward' => Forward)
  BY <1>2 DEF Onward, Forward, Quiet
<1>4. Quiet' => Uncancelled'
  BY <1>1, <1>3, UncancelledNext DEF AccountInv
<1>5. ASSUME ~Crashes, Forward
      PROVE  (Finishing => Finishing') /\ (Succeeds /\ Unfailing /\ Taken => Taken')
  <2>1. CASE Closed'
    BY <2>1, ClosedBalances
  <2>2. CASE ~Closed'
    <3>1. ~Closed /\ Ledger
      BY <1>1, <1>5, <2>2, StepClosed DEF AnswerInv
    <3>2. CASE Managing /\ UNCHANGED <<cancel, poll>>
      BY <1>1, <1>5, <2>2, <3>1, <3>2, ManagingBalances
    <3>3. ASSUME NEW k \in Cancellers, Cancelling(k) \/ CancelCrash(k) PROVE Balanced
      BY <1>1, <1>5, <2>2, <3>1, <3>3, CancellingBalances DEF CancelCrash
    <3>4. CASE Polling \/ PollCrash
      BY <1>1, <1>5, <3>1, <3>4, PollingBalances DEF PollCrash, Balanced
    <3>5. CASE UNCHANGED runVars
      BY <3>5, SameWitness, SameBalances DEF runVars, Balanced
    <3> QED
      BY <3>2, <3>3, <3>4, <3>5 DEF RunNext, Balanced
  <2> QED
    BY <2>1, <2>2
<1>6. Succeeds /\ Unfailing => Unfailing'
  BY <1>1, StepFares, FaresOn
<1>7. ~Crashes /\ Forward' => Finishing'
  BY <1>3, <1>5 DEF AccountInv
<1>8. Steady' = Steady /\ Succeeds' = Succeeds /\ (Steady => Forward)
  BY DEF Steady, Succeeds, Forward
<1>9. ~Crashes /\ Steady /\ Succeeds => Unfailing' /\ Taken'
  BY <1>5, <1>6, <1>8 DEF AccountInv
<1> QED
  BY <1>1, <1>4, <1>7, <1>8, <1>9 DEF AccountInv

LEMMA Accounts == RunSpec => []AccountInv
  BY AccountInit, AccountNext, PTL DEF RunSpec

------------------------------------------------------------------------------
(* What follows for the answers.                                            *)

\* The count by which the run's end is told is that of the answered points, with
\* processes dying anywhere, until a cancellation may be taken back.
THEOREM EveryAnswerCounts == RunSpec => [](Forward => CountsAgree)
<1>1. AnswerInv => (Forward => CountsAgree)
  BY DEF AnswerInv, Ledger
<1> QED
  BY <1>1, AnswersAreKept, PTL

\* An attempt that runs the engine has been given a snapshot that holds every answer
\* so far: what was resumed beside it, or before it, is not lost.
THEOREM NoAnswerIsLost == RunSpec => [](Forward => SeesEveryAnswer)
<1>1. AnswerInv => (Forward => SeesEveryAnswer)
  <2> SUFFICES ASSUME AnswerInv, Forward, NEW i \in Ids \cap Executing
               PROVE  Answered(row.points) \subseteq attempt[i].seen
    BY DEF SeesEveryAnswer
  <2>1. Phase(attempt[i]) = "before"
    BY DEF Executing, Phase
  <2> QED
    BY <2>1 DEF AnswerInv, Ledger, Sound
<1> QED
  BY <1>1, AnswersAreKept, PTL

\* The engine goes on from an answer once, however often its attempt is refused, dies
\* or is tried again.
THEOREM NoAnswerTwice == RunSpec => [](Forward => AnsweredOnce)
<1>1. AnswerInv => (Forward => AnsweredOnce)
  BY DEF AnswerInv, Ledger
<1> QED
  BY <1>1, AnswersAreKept, PTL

\* A point is queued exactly when an entry of the queue waits for it.
THEOREM WhoIsQueuedWaits == RunSpec => [](Forward => QueuedWaits)
<1>1. AnswerInv => (Forward => QueuedWaits)
  BY DEF AnswerInv, Ledger, Waiting, QueuedWaits, Resumable, Closed
<1> QED
  BY <1>1, AnswersAreKept, PTL

\* Where no process dies, a run that nobody asked to cancel and that says it is
\* completed has had all of its answers.
THEOREM CompletedRunIsAnswered == ~Crashes => (RunSpec => []CompletedIsAnswered)
<1> SUFFICES ASSUME ~Crashes PROVE RunSpec => []CompletedIsAnswered
  OBVIOUS
<1>1. AccountInv => CompletedIsAnswered
  <2> SUFFICES ASSUME AccountInv, log = "completed", Working = {}, Quiet PROVE AllAnswered
    BY DEF CompletedIsAnswered, AllAnswered, Quiet
  <2>1. ~Closed /\ Finishing
    BY DEF AccountInv, Uncancelled, Forward
  <2>2. \A i \in Ids : attempt[i].pc = "idle"
    BY RunIsNoEntry DEF Working
  <2>3. \A i \in Ids : ~Completes(i)
    BY <2>2 DEF Completes, Phase
  <2> QED
    BY <2>1, <2>3 DEF Finishing
<1> QED
  BY <1>1, Accounts, PTL

\* Where no process dies, no resume fails and no cancellation is taken back, a run
\* with a paused point and nothing under way can be claimed: its log is never left
\* running, completed or cancelled beside answers that are still to come, nor is it
\* failed while the pause can be resumed.
THEOREM PausedRunIsClaimable ==
  ~Crashes /\ Steady /\ Succeeds =>
    (RunSpec => [](StillClaimable /\ (Resumable => log # "failed")))
<1> SUFFICES ASSUME ~Crashes, Steady, Succeeds
             PROVE  RunSpec => [](StillClaimable /\ (Resumable => log # "failed"))
  OBVIOUS
<1>1. AccountInv => StillClaimable
  <2> SUFFICES ASSUME AccountInv, Resumable, NEW c \in Contexts, row.points[c] = "paused",
                      Working = {}, \A k \in Cancellers : cancel[k].pc \in {"idle", "done"}
               PROVE  Claimable
    BY DEF StillClaimable
  <2>1. Finishing /\ Taken /\ log \in Logs
    BY DEF AccountInv, Forward, AnswerInv, OneInv, TypeOK
  <2>2. \A i \in Attempts : attempt[i].pc = "idle"
    BY DEF Working
  <2>3. \A i \in Attempts : Idling(i)
    BY <2>2 DEF Idling, Completes, Runs, Stops, Phase
  <2>4. ~Closed /\ ~AllAnswered
    BY DEF Closed, Resumable, AllAnswered, Answered, Stored
  <2>5. log \notin {"completed", "running", "failed"}
    BY <2>1, <2>3, <2>4, RunIsNoEntry DEF Finishing, Taken, Idling
  <2>6. log # "cancelled"
    BY <2>1, <2>3, RunIsNoEntry DEF Taken, Idling
  <2> QED
    BY <2>1, <2>5, <2>6 DEF Claimable, Logs
<1>2. AccountInv => (Resumable => log # "failed")
  BY DEF AccountInv, Taken, Closed, Resumable
<1> QED
  BY <1>1, <1>2, Accounts, PTL
==============================================================================
