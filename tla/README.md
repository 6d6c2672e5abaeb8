# Models of the labbai workflow executor and the services around a run

labbai-sim is a workflow automation platform: users draw workflows of blocks
(model calls, tools, conditions, loops, parallels), and the server runs them. This
directory holds TLA+ models of the parts whose correctness depends on the order in
which things happen, the TLC configurations that check the models on small
instances, and theorems about them that TLAPS checks for every instance.

Paths are relative to the repository. `app/` below is `apps/labbai/`.

    tlc -workers 2 -config MCOutcomes.cfg MCOutcomes.tla   # a run
    tlapm ExecutionEngineProofs.tla                        # the proofs of a module

`PROJECT.json` names the source lines behind every definition, the runs, the
mutants (a change of the code's logic that each property must notice), the hazards
and the theorems.

## 1. The system

### The executor (`app/executor`)

| Part | State it keeps | Operations | What makes it correct |
|---|---|---|---|
| **DAG construction** (`dag/`) | the DAG: nodes with outgoing edges and the set of sources they await | `DAGBuilder.build`: reachability from the trigger, one node per enabled block, two sentinels per loop or parallel, edges across their boundaries rewired to the sentinels, the back edge and the bypass of a skipped one | what is reachable in the drawing is reachable in the DAG, and only inputs that can arrive are awaited |
| **Edge manager** (`execution/edge-manager.ts`) | `incomingEdges` of every node, `deactivatedEdges`, `nodesWithActivatedEdge` | `processOutgoingEdges`: take the edges an output selects, deactivate the others with everything only they led to, return the nodes that became ready | a node runs when, and only when, everything that may still reach it has, and something selected it |
| **Engine** (`execution/engine.ts`) | ready queue, executions in flight, the queue lock (a chain of promises), paused blocks, final output, flags for failure, cancellation, early stop and a locked Response | `run`: launch what is ready, wait for any execution, repeat; `handleNodeCompletion` under the lock; cancellation by signal or Redis channel | the run ends; its outcome is final; no block is started twice or after a Response |
| **Node and loop orchestrators** (`orchestrators/`) | `loopExecutions`: iteration, outputs of the current iteration, of all iterations, whether the loop was skipped | sentinels evaluate conditions and iterate; between iterations marks, edges and nested scopes are reset | iterations do not leak into each other, and a counted loop yields one result per iteration |
| **Parallel orchestrator** (`orchestrators/parallel.ts`, `utils/parallel-expansion.ts`) | `parallelExecutions`: total branches, where the batch starts, its outputs and those before; the graph itself | the start sentinel makes or reuses the nodes of a batch and rewires the sentinels; the end sentinel gathers outputs and goes back for the next batch | every branch has its result, and a batch sees nothing of the one before |
| **Block executor and handlers** | `blockStates`, `executedBlocks` | run a block, turn a failure into an output if it has an error edge, otherwise fail the run | a failure takes one way or the other |
| **Run from block** (`execution/executor.ts`, `utils/run-from-block.ts`) | the state of an earlier run, the dirty set | re-run everything downstream of a block, answer everything upstream from the stored state | no output of one run is mixed with those of the other |

An execution context ties these together. The engine launches a node without
awaiting it; the node orchestrator awaits the block executor and returns an output;
the engine takes the queue lock, awaits the orchestrator's bookkeeping, calls the
edge manager and adds what became ready to the queue. Everything runs on one
JavaScript thread, so the hard part is what may happen at each `await`: other blocks
finish, fail, pause or respond, and somebody cancels.

### Runs that pause, and their cancellation

A run that reaches a human-in-the-loop or wait block ends with a snapshot.
`human-in-the-loop-manager.ts` stores it with the state of every pause point, takes
answers in any order, queues them and resumes the run one answer at a time.
`cancel-workflow-execution.ts` cancels a run in steps of one transaction each: it
stages the cancellation on the paused row, signals the process that may be running,
claims the log, publishes the event and completes, or takes the staging back. A cron
job dispatches pauses whose time has come, and another fails runs without a sign of
life. They share three records in the database, the log, the paused row and the
resume queue, and processes die between their transactions. It is correct if one
attempt runs at a time, from a snapshot with every answer before it; no answer is
acted on twice or lost; what is cancelled stays so; and nobody waits for ever.

### The idempotency service (`app/lib/core/idempotency`)

Webhooks and polls run under `executeWithIdempotency`: a call claims a key in Redis or
in a table, runs its operation, and stores the result under the claim's token; others
find the result, wait, or, where failures are retried, clear a failed entry. Chat sends
(`app/lib/copilot/chat/post.ts`) use the claims without the rest. Claims expire, replies
get lost and callers die. It is correct if one operation runs at a time, claims are
ended by their holder, a stored success is not repeated, and calls end.

### The outbox (`app/lib/core/outbox`)

A table `outbox_event` whose rows are enqueued in the transaction of a business
operation. Workers (the cron processor and requests that process the event they just
enqueued) claim a row, run its handler outside of any transaction, and write the
result if the row still carries their lease. A reaper frees rows with old leases.
The hard part is time: slow workers, dead workers, and handlers that go on after
they were timed out. It is correct if each event is written to by the worker that
claimed it last, handlers of one event do not overlap short of an operator's requeue
(section 6), a completed event stays completed, and attempts are counted.

### The rest

`PROJECT.json` lists the other components and why they are not modelled: services
with a protocol of their own (event buffer, provider capacity, the realtime server),
adapters to external services, SQL, calculations and user interface.

## 2. The modules

    EdgeManager ── DagBuilder (workflow -> DAG; used by the MC modules)
        └─ ExecutionEngine ── ExecutionEngineProofs ── ReadinessProofs
              │                        │                      │
              ├─ ParallelRun ── ParallelProofs                │
              └─ RunFromBlock ──────────────────── RunFromBlockProofs
    Dataflow, implemented by ExecutionEngine (proved in ReadinessProofs)
    PauseResume ── PausedRun ── PausedRunProofs ── PausedAnswersProofs
    Idempotency ── ChatSend ── IdempotencyProofs
    LeaseQueue, implemented by Outbox ── OutboxProofs

**EdgeManager** has no variables. The bookkeeping of an edge manager, with the
awaited sources of all nodes, is a record `em`, and `ProcessOutgoingEdges` returns
the next `em` and the nodes that became ready. The cascade of
`deactivateEdgeAndDescendants` is a depth-first walk in the code; the model states
its result, the least set of nodes that starve (`Starved`), which does not depend on
the order of the walk. `RestoreLoopEdges` is what happens to the edges between two
iterations.

**DagBuilder** is the translation of `dag/builder.ts` and the constructors it calls,
for workflows with nested loops and with parallels. Condition and router configurations
are reduced to the handles of their edges. The nodes that a parallel adds while it runs
are named when the DAG is built, with the edges each branch will have (`Branches`).

**ExecutionEngine** composes the engine, the orchestrators and the blocks in flight.

| Variable | In the code |
|---|---|
| `em` | the `EdgeManager`, and `incomingEdges` of the DAG nodes |
| `queue`, `task`, `lock` | `readyQueue`; the promises in `executing`, with how far each is; `queueLock` |
| `executed`, `blockStates`, `scope` | `executedBlocks`, `blockStates`, `loopExecutions` of the context |
| `cancelled`, `errorFlag`, `stoppedEarly`, `responseLocked` | the engine's flags |
| `finalOutput`, `paused`, `result` | `finalOutput` (by the node that set it), `pausedBlocks`, what `run()` returned |
| `pc`, `waitFor` | the `await` at which `run()` is, and the executions it races on |

An action is what the code does between two awaits: the run loop (`InitializeQueue`,
`ProcessQueue`, `WakeAny`, `LeaveLoop`, `WakeAll`, `Finish`), a node's execution
(`RunBlock`, `FailNode`, `RunLoopStart`, `RunLoopEnd`), its completion before and
after the await inside the lock (`CompleteNode`, then `PauseAt`, `Respond` or
`PropagateNode`), and `Cancel`. The queue is a set, because the code drains it in one
sweep. What a block computes is reduced to what routing looks at: whether it failed,
the option or route it chose, whether it paused. Conditions of `while` loops answer
anything, every time they are asked.

**Dataflow** is what a run without loops and parallels promises, and knows no counts, no
queue and no cascade: every edge is open until it is taken or dead, a block begins when
the edges into it are decided and one was taken, and a block none was taken to is
skipped together with all that hangs on it. `ExecutionEngine` maps to it with
`Flow == INSTANCE Dataflow WITH ...`: an edge that the edge manager still awaits is open,
one that the stored output of its source took is taken (`FateOf`), what was launched has
begun, and a run that returned unstopped and uncancelled has ended.

**ParallelRun** is the same engine for workflows with parallels. Its sentinels rewire
`dag.edges` while the run goes on (`PrepareBatch`), which the engine's own actions never
do, and gather outputs (`RunParallelEnd`, `ContinueBatch`); every other action is
ExecutionEngine's. The scope of a parallel reuses the fields of a loop's: `iteration`
is `currentBatchStart`, `cur` is `branchOutputs`, `all` is `accumulatedOutputs`; `total`
is `totalBranches`. A collection has any number of items up to `max`, anew each time.

**RunFromBlock** adds the stored state of a run and the action `Rerun`, which sets up
a new engine from it as `executeFromBlock` does. `SnapshotHasEdges` tells the two
sources of that state apart: the server stores the edge manager's sets with it, the
client's request has no such fields.

**PauseResume** has the three records `log`, `row` and `queue`, and for each entry of the
queue, as for the run itself, the `attempt` of the process that runs it: starting,
admitting, running, ended, persisted, settling, checking, draining, one action per
transaction. The engine is one step, with one of the `Outcomes`. `stop` is the signals
that were accepted, `answered` a history of the contexts an engine went on from.
**PausedRun** adds the requests to cancel (`cancel`, one `pc` value between any two of
their transactions) and the job that polls (`poll`, with the points as it read them).

**Idempotency** has the `entry` of one key and a `caller` for each delivery; `pc` is
the place of the call (claiming, looking, clearing, waiting, running, storing, recording,
releasing), `clock` the time it read, `due` its timer. In the database reading the clock,
the claim and the look at what refused it are three steps, in Redis a script. `service`
tells the uses apart: storage, whether failures are retried, which faults its writes
have. `claims` numbers the tokens; `recorded` is a history variable. **ChatSend** reuses
the entry, the claims and their writes with the steps of the chat handler.

**Outbox** has one action per statement that reaches the database and one per step of
a worker between them. `worker` holds the copy of the row the worker claimed, and
`claim` the number of that claim, which the code does not have; `claims` counts them. `ghosts`
are handlers that were aborted and go on, each with a mark, `requeued`, if an operator has
requeued its event since; only a property reads it. The reaper may run at any time, which
covers every schedule of the cron job. A handler whose completion cannot be written fails
like any other handler (`failed`); an error anywhere else ends the invocation (`Crash`).

**LeaseQueue** is what the outbox promises and says nothing of times: claims are
numbered, the latest one is valid until it expires, and only a valid one settles an
event, gives it back, saves its progress or charges it an attempt. `Outbox` maps to it
with `Queue == INSTANCE LeaseQueue WITH ...`; what a worker holds is the claim
under which it acts (`Held`), and a lease that was reaped is a claim that expired.

## 3. What is checked

| Run | Instance | What it shows |
|---|---|---|
| `MCReadiness` | every workflow of 4 blocks without loops, each block plain (with `source` and `error` edges) or a condition, any wiring, and a loop of two iterations with every body of 3 blocks, both up to names (`Canonical`); a `doWhile` in a `while`; 7 workflows with parallels | nothing starts before what precedes it (`NoOvertaking`), nothing runs that was not selected (`OnlySelectedRun`), nothing that was selected or entered is forgotten (`NothingStranded`), nothing is launched twice (`NoRelaunch`), the second iteration starts from the edges and marks of the first (`FreshIteration`), the workflows without loops run as `Dataflow` says (`ImplementsDataflow`), a parallel gathers the outputs of each branch, of this batch, once (`BranchesComplete`) |
| `MCOutcomes` | 16 workflows: every type of loop, nested, skipped, empty, side by side, with failures; responses, pauses, failures and a block to stop after against each other; cancelled at any point | `LoopResultsComplete`, `LockIsSound`, `ResultIsFinal`, `ResponseIsFinal`, types, and that the run returns (`RunReturns`) |
| `MCRunFromBlock` | 4 workflows, two with loops, cancelled at any point, and a re-run from each admissible block with the client's state | only dirty blocks run (`OnlyDirtyRun`), every edge they take is followed (`DirtyFollowed`), `OnlySelectedRun` |
| `MCPausedRun` | 3 contexts, one of them timed, 3 queue entries, 1 retry, crashes, a poll and a cancellation that goes through | one attempt at a time (`OneExecutes`), from a snapshot with all answers (`SeesEveryAnswer`), counted right (`CountsAgree`) and acted on once (`AnsweredOnce`); `CancelledStays`; types |
| `MCCancelTurnsBack` | 2 contexts, 2 entries, 2 cancellations that may be aborted, refused by the signal or not published, crashes | a point is queued exactly when an entry waits for it (`QueuedWaits`) |
| `MCPausedServed` | 3 contexts, 3 entries, a cancellation whose signal is accepted; resumes that complete, pause anew, fail, time out, are cancelled or find no buffer for their events; no crashes; fair | `QueueServed`, `CancellationSettles`; a completed log has every answer (`CompletedIsAnswered`), and until then the run can be claimed or has failed (`StillClaimable`) |
| `MCIdempotency` | 2 callers; a webhook's service in Redis whose writes or replies get lost, a poll's in the database with retried failures; crashes | `OneRunner`, `ClaimRespected`, `ResultsHold`, `CallsEnd`, types |
| `MCChatSend` | 2 sends of one message, in the database, with lost writes and crashes | a message whose turn runs, its chat recorded, is not claimed again while results are kept (`TurnStands`) |
| `MCOutbox` | 3 workers that may stall for ever after a claim, 1 event, 6 ticks, 3 claims | `NoClobber`, `CompletedStays`, `AttemptsNeverLost`, types, and the refinement `ImplementsLeaseQueue` |
| `MCOutboxPunctual` | 2 workers whose timers fire, 1 event, 12 ticks, 3 claims | `RunsUnderLease`, and `NoOverlap` for handlers that ignore their abort, unless an operator requeued their event meanwhile |
| `MCRunFromStored`, `MCAnsweredTwice` | see section 6 | two disagreements between the code and what it says of itself |

### Bounds, and why they are enough

- *Four blocks.* Readiness is decided by the edges next to a node and by the cascade.
  A join needs two branches and the fork before it; with a fourth block a cascade
  crosses a node before it reaches the join, or an error edge skips one. All wirings
  are tried, so no shape of that size is left out by choice. One node more would be
  reached by the same rules in two steps of the cascade. Of workflows that differ in
  names only one is taken (`Canonical`): the two branches of a condition may change
  places, for the model lets it answer either; a condition without edges is a plain block
  without edges; two neighbours that no edge links may change places in the order that
  edges follow. Each rule swaps names and keeps one of the two workflows, so every
  workflow has a namesake among those checked; nothing the runs check mentions a name.
- *Two iterations* of a body: one is the first, the other starts from what the reset
  made of it. The third would start from the same state as the second, which is what
  `FreshIteration` says. `MaxIterations` bounds the `while` and `doWhile` loops, whose
  conditions nothing else ends.
- *Parallels* of 3 branches in batches of 2, so that the last batch is smaller; of 5 in
  batches of 3; of up to 3 one by one; of none. A third batch is wired like the second.
- *Two runs* of a workflow: a re-run restores nothing but the state of the last run.
- *Paused runs.* Three points are one that is resumed, one that waits and one that
  comes later, by a second pause. Each attempt locks the same records in the same order,
  and only one entry is claimed at a time, so a third entry meets what the second does.
  Two cancellations are needed for one to take back what another staged; what a third
  adds is in section 6.
- *Idempotency.* Keys are independent of each other. Two callers are the one that holds
  the key and the one that comes late; with `MaxClaims` = 4 they take turns, so that a
  caller meets its own entry's successor. `Ttl` is longer than a lease and the clock
  longer than both.
- *Outbox.* Rows are independent of one another, each write is to one row, so one
  event is enough for what is said of one event. Three workers are a worker that lost
  its lease, the one that took over and one that comes after it. `MaxClaims` = 3
  goes with them; `MaxTime` leaves room for two leases to be reaped in `MCOutbox`
  (threshold 4, 6 ticks) and in `MCOutboxPunctual` (threshold 5, 12 ticks).
  `MaxAttempts` = 2 makes both a retry and a dead letter happen.

The proofs of section 5 do away with these bounds for what they prove.

`CHECK_DEADLOCK FALSE` appears where the model stops for a bound or because nobody is
obliged to act: the clock and claims run out, a paused run waits for an answer, and
`MCRunFromStored` looks for a violation only. The engine's own runs check for deadlock,
with `Terminated` for a run that has returned.

### Fairness

- `RunReturns`. The run loop, the blocks and the completions are weakly fair together
  (`RunLoop`, `Execute`, `Complete`): as long as one of them can go on, one of them does.
  The JavaScript event loop idles only when no continuation is due, and a block ends by
  itself or by its timeout. This is less than the event loop grants, which serves each of
  them; no order between them is assumed. Nobody is obliged to cancel.
- `CallsEnd`. Timers fire and promises settle: `Tick` and the steps a call takes by itself
  are weakly fair, new calls are not. That an operation ends is assumed: executions with a
  timeout do, those without one only if their blocks do (`service.ts:715` has such webhooks in
  mind). Whoever waits for another's operation needs no more than the end of its lease.
- `QueueServed`, `CancellationSettles`. As long as an attempt, a request to cancel or a poll
  that has begun can go on, one of them does (`Fairness`, one condition for all of them);
  people need neither answer nor cancel. Where
  processes die both rest on the cleanup job and on a request that is made again, which
  nobody is obliged to, so `MCPausedServed` has no crashes.

### Assumptions on time

Machines share one clock: leases are compared with times of the same machine in the
deployment the code is written for, and skew would have to be added to `Latency`. In the
outbox a claim is committed within `Latency` of its clock read. A handler's window is at
most 550 s and the reaper's threshold 600 s, so `TimesAssumption` asks for a window and
two latencies to fit into the threshold: one between the clock read and the claim, one
until the handler starts. `Punctual` says that timers fire, and results are written,
within `Latency` too; without it a worker may be stalled at any point after its claim
for as long as it likes. `GhostTime` is how long a handler may act after its abort, at
most the threshold.

The idempotency service's lease is longer than the deadline of an operation that has one
(`webhook-execution.ts:589`), which is `LeaseAssumption`: `Budget + Latency < Lease`. One
without a deadline may outlive the two hours of its lease and then be executed a second
time, as the code says (`service.ts:715`); that is a run in which `Punctual` is false.
There `Punctual` says that claims take at most `Latency` and operations at most `Budget`;
without it `OneRunner` says nothing and `ClaimRespected` and `ResultsHold` still hold.

## 4. Hazards and properties

The properties were chosen for what the tests beside the code do not reach: orders of
completions, cancellations between two awaits, a reset that forgets one of four sets,
a lease that is reaped while its holder lives, a reply that is lost, a transaction that
comes between two others of one operation. `PROJECT.json` lists the hazards with
the line where each bites and the property that would notice, or why none does. Every
property has a mutant, an operator beside the definition it replaces
(`ReadyByFirstEdge`, `DeactivateShallow`, `RestoreInputsOnly`, `FullBatch`, `OneTooMany`,
`AnyTurn`, `ReturnUnpaused`, `NearSet`, `NobodyElse`, `OwnAnswer`, `NotRequeued`,
`StillThere`, `AnyOwner`, `StuckTooSoon`, `AnyLease`, ...).

## 5. What is proved

*The executor*, for every set of workflows of any size and any number of iterations, as long
as the graph is not rewired, that is for runs in which no parallel begins a batch:

- `Types`: `Spec => []TypeOK`. The invariant is inductive with `DagsAssumption`, the
  shape of a DAG (`IsDag`), and relates more than types: what counts as executed has a
  stored output for later blocks to refer to.
- `OutcomeIsFinal`: `Spec => []ResultIsFinal`. `ResultInv` is the strengthening: a success was
  returned by a run that is done and was not cancelled, hence has nothing in flight, and
  without an execution in flight nothing can fail or pause any more (`NothingRuns`).
- `ResponseStands`: `Spec => ResponseIsFinal`, from `StopInv`: whoever locks the
  response also stops the run.
- `ResultsAreOwn` and `ResultsAreBounded`: `Spec => []LoopResultsOwn` and `Spec =>
  []LoopResultsBounded`, the parts of `LoopResultsComplete` that no cancellation excuses. A
  result of a loop holds outputs of that loop's blocks only, however loops are nested, and a
  counted loop has no more results than iterations. `ScopeSound` says of every scope that
  what it has gathered is the loop's own and not longer than the iterations that ended, and
  that the iteration stays below the count; entering, skipping, gathering, going on and
  leaving keep it so (`EnteredSound`, `TouchedSound`, `GatheredSound`, `NextSound`, `ExitSound`).
- `LineIsKept`: `Spec /\ NoRelaunch => []LockIsSound`. The line of the queue lock holds the
  nodes that have answered, once each, and its first is the only one in its section, as
  long as no node is launched while its first execution is in flight.
- `OnlyDirty` and `RerunTypes` (`RunFromBlockProofs`): `RerunSpec => []OnlyDirtyRun`, from the
  closure of the dirty set under edges: whatever a dirty block can make ready is dirty.

*Parallels* (`ParallelProofs`), for every set of workflows with any number of parallels, in
loops or not, of any number of branches in batches of any size:

- `ParallelRunsTyped`: `ParallelSpec => []EngineTypes`, what `TypeOK` says of everything but the
  edge manager's sets. `ParallelOutcomeIsFinal`: `[]ResultIsFinal`. `ParallelResponseStands`:
  `ResponseIsFinal`. `ParallelLineIsKept`: `ParallelSpec /\ NoRelaunch => []LockIsSound`.
- `BranchesAreCounted`: `ParallelSpec /\ NoRelaunch => []BranchesCounted`. A parallel that is done
  has one result for each of its branches: no batch is left out, gathered twice or begun past
  the last branch, also where the loop around the parallel runs it again.
- `ParallelResultsAreOwn` and `ParallelResultsAreBounded`: `[]LoopResultsOwn`, of parallels and of
  the loops around them, and `[]LoopResultsBounded`, by the same `ScopeSound`.

They need `ParallelsAssumption`, the shape of a parallel in a DAG (`HasBranches`): a batch is
never of size zero (`parallel.ts:278`), branches are made of blocks that are no sentinels, there is one
end sentinel, and a loop that holds it holds the whole parallel. The start sentinel replaces the
graph, so every lemma about a step starts from what rewiring leaves as it was (`SameNodes`: all
but the edges) and that the result is a DAG again (`RewiredIsDag`); the other actions are the
engine's, for which the lemmas of `ExecutionEngineProofs` are stated on types that do not
mention edges (`EngineTyped`). `ParallelShape` adds that no batch begins past the last branch.
`BatchInv` counts: until its end sentinel exits, a parallel has gathered one output for every
branch before the current batch (`Gathering`); afterwards it has all results and its end sentinel
has answered for good (`Exited`, `IsThrough`), until the loop around it goes on and drops the
scope. The hypothesis `NoRelaunch` is there because an end sentinel launched once more
after its exit would replace the results by those of the last batch; `MCReadiness` checks it.

*Readiness* (`ReadinessProofs`), for every set of workflows of any size without loops and
parallels (`LoopFree`):

- `NothingRelaunched`: `LoopFree => (Spec => NoRelaunch)`, and with it `LineIsSound`:
  `[]LockIsSound` outright.
- `OnlySelected`: `[]OnlySelectedRun`. `NothingOvertaken`: `[]NoOvertaking`. `NothingLeft`:
  `[]NothingStranded`.

`LoopFree` says of each DAG that it is flat (`IsFlat`): it has no sentinels, no edge leads into
its trigger, one leads into every other node, and no set of nodes is a cycle. The editor keeps drawings so: it drops edges into triggers
(`apps/realtime/src/database/operations.ts:85`) and refuses an edge that closes a cycle
(`:1575`), and the DAG has the reachable blocks only. TLC evaluates `AcyclicsAreFlat`, that
every loop-free workflow of `MCReadiness` satisfies it.

The argument goes by the edges that are still awaited; a node is ready when it awaits none.
Two lemmas say what routing does. A node is in the cascade exactly when this step makes it
ready without its having been selected (`DeadAre`: the cascade is complete), and routing
returns exactly the selected nodes that this step makes ready (`ReadyAre`). The invariant
`ReadyInv` joins `Decided` (whatever is queued, in flight or executed is ready and was
selected; the edges out of a node in flight are awaited; an edge that is not awaited leaves a
ready node), `Selected` and `Marked` (a node counts as selected just when a decided edge into
it was taken), `Waits` (what was selected and is ready is under way or has run) and `Passed`
(a ready node's edges are awaited only while it is in flight, paused, or the run was
stopped). Relaunching needs a node to become ready twice. Nodes that still wait are closed
under edges, so everything downstream of a node in flight waits (`NothingOvertaken`). At the
end nothing is in flight, and as the graph has no cycle, no node is left waiting short of a
pause (`NothingLeft`).

- `RunsAsDataflow`: `Spec => ImplementsDataflow`, for every set of workflows; of those that are
  not `IsFlat` it says nothing. This is the statement the others are parts of: whatever order
  blocks end, fail, pause or are cancelled in, the edges are decided as `Dataflow` says, by
  the answer that decides them.

`FlowInv` joins to `ReadyInv` what the refinement needs besides: a block that is ready and
was not selected has no awaited edge left (`Pruned`), what a block answered is one of its
answers (`Answered`), a paused block has been executed and is at rest (`Rests`), the trigger
was queued first (`Triggered`), and the invariants on how a run stops and ends. A launch maps
to `Begin`, the routing of a node (`PropagateNode`) to `Answer`, with the cascade (`DeadAre`) as the
edges that die in the same step, a pause to `Hold`, and the return of a run that nothing
stopped to `End`; every other action stutters. That nothing is due at the end is `NothingLeft`'s
argument.

- `RerunsFollow`, `RerunsRelaunchNothing`, `RerunsRunSelected` (`RunFromBlockProofs`): the same of
  runs from a block, as often as a workflow is run again: `[]DirtyFollowed`, `NoRelaunch`,
  `[]OnlySelectedRun`, for workflows that are `LoopFree` and re-runs from the client's state
  (`SnapshotHasEdges = FALSE`). From the server's state the last one is false
  (`MCRunFromStored`).

*Paused runs*, for any contexts, entries, retries, cancellations and polls, with crashes:

- `RunIsTyped`: `RunSpec => []TypeOK`; that retries keep their bound is what takes an
  argument, since attempts, polls and rollbacks all set them.
- `WhatIsCancelledStays`: `RunSpec => CancelledStays`, by looking at every writer of the two
  statuses; each checks the status it overwrites in its own transaction.
- `OneAttemptExecutes`: `RunSpec => []OneExecutes`. `OneInv` adds that an attempt keeps its
  entry claimed until it has recorded what came of it (`LiveIsClaimed`), unless the pause is
  cancelled, after which nothing starts; that no two are live (`OneLive`); and that nothing
  is resumed while the run itself is under way (`RunFirst`). Every action either starts no
  attempt and takes no claim from a live one (`Keeps`), or starts one when nothing is claimed.

*Their answers* (`PausedAnswersProofs`), for the same, with crashes, while the run goes
`Forward`: no client aborts a request to cancel and every signal is accepted (`Steady`), or
nobody has asked to cancel yet (`Quiet`):

- `EveryAnswerCounts`: `[](Forward => CountsAgree)`. `NoAnswerIsLost`: `[](Forward =>
  SeesEveryAnswer)`. `NoAnswerTwice`: `[](Forward => AnsweredOnce)`. `WhoIsQueuedWaits`:
  `[](Forward => QueuedWaits)`.

Without `Forward` two of them are false (section 6). The invariant is `Ledger`. It divides the
life of an attempt into phases (`Phase`: the engine has not gone on from the answer, has and
nothing is stored, the state is stored, the point is settled), and says in which phase the
point is still being resumed and how often it was answered (`Sound`); that a point is being
resumed for the one entry that is claimed (`Held`, `OneClaim`) and queued for the one that
waits (`Waiting`); that what the poll read as paused still is (`Dispatched`); and that the
stored snapshot has every answer (`Snapped`). That is how an attempt sees the answers
given before it: nobody else can settle one while it is claimed.

- `CompletedRunIsAnswered`: `~Crashes => (RunSpec => []CompletedIsAnswered)`. A process that dies
  between the engine's end and `markResumeCompleted` leaves a completed log beside a point
  that is not settled, hence the hypothesis. While the log says completed, either every
  point is answered or the attempt that will settle the last one is at work (`Finishing`).
- `PausedRunIsClaimable`: `~Crashes /\ Steady /\ Succeeds => (RunSpec =>
  [](StillClaimable /\ (Resumable => log # "failed")))`, where
  `Succeeds` says that the engine ends no resume with an error or a timeout. Whoever has
  taken the log gives it back (`Taken`): a running log has an attempt that runs it or was
  refused, a cancelled one whose pause is open a request that is about to close it. Failed
  and dead attempts do leave runs that cannot be claimed (section 6).

*Idempotency*, for any number of callers, services and settings of the times that satisfy
`LeaseAssumption`:

- `Types`, and `OneAtATime`: `Spec => []OneRunner`, with `RunInv`: `Shape` (types, and that
  tokens are handed out once), `Prompt` (a claim is made within `Latency` of the clock it
  carries) and `Runs` (a running operation holds the entry and is due before it expires).
- `ClaimsStand`: `Spec => ClaimRespected`, from `Shape`: whoever writes has the entry's token.
- `SuccessKept`: `Assured => (Spec => ResultsHold)`. `Assured` says that replies are not
  lost where failures are retried; there a stored result would be released after its reply
  was lost, and the operation repeated.
- `TurnsStand`: `InDatabase => (SendSpec => TurnStands)`, for chat sends, whose service is kept in
  the database (`forceStorage: 'database'`, `service.ts:769`). `SendShape` types the state and says
  that tokens are numbered, so that a send which went on without a claim owns nothing;
  `Standing` that while the result of a running turn is kept, the entry is completed at the
  time the chat was recorded, and no send is left that holds its token and could remove it.

*The outbox*, for every number of workers and events, every setting of the times that
satisfies `TimesAssumption`, whatever the bounds on the clock and on claims:

- `LeasesSound`: `Spec => []LeaseInv`, the inductive invariant of the outbox. `Shape`
  types the state, `Windows` relates a worker's step to its times, `Leases` says that a
  worker past its claim is either `Current` (it has the latest claim of its event, and
  its lease) or `Superseded` (its lease is older than the threshold, and older than any
  lease the row carries), and `Distinct` that no two workers have the same claim. This
  is why a time can serve as a fencing token: a row whose holder still lives is claimed
  again only after the threshold, and by a worker that read its clock less than that ago.
- `OutboxTypes`: `Spec => []TypeOK`. Beyond `Shape` it needs that `availableAt` stays a
  time although retries put it off by a power of two. Powers are not negative
  (`PowersOfTwo`): 2^n counts the subsets of a set of n elements, by the library's theorem
  `FS_SUBSET`, which spares the induction.
- `LatestClaimWrites`: `Spec => NoClobber`, from `LeaseInv`, for workers that may stall.
- `CompletedKept`: `Spec => CompletedStays`, from `WhoWrites`: whoever changes a row either
  does so to a row that is not completed or holds a lease on it, hence it is `processing`.
- `AttemptsKept`: `Spec => AttemptsNeverLost`, with the invariant `Counted`: a worker that
  is `Current` copied the attempts the row still has. It needs that a lost lease is never
  regained (`StillCurrent`) and that only the holder itself changes what its row says.
- `OneHandlerAtATime`: `Punctual => (Spec => []RunsUnderLease)`, with the invariant
  `OnTime`: a handler that runs is younger than its window, hence its lease is
  younger than the threshold, hence the reaper has left it alone.
- `TimedOutNotOverlapped`: `Punctual => (Spec => []NoOverlap)`, with the invariant
  `Ghosts`: an aborted handler's row carries a lease at least as young as the handler's
  end, because `recordTimedOutAttempt` leases it anew, or the event is dead, until an
  operator requeues it (`RequeueMarks`). What happens from then on is in section 6.
- `OutboxIsLeaseQueue`: `Spec => Queue!Spec`, the refinement. `QueueStep` maps every action to
  one of `LeaseQueue` or to a stutter, from `LeaseInv`, `Counted` and `Fresh` (an event
  that is not enqueued has no saved progress).

Each proof module has one lemma per invariant and, in it, one step per action.

*Only model-checked.* What must eventually happen (`RunReturns`, `CallsEnd`, `QueueServed`,
`CancellationSettles`): liveness is out of the prover's reach. Of workflows with loops or
parallels `NoOvertaking`, `OnlySelectedRun`, `NothingStranded`, `NoRelaunch` and with it
`LockIsSound`: there nodes are decided anew in each iteration, and the argument above would
have to be made for one iteration at a time, and the edges of a loop on those of the loops around it. What
only says something of loops and parallels: `FreshIteration`; of `BranchesComplete` that the
outputs are those of this batch and none is empty (`BranchesGathered`); of
`LoopResultsComplete` that a loop which was not cut short has a result for *every* iteration.
Nothing is said of the types of the edge manager's sets in a run with parallels: they may keep
what the graph had before it was rewired.
Of re-runs `DirtyFollowed` with loops. Of the paused runs what holds where cancellations are
taken back, and `StillClaimable` and `CompletedIsAnswered` beyond the hypotheses above.

## 6. Where the code and its documents disagree

Shown by a run:

- `MCRunFromStored`. A re-run seeded with the state the server stored also restores
  `nodesWithActivatedEdge` of the first run, so that a branch the re-run's condition
  does not select is taken for one that something else activated, and runs.
- `MCAnsweredTwice`. A resume pauses anew while a cancellation is staged: its point is
  settled, then its entry is failed. The cancellation is taken back, the failed entry is
  taken for an attempt that was not carried out, and its point is paused again. The answer
  is given, and the blocks behind it run, a second time.

Met while modelling, and kept out of the runs' instances or excused by the property:

- *A parallel that a loop skips.* A batch smaller than one before it leaves blocks whose edges
  still lead to the end sentinel. When the loop around the parallel goes on,
  `restoreLoopEdges` (`loop.ts:638`) makes the sentinel await them again. If the next
  iteration runs the parallel, its first batch clears that; if it prunes the parallel, or
  finds its collection empty, the sentinel waits for blocks nobody will run, with the end of
  the loop and everything behind it, and the run succeeds without them. This is what
  `clearDeactivatedEdgesForNodes` warns of (`edge-manager.ts:178`). TLC finds it as a
  violation of `NothingStranded` for a loop of two iterations around a condition and a
  parallel of 3 branches in batches of 2. The parallels in loops that `MCReadiness` has run
  in each iteration, or need no second batch.
- *A dead end without a route* queues every terminal control node its cascade reaches
  (`edge-manager.ts:99`), also the end sentinel of a loop that was not selected, which then
  runs; the routed case asks whether the sentinel encloses the block (`:90`).
- *Three requests to cancel.* A request that staged a cancellation while nothing was claimed is
  about to take it back; a second one has taken it back already, a resume began and another
  answer was queued; a third stages anew, failing the queued entry. The engine ends and the
  log says completed. Now the first one's `clearPausedCancellationIntent` finds the row
  'cancelling', puts it back, and, since the log is not running, does not put the entries back
  (`human-in-the-loop-manager.ts:3136`). The point stays queued with no entry. TLC finds it as
  a violation of `QueuedWaits` when `MCCancelTurnsBack` has three cancellations.
- *A requeue beside an aborted handler.* A handler that times out on the last attempt is
  dead-lettered at once, and no lease holds the event (`service.ts:724`), although the handler may
  go on after its abort. An operator who requeues the event then (`requeue/route.ts:38`) lets the
  next attempt run beside it. A test wants a timeout not to release an event for
  overlapping retries (`service.test.ts:633`, of an attempt that is not the last). `NoOverlap`
  excuses this case; without the excuse TLC finds it in `MCOutboxPunctual`: fail, time out at
  4, requeue, claim and run at 4, while the aborted handler may act until 9.
- *A point set back to paused.* Where the poll fails to serve a row's queue, or the row lacks
  the metadata of a resume, it may record that an operator is needed on a point which was queued or
  being resumed when the row was read (`resume/poll/route.ts:419`, `:388`), and
  `updatePausePointResumeStateSql` sets the point to 'paused' whatever it has become
  (`human-in-the-loop-manager.ts:3262`). If it was answered meanwhile it can be answered again. The
  model's poll is refused before it dispatches points that are paused, which nobody else
  resumes (`PollRefused`); with a poll that fails while serving TLC finds a violation of `AnsweredOnce`.
- *A queue behind a refused resume.* A resume that is refused for good, or has a retry date,
  ends without serving the queue (`AfterFailure`; `human-in-the-loop-manager.ts:1024`): answers
  behind it wait until the poll comes or somebody answers again. TLC finds it as a violation of
  `QueueServed` where `MCPausedServed` has resumes of these kinds.
- *A signal refused at the end.* When the log is completed while the row is being cancelled, the
  last try to settle the row may be refused its signal; the row stays 'cancelling' until
  somebody asks again. TLC finds it as a violation of `CancellationSettles` where
  `MCPausedServed` has signals that are refused.
- *Attempts of dead workers.* The outbox's reaper does not count the attempt of a worker that
  died (`service.ts:562`): an event that kills its worker is never dead-lettered.
- *Between an operation and its result.* An idempotent operation whose process dies after it
  committed and before its result is stored (`service.ts:621`) is repeated once its claim expires.
- *Chat sends.* A turn without a chat to record leaves its claim to expire although it was
  meant to stay (`post.ts:1480`), and a crash before the chat is recorded keeps retries of
  the message out for the whole time a result is kept (`post.ts:1162`).
- *Other points of a failed resume.* When a resume fails the log fails with it, and the points
  that are still paused can be answered but no longer claimed
  (`human-in-the-loop-manager.ts:1052`, `:2242`); an attempt that fails under a staged
  cancellation which is then taken back leaves the log running (`:2351`), and the answers queued
  behind the next one, which finds the log so, are not served. Hence `StillClaimable` excuses a
  log that says `failed`, and it and `QueueServed` are checked with signals that are accepted.
- *The poll's last write* clears the date of a retry that was set after it had read the row
  (`resume/poll/route.ts:547`); the entry then waits until somebody asks for something else.

## 7. What is not modelled

- *Subflows inside a parallel*, which are cloned branch by branch; re-runs of workflows with
  parallels, and the aliases under which other blocks refer to a branch's output.
- *The engine of a resumed run*, which starts from the snapshot's queue and edges. `PauseResume`
  has it as one step.
- *An orchestrator that throws* inside the queue lock. `withQueueLock` lets the next one in
  whatever happens, in its `finally` (`engine.ts:275`), and the run then fails like that of a block.
- *Edges with handles of no known kind*, which the editor does not draw and `shouldActivateEdge`
  always takes (`edge-manager.ts:311`).
- *Of cancellations*: groups of workflows, jobs that are still queued, failures of the database
  while it claims, and the Redis channel between a signal and the engine. `Confirm` merges
  the confirmation signal with the staging after the claim.
- *Of pauses*: the failure to store a pause, and continuations in table cells.
- *Data.* Resolution of references between blocks, and conditions as functions of it. One
  consequence: a condition passes on the output of the block before it, including fields
  that routing looks at; the model gives a condition its own fields only. A join of a re-run
  whose other input is answered from the stored state is pruned with its dirty branch;
  no document says whether it should be.
- The *order* in which the outbox serves event types and the batch bounds of its
  invocations (a worker may claim any due row), patches of payloads other than the
  fact that one was written (`saved`), and `minimumBackoffMs` of deferred events.
- *Clock skew* between machines.

## 8. Plan

Done: the executor's core with loops and parallels, runs from a block, the abstract dataflow
that workflows without loops implement, paused runs and their cancellation, the idempotency
service and chat sends, the outbox and its abstract queue; the proofs of what section 5 lists.

What would come next:

1. Subflows inside parallels: clones, their scopes and their results in a branch.
2. The snapshot between `ExecutionEngine` and `PauseResume`: a resumed run does what the run
   would have done had it not paused.
3. `Dataflow` with loops: an iteration as a dataflow of its own, begun anew by the sentinel.
4. Proofs: readiness within one iteration of a loop, from the lemmas on the cascade and what
   `RestoreLoopEdges` restores; then the results of every iteration and branch.
5. The event buffer and its replay, and the provider's capacity.
