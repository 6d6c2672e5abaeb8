--------------------------- MODULE ExecutionEngine ---------------------------
(***************************************************************************)
(* One run of a workflow: the engine (execution/engine.ts), the node and   *)
(* loop orchestrators it calls, and the blocks it has in flight.           *)
(*                                                                         *)
(* The run loop, every block and whoever cancels the run are the actors.   *)
(* JavaScript runs a piece of code to its next `await' undisturbed, so an  *)
(* action is what happens between two awaits.  The completion of a node    *)
(* runs under the queue lock but still awaits the orchestrator, so it is   *)
(* two actions (CompleteNode, PropagateNode) between which the run loop,   *)
(* other blocks and a cancellation may act.                                *)
(***************************************************************************)
EXTENDS EdgeManager, Sequences

CONSTANTS Dags,       \* the workflows a run may be asked to execute
          MaxIterations, \* bound on the iterations of a while loop
          MayCancel   \* whether somebody may cancel the run

\* The shape of a DAG: loops are named by what `body' is defined on, and a
\* node with a role is a sentinel of such a loop.  The handles of a condition's
\* options carry its id, so that none of them reads `error'.
IsDag(d) ==
  /\ {"nodes", "edges", "start", "kind", "options", "role", "sub", "body", "parent"}
       \subseteq DOMAIN d
  /\ d.edges \subseteq [src : d.nodes, dst : d.nodes, handle : {e.handle : e \in d.edges}]
  /\ d.start \in d.nodes
  /\ d.role \in [d.nodes -> {None, "start", "end"}]
  /\ \A n \in d.nodes : d.kind[n] = "condition" =>
       n \in DOMAIN d.options /\ "error" \notin d.options[n]
  /\ DOMAIN d.sub = d.nodes
  /\ None \notin DOMAIN d.body
  /\ \A n \in d.nodes : d.sub[n] \in DOMAIN d.body \cup {None}
  /\ \A n \in d.nodes : d.role[n] # None => d.sub[n] \in DOMAIN d.body
  /\ \A l \in DOMAIN d.body : d.body[l] \subseteq d.nodes
  /\ \A l \in DOMAIN d.body : d.parent[l] \in DOMAIN d.body \cup {None}
  /\ \A l \in DOMAIN d.body : d.loop[l] \in {"for", "forEach"} => d.max[l] \in Nat

\* A workflow without loops and parallels: nothing leads to its trigger, everything
\* else is led to, and there is no cycle (the editor drops edges that close one).
IsFlat(d) ==
  /\ \A n \in d.nodes : d.role[n] = None
  /\ \A e \in d.edges : e.handle \notin ControlHandles /\ e.dst # d.start
  /\ \A n \in d.nodes \ {d.start} : \E e \in d.edges : e.dst = n
  /\ \A S \in SUBSET d.nodes :
       S # {} => \E n \in S : \A e \in d.edges : e.dst = n => e.src \notin S

ASSUME DagsAssumption == \A d \in Dags : IsDag(d)

ASSUME BoundsAssumption == MaxIterations \in Nat /\ MayCancel \in BOOLEAN

VARIABLES
  dag,            \* the workflow of this run
  em,             \* the EdgeManager and the incomingEdges of the nodes
  queue,          \* readyQueue; a set, for one synchronous sweep drains it
  task,           \* node in flight -> its executeNodeAsync: the set `executing'
  lock,           \* queueLock: the nodes holding or awaiting it, in turn
  executed,       \* executedBlocks
  blockStates,    \* node -> the output stored for it
  scope,          \* loopExecutions: loop -> LoopScope
  rfb,            \* dirtySet of a run-from-block, {} in a plain run
  cancelled, errorFlag, stoppedEarly, responseLocked,
  finalOutput,    \* the node whose output is finalOutput, or None
  paused,         \* pausedBlocks
  pc,             \* where run() is
  waitFor,        \* the executions run() races on in its current await
  result          \* what run() returned, or None

flags   == <<cancelled, errorFlag, stoppedEarly, responseLocked>>
outcome == <<finalOutput, paused>>
states  == <<executed, blockStates>>
vars    == <<dag, em, queue, task, lock, states, scope, rfb, flags, outcome, pc,
             waitFor, result>>

Loops == DOMAIN dag.body

IsSentinel(n) == dag.role[n] # None

HasErrorPort(n) == \E e \in OutEdges(dag, n) : e.handle = "error"

FreshScope ==
  [live |-> FALSE, iteration |-> 0, skipped |-> FALSE, cur |-> {}, all |-> <<>>,
   results |-> <<>>]

Settle(n) == [m \in DOMAIN task \ {n} |-> task[m]]

------------------------------------------------------------------------------
(* Start of a run.                                                         *)

EngineInit ==
  /\ queue = {} /\ task = <<>> /\ lock = <<>>
  /\ cancelled \in {FALSE, MayCancel}  \* the signal may be aborted before run()
  /\ errorFlag = FALSE /\ stoppedEarly = FALSE /\ responseLocked = FALSE
  /\ finalOutput = None /\ paused = {}
  /\ pc = "init" /\ waitFor = {} /\ result = None

Init ==
  /\ dag \in Dags
  /\ em = [incoming |-> InitialIncoming(dag), deact |-> {}, act |-> {}]
  /\ executed = {} /\ blockStates = <<>> /\ rfb = {}
  /\ scope = [l \in Loops |-> FreshScope]
  /\ EngineInit

\* initializeQueue of a plain run, then the await of the cancellation
\* subscription.
InitializeQueue ==
  /\ pc = "init"
  /\ queue' = {dag.start}
  /\ pc' = "check"
  /\ UNCHANGED <<dag, em, task, lock, states, scope, rfb, flags, outcome,
                 waitFor, result>>

------------------------------------------------------------------------------
(* The loop of run(), processQueue, and the waits.                          *)

HasWork == queue # {} \/ task # <<>>

\* executeNode answers from the stored output instead of running the node.
AnswersFromState(n) ==
  \/ rfb # {} /\ n \notin rfb
  \/ n \notin rfb /\ n \in executed

ProcessQueue ==
  /\ pc = "check" /\ HasWork
  /\ ~cancelled /\ ~errorFlag /\ ~stoppedEarly
  /\ task' = [n \in DOMAIN task \cup queue |->
                IF n \in queue
                THEN [stage |-> "running", was |-> n \in executed,
                      stored |-> AnswersFromState(n), out |-> Plain]
                ELSE task[n]]
  /\ queue' = {}
  /\ waitFor' = DOMAIN task'
  /\ pc' = "waitAny"
  /\ UNCHANGED <<dag, em, lock, states, scope, rfb, flags, outcome, result>>

\* waitForAnyExecution: some execution settled, or the run was aborted.
WakeAny ==
  /\ pc = "waitAny"
  /\ cancelled \/ waitFor \ DOMAIN task # {}
  /\ pc' = "check"
  /\ UNCHANGED <<dag, em, queue, task, lock, states, scope, rfb, flags, outcome,
                 waitFor, result>>

\* Mutant: nobody looks whether a block has paused.
ReturnUnpaused ==
  /\ result' = IF errorFlag /\ ~responseLocked
               THEN (IF cancelled THEN "cancelled" ELSE "failed")
               ELSE IF cancelled THEN "cancelled" ELSE "success"
  /\ pc' = "done"

\* What run() hands to its caller: a failure not overridden by a Response, a
\* pause before a cancellation, a cancellation before a success.
Return ==
  /\ result' = IF errorFlag /\ ~responseLocked
               THEN (IF cancelled THEN "cancelled" ELSE "failed")
               ELSE IF paused # {} THEN "paused"
               ELSE IF cancelled THEN "cancelled" ELSE "success"
  /\ pc' = "done"

\* Mutant: the loop goes on for the queue of a run that was stopped early.
LeaveUnlessStopped ==
  /\ pc = "check"
  /\ ~HasWork \/ cancelled \/ errorFlag
  /\ IF cancelled THEN Return /\ UNCHANGED waitFor
     ELSE pc' = "waitAll" /\ waitFor' = DOMAIN task /\ UNCHANGED result
  /\ UNCHANGED <<dag, em, queue, task, lock, states, scope, rfb, flags, outcome>>

\* The run loop ends; a cancelled run returns with what it has in flight.
LeaveLoop ==
  /\ pc = "check"
  /\ ~HasWork \/ cancelled \/ errorFlag \/ stoppedEarly
  /\ IF cancelled THEN Return /\ UNCHANGED waitFor
     ELSE pc' = "waitAll" /\ waitFor' = DOMAIN task /\ UNCHANGED result
  /\ UNCHANGED <<dag, em, queue, task, lock, states, scope, rfb, flags, outcome>>

\* waitForAllExecutions: Promise.all raced with the abort, then allSettled.
WakeAll ==
  /\ pc = "waitAll"
  /\ cancelled \/ waitFor \cap DOMAIN task = {}
  /\ pc' = "settle"
  /\ UNCHANGED <<dag, em, queue, task, lock, states, scope, rfb, flags, outcome,
                 waitFor, result>>

Finish ==
  /\ pc = "settle" /\ task = <<>>
  /\ Return
  /\ UNCHANGED <<dag, em, queue, task, lock, states, scope, rfb, flags, outcome,
                 waitFor>>

\* signalCancelled: the caller's signal or the Redis channel, until cleanup().
Cancel ==
  /\ MayCancel /\ pc # "done" /\ ~cancelled
  /\ cancelled' = TRUE
  /\ UNCHANGED <<dag, em, queue, task, lock, states, scope, rfb, errorFlag,
                 stoppedEarly, responseLocked, outcome, pc, waitFor, result>>

------------------------------------------------------------------------------
(* Executing a node (executeNodeAsync up to the queue lock).                *)

\* The node answered `out'.  A node that had been executed before the launch
\* settles without a completion; any other one asks for the queue lock.
Returned(n, out) ==
  IF task[n].was
  THEN task' = Settle(n) /\ lock' = lock
  ELSE /\ task' = [task EXCEPT ![n].stage = "returned", ![n].out = out]
       /\ lock' = Append(lock, n)

Running(n) == n \in DOMAIN task /\ task[n].stage = "running"

\* What a block may answer.  A condition may match nothing where its workflow has
\* None among its options.
BlockOutputs(n) ==
  CASE dag.kind[n] = "condition" -> {Output(FALSE, o, None, FALSE) : o \in dag.options[n]}
    [] dag.kind[n] = "pause"     -> {Output(FALSE, None, None, TRUE)}
    [] OTHER                     -> {Plain}

ErrorOutput == Output(TRUE, None, None, FALSE)

\* A loop without executable blocks fails as soon as its scope is initialized.
EmptyLoop(n) == IsSentinel(n) /\ dag.body[dag.sub[n]] = {m \in dag.nodes : /\ IsSentinel(m)
                                                                         /\ dag.sub[m] = dag.sub[n]}

\* A block may fail by itself or because the run's signal was aborted.
MayFail(n) == n \in dag.fallible \/ cancelled \/ EmptyLoop(n)

\* A failure a block has an `error' edge for is an output like any other.
HandledFailures(n) == IF MayFail(n) /\ HasErrorPort(n) THEN {ErrorOutput} ELSE {}

\* Mutant: the block is marked as executed before its output is stored.
MarkOnly(n, out) == executed' = executed \cup {n} /\ UNCHANGED blockStates

\* setBlockOutput
StoreState(n, out) ==
  /\ executed' = executed \cup {n}
  /\ blockStates' = [m \in DOMAIN blockStates \cup {n} |->
                       IF m = n THEN out ELSE blockStates[m]]

\* initializeLoopScope, by the first node of loop l to run.
Entered(l) ==
  IF l = None \/ scope[l].live THEN scope
  ELSE [scope EXCEPT ![l] = [FreshScope EXCEPT !.live = TRUE]]

StoredOutput(n) == IF n \in DOMAIN blockStates THEN blockStates[n] ELSE Plain

RunBlock(n) ==
  /\ Running(n)
  /\ IF task[n].stored
     THEN Returned(n, StoredOutput(n)) /\ UNCHANGED <<states, scope>>
     ELSE /\ ~IsSentinel(n)
          /\ scope' = Entered(dag.sub[n])
          /\ \E out \in BlockOutputs(n) \cup HandledFailures(n) :
               Returned(n, out) /\ StoreState(n, out)
  /\ UNCHANGED <<dag, em, queue, rfb, flags, outcome, pc, waitFor, result>>

\* An unhandled failure: the block executor records the error output and
\* rethrows, trackExecution keeps the error and drops the execution.
FailNode(n) ==
  /\ Running(n) /\ ~task[n].stored
  /\ MayFail(n) /\ ~HasErrorPort(n)
  /\ IF IsSentinel(n) THEN UNCHANGED states ELSE StoreState(n, ErrorOutput)
  /\ errorFlag' = TRUE
  /\ task' = Settle(n)
  /\ UNCHANGED <<dag, em, queue, lock, scope, rfb, cancelled, stoppedEarly,
                 responseLocked, outcome, pc, waitFor, result>>

------------------------------------------------------------------------------
(* The sentinels of a loop (LoopOrchestrator).                              *)

\* Loops whose condition compares the iteration with a count.
IsCounted(l) == dag.loop[l] \in {"for", "forEach"}

\* The answers evaluateInitialCondition may give for loop l.
InitialConditions(l) ==
  CASE dag.loop[l] = "while" -> BOOLEAN
    [] IsCounted(l)          -> {dag.max[l] > 0}
    [] OTHER                 -> {TRUE}

\* Start sentinel: initializeLoopScope on the first visit, then the initial
\* condition, which a while loop evaluates again on every iteration.
RunLoopStart(n) ==
  /\ Running(n) /\ ~task[n].stored /\ dag.role[n] = "start" /\ ~EmptyLoop(n)
  /\ LET l == dag.sub[n]
     IN  \E enters \in InitialConditions(l) :
           /\ scope' = [Entered(l) EXCEPT ![l].skipped = @ \/ ~enters]
           /\ Returned(n, IF enters THEN Plain ELSE Output(FALSE, None, "loop_exit", FALSE))
  /\ UNCHANGED <<dag, em, queue, states, rfb, flags, outcome, pc, waitFor, result>>

\* Mutant: the comparison of the iteration with the count is off by one.
OneTooMany(l) ==
  LET next == scope[l].iteration + 1
  IN  IF IsCounted(l) THEN {next <= dag.max[l]}
      ELSE IF next < MaxIterations THEN BOOLEAN ELSE {FALSE}

\* The answers evaluateLoopContinuation may get for another iteration.
Continuations(l) ==
  LET next == scope[l].iteration + 1
  IN  IF IsCounted(l) THEN {next < dag.max[l]}
      ELSE IF next < MaxIterations THEN BOOLEAN ELSE {FALSE}

ExitScope(s) == [s EXCEPT !.results = s.all, !.all = <<>>]

\* The outputs of the finished iteration join the results.
Gathered(s) ==
  [s EXCEPT !.cur = {}, !.all = IF s.cur = {} THEN @ ELSE Append(@, s.cur)]

\* End sentinel: evaluateLoopContinuation.
RunLoopEnd(n) ==
  /\ Running(n) /\ ~task[n].stored /\ dag.role[n] = "end" /\ ~EmptyLoop(n)
  /\ LET l    == dag.sub[n]
         s    == Entered(l)[l]
         exit == Output(FALSE, None, "loop_exit", FALSE)
     IN  \/ /\ cancelled
            /\ scope' = [scope EXCEPT ![l] = ExitScope(s)]
            /\ Returned(n, exit)
         \/ /\ ~cancelled /\ s.skipped
            /\ scope' = [scope EXCEPT ![l] = ExitScope([s EXCEPT !.skipped = FALSE])]
            /\ Returned(n, exit)
         \/ /\ ~cancelled /\ ~s.skipped
            /\ \E again \in Continuations(l) :
                 IF again
                 THEN /\ scope' = [scope EXCEPT ![l] = [Gathered(s) EXCEPT !.iteration = @ + 1]]
                      /\ Returned(n, Output(FALSE, None, "loop_continue", FALSE))
                 ELSE /\ scope' = [scope EXCEPT ![l] = ExitScope(Gathered(s))]
                      /\ Returned(n, exit)
  /\ UNCHANGED <<dag, em, queue, states, rfb, flags, outcome, pc, waitFor, result>>

------------------------------------------------------------------------------
(* The completion of a node, under the queue lock (handleNodeCompletion).   *)

\* Mutant: a completion does not wait for its turn.
AnyTurn(n) == n \in {lock[i] : i \in DOMAIN lock}

HoldsLock(n) == lock # <<>> /\ Head(lock) = n

Continues(n) == dag.role[n] = "end" /\ task[n].out.route \in BackHandles

\* storeLoopNodeOutput: a block of loop l, or a loop nested in it, has output.
StoreOutput(l, x) == [scope EXCEPT ![l].cur = @ \cup {x}]

\* clearLoopExecutionState: the loop's nodes are unmarked, and the scopes of the
\* loops nested in it are dropped.
Unmarked(l) == executed \ dag.body[l]

DropNested(l) ==
  [k \in Loops |-> IF k # l /\ dag.body[k] \subseteq dag.body[l]
                   THEN FreshScope ELSE scope[k]]

\* NodeExecutionOrchestrator.handleNodeCompletion.  Once a Response block has
\* ended the run a completion does nothing at all.
CompleteNode(n) ==
  /\ n \in DOMAIN task /\ task[n].stage = "returned" /\ HoldsLock(n)
  /\ IF stoppedEarly /\ responseLocked
     THEN /\ task' = Settle(n) /\ lock' = Tail(lock)
          /\ UNCHANGED <<em, states, scope>>
     ELSE /\ task' = [task EXCEPT ![n].stage = "completing"]
          /\ lock' = lock
          /\ LET l == dag.sub[n]
             IN  IF Continues(n)
                 THEN /\ executed' = Unmarked(l)
                      /\ blockStates' = [m \in DOMAIN blockStates \cup {n} |->
                                           IF m = n THEN task[n].out ELSE blockStates[m]]
                      /\ scope' = DropNested(l)
                      /\ em' = RestoreLoopEdges(dag, em, dag.body[l])
                 ELSE /\ StoreState(n, task[n].out)
                      /\ em' = em
                      /\ scope' = IF IsSentinel(n)
                                  THEN IF dag.role[n] = "end" /\ dag.parent[l] # None
                                       THEN StoreOutput(dag.parent[l], l) ELSE scope
                                  ELSE IF l # None THEN StoreOutput(l, n) ELSE scope
  /\ UNCHANGED <<dag, queue, rfb, flags, outcome, pc, waitFor, result>>

\* isFinalOutput of the node's result.
IsFinalOutput(n) ==
  LET route == task[n].out.route
  IN  IF task[n].stored \/ route \in BackHandles THEN FALSE
      ELSE IF route \in ExitHandles /\ IsSentinel(n)
           THEN ~\E e \in OutEdges(dag, n) : e.handle = route
           ELSE OutEdges(dag, n) = {}

Releases(n) == task' = Settle(n) /\ lock' = Tail(lock)

\* Back in the engine after the await of the orchestrator.
Completing(n) == n \in DOMAIN task /\ task[n].stage = "completing" /\ HoldsLock(n)

PauseAt(n) ==
  /\ Completing(n) /\ task[n].out.pause
  /\ paused' = paused \cup {n}
  /\ Releases(n)
  /\ UNCHANGED <<dag, em, queue, states, scope, rfb, flags, finalOutput, pc,
                 waitFor, result>>

\* Mutant: a Response locks the output but leaves the run going.
RespondAndGoOn(n) ==
  /\ Completing(n) /\ ~task[n].out.pause /\ dag.kind[n] = "response"
  /\ finalOutput' = IF responseLocked THEN finalOutput ELSE n
  /\ responseLocked' = TRUE
  /\ Releases(n)
  /\ UNCHANGED <<dag, em, queue, states, scope, rfb, cancelled, errorFlag, stoppedEarly,
                 paused, pc, waitFor, result>>

Respond(n) ==
  /\ Completing(n) /\ ~task[n].out.pause /\ dag.kind[n] = "response"
  /\ finalOutput' = IF responseLocked THEN finalOutput ELSE n
  /\ responseLocked' = TRUE
  /\ stoppedEarly' = TRUE
  /\ Releases(n)
  /\ UNCHANGED <<dag, em, queue, states, scope, rfb, cancelled, errorFlag, paused,
                 pc, waitFor, result>>

PropagateNode(n) ==
  /\ Completing(n) /\ ~task[n].out.pause /\ dag.kind[n] # "response"
  /\ finalOutput' = IF IsFinalOutput(n) /\ ~responseLocked THEN n ELSE finalOutput
  /\ IF dag.stopAfter = n /\ ~Continues(n)
     THEN stoppedEarly' = TRUE /\ UNCHANGED <<em, queue>>
     ELSE LET step == ProcessOutgoingEdges(dag, em, n, task[n].out)
          IN  /\ em' = step.em
              /\ queue' = queue \cup step.ready
              /\ UNCHANGED stoppedEarly
  /\ Releases(n)
  /\ UNCHANGED <<dag, states, scope, rfb, cancelled, errorFlag, responseLocked,
                 paused, pc, waitFor, result>>

------------------------------------------------------------------------------
RunLoop == InitializeQueue \/ ProcessQueue \/ WakeAny \/ LeaveLoop \/ WakeAll \/ Finish

Execute(n) == RunBlock(n) \/ FailNode(n) \/ RunLoopStart(n) \/ RunLoopEnd(n)

Complete(n) == CompleteNode(n) \/ PauseAt(n) \/ Respond(n) \/ PropagateNode(n)

\* The run has returned and nothing of it is left in flight.
Terminated == pc = "done" /\ task = <<>> /\ UNCHANGED vars

Next ==
  \/ RunLoop \/ Cancel \/ Terminated
  \/ \E n \in dag.nodes : Execute(n) \/ Complete(n)

\* As long as the loop has something to do, a block runs or a completion is due, one of
\* them goes on: the event loop idles only when no continuation is due, and every block
\* ends sooner or later (it has a timeout).  Nobody has to cancel.
Fairness ==
  WF_vars(\/ RunLoop
          \/ \E n \in dag.nodes : Execute(n)
          \/ \E n \in dag.nodes : Complete(n))

Spec == Init /\ [][Next]_vars /\ Fairness

------------------------------------------------------------------------------
(* Correctness.                                                             *)

\* Types.  The sets of the edge manager stay within the graph, and (EngineTypes)
\* whatever counts as executed has a stored output, for later blocks to refer to.
EmType == [incoming : [dag.nodes -> SUBSET dag.nodes],
           deact : SUBSET dag.edges, act : SUBSET dag.nodes]

\* What a block of the workflow may have answered.
OutputType ==
  [error : BOOLEAN, pause : BOOLEAN, route : {None} \cup ControlHandles,
   option : {None} \cup UNION {dag.options[n] : n \in DOMAIN dag.options}]

TaskType == [stage : {"running", "returned", "completing"},
             was : BOOLEAN, stored : BOOLEAN, out : OutputType]

ScopeType ==
  LET contents == SUBSET (dag.nodes \cup Loops)
  IN  [live : BOOLEAN, skipped : BOOLEAN, iteration : Nat,
       cur : contents, all : Seq(contents), results : Seq(contents)]

EngineTypes ==
  /\ queue \subseteq dag.nodes
  /\ DOMAIN task \subseteq dag.nodes /\ task \in [DOMAIN task -> TaskType]
  /\ lock \in Seq(dag.nodes)
  /\ executed \subseteq DOMAIN blockStates
  /\ DOMAIN blockStates \subseteq dag.nodes
  /\ blockStates \in [DOMAIN blockStates -> OutputType]
  /\ scope \in [Loops -> ScopeType]
  /\ rfb \subseteq dag.nodes
  /\ cancelled \in BOOLEAN /\ errorFlag \in BOOLEAN
  /\ stoppedEarly \in BOOLEAN /\ responseLocked \in BOOLEAN
  /\ finalOutput \in dag.nodes \cup {None}
  /\ paused \subseteq dag.nodes
  /\ pc \in {"init", "check", "waitAny", "waitAll", "settle", "done"}
  /\ waitFor \subseteq dag.nodes
  /\ result \in {None, "success", "failed", "paused", "cancelled"}

TypeOK == em \in EmType /\ EngineTypes

\* The edges a node's stored output took (the end sentinel of a loop that goes
\* on is no longer marked as executed).
Took(e) ==
  /\ e.src \in (IF e.handle \in BackHandles THEN DOMAIN blockStates ELSE executed)
  /\ ShouldActivate(e, blockStates[e.src])

\* n lies downstream of m: every set of nodes closed under the forward edges
\* that holds the successors of m holds n.
Precedes(m, n) ==
  \A S \in SUBSET dag.nodes :
    (\A e \in dag.edges : Registers(dag, e) /\ e.src \in S \cup {m} => e.dst \in S)
      => n \in S

Launches == pc = "check" /\ pc' = "waitAny"

\* A join never starts while a node upstream of it is still in flight or still
\* queued: the readiness rules of the edge manager, which only look at the
\* edges next to a node, do not overlook a branch that may yet arrive.
NoOvertaking ==
  \A n \in queue \cup DOMAIN task : \A m \in (queue \cup DOMAIN task) \ {n} :
    ~Precedes(m, n)

\* A block runs only on a path that was selected: some executed block before
\* it took an edge to it.  An end sentinel may run because the body of its loop
\* died out, but then the loop was entered through its start sentinel.
OnlySelectedRun ==
  \A n \in queue \cup {m \in DOMAIN task : task[m].stage = "running"} :
    \/ n = dag.start
    \/ \E e \in dag.edges : e.dst = n /\ Took(e)
    \/ /\ dag.role[n] = "end"
       /\ \E m \in executed : dag.role[m] = "start" /\ dag.sub[m] = dag.sub[n]

AwaitsPause(n) == \E p \in paused : Precedes(p, n)

\* A run that ends by itself, done or paused, has followed every edge a block
\* took and left every subflow it entered, short of what waits for a pause: no
\* join is left waiting for a pruned branch, and a paused run is snapshotted with
\* nothing due left undone.
NothingStranded ==
  result \in {"success", "paused"} /\ ~stoppedEarly /\ ~cancelled =>
    /\ \A e \in dag.edges : Took(e) => e.dst \in executed \/ AwaitsPause(e.dst)
    /\ \A n \in executed, m \in dag.nodes :
         dag.role[n] = "start" /\ dag.role[m] = "end" /\ dag.sub[m] = dag.sub[n] =>
           m \in executed \/ AwaitsPause(m)

\* The queue lock is fair and is lost by nobody: exactly the nodes that have
\* answered stand in its line, once each, and only the first one completes.
LockIsSound ==
  /\ {lock[i] : i \in DOMAIN lock} = {n \in DOMAIN task : task[n].stage # "running"}
  /\ \A i, j \in DOMAIN lock : lock[i] = lock[j] => i = j
  /\ \A n \in DOMAIN task : task[n].stage = "completing" => HoldsLock(n)

\* What the caller is told is final: a success has no execution left that could
\* still fail, no pause it forgets and no failure but one a Response overrode;
\* and only a cancelled run returns while something is in flight.
ResultIsFinal ==
  /\ result = "success" => paused = {} /\ (errorFlag => responseLocked)
  /\ pc = "done" /\ ~cancelled => task = <<>>

\* No block is launched that is in flight or has been executed already in this
\* iteration: convergent edges never queue a node a second time.
NoRelaunch ==
  [][Launches => \A n \in queue : n \notin DOMAIN task /\ n \notin executed]_vars

\* Once a Response block ended the run its output stands and nothing starts.
ResponseIsFinal ==
  [][responseLocked => finalOutput' = finalOutput /\ ~Launches]_vars

\* The run returns, whatever is pruned, paused, failed or cancelled.
RunReturns == <>(pc = "done")

\* Every iteration of a loop starts like the first one: when the start sentinel
\* is queued nothing of the loop is in flight or counts as executed, and the
\* edges of the body are neither pruned nor used up.
FreshIteration ==
  \A n \in queue : dag.role[n] = "start" /\ dag.loop[dag.sub[n]] \notin ParallelTypes =>
    LET B == dag.body[dag.sub[n]]
    IN  /\ B \cap (executed \cup DOMAIN task) = {}
        /\ \A e \in dag.edges : e.src \in B /\ e.dst \in B =>
             e \notin em.deact /\ (Registers(dag, e) => e.src \in em.incoming[e.dst])

\* The blocks of loop l itself, and the loops nested directly in it.
OwnOf(l) ==
  {n \in dag.nodes : dag.sub[n] = l /\ ~IsSentinel(n)} \cup {k \in Loops : dag.parent[k] = l}

\* No result of a loop is mixed with a block that is not the loop's own.
LoopResultsOwn ==
  \A l \in Loops : \A i \in DOMAIN scope[l].results : scope[l].results[i] \subseteq OwnOf(l)

\* A counted loop has at most one result per iteration, also where it is cancelled
\* or entered again by the loop around it.
LoopResultsBounded ==
  \A l \in Loops : IsCounted(l) /\ dag.max[l] > 0 => Len(scope[l].results) <= dag.max[l]

\* A counted loop that was not cut short yields one result per iteration, none
\* of them lost, doubled or mixed with a block that is not the loop's own.
LoopResultsComplete ==
  /\ LoopResultsOwn /\ LoopResultsBounded
  /\ \A l \in Loops :
       scope[l].results # <<>> /\ IsCounted(l) /\ ~cancelled =>
         Len(scope[l].results) = dag.max[l]

\* A workflow without loops and parallels runs as Dataflow says, whatever order its
\* blocks end in, fail, pause or are cancelled in: each edge that is still awaited is
\* open, and no other one is.  In particular the cascade prunes a block together with
\* the answer that excludes it, and a run that ends by itself has left nothing due.
FateOf(e) ==
  IF IsActiveInto(dag, em.incoming, em.deact, e, e.dst) THEN "open"
  ELSE IF Took(e) THEN "taken" ELSE "dead"

EndedByItself == result \in {"success", "paused"} /\ ~stoppedEarly /\ ~cancelled

Flow == INSTANCE Dataflow WITH
  fate <- [e \in dag.edges |-> FateOf(e)],
  begun <- executed \cup DOMAIN task, held <- paused, ended <- EndedByItself

ImplementsDataflow ==
  /\ IsFlat(dag) => Flow!Init
  /\ [][Flow!Next \/ ~IsFlat(dag)]_<<Flow!vars>>
==============================================================================
