----------------------------- MODULE ParallelRun ------------------------------
(***************************************************************************)
(* A run of a workflow with parallels (orchestrators/parallel.ts and the   *)
(* ParallelExpander it calls): ExecutionEngine with sentinels that rewire  *)
(* the graph.                                                              *)
(*                                                                         *)
(* A parallel runs its branches in batches.  Its start sentinel makes the  *)
(* nodes of a batch, or takes them from the batch before, and wires them;  *)
(* its end sentinel gathers their outputs and goes back for the next one.  *)
(* In the scope of a parallel `iteration' is currentBatchStart, `cur' what *)
(* the batch has stored, `all' the outputs of each branch before it.       *)
(* Parallels in parallels, loops in them and re-runs are left out.         *)
(***************************************************************************)
EXTENDS ExecutionEngine

\* What a DAG has for each of its parallels, besides what its loops have: how many
\* branches (at most), how many of them in a batch (resolveBatchSize: at least one),
\* the nodes and edges of each branch of a batch, and one end sentinel.  A subflow
\* that holds the sentinel holds the whole parallel.
HasBranches(d) ==
  /\ {"loop", "max", "batch", "branch"} \subseteq DOMAIN d
  /\ DOMAIN d.branch = {p \in DOMAIN d.body : d.loop[p] \in ParallelTypes}
  /\ \A p \in DOMAIN d.branch :
       /\ d.max[p] \in Nat /\ d.batch[p] \in Nat \ {0}
       /\ \A i \in 1..d.batch[p] : LET b == d.branch[p][i] IN
            /\ b.nodes \subseteq {n \in d.nodes : d.role[n] = None}
            /\ b.edges \subseteq [src : d.nodes, dst : d.nodes, handle : {e.handle : e \in b.edges}]
       /\ \A n \in d.nodes : d.sub[n] = p /\ d.role[n] = "end" =>
            /\ \A m \in d.nodes : d.sub[m] = p /\ d.role[m] = "end" => m = n
            /\ \A l \in DOMAIN d.body : n \in d.body[l] => d.body[p] \subseteq d.body[l]

ASSUME ParallelsAssumption == \A d \in Dags : HasBranches(d)

VARIABLE total  \* parallel -> totalBranches of its scope

parallelVars == <<vars, total>>

ParallelInit == Init /\ total = [l \in Loops |-> 0]

OfParallel(n) == IsSentinel(n) /\ dag.loop[dag.sub[n]] \in ParallelTypes

------------------------------------------------------------------------------
(* The start sentinel.                                                      *)

\* resolveBranchCount: a collection may be empty.
BranchCounts(p) == IF dag.loop[p] = "count" THEN {dag.max[p]} ELSE 0..dag.max[p]

\* Mutant: the last batch is as large as the others.
FullBatch(p, count) == dag.batch[p]

\* currentBatchSize, where `count' branches are to run.
BatchSize(p, count) ==
  LET left == count - scope[p].iteration
  IN  IF left < dag.batch[p] THEN left ELSE dag.batch[p]

BatchNodes(p, size) == UNION {dag.branch[p][i].nodes : i \in 1..size}
BatchEdges(p, size) == UNION {dag.branch[p][i].edges : i \in 1..size}

\* expandParallel: the sentinels are wired to the branches of this batch only;
\* what other nodes a larger batch before it had keep their edges.
Rewired(n, edges) == [dag EXCEPT !.edges = (@ \ OutEdges(dag, n)) \cup edges]

\* ... and clearDeactivatedEdgesForNodes for its nodes.
ForgetBranches(nodes, end, edges) ==
  [incoming |-> [m \in dag.nodes |-> IF m \in nodes \cup {end}
                                     THEN {e.src : e \in {x \in edges : x.dst = m}}
                                     ELSE em.incoming[m]],
   deact    |-> {e \in em.deact : e.src \notin nodes},
   act      |-> em.act \ nodes]

\* resetBatchExecutionState
ResetStates(nodes) ==
  /\ executed' = executed \ nodes
  /\ blockStates' = [m \in DOMAIN blockStates \ nodes |-> blockStates[m]]

\* prepareCurrentBatch
PrepareBatch(n, size) ==
  LET p     == dag.sub[n]
      nodes == BatchNodes(p, size)
      edges == BatchEdges(p, size)
      end   == CHOOSE m \in dag.nodes : dag.sub[m] = p /\ dag.role[m] = "end"
  IN  /\ dag' = Rewired(n, edges)
      /\ em' = ForgetBranches(nodes, end, edges)
      /\ ResetStates(nodes)

\* handleParallelSentinel, start: initializeParallelScope on the first visit.
RunParallelStart(n) ==
  /\ Running(n) /\ ~task[n].stored /\ OfParallel(n) /\ dag.role[n] = "start" /\ ~EmptyLoop(n)
  /\ LET p == dag.sub[n]
     IN  \E count \in IF scope[p].live THEN {total[p]} ELSE BranchCounts(p) :
           /\ scope' = Entered(p)
           /\ total' = [total EXCEPT ![p] = count]
           /\ IF count = 0
              THEN /\ Returned(n, Output(FALSE, None, "parallel_exit", FALSE))
                   /\ UNCHANGED <<dag, em, states>>
              ELSE /\ Returned(n, Plain)
                   /\ PrepareBatch(n, BatchSize(p, count))
  /\ UNCHANGED <<queue, rfb, flags, outcome, pc, waitFor, result>>

------------------------------------------------------------------------------
(* The end sentinel.                                                        *)

\* The outputs gathered, branch by branch.
BranchOutputs(p, size) == [i \in 1..size |-> scope[p].cur \cap dag.branch[p][i].nodes]

\* aggregateParallelResults
RunParallelEnd(n) ==
  /\ Running(n) /\ ~task[n].stored /\ OfParallel(n) /\ dag.role[n] = "end" /\ ~EmptyLoop(n)
  /\ LET p    == dag.sub[n]
         s    == scope[p]
         size == BatchSize(p, total[p])
         all  == s.all \o BranchOutputs(p, size)
     IN  IF s.iteration + size < total[p]
         THEN /\ scope' = [scope EXCEPT ![p].cur = {}, ![p].all = all,
                                        ![p].iteration = @ + size]
              /\ Returned(n, Output(FALSE, None, "parallel_continue", FALSE))
         ELSE /\ scope' = [scope EXCEPT ![p].cur = {}, ![p].all = <<>>, ![p].results = all]
              /\ Returned(n, Output(FALSE, None, "parallel_exit", FALSE))
  /\ UNCHANGED <<dag, em, queue, states, rfb, flags, outcome, pc, waitFor, result, total>>

\* The completion of an end sentinel that goes on with the next batch:
\* prepareForBatchContinuation.  Nothing of it is left to look back on.
ContinueBatch(n) ==
  /\ n \in DOMAIN task /\ task[n].stage = "returned" /\ HoldsLock(n)
  /\ OfParallel(n) /\ Continues(n) /\ ~(stoppedEarly /\ responseLocked)
  /\ task' = [task EXCEPT ![n].stage = "completing"]
  /\ executed' = {m \in executed : ~(IsSentinel(m) /\ dag.sub[m] = dag.sub[n])}
  /\ blockStates' = [m \in DOMAIN blockStates \ {n} |-> blockStates[m]]
  /\ UNCHANGED <<dag, em, queue, lock, scope, rfb, flags, outcome, pc, waitFor, result, total>>

------------------------------------------------------------------------------
\* What the engine does with all nodes alike.
EngineStep ==
  \/ RunLoop \/ Cancel \/ Terminated
  \/ \E n \in dag.nodes :
       \/ RunBlock(n) \/ FailNode(n) \/ PauseAt(n) \/ Respond(n) \/ PropagateNode(n)
       \/ ~OfParallel(n) /\ (RunLoopStart(n) \/ RunLoopEnd(n))
       \/ /\ CompleteNode(n)
          /\ OfParallel(n) /\ Continues(n) => stoppedEarly /\ responseLocked

ParallelNext ==
  \/ EngineStep /\ UNCHANGED total
  \/ \E n \in dag.nodes : RunParallelStart(n) \/ RunParallelEnd(n) \/ ContinueBatch(n)

ParallelSpec == ParallelInit /\ [][ParallelNext]_parallelVars

------------------------------------------------------------------------------
(* Correctness.                                                             *)

\* When the end sentinel of a parallel is due, every branch of the batch has
\* an output, and the outputs are those of the blocks executed in this batch:
\* none is missing and none is left from a batch before.
BranchesGathered ==
  \A n \in queue : OfParallel(n) /\ dag.role[n] = "end" =>
    LET p    == dag.sub[n]
        size == BatchSize(p, total[p])
    IN  /\ scope[p].cur = executed \cap BatchNodes(p, size)
        /\ \A i \in 1..size : BranchOutputs(p, size)[i] # {}

\* A parallel that is done has a result for each of its branches, however many of
\* them were left for its last batch.
BranchesCounted ==
  \A p \in DOMAIN dag.branch :
    scope[p].results # <<>> => Len(scope[p].results) = total[p]

BranchesComplete == BranchesGathered /\ BranchesCounted
==============================================================================
