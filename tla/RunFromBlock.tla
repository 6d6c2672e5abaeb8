----------------------------- MODULE RunFromBlock -----------------------------
(***************************************************************************)
(* Running a workflow again from one of its blocks (executeFromBlock in    *)
(* execution/executor.ts, utils/run-from-block.ts).  The state a run left  *)
(* behind seeds a new engine: the blocks downstream of the start block are *)
(* `dirty' and run again, everything upstream of them answers from its     *)
(* stored output.                                                          *)
(*                                                                         *)
(* The state comes from the server, which stores it with the edges the run *)
(* deactivated and the nodes it activated, or from the client, whose       *)
(* request contract has no such fields.                                    *)
(***************************************************************************)
EXTENDS ExecutionEngine

CONSTANTS SnapshotHasEdges, \* whether the state holds the edge manager's sets
          MaxRuns           \* bound on the runs of one behaviour

VARIABLES saved,            \* the state stored when a run returned
          runs              \* runs started, the first one included

allVars == <<vars, saved, runs>>

\* serializePauseSnapshot, as far as a run from a block restores it.
State == [executed |-> executed, blockStates |-> blockStates, scope |-> scope,
          deact |-> em.deact, act |-> em.act]

\* The least set that holds S and is closed under R, a set of pairs of nodes.
Closure(S, R) ==
  LET closed == {C \in SUBSET dag.nodes :
                   S \subseteq C /\ \A p \in R : p[1] \in C => p[2] \in C}
  IN  {n \in dag.nodes : \A C \in closed : n \in C}

Leads == {<<e.src, e.dst>> : e \in dag.edges}

\* Mutant: only the successors of the start block are dirty with it.
NearSet(s) == {s} \cup {n \in dag.nodes : <<s, n>> \in Leads}

\* computeExecutionSets
DirtySet(s) == Closure({s}, Leads)

Awaits ==
  LET incoming == InitialIncoming(dag)
  IN  UNION {{<<b, a>> : a \in incoming[b]} : b \in dag.nodes}

ReachableUpstream(dirty) ==
  LET outside == {p \in Awaits : p[2] \notin dirty}
  IN  Closure({p[2] : p \in {q \in outside : q[1] \in dirty}}, outside)

\* validateRunFromBlock.  A loop is named by its start sentinel.
CanRunFrom(s) ==
  /\ IF dag.role[s] = None THEN dag.sub[s] = None
     ELSE dag.role[s] = "start" /\ dag.parent[dag.sub[s]] = None
  /\ \A m \in InitialIncoming(dag)[s] :
       IsSentinel(m) \/ InitialIncoming(dag)[m] = {} \/ m \in saved.executed

\* Mutant: a dirty join still awaits the blocks that do not run again.
AwaitingAll(dirty) ==
  [incoming |-> InitialIncoming(dag),
   deact    |-> IF SnapshotHasEdges THEN saved.deact ELSE {},
   act      |-> IF SnapshotHasEdges THEN saved.act ELSE {}]

\* Mutant: the edge manager starts from where the stored run left it.
AsStored(dirty) ==
  [incoming |-> [n \in dag.nodes |->
                   IF n \in dirty THEN InitialIncoming(dag)[n] \cap dirty
                   ELSE InitialIncoming(dag)[n]],
   deact    |-> saved.deact,
   act      |-> saved.act]

\* The edges into dirty nodes from nodes that are not dirty are not awaited.
RerunEdges(dirty) ==
  [incoming |-> [n \in dag.nodes |->
                   IF n \in dirty THEN InitialIncoming(dag)[n] \cap dirty
                   ELSE InitialIncoming(dag)[n]],
   deact    |-> IF SnapshotHasEdges THEN saved.deact ELSE {},
   act      |-> IF SnapshotHasEdges THEN saved.act ELSE {}]

Rerun(s) ==
  /\ pc = "done" /\ runs < MaxRuns
  /\ CanRunFrom(s)
  /\ LET dirty == DirtySet(s)
         kept  == ReachableUpstream(dirty)
     IN  /\ dag' = [dag EXCEPT !.start = s]
         /\ rfb' = dirty
         /\ em' = RerunEdges(dirty)
         /\ executed' = saved.executed \cap kept
         /\ blockStates' = [n \in DOMAIN saved.blockStates \cap kept |-> saved.blockStates[n]]
         /\ scope' = [l \in Loops |-> IF \E n \in kept : IsSentinel(n) /\ dag.sub[n] = l
                                      THEN saved.scope[l] ELSE FreshScope]
  /\ queue' = {} /\ task' = <<>> /\ lock' = <<>>
  /\ cancelled' \in {FALSE, MayCancel}
  /\ errorFlag' = FALSE /\ stoppedEarly' = FALSE /\ responseLocked' = FALSE
  /\ finalOutput' = None /\ paused' = {}
  /\ pc' = "init" /\ waitFor' = {} /\ result' = None
  /\ runs' = runs + 1
  /\ UNCHANGED saved

RerunInit == Init /\ saved = State /\ runs = 1

\* A step of the run; the step in which run() returns also stores its state.
RunStep ==
  /\ Next
  /\ saved' = IF pc # "done" /\ pc' = "done" THEN State ELSE saved
  /\ UNCHANGED runs

RerunNext ==
  \/ RunStep
  \/ \E s \in dag.nodes : Rerun(s)

RerunSpec == RerunInit /\ [][RerunNext]_allVars

------------------------------------------------------------------------------
\* Only dirty blocks run again, and none of them answers from the old run: a
\* re-run never mixes outputs of both runs downstream of its start block.
OnlyDirtyRun ==
  rfb # {} => \A n \in queue \cup DOMAIN task :
    n \in rfb /\ (n \in DOMAIN task => ~task[n].stored)

\* A re-run that ends by itself has followed every edge a dirty block took.
DirtyFollowed ==
  result = "success" /\ ~stoppedEarly =>
    \A e \in dag.edges : Took(e) /\ (rfb = {} \/ e.src \in rfb) => e.dst \in executed
==============================================================================
