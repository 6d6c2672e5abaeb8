---------------------------- MODULE ParallelProofs ----------------------------
(***************************************************************************)
(* What holds of every run of every workflow with parallels.  The engine's *)
(* own actions are those of ExecutionEngine, and so are the arguments about *)
(* them; what is new are three steps of the sentinels, one of which rewires *)
(* the graph.                                                              *)
(***************************************************************************)
EXTENDS ParallelRun, ExecutionEngineProofs

ParallelTyped == EngineTyped /\ HasBranches(dag) /\ total \in [Loops -> Nat]

LEMMA EngineIsNext == EngineStep => Next
BY DEF EngineStep, Next, Execute, Complete

LEMMA ParallelStarts == ParallelInit => ParallelTyped
BY InitTyped, TypedIs, ParallelsAssumption DEF ParallelInit, Init, ParallelTyped

------------------------------------------------------------------------------
(* The graph.                                                              *)

\* The workflow is rewired in its edges only.
SameNodes ==
  /\ dag'.nodes = dag.nodes /\ dag'.start = dag.start /\ dag'.kind = dag.kind
  /\ dag'.options = dag.options /\ dag'.role = dag.role /\ dag'.sub = dag.sub
  /\ dag'.body = dag.body /\ dag'.parent = dag.parent /\ dag'.loop = dag.loop
  /\ dag'.max = dag.max /\ dag'.batch = dag.batch /\ dag'.branch = dag.branch

LEMMA RewiredNodes ==
  ASSUME DagOK, HasBranches(dag), NEW n, NEW edges, dag' = Rewired(n, edges)
  PROVE  /\ SameNodes /\ DOMAIN dag' = DOMAIN dag
         /\ dag'.edges = (dag.edges \ OutEdges(dag, n)) \cup edges
<1>1. {"nodes", "edges", "start", "kind", "options", "role", "sub", "body", "parent",
       "loop", "max", "batch", "branch"} \subseteq DOMAIN dag
  BY DEF DagOK, IsDag, HasBranches
<1> DEFINE X == (dag.edges \ OutEdges(dag, n)) \cup edges
<1>2. dag' = [dag EXCEPT !.edges = X]
  BY DEF Rewired
<1> HIDE DEF X
<1>3. DOMAIN dag' = DOMAIN dag /\ dag'.edges = X
  BY <1>1, <1>2
<1>4. SameNodes
  BY <1>1, <1>2 DEF SameNodes
<1> QED
  BY <1>3, <1>4 DEF X

\* A batch is not empty where branches are left, nor larger than what is wired.
LEMMA SizeIs ==
  ASSUME HasBranches(dag), NEW p \in DOMAIN dag.branch, NEW count \in Nat,
         scope[p].iteration \in Nat, scope[p].iteration <= count
  PROVE  /\ BatchSize(p, count) \in Nat
         /\ BatchSize(p, count) <= dag.batch[p]
         /\ scope[p].iteration + BatchSize(p, count) <= count
         /\ scope[p].iteration < count => BatchSize(p, count) > 0
BY DEF HasBranches, BatchSize

\* Nor where the scope is stale.
LEMMA SizeBounded ==
  ASSUME HasBranches(dag), NEW p \in DOMAIN dag.branch, NEW count \in Nat,
         scope[p].iteration \in Nat
  PROVE  BatchSize(p, count) \in Int /\ BatchSize(p, count) <= dag.batch[p]
BY DEF HasBranches, BatchSize

LEMMA BatchShape ==
  ASSUME HasBranches(dag), NEW p \in DOMAIN dag.branch, NEW size \in Int, size <= dag.batch[p]
  PROVE  /\ BatchNodes(p, size) \subseteq {n \in dag.nodes : dag.role[n] = None}
         /\ \A e \in BatchEdges(p, size) : e \in [src : dag.nodes, dst : dag.nodes, handle : {e.handle}]
<1>1. \A i \in 1..size : i \in 1..dag.batch[p]
  BY DEF HasBranches
<1>2. BatchNodes(p, size) \subseteq {n \in dag.nodes : dag.role[n] = None}
  BY <1>1 DEF HasBranches, BatchNodes
<1>3. ASSUME NEW e \in BatchEdges(p, size)
      PROVE  e \in [src : dag.nodes, dst : dag.nodes, handle : {e.handle}]
  <2>1. PICK i \in 1..dag.batch[p] : e \in dag.branch[p][i].edges
    BY <1>1 DEF BatchEdges
  <2>2. e \in [src : dag.nodes, dst : dag.nodes, handle : {x.handle : x \in dag.branch[p][i].edges}]
    BY <2>1 DEF HasBranches
  <2> QED
    BY <2>2
<1> QED
  BY <1>2, <1>3

LEMMA RewiredIsDag ==
  ASSUME DagOK, HasBranches(dag), NEW n, NEW edges, dag' = Rewired(n, edges),
         \A e \in edges : e \in [src : dag.nodes, dst : dag.nodes, handle : {e.handle}]
  PROVE  DagOK' /\ HasBranches(dag')
<1>1. /\ SameNodes /\ DOMAIN dag' = DOMAIN dag
      /\ dag'.edges = (dag.edges \ OutEdges(dag, n)) \cup edges
  BY RewiredNodes
<1>2. dag'.edges \subseteq [src : dag.nodes, dst : dag.nodes, handle : {e.handle : e \in dag'.edges}]
  <2> SUFFICES ASSUME NEW e \in dag'.edges
               PROVE  e \in [src : dag.nodes, dst : dag.nodes, handle : {x.handle : x \in dag'.edges}]
    OBVIOUS
  <2>1. e \in [src : dag.nodes, dst : dag.nodes, handle : {e.handle}]
    <3>1. CASE e \in edges
      BY <3>1
    <3>2. CASE e \in dag.edges
      BY <3>2 DEF DagOK, IsDag
    <3> QED
      BY <1>1, <3>1, <3>2
  <2> QED
    BY <2>1
<1>3. DagOK'
  BY <1>1, <1>2 DEF SameNodes, DagOK, IsDag
<1>4. HasBranches(dag')
  BY <1>1 DEF SameNodes, HasBranches
<1> QED
  BY <1>3, <1>4

\* The types depend on no edge.
LEMMA SameTypes ==
  ASSUME SameNodes
  PROVE  /\ OutputType' = OutputType /\ TaskType' = TaskType /\ ScopeType' = ScopeType
         /\ Loops' = Loops
BY DEF SameNodes, OutputType, TaskType, ScopeType, Loops

------------------------------------------------------------------------------
(* Types.                                                                  *)

\* The routes of a parallel's end sentinel, and what it goes on with.
LEMMA RoutesTyped ==
  /\ Output(FALSE, None, "parallel_exit", FALSE) \in OutputType
  /\ Output(FALSE, None, "parallel_continue", FALSE) \in OutputType
  /\ Plain \in OutputType
BY DEF Output, Plain, OutputType, ControlHandles, BackHandles, ExitHandles

\* The sentinels of a parallel belong to one that has branches.
LEMMA ParallelOf ==
  ASSUME EngineTyped, HasBranches(dag), NEW n \in dag.nodes, OfParallel(n)
  PROVE  dag.sub[n] \in DOMAIN dag.branch /\ dag.sub[n] \in Loops
BY DEF OfParallel, IsSentinel, EngineTyped, DagOK, IsDag, HasBranches, Loops

\* The outputs of a batch follow those before it.
LEMMA GatheredAll ==
  ASSUME NEW s \in ScopeType, NEW p, NEW size \in Nat, scope[p] = s
  PROVE  LET all == s.all \o BranchOutputs(p, size)
         IN  /\ all \in Seq(SUBSET (dag.nodes \cup Loops)) /\ Len(all) = Len(s.all) + size
             /\ Len(s.all) \in Nat
<1> DEFINE S == SUBSET (dag.nodes \cup Loops)
<1>1. s.cur \in S /\ s.all \in Seq(S)
  BY ScopeFields
<1>2. \A i \in 1..size : scope[p].cur \cap dag.branch[p][i].nodes \in S
  BY <1>1
<1> HIDE DEF S
<1>3. BranchOutputs(p, size) \in Seq(S) /\ Len(BranchOutputs(p, size)) = size
  BY <1>2 DEF BranchOutputs
<1>4. s.all \o BranchOutputs(p, size) \in Seq(S)
      /\ Len(s.all \o BranchOutputs(p, size)) = Len(s.all) + size /\ Len(s.all) \in Nat
  BY <1>1, <1>3
<1> QED
  BY <1>4 DEF S

LEMMA StartTyped ==
  ASSUME ParallelTyped, NEW n \in dag.nodes, RunParallelStart(n)
  PROVE  ParallelTyped'
<1> USE DEF flags, outcome
<1> DEFINE p == dag.sub[n]
<1>1. /\ DagOK /\ HasBranches(dag) /\ EngineTypes /\ total \in [Loops -> Nat]
      /\ p \in DOMAIN dag.branch /\ p \in Loops /\ n \in DOMAIN task
  BY ParallelOf DEF ParallelTyped, EngineTyped, RunParallelStart, Running
<1>2. scope \in [Loops -> ScopeType] /\ scope[p].iteration \in Nat
  <2>1. scope \in [Loops -> ScopeType]
    BY <1>1 DEF EngineTypes
  <2> QED
    BY <1>1, <2>1, ScopeFields
<1>3. PICK count : /\ count \in IF scope[p].live THEN {total[p]} ELSE BranchCounts(p)
                   /\ scope' = Entered(p) /\ total' = [total EXCEPT ![p] = count]
                   /\ \/ /\ Returned(n, Output(FALSE, None, "parallel_exit", FALSE))
                         /\ UNCHANGED <<dag, em, states>>
                      \/ Returned(n, Plain) /\ PrepareBatch(n, BatchSize(p, count))
  BY DEF RunParallelStart
<1>4. count \in Nat /\ total' \in [Loops -> Nat]
  BY <1>1, <1>3 DEF BranchCounts, HasBranches
<1>5. DagOK' /\ HasBranches(dag') /\ SameNodes
  <2>1. CASE dag' = dag
    BY <1>1, <2>1 DEF DagOK, SameNodes
  <2>2. CASE PrepareBatch(n, BatchSize(p, count))
    <3>1. dag' = Rewired(n, BatchEdges(p, BatchSize(p, count)))
      BY <2>2 DEF PrepareBatch
    <3>2. BatchSize(p, count) \in Int /\ BatchSize(p, count) <= dag.batch[p]
      BY <1>1, <1>2, <1>4, SizeBounded
    <3>3. \A e \in BatchEdges(p, BatchSize(p, count)) :
            e \in [src : dag.nodes, dst : dag.nodes, handle : {e.handle}]
      BY <1>1, <3>2, BatchShape
    <3> QED
      BY <1>1, <3>1, <3>3, RewiredIsDag, RewiredNodes
  <2> QED
    BY <1>3, <2>1, <2>2
<1>6. /\ DOMAIN task' \subseteq dag.nodes /\ task' \in [DOMAIN task' -> TaskType]
      /\ lock' \in Seq(dag.nodes)
  <2>1. EngineTyped
    BY DEF ParallelTyped
  <2> QED
    BY <1>1, <1>3, <2>1, RoutesTyped, ReturnedTyped
<1>7. scope' \in [Loops -> ScopeType]
  BY <1>1, <1>3, EnteredTyped DEF ParallelTyped
<1>8. /\ executed' \subseteq DOMAIN blockStates' /\ DOMAIN blockStates' \subseteq dag.nodes
      /\ blockStates' \in [DOMAIN blockStates' -> OutputType]
  <2>1. \/ UNCHANGED states
        \/ \E nodes : ResetStates(nodes)
    BY <1>3 DEF PrepareBatch
  <2>2. /\ executed \subseteq DOMAIN blockStates /\ DOMAIN blockStates \subseteq dag.nodes
        /\ blockStates \in [DOMAIN blockStates -> OutputType]
    BY <1>1 DEF EngineTypes
  <2>3. CASE UNCHANGED states
    BY <2>2, <2>3 DEF states
  <2>4. ASSUME NEW nodes, ResetStates(nodes)
        PROVE  /\ executed' \subseteq DOMAIN blockStates' /\ DOMAIN blockStates' \subseteq dag.nodes
               /\ blockStates' \in [DOMAIN blockStates' -> OutputType]
    BY <2>2, <2>4 DEF ResetStates
  <2> QED
    BY <2>1, <2>3, <2>4
<1>9. UNCHANGED <<queue, rfb, flags, outcome, pc, waitFor, result>>
  BY DEF RunParallelStart
<1>10. EngineTypes'
  BY <1>1, <1>5, <1>6, <1>7, <1>8, <1>9, SameTypes DEF SameNodes, EngineTypes
<1> QED
  BY <1>4, <1>5, <1>10, SameTypes DEF ParallelTyped, EngineTyped

LEMMA EndTyped ==
  ASSUME ParallelTyped, NEW n \in dag.nodes, RunParallelEnd(n),
         BatchSize(dag.sub[n], total[dag.sub[n]]) \in Nat
  PROVE  ParallelTyped'
<1> USE DEF flags, outcome, states
<1> DEFINE p == dag.sub[n]  s == scope[p]  size == BatchSize(p, total[p])
           all == s.all \o BranchOutputs(p, size)
<1>1. /\ EngineTyped /\ DagOK /\ HasBranches(dag) /\ EngineTypes /\ total \in [Loops -> Nat]
      /\ p \in DOMAIN dag.branch /\ p \in Loops /\ n \in DOMAIN task
  BY ParallelOf DEF ParallelTyped, EngineTyped, RunParallelEnd, Running
<1>2. scope \in [Loops -> ScopeType] /\ s \in ScopeType
  BY <1>1 DEF EngineTypes
<1>3. all \in Seq(SUBSET (dag.nodes \cup Loops))
  BY <1>2, GatheredAll
<1>4. dag' = dag /\ total' = total /\ SameNodes
  BY DEF RunParallelEnd, SameNodes
<1>5. PICK out \in OutputType : Returned(n, out)
  BY RoutesTyped DEF RunParallelEnd
<1>6. /\ DOMAIN task' \subseteq dag.nodes /\ task' \in [DOMAIN task' -> TaskType]
      /\ lock' \in Seq(dag.nodes)
  BY <1>1, <1>5, ReturnedTyped
<1>7. scope' \in [Loops -> ScopeType]
  <2>1. s.iteration + size \in Nat
    BY <1>2, ScopeFields
  <2> HIDE DEF all, size
  <2>2. \/ scope' = [scope EXCEPT ![p].cur = {}, ![p].all = all, ![p].iteration = @ + size]
        \/ scope' = [scope EXCEPT ![p].cur = {}, ![p].all = <<>>, ![p].results = all]
    BY DEF RunParallelEnd, all, size
  <2>3. [s EXCEPT !.cur = {}, !.all = all, !.iteration = s.iteration + size] \in ScopeType
    BY <1>2, <1>3, <2>1 DEF ScopeType
  <2>4. [s EXCEPT !.cur = {}, !.all = <<>>, !.results = all] \in ScopeType
    <3>1. <<>> \in Seq(SUBSET (dag.nodes \cup Loops))
      OBVIOUS
    <3> QED
      BY <1>2, <1>3, <3>1 DEF ScopeType
  <2> QED
    BY <1>1, <1>2, <2>2, <2>3, <2>4
<1>8. UNCHANGED <<queue, states, rfb, flags, outcome, pc, waitFor, result>>
  BY DEF RunParallelEnd
<1>9. EngineTypes'
  BY <1>1, <1>4, <1>6, <1>7, <1>8, SameTypes DEF EngineTypes
<1> QED
  BY <1>1, <1>4, <1>9, SameTypes DEF ParallelTyped, EngineTyped, DagOK

LEMMA ContinueTyped ==
  ASSUME ParallelTyped, NEW n \in dag.nodes, ContinueBatch(n)
  PROVE  ParallelTyped'
<1> USE DEF flags, outcome
<1>1. EngineTypes /\ task[n] \in TaskType /\ n \in DOMAIN task
  BY DEF ParallelTyped, EngineTyped, EngineTypes, ContinueBatch
<1>2. dag' = dag /\ total' = total /\ SameNodes
  BY DEF ContinueBatch, SameNodes
<1>3. DOMAIN task' \subseteq dag.nodes /\ task' \in [DOMAIN task' -> TaskType]
  BY <1>1 DEF EngineTypes, ContinueBatch, TaskType
<1>4. /\ executed' \subseteq DOMAIN blockStates' /\ DOMAIN blockStates' \subseteq dag.nodes
      /\ blockStates' \in [DOMAIN blockStates' -> OutputType]
  <2>1. n \notin executed'
    BY DEF ContinueBatch, OfParallel
  <2> QED
    BY <1>1, <2>1 DEF EngineTypes, ContinueBatch
<1>5. UNCHANGED <<queue, lock, scope, rfb, flags, outcome, pc, waitFor, result>>
  BY DEF ContinueBatch
<1>6. EngineTypes'
  BY <1>1, <1>2, <1>3, <1>4, <1>5, SameTypes DEF EngineTypes
<1> QED
  BY <1>2, <1>6, SameTypes DEF ParallelTyped, EngineTyped, DagOK

------------------------------------------------------------------------------
(* The scope of a parallel.  The engine's own actions leave it alone but for *)
(* what it has of the batch, or drop it with the loop around it.            *)

Same(s, t)  == s.iteration = t.iteration /\ s.all = t.all /\ s.results = t.results
IsBlank(s)  == s.iteration = 0 /\ s.all = <<>> /\ s.results = <<>>

LEMMA BlankScopes == IsBlank(FreshScope) /\ IsBlank([FreshScope EXCEPT !.live = TRUE])
BY DEF IsBlank, FreshScope

LEMMA EngineScopes ==
  ASSUME ParallelTyped, EngineStep, NEW p \in DOMAIN dag.branch
  PROVE  Same(scope'[p], scope[p]) \/ IsBlank(scope'[p])
<1>1. /\ p \in Loops /\ dag.loop[p] \in ParallelTypes /\ scope \in [Loops -> ScopeType]
      /\ p # None
  BY DEF ParallelTyped, EngineTyped, EngineTypes, HasBranches, Loops, DagOK, IsDag
<1>2. ASSUME scope' = scope PROVE Same(scope'[p], scope[p])
  BY <1>2 DEF Same
<1>3. \A l : Entered(l)[p] = scope[p] \/ IsBlank(Entered(l)[p])
  BY <1>1, BlankScopes DEF Entered
<1>4. ASSUME NEW n \in dag.nodes, RunBlock(n) PROVE Same(scope'[p], scope[p]) \/ IsBlank(scope'[p])
  BY <1>3, <1>4 DEF RunBlock, Same
<1>5. ASSUME NEW n \in dag.nodes, ~OfParallel(n), RunLoopStart(n) \/ RunLoopEnd(n)
      PROVE  Same(scope'[p], scope[p])
  <2>1. dag.sub[n] # p
    BY <1>1, <1>5 DEF OfParallel, IsSentinel, RunLoopStart, RunLoopEnd, None
  <2>2. scope'[p] = scope[p]
    <3>1. CASE RunLoopStart(n)
      BY <1>1, <2>1, <3>1 DEF RunLoopStart, Entered
    <3>2. CASE RunLoopEnd(n)
      <4>1. \E x : scope' = [scope EXCEPT ![dag.sub[n]] = x]
        BY <3>2, Zenon DEF RunLoopEnd
      <4> QED
        BY <1>1, <2>1, <4>1
    <3> QED
      BY <1>5, <3>1, <3>2
  <2> QED
    BY <2>2 DEF Same
<1>6. ASSUME NEW n \in dag.nodes, CompleteNode(n)
      PROVE  Same(scope'[p], scope[p]) \/ IsBlank(scope'[p])
  <2>1. DropNested(dag.sub[n])[p] = scope[p] \/ IsBlank(DropNested(dag.sub[n])[p])
    BY <1>1, BlankScopes DEF DropNested
  <2>2. \A l, x : Same(StoreOutput(l, x)[p], scope[p])
    BY <1>1 DEF StoreOutput, Same, ScopeType
  <2>3. \/ scope' = scope \/ scope' = DropNested(dag.sub[n])
        \/ \E l, x : scope' = StoreOutput(l, x)
    BY <1>6 DEF CompleteNode
  <2> QED
    BY <1>2, <2>1, <2>2, <2>3 DEF Same
<1>7. ASSUME NEW n \in dag.nodes, FailNode(n) \/ PauseAt(n) \/ Respond(n) \/ PropagateNode(n)
      PROVE  Same(scope'[p], scope[p])
  BY <1>2, <1>7 DEF FailNode, PauseAt, Respond, PropagateNode
<1>8. CASE RunLoop \/ Cancel \/ Terminated
  BY <1>2, <1>8 DEF RunLoop, InitializeQueue, ProcessQueue, WakeAny, LeaveLoop, WakeAll, Finish,
                    Cancel, Terminated, vars
<1> QED
  BY <1>4, <1>5, <1>6, <1>7, <1>8 DEF EngineStep

\* No batch begins past the last branch.
InBatches == \A p \in DOMAIN dag.branch : scope[p].iteration <= total[p]

ParallelShape == ParallelTyped /\ InBatches

LEMMA ShapeFields ==
  ASSUME ParallelShape, NEW p \in DOMAIN dag.branch
  PROVE  /\ p \in Loops /\ total[p] \in Nat /\ scope[p] \in ScopeType
         /\ scope[p].iteration \in Nat /\ scope[p].iteration <= total[p]
         /\ BatchSize(p, total[p]) \in Nat
         /\ scope[p].iteration + BatchSize(p, total[p]) <= total[p]
<1>1. p \in Loops /\ total[p] \in Nat /\ scope[p] \in ScopeType /\ HasBranches(dag)
  BY DEF ParallelShape, ParallelTyped, EngineTyped, EngineTypes, HasBranches, Loops
<1>2. scope[p].iteration \in Nat /\ scope[p].iteration <= total[p]
  BY <1>1, ScopeFields DEF ParallelShape, InBatches
<1> QED
  BY <1>1, <1>2, SizeIs

\* What the steps of the sentinels do to the scope of p.
LEMMA StartScopes ==
  ASSUME ParallelShape, NEW n \in dag.nodes, RunParallelStart(n), NEW p \in DOMAIN dag.branch
  PROVE  /\ total'[p] \in Nat
         /\ \/ Same(scope'[p], scope[p]) /\ total'[p] = total[p]
            \/ IsBlank(scope'[p])
<1> DEFINE q == dag.sub[n]
<1>1. /\ q \in Loops /\ q # None /\ p \in Loops /\ scope \in [Loops -> ScopeType]
      /\ total \in [Loops -> Nat]
  BY ShapeFields, ParallelOf DEF ParallelShape, ParallelTyped, EngineTyped, EngineTypes, DagOK, IsDag,
     Loops, RunParallelStart
<1>2. ParallelTyped'
  BY StartTyped DEF ParallelShape
<1>3. PICK count : /\ count \in IF scope[q].live THEN {total[q]} ELSE BranchCounts(q)
                   /\ scope' = Entered(q) /\ total' = [total EXCEPT ![q] = count]
  BY DEF RunParallelStart
<1>4. total'[p] \in Nat
  <2>1. Loops' = Loops
    <3>1. dag'.body = dag.body
      <4>1. CASE dag' = dag
        BY <4>1
      <4>2. ASSUME NEW edges, dag' = Rewired(n, edges) PROVE dag'.body = dag.body
        BY <4>2, RewiredNodes DEF ParallelShape, ParallelTyped, EngineTyped, SameNodes
      <4> QED
        BY <4>1, <4>2 DEF RunParallelStart, PrepareBatch
    <3> QED
      BY <3>1 DEF Loops
  <2> QED
    BY <1>1, <1>2, <2>1 DEF ParallelTyped
<1>5. CASE p # q
  BY <1>1, <1>3, <1>5 DEF Entered, Same
<1>6. CASE p = q
  <2>1. CASE scope[q].live
    BY <1>1, <1>3, <1>6, <2>1 DEF Entered, Same
  <2>2. CASE ~scope[q].live
    BY <1>1, <1>3, <1>4, <1>6, <2>2, BlankScopes DEF Entered
  <2> QED
    BY <2>1, <2>2
<1> QED
  BY <1>4, <1>5, <1>6

LEMMA EndScopes ==
  ASSUME ParallelShape, NEW n \in dag.nodes, RunParallelEnd(n), NEW p \in DOMAIN dag.branch
  PROVE  LET s    == scope[p]
             t    == scope'[p]
             size == BatchSize(p, total[p])
         IN  \/ p # dag.sub[n] /\ t = s
             \/ /\ p = dag.sub[n] /\ s.iteration + size < total[p]
                /\ t.iteration = s.iteration + size /\ t.results = s.results
                /\ Len(t.all) = Len(s.all) + size
                /\ Returned(n, Output(FALSE, None, "parallel_continue", FALSE))
             \/ /\ p = dag.sub[n] /\ s.iteration + size = total[p]
                /\ t.iteration = s.iteration /\ Len(t.results) = Len(s.all) + size
                /\ Returned(n, Output(FALSE, None, "parallel_exit", FALSE))
<1>1. /\ dag.sub[n] \in Loops /\ p \in Loops /\ scope \in [Loops -> ScopeType]
      /\ total[p] \in Nat /\ scope[p].iteration \in Nat
      /\ BatchSize(p, total[p]) \in Nat
      /\ scope[p].iteration + BatchSize(p, total[p]) <= total[p]
  BY ShapeFields, ParallelOf DEF ParallelShape, ParallelTyped, EngineTyped, EngineTypes, RunParallelEnd
<1>2. CASE p # dag.sub[n]
  <2>1. \E x : scope' = [scope EXCEPT ![dag.sub[n]] = x]
    BY Zenon DEF RunParallelEnd
  <2> QED
    BY <1>1, <1>2, <2>1
<1>3. CASE p = dag.sub[n]
  <2> DEFINE s == scope[p]  size == BatchSize(p, total[p])  all == s.all \o BranchOutputs(p, size)
  <2>1. s \in ScopeType /\ Len(all) = Len(s.all) + size
    BY <1>1, GatheredAll
  <2>2. IF s.iteration + size < total[p]
        THEN /\ scope' = [scope EXCEPT ![p].cur = {}, ![p].all = all, ![p].iteration = @ + size]
             /\ Returned(n, Output(FALSE, None, "parallel_continue", FALSE))
        ELSE /\ scope' = [scope EXCEPT ![p].cur = {}, ![p].all = <<>>, ![p].results = all]
             /\ Returned(n, Output(FALSE, None, "parallel_exit", FALSE))
    BY <1>3 DEF RunParallelEnd
  <2> HIDE DEF all, size
  <2>3. CASE s.iteration + size < total[p]
    <3>1. /\ scope'[p].iteration = s.iteration + size /\ scope'[p].results = s.results
          /\ scope'[p].all = all
      BY <1>1, <2>1, <2>2, <2>3 DEF ScopeType
    <3> QED
      BY <1>3, <2>1, <2>2, <2>3, <3>1 DEF size
  <2>4. CASE ~(s.iteration + size < total[p])
    <3>1. scope'[p].iteration = s.iteration /\ scope'[p].results = all
      BY <1>1, <2>1, <2>2, <2>4 DEF ScopeType
    <3>2. s.iteration + size = total[p]
      BY <1>1, <2>4 DEF size
    <3> QED
      BY <1>3, <2>1, <2>2, <2>4, <3>1, <3>2 DEF size
  <2> QED
    BY <2>3, <2>4
<1> QED
  BY <1>2, <1>3

------------------------------------------------------------------------------
(* Every step keeps the shape.                                             *)

LEMMA SentinelKeepsNodes ==
  ASSUME ParallelShape, NEW n \in dag.nodes, RunParallelStart(n) \/ RunParallelEnd(n) \/ ContinueBatch(n)
  PROVE  SameNodes
<1>1. CASE dag' = dag
  BY <1>1 DEF SameNodes
<1>2. ASSUME NEW edges, dag' = Rewired(n, edges) PROVE SameNodes
  BY <1>2, RewiredNodes DEF ParallelShape, ParallelTyped, EngineTyped
<1> QED
  BY <1>1, <1>2 DEF RunParallelStart, PrepareBatch, RunParallelEnd, ContinueBatch

LEMMA EngineSame == EngineStep => dag' = dag /\ SameNodes
BY EngineIsNext, DagStays DEF SameNodes

LEMMA ShapeStep == ParallelShape /\ [ParallelNext]_parallelVars => ParallelShape'
<1> SUFFICES ASSUME ParallelShape, [ParallelNext]_parallelVars PROVE ParallelShape'
  OBVIOUS
<1>1. CASE EngineStep /\ total' = total
  <2>1. ParallelTyped'
    <3>1. EngineTyped'
      BY <1>1, EngineIsNext, StepKept DEF ParallelShape, ParallelTyped
    <3> QED
      BY <1>1, <3>1, EngineSame, SameTypes DEF ParallelShape, ParallelTyped
  <2>2. ASSUME NEW p \in DOMAIN dag.branch PROVE scope'[p].iteration <= total'[p]
    BY <1>1, <2>2, EngineScopes, ShapeFields DEF ParallelShape, Same, IsBlank
  <2> QED
    BY <1>1, <2>1, <2>2, EngineSame DEF ParallelShape, InBatches
<1>2. ASSUME NEW n \in dag.nodes, RunParallelStart(n) PROVE ParallelShape'
  <2>1. ParallelTyped' /\ SameNodes
    BY <1>2, StartTyped, SentinelKeepsNodes DEF ParallelShape
  <2>2. ASSUME NEW p \in DOMAIN dag.branch PROVE scope'[p].iteration <= total'[p]
    BY <1>2, <2>2, StartScopes, ShapeFields DEF Same, IsBlank
  <2> QED
    BY <2>1, <2>2 DEF ParallelShape, InBatches, SameNodes
<1>3. ASSUME NEW n \in dag.nodes, RunParallelEnd(n) PROVE ParallelShape'
  <2>1. dag.sub[n] \in DOMAIN dag.branch
    BY <1>3, ParallelOf DEF ParallelShape, ParallelTyped, RunParallelEnd
  <2>2. ParallelTyped' /\ dag' = dag /\ total' = total
    BY <1>3, <2>1, EndTyped, ShapeFields DEF ParallelShape, RunParallelEnd
  <2>3. ASSUME NEW p \in DOMAIN dag.branch PROVE scope'[p].iteration <= total'[p]
    BY <1>3, <2>2, <2>3, EndScopes, ShapeFields
  <2> QED
    BY <2>2, <2>3 DEF ParallelShape, InBatches
<1>4. ASSUME NEW n \in dag.nodes, ContinueBatch(n) PROVE ParallelShape'
  BY <1>4, ContinueTyped DEF ParallelShape, InBatches, ContinueBatch
<1>5. CASE UNCHANGED parallelVars
  <2>1. UNCHANGED vars /\ total' = total /\ dag' = dag /\ scope' = scope
    BY <1>5 DEF parallelVars, vars
  <2>2. EngineTyped' /\ Loops' = Loops
    BY <2>1, StepKept DEF ParallelShape, ParallelTyped, Loops
  <2> QED
    BY <2>1, <2>2 DEF ParallelShape, ParallelTyped, InBatches
<1> QED
  BY <1>1, <1>2, <1>3, <1>4, <1>5 DEF ParallelNext

LEMMA ShapeInit == ParallelInit => ParallelShape
<1> SUFFICES ASSUME ParallelInit PROVE InBatches
  BY ParallelStarts DEF ParallelShape
<1>1. ASSUME NEW p \in DOMAIN dag.branch PROVE scope[p].iteration <= total[p]
  <2>1. p \in Loops
    BY <1>1, ParallelStarts DEF ParallelTyped, HasBranches, Loops
  <2>2. scope[p].iteration = 0 /\ total[p] = 0
    BY <2>1 DEF ParallelInit, Init, FreshScope
  <2> QED
    BY <2>2
<1> QED
  BY <1>1 DEF InBatches

LEMMA ShapeAlways == ParallelSpec => []ParallelShape
BY ShapeInit, ShapeStep, PTL DEF ParallelSpec

\* The state of a run that rewires its graph keeps its types, and whatever counts as
\* executed has a stored output: the reset before a batch takes its nodes from both.
THEOREM ParallelRunsTyped == ParallelSpec => []EngineTypes
<1>1. ParallelShape => EngineTypes
  BY DEF ParallelShape, ParallelTyped, EngineTyped
<1> QED
  BY <1>1, ShapeAlways, PTL

------------------------------------------------------------------------------
(* What the caller is told, the Response block, and the queue lock.        *)

LEMMA ParallelResult == ParallelShape /\ ResultInv /\ [ParallelNext]_parallelVars => ResultInv'
<1> SUFFICES ASSUME ParallelShape, ResultInv, [ParallelNext]_parallelVars PROVE ResultInv'
  OBVIOUS
<1>1. CASE EngineStep \/ UNCHANGED vars
  BY <1>1, EngineIsNext, ResultInvStep DEF ParallelShape, ParallelTyped
<1>2. ASSUME NEW n \in dag.nodes, RunParallelStart(n) \/ RunParallelEnd(n) \/ ContinueBatch(n)
      PROVE  ResultInv'
  <2>1. n \in DOMAIN task
    BY <1>2 DEF RunParallelStart, RunParallelEnd, ContinueBatch, Running
  <2>2. task # <<>>
    BY <2>1
  <2>3. UNCHANGED <<pc, result, flags, outcome>>
    BY <1>2 DEF RunParallelStart, RunParallelEnd, ContinueBatch, flags, outcome
  <2> QED
    BY <2>2, <2>3 DEF ResultInv, flags, outcome
<1> QED
  BY <1>1, <1>2 DEF ParallelNext, parallelVars

\* What the caller of a run with parallels is told is final, as without them.
THEOREM ParallelOutcomeIsFinal == ParallelSpec => []ResultIsFinal
<1>1. ParallelInit => ResultInv
  BY DEF ParallelInit, Init, EngineInit, ResultInv, None
<1>2. ParallelSpec => []ResultInv
  BY <1>1, ShapeAlways, ParallelResult, PTL DEF ParallelSpec
<1>3. ResultInv => ResultIsFinal
  BY DEF ResultInv, ResultIsFinal
<1> QED
  BY <1>2, <1>3, PTL

LEMMA SentinelNeverStops ==
  ASSUME NEW n \in dag.nodes, RunParallelStart(n) \/ RunParallelEnd(n) \/ ContinueBatch(n)
  PROVE  UNCHANGED <<pc, stoppedEarly, responseLocked, finalOutput>>
<1> USE DEF flags, outcome
<1>1. CASE RunParallelStart(n)
  BY <1>1, Zenon DEF RunParallelStart
<1>2. CASE RunParallelEnd(n)
  BY <1>2, Zenon DEF RunParallelEnd
<1>3. CASE ContinueBatch(n)
  BY <1>3 DEF ContinueBatch
<1> QED
  BY <1>1, <1>2, <1>3

\* Once a Response block ended a run its output stands and nothing is launched any
\* more, no next batch either.
THEOREM ParallelResponseStands == ParallelSpec => ResponseIsFinal
<1>1. ParallelInit => StopInv
  BY DEF ParallelInit, Init, EngineInit, StopInv
<1>2. StopInv /\ [ParallelNext]_parallelVars => StopInv'
  <2> SUFFICES ASSUME StopInv, [ParallelNext]_parallelVars PROVE StopInv'
    OBVIOUS
  <2>1. CASE EngineStep \/ UNCHANGED vars
    BY <2>1, EngineIsNext, StopInvStep
  <2>2. ASSUME NEW n \in dag.nodes, RunParallelStart(n) \/ RunParallelEnd(n) \/ ContinueBatch(n)
        PROVE  StopInv'
    BY <2>2, SentinelNeverStops DEF StopInv
  <2> QED
    BY <2>1, <2>2 DEF ParallelNext, parallelVars
<1>3. StopInv /\ [ParallelNext]_parallelVars
        => [responseLocked => finalOutput' = finalOutput /\ ~Launches]_vars
  <2> SUFFICES ASSUME StopInv, [ParallelNext]_parallelVars, responseLocked
               PROVE  UNCHANGED vars \/ (finalOutput' = finalOutput /\ ~Launches)
    OBVIOUS
  <2>1. CASE EngineStep
    BY <2>1, EngineIsNext, ResponseStep
  <2>2. ASSUME NEW n \in dag.nodes, RunParallelStart(n) \/ RunParallelEnd(n) \/ ContinueBatch(n)
        PROVE  finalOutput' = finalOutput /\ ~Launches
    BY <2>2, SentinelNeverStops DEF Launches
  <2> QED
    BY <2>1, <2>2 DEF ParallelNext, parallelVars
<1> QED
  BY <1>1, <1>2, <1>3, PTL DEF ParallelSpec, ResponseIsFinal

LEMMA ParallelLine ==
  ASSUME ParallelShape, LockIsSound, [ParallelNext]_parallelVars,
         [Launches => \A n \in queue : n \notin DOMAIN task /\ n \notin executed]_vars
  PROVE  LockIsSound'
<1>1. CASE UNCHANGED vars
  <2>1. UNCHANGED <<task, lock>>
    BY <1>1 DEF vars
  <2> QED
    BY <2>1 DEF LockIsSound, HoldsLock
<1>2. CASE EngineStep /\ ~UNCHANGED vars
  BY <1>2, EngineIsNext, LineStep DEF ParallelShape, ParallelTyped
<1>3. ASSUME NEW n \in dag.nodes, RunParallelStart(n) \/ RunParallelEnd(n) PROVE LockIsSound'
  <2>1. Running(n) /\ \E out : Returned(n, out)
    BY <1>3 DEF RunParallelStart, RunParallelEnd
  <2> QED
    BY <2>1, AnswerLine DEF ParallelShape, ParallelTyped
<1>4. ASSUME NEW n \in dag.nodes, ContinueBatch(n) PROVE LockIsSound'
  BY <1>4, EnterSection DEF ContinueBatch, ParallelShape, ParallelTyped
<1> QED
  BY <1>1, <1>2, <1>3, <1>4 DEF ParallelNext, parallelVars

\* As long as nothing is launched a second time, the queue lock of a run with
\* parallels is fair and lost by nobody, batch after batch.
THEOREM ParallelLineIsKept == ParallelSpec /\ NoRelaunch => []LockIsSound
<1>1. ParallelInit => LockIsSound
  BY DEF ParallelInit, Init, EngineInit, LockIsSound
<1> QED
  BY <1>1, ShapeAlways, ParallelLine, PTL DEF ParallelSpec, NoRelaunch

------------------------------------------------------------------------------
(* The results of a parallel.  Until its end sentinel exits it has gathered   *)
(* one output for each branch of the batches before; from then on it has a    *)
(* result for each of its branches, and its end sentinel does not run again   *)
(* short of the subflow around it going on, which drops the scope.            *)

IsEndOf(n, p) == n \in dag.nodes /\ dag.sub[n] = p /\ dag.role[n] = "end"

Gathering(p) ==
  scope[p].results = <<>> /\ Len(scope[p].all) = scope[p].iteration

\* The end sentinel has answered, and not that it goes on; it counts as executed
\* as soon as it is past the line, unless the run is stopped.
IsThrough(n) ==
  /\ n \in DOMAIN task => task[n].stage # "running" /\ ~Continues(n)
  /\ stoppedEarly \/ n \in executed \/ (n \in DOMAIN task /\ task[n].stage = "returned")

Exited(p) ==
  Len(scope[p].results) = total[p] /\ \A n \in dag.nodes : IsEndOf(n, p) => IsThrough(n)

BatchInv ==
  /\ \A n \in DOMAIN task : ~task[n].was
  /\ \A p \in DOMAIN dag.branch : Gathering(p) \/ Exited(p)

\* No launch takes up what is in flight or executed.
Fresh == Launches => \A n \in queue : n \notin DOMAIN task /\ n \notin executed

LEMMA BlankGathers == ASSUME NEW p, IsBlank(scope'[p]) PROVE Gathering(p)'
BY DEF IsBlank, Gathering

\* Nothing that runs is run a second time.
LEMMA NoneAgain ==
  ASSUME ParallelShape, BatchInv, [ParallelNext]_parallelVars, Fresh
  PROVE  \A n \in DOMAIN task' : ~task'[n].was
<1> USE DEF flags, outcome, states
<1>0. task \in [DOMAIN task -> TaskType] /\ \A n \in DOMAIN task : ~task[n].was
  BY DEF ParallelShape, ParallelTyped, EngineTyped, EngineTypes, BatchInv
<1>1. ASSUME NEW n, task' = Settle(n) PROVE \A m \in DOMAIN task' : ~task'[m].was
  BY <1>0, <1>1 DEF Settle
<1>2. ASSUME NEW n, task' = [task EXCEPT ![n].stage = "completing"]
      PROVE  \A m \in DOMAIN task' : ~task'[m].was
  BY <1>0, <1>2 DEF TaskType
<1>3. ASSUME NEW n, NEW out, Returned(n, out) PROVE \A m \in DOMAIN task' : ~task'[m].was
  <2>1. CASE task' = Settle(n)
    BY <1>1, <2>1
  <2>2. CASE task' = [task EXCEPT ![n].stage = "returned", ![n].out = out]
    BY <1>0, <2>2 DEF TaskType
  <2> QED
    BY <1>3, <2>1, <2>2 DEF Returned
<1>4. CASE ProcessQueue
  <2>1. \A n \in queue : n \notin executed
    BY <1>4 DEF ProcessQueue, Fresh, Launches
  <2> QED
    BY <1>0, <1>4, <2>1 DEF ProcessQueue
<1>5. CASE InitializeQueue \/ WakeAny \/ LeaveLoop \/ WakeAll \/ Finish \/ Cancel \/ UNCHANGED vars
  BY <1>0, <1>5 DEF InitializeQueue, WakeAny, LeaveLoop, WakeAll, Finish, Cancel, vars
<1>6. ASSUME NEW n \in dag.nodes,
             RunBlock(n) \/ RunLoopStart(n) \/ RunLoopEnd(n) \/ RunParallelStart(n) \/ RunParallelEnd(n)
      PROVE  \A m \in DOMAIN task' : ~task'[m].was
  <2>1. \E out : Returned(n, out)
    BY <1>6 DEF RunBlock, RunLoopStart, RunLoopEnd, RunParallelStart, RunParallelEnd
  <2> QED
    BY <1>3, <2>1
<1>7. ASSUME NEW n \in dag.nodes,
             FailNode(n) \/ CompleteNode(n) \/ PauseAt(n) \/ Respond(n) \/ PropagateNode(n)
               \/ ContinueBatch(n)
      PROVE  \A m \in DOMAIN task' : ~task'[m].was
  <2>1. task' = Settle(n) \/ task' = [task EXCEPT ![n].stage = "completing"]
    BY <1>7 DEF FailNode, CompleteNode, PauseAt, Respond, PropagateNode, Releases, ContinueBatch
  <2> QED
    BY <1>1, <1>2, <2>1
<1> QED
  BY <1>4, <1>5, <1>6, <1>7 DEF ParallelNext, EngineStep, RunLoop, Terminated, parallelVars

\* Whatever the engine does, an end sentinel that is through stays so, unless the
\* scope is dropped.
LEMMA EngineThrough ==
  ASSUME ParallelShape, BatchInv, EngineStep, Fresh,
         NEW p \in DOMAIN dag.branch, NEW m, IsEndOf(m, p), IsThrough(m)
  PROVE  IsThrough(m)' \/ IsBlank(scope'[p])
<1> USE DEF flags, outcome, states
<1>0. /\ task \in [DOMAIN task -> TaskType] /\ dag' = dag /\ m \in dag.nodes /\ dag.role[m] = "end"
      /\ dag.sub[m] = p /\ p \in Loops /\ p # None
      /\ OfParallel(m) /\ scope \in [Loops -> ScopeType]
  BY EngineSame DEF ParallelShape, ParallelTyped, EngineTyped, EngineTypes, IsEndOf, OfParallel,
     IsSentinel, HasBranches, DagOK, IsDag, Loops, None
\* Its own place is the same.
<1>1. ASSUME executed \subseteq executed', stoppedEarly' = stoppedEarly,
             m \in DOMAIN task' <=> m \in DOMAIN task, m \in DOMAIN task => task'[m] = task[m]
      PROVE  IsThrough(m)'
  BY <1>0, <1>1 DEF IsThrough, Continues
<1>2. CASE ProcessQueue
  <2>1. /\ \A n \in queue : n \notin DOMAIN task /\ n \notin executed
        /\ ~stoppedEarly
    BY <1>2 DEF ProcessQueue, Fresh, Launches
  <2>2. m \notin queue
    BY <2>1 DEF IsThrough
  <2>3. DOMAIN task' = DOMAIN task \cup queue /\ (m \in DOMAIN task => task'[m] = task[m])
    BY <1>2, <2>2 DEF ProcessQueue
  <2> QED
    BY <1>1, <1>2, <2>2, <2>3 DEF ProcessQueue
<1>3. CASE InitializeQueue \/ WakeAny \/ LeaveLoop \/ WakeAll \/ Finish \/ Cancel \/ Terminated
  <2>1. UNCHANGED <<task, executed, stoppedEarly>>
    BY <1>3 DEF InitializeQueue, WakeAny, LeaveLoop, WakeAll, Finish, Cancel, Terminated, vars
  <2> QED
    BY <1>1, <2>1
<1>4. ASSUME NEW n \in dag.nodes, Execute(n) PROVE IsThrough(m)'
  <2>1. n # m /\ n \in DOMAIN task
    BY <1>4 DEF IsThrough, Execute, RunBlock, FailNode, RunLoopStart, RunLoopEnd, Running
  <2>2. executed \subseteq executed' /\ stoppedEarly' = stoppedEarly
    BY <1>4 DEF Execute, RunBlock, FailNode, RunLoopStart, RunLoopEnd, StoreState
  <2>3. task' = Settle(n) \/ \E out : task' = [task EXCEPT ![n].stage = "returned", ![n].out = out]
    BY <1>4 DEF Execute, RunBlock, FailNode, RunLoopStart, RunLoopEnd, Returned
  <2>4. (m \in DOMAIN task' <=> m \in DOMAIN task) /\ (m \in DOMAIN task => task'[m] = task[m])
    BY <2>1, <2>3 DEF Settle
  <2> QED
    BY <1>1, <2>2, <2>4
<1>5. ASSUME NEW n \in dag.nodes, n # m, CompleteNode(n),
             OfParallel(n) /\ Continues(n) => stoppedEarly /\ responseLocked
      PROVE  IsThrough(m)' \/ IsBlank(scope'[p])
  <2>1. stoppedEarly' = stoppedEarly
    BY <1>5 DEF CompleteNode
  <2>2. task' = Settle(n) \/ task' = [task EXCEPT ![n].stage = "completing"]
    BY <1>5 DEF CompleteNode
  <2>3. (m \in DOMAIN task' <=> m \in DOMAIN task) /\ (m \in DOMAIN task => task'[m] = task[m])
    BY <1>5, <2>2 DEF Settle
  <2>4. CASE m \notin executed \/ m \in executed'
    BY <1>0, <2>1, <2>3, <2>4 DEF IsThrough, Continues
  <2>5. CASE m \in executed /\ m \notin executed'
    <3>1. /\ Continues(n) /\ ~(stoppedEarly /\ responseLocked)
          /\ executed' = Unmarked(dag.sub[n]) /\ scope' = DropNested(dag.sub[n])
      BY <1>5, <2>5 DEF CompleteNode, StoreState
    <3>2. ~OfParallel(n) /\ dag.role[n] = "end"
      BY <1>5, <3>1 DEF Continues
    <3>3. dag.sub[n] \in Loops
      BY <3>2 DEF ParallelShape, ParallelTyped, EngineTyped, DagOK, IsDag, Loops, None
    <3>4. dag.sub[n] # p
      BY <1>0, <3>2 DEF OfParallel, IsSentinel, None
    <3>5. dag.body[p] \subseteq dag.body[dag.sub[n]]
      BY <1>0, <2>5, <3>1, <3>3 DEF Unmarked, ParallelShape, ParallelTyped, HasBranches, Loops
    <3> QED
      BY <1>0, <3>1, <3>4, <3>5, BlankScopes DEF DropNested
  <2> QED
    BY <2>4, <2>5
<1>6. CASE CompleteNode(m)
  <2>1. m \in DOMAIN task /\ task[m].stage = "returned" /\ ~Continues(m) /\ task[m] \in TaskType
    BY <1>0, <1>6 DEF CompleteNode, IsThrough
  <2>2. CASE stoppedEarly /\ responseLocked
    BY <1>6, <2>2 DEF CompleteNode, Settle, IsThrough
  <2>3. CASE ~(stoppedEarly /\ responseLocked)
    <3>1. /\ task' = [task EXCEPT ![m].stage = "completing"] /\ m \in executed'
      BY <1>6, <2>1, <2>3 DEF CompleteNode, StoreState
    <3>2. task'[m].stage = "completing" /\ task'[m].out = task[m].out
      BY <2>1, <3>1 DEF TaskType
    <3> QED
      BY <1>0, <2>1, <3>1, <3>2 DEF IsThrough, Continues
  <2> QED
    BY <2>2, <2>3
<1>7. ASSUME NEW n \in dag.nodes, PauseAt(n) \/ Respond(n) \/ PropagateNode(n)
      PROVE  IsThrough(m)'
  <2>1. /\ n \in DOMAIN task /\ task[n].stage = "completing" /\ task' = Settle(n)
    BY <1>7 DEF PauseAt, Respond, PropagateNode, Completing, Releases
  <2>2. executed' = executed /\ (stoppedEarly => stoppedEarly')
    BY <1>7 DEF PauseAt, Respond, PropagateNode
  <2>3. CASE n = m
    BY <2>1, <2>2, <2>3 DEF Settle, IsThrough
  <2>4. CASE n # m
    <3>1. (m \in DOMAIN task' <=> m \in DOMAIN task) /\ (m \in DOMAIN task => task'[m] = task[m])
      BY <2>1, <2>4 DEF Settle
    <3> QED
      BY <1>0, <2>2, <3>1 DEF IsThrough, Continues
  <2> QED
    BY <2>3, <2>4
<1> QED
  BY <1>2, <1>3, <1>4, <1>5, <1>6, <1>7 DEF EngineStep, RunLoop, Execute

LEMMA BatchEngine ==
  ASSUME ParallelShape, BatchInv, EngineStep, total' = total, Fresh, NEW p \in DOMAIN dag.branch
  PROVE  Gathering(p)' \/ Exited(p)'
<1>1. dag' = dag
  BY EngineSame
<1>2. ASSUME Same(scope'[p], scope[p]), Gathering(p) PROVE Gathering(p)'
  BY <1>2 DEF Same, Gathering
<1>3. ASSUME Same(scope'[p], scope[p]), Exited(p) PROVE Gathering(p)' \/ Exited(p)'
  <2>1. Len(scope'[p].results) = total'[p]
    BY <1>3 DEF Same, Exited
  <2>2. ASSUME NEW m \in dag.nodes, IsEndOf(m, p), ~IsBlank(scope'[p]) PROVE IsThrough(m)'
    BY <1>3, <2>2, EngineThrough DEF Exited
  <2>3. \A m : IsEndOf(m, p)' <=> IsEndOf(m, p)
    BY <1>1 DEF IsEndOf
  <2> QED
    BY <1>1, <2>1, <2>2, <2>3, BlankGathers DEF Exited
<1>4. Gathering(p) \/ Exited(p)
  BY DEF BatchInv
<1> QED
  BY <1>2, <1>3, <1>4, EngineScopes, BlankGathers DEF ParallelShape

\* The nodes of a batch are no sentinels, so making it takes nothing from one that is
\* through.
LEMMA EndStaysThrough ==
  ASSUME ParallelShape, NEW n \in dag.nodes, RunParallelStart(n), NEW m, dag.role[m] = "end",
         IsThrough(m), m \in dag.nodes
  PROVE  IsThrough(m)'
<1> USE DEF flags, outcome
<1>1. /\ Running(n) /\ dag.role[n] = "start" /\ n # m /\ SameNodes
      /\ dag.sub[n] \in DOMAIN dag.branch /\ HasBranches(dag) /\ total \in [Loops -> Nat]
      /\ scope[dag.sub[n]].iteration \in Nat /\ dag.sub[n] \in Loops
  BY SentinelKeepsNodes, ParallelOf, ShapeFields DEF RunParallelStart, ParallelShape, ParallelTyped
<1>2. PICK out : Returned(n, out)
  BY DEF RunParallelStart
<1>3. (m \in DOMAIN task' <=> m \in DOMAIN task) /\ (m \in DOMAIN task => task'[m] = task[m])
  BY <1>1, <1>2 DEF Returned, Settle, Running
<1>4. stoppedEarly' = stoppedEarly
  BY SentinelNeverStops
<1>5. m \in executed => m \in executed'
  <2>1. ASSUME NEW count, PrepareBatch(n, BatchSize(dag.sub[n], count)), count \in Nat
        PROVE  m \in executed => m \in executed'
    <3>1. /\ BatchSize(dag.sub[n], count) \in Int
          /\ BatchSize(dag.sub[n], count) <= dag.batch[dag.sub[n]]
      BY <1>1, <2>1, SizeBounded
    <3>2. m \notin BatchNodes(dag.sub[n], BatchSize(dag.sub[n], count))
      BY <1>1, <3>1, BatchShape, Zenon DEF None
    <3> QED
      BY <2>1, <3>2 DEF PrepareBatch, ResetStates
  <2>2. \A count \in IF scope[dag.sub[n]].live THEN {total[dag.sub[n]]} ELSE BranchCounts(dag.sub[n]) :
          count \in Nat
    BY <1>1 DEF BranchCounts, HasBranches
  <2>3. \/ UNCHANGED states
        \/ \E count \in Nat : PrepareBatch(n, BatchSize(dag.sub[n], count))
    BY <2>2 DEF RunParallelStart
  <2> QED
    BY <2>1, <2>3 DEF states
<1> QED
  BY <1>1, <1>3, <1>4, <1>5 DEF IsThrough, Continues, SameNodes

LEMMA BatchBegins ==
  ASSUME ParallelShape, BatchInv, NEW n \in dag.nodes, RunParallelStart(n),
         NEW p \in DOMAIN dag.branch
  PROVE  Gathering(p)' \/ Exited(p)'
<1>1. SameNodes
  BY SentinelKeepsNodes
<1>2. CASE IsBlank(scope'[p])
  BY <1>2, BlankGathers
<1>3. CASE Same(scope'[p], scope[p]) /\ total'[p] = total[p]
  <2>1. CASE Gathering(p)
    BY <1>3, <2>1 DEF Same, Gathering
  <2>2. CASE Exited(p)
    <3>1. Len(scope'[p].results) = total'[p]
      BY <1>3, <2>2 DEF Same, Exited
    <3>2. ASSUME NEW m \in dag'.nodes, IsEndOf(m, p)' PROVE IsThrough(m)'
      <4>1. m \in dag.nodes /\ IsEndOf(m, p)
        BY <1>1, <3>2 DEF IsEndOf, SameNodes
      <4> QED
        BY <2>2, <4>1, EndStaysThrough DEF Exited, IsEndOf
    <3> QED
      BY <3>1, <3>2 DEF Exited
  <2> QED
    BY <2>1, <2>2 DEF BatchInv
<1> QED
  BY <1>2, <1>3, StartScopes

LEMMA BatchEnds ==
  ASSUME ParallelShape, BatchInv, NEW n \in dag.nodes, RunParallelEnd(n),
         NEW p \in DOMAIN dag.branch
  PROVE  Gathering(p)' \/ Exited(p)'
<1> USE DEF flags, outcome, states
<1>1. /\ n \in DOMAIN task /\ task[n].stage = "running" /\ dag.role[n] = "end"
      /\ dag' = dag /\ total' = total /\ ~task[n].was
      /\ task \in [DOMAIN task -> TaskType] /\ executed' = executed
  BY DEF RunParallelEnd, Running, BatchInv, ParallelShape, ParallelTyped, EngineTyped, EngineTypes
<1>2. stoppedEarly' = stoppedEarly
  BY SentinelNeverStops
<1>3. PICK out \in {Output(FALSE, None, "parallel_continue", FALSE), Output(FALSE, None, "parallel_exit", FALSE)} :
        Returned(n, out)
  BY DEF RunParallelEnd
<1>4. task' = [task EXCEPT ![n].stage = "returned", ![n].out = out]
  BY <1>1, <1>3 DEF Returned
<1>5. CASE p # dag.sub[n]
  <2>1. scope'[p] = scope[p]
    BY <1>5, EndScopes
  <2>2. ASSUME NEW m, IsEndOf(m, p), IsThrough(m) PROVE IsThrough(m)'
    <3>1. m # n
      BY <1>5, <2>2 DEF IsEndOf
    <3>2. (m \in DOMAIN task' <=> m \in DOMAIN task) /\ (m \in DOMAIN task => task'[m] = task[m])
      BY <1>1, <1>4, <3>1
    <3> QED
      BY <1>1, <1>2, <2>2, <3>2 DEF IsThrough, Continues
  <2>3. CASE Gathering(p)
    BY <2>1, <2>3 DEF Gathering
  <2>4. CASE Exited(p)
    <3>1. Len(scope'[p].results) = total'[p]
      BY <1>1, <2>1, <2>4 DEF Exited
    <3>2. \A m : IsEndOf(m, p)' <=> IsEndOf(m, p)
      BY <1>1 DEF IsEndOf
    <3> QED
      BY <1>1, <2>2, <2>4, <3>1, <3>2 DEF Exited
  <2> QED
    BY <2>3, <2>4 DEF BatchInv
<1>6. CASE p = dag.sub[n]
  <2>1. IsEndOf(n, p) /\ ~IsThrough(n)
    BY <1>1, <1>6 DEF IsEndOf, IsThrough
  <2>2. Gathering(p)
    BY <2>1 DEF Exited, BatchInv
  <2> DEFINE size == BatchSize(p, total[p])
  <2>3. /\ size \in Nat /\ scope[p].iteration \in Nat
        /\ Len(scope[p].all) = scope[p].iteration /\ scope[p].results = <<>>
    BY <2>2, ShapeFields DEF Gathering
  <2> HIDE DEF size
  <2>4. CASE /\ scope'[p].iteration = scope[p].iteration + size
             /\ scope'[p].results = scope[p].results
             /\ Len(scope'[p].all) = Len(scope[p].all) + size
    BY <2>3, <2>4 DEF Gathering
  <2>5. CASE /\ scope[p].iteration + size = total[p]
             /\ Len(scope'[p].results) = Len(scope[p].all) + size
             /\ Returned(n, Output(FALSE, None, "parallel_exit", FALSE))
    <3>1. Len(scope'[p].results) = total'[p]
      BY <1>1, <2>3, <2>5
    <3>2. task' = [task EXCEPT ![n].stage = "returned",
                               ![n].out = Output(FALSE, None, "parallel_exit", FALSE)]
      BY <1>1, <2>5 DEF Returned
    <3>3. /\ n \in DOMAIN task' /\ task'[n].stage = "returned"
          /\ task'[n].out = Output(FALSE, None, "parallel_exit", FALSE)
      BY <1>1, <3>2 DEF TaskType
    <3>4. task'[n].out.route \notin BackHandles
      BY <3>3 DEF Output, BackHandles
    <3>5. IsThrough(n)'
      BY <3>3, <3>4 DEF IsThrough, Continues
    <3>6. ASSUME NEW m \in dag'.nodes, IsEndOf(m, p)' PROVE m = n
      BY <1>1, <2>1, <3>6 DEF IsEndOf, ParallelShape, ParallelTyped, HasBranches
    <3> QED
      BY <3>1, <3>5, <3>6 DEF Exited
  <2> QED
    BY <1>6, <2>4, <2>5, EndScopes DEF size
<1> QED
  BY <1>5, <1>6

LEMMA BatchGoesOn ==
  ASSUME ParallelShape, BatchInv, NEW n \in dag.nodes, ContinueBatch(n),
         NEW p \in DOMAIN dag.branch
  PROVE  Gathering(p)' \/ Exited(p)'
<1> USE DEF flags, outcome
<1>1. /\ n \in DOMAIN task /\ Continues(n) /\ dag' = dag /\ total' = total /\ scope' = scope
      /\ task' = [task EXCEPT ![n].stage = "completing"] /\ stoppedEarly' = stoppedEarly
      /\ executed' = {m \in executed : ~(IsSentinel(m) /\ dag.sub[m] = dag.sub[n])}
  BY DEF ContinueBatch
<1>2. CASE Gathering(p)
  BY <1>1, <1>2 DEF Gathering
<1>3. CASE Exited(p)
  <2>1. dag.sub[n] # p
    BY <1>1, <1>3 DEF Exited, IsEndOf, IsThrough, Continues
  <2>2. ASSUME NEW m, IsEndOf(m, p), IsThrough(m) PROVE IsThrough(m)'
    <3>1. m # n /\ (m \in executed => m \in executed')
      BY <1>1, <2>1, <2>2 DEF IsEndOf
    <3>2. (m \in DOMAIN task' <=> m \in DOMAIN task) /\ (m \in DOMAIN task => task'[m] = task[m])
      BY <1>1, <3>1
    <3> QED
      BY <1>1, <2>2, <3>1, <3>2 DEF IsThrough, Continues
  <2>3. \A m : IsEndOf(m, p)' <=> IsEndOf(m, p)
    BY <1>1 DEF IsEndOf
  <2> QED
    BY <1>1, <1>3, <2>2, <2>3 DEF Exited
<1> QED
  BY <1>2, <1>3 DEF BatchInv

LEMMA BatchStep ==
  ParallelShape /\ BatchInv /\ [ParallelNext]_parallelVars
    /\ [Launches => \A n \in queue : n \notin DOMAIN task /\ n \notin executed]_vars
    => BatchInv'
<1> SUFFICES ASSUME ParallelShape, BatchInv, [ParallelNext]_parallelVars,
                    [Launches => \A n \in queue : n \notin DOMAIN task /\ n \notin executed]_vars
             PROVE  BatchInv'
  OBVIOUS
<1>1. Fresh
  BY DEF Fresh, Launches, vars
<1>2. \A n \in DOMAIN task' : ~task'[n].was
  BY <1>1, NoneAgain
<1>3. CASE UNCHANGED parallelVars
  <2>1. UNCHANGED <<dag, scope, total, task, executed, stoppedEarly>>
    BY <1>3 DEF parallelVars, vars, states, flags
  <2>2. \A p : (Gathering(p)' <=> Gathering(p)) /\ (Exited(p)' <=> Exited(p))
    BY <2>1 DEF Gathering, Exited, IsEndOf, IsThrough, Continues
  <2> QED
    BY <1>2, <2>1, <2>2 DEF BatchInv
<1>4. ASSUME NEW p \in DOMAIN dag.branch, ParallelNext PROVE Gathering(p)' \/ Exited(p)'
  BY <1>1, <1>4, BatchEngine, BatchBegins, BatchEnds, BatchGoesOn DEF ParallelNext
<1>5. ASSUME ParallelNext PROVE dag'.branch = dag.branch
  BY <1>5, EngineSame, SentinelKeepsNodes DEF ParallelNext, SameNodes
<1> QED
  BY <1>2, <1>3, <1>4, <1>5 DEF BatchInv

\* A parallel that is done has a result for each of its branches, whatever their
\* number and the size of a batch, and also where the loop around it runs it again.
THEOREM BranchesAreCounted == ParallelSpec /\ NoRelaunch => []BranchesCounted
<1>1. ParallelInit => BatchInv
  <2> SUFFICES ASSUME ParallelInit PROVE BatchInv
    OBVIOUS
  <2>1. ASSUME NEW p \in DOMAIN dag.branch PROVE Gathering(p)
    <3>1. p \in Loops
      BY <2>1, ParallelStarts DEF ParallelTyped, HasBranches, Loops
    <3>2. scope[p] = FreshScope
      BY <3>1 DEF ParallelInit, Init
    <3> QED
      BY <3>2 DEF FreshScope, Gathering
  <2>2. task = <<>>
    BY DEF ParallelInit, Init, EngineInit
  <2> QED
    BY <2>1, <2>2 DEF BatchInv
<1>2. BatchInv => BranchesCounted
  BY DEF BatchInv, BranchesCounted, Gathering, Exited
<1> QED
  BY <1>1, <1>2, ShapeAlways, BatchStep, PTL DEF ParallelSpec, NoRelaunch

------------------------------------------------------------------------------
(* Whose outputs the results are.                                          *)

LEMMA SoundSame ==
  ASSUME SameNodes, \A l \in Loops : ScopeSound(l, scope'[l])
  PROVE  LoopInv'
<1>1. \A l, s : ScopeSound(l, s) => ScopeSound(l, s)'
  BY DEF SameNodes, ScopeSound, ScopeType, OwnSeq, OwnOf, Counts, IsCounted, IsSentinel, Loops
<1> QED
  BY <1>1, SameTypes DEF LoopInv

\* What a batch has stored is told apart by branch, and nothing joins it.
LEMMA BranchesOwn ==
  ASSUME NEW p, NEW s \in ScopeType, scope[p] = s, NEW size \in Nat,
         s.cur \subseteq OwnOf(p), OwnSeq(p, s.all)
  PROVE  OwnSeq(p, s.all \o BranchOutputs(p, size))
<1> DEFINE S == SUBSET (dag.nodes \cup Loops)  b == BranchOutputs(p, size)
<1>1. s.all \in Seq(S) /\ s.cur \in S
  BY ScopeFields
<1>2. \A i \in 1..size : scope[p].cur \cap dag.branch[p][i].nodes \in S
  BY <1>1
<1>3. \A i \in 1..size : scope[p].cur \cap dag.branch[p][i].nodes \subseteq OwnOf(p)
  OBVIOUS
<1> HIDE DEF S
<1>4. b \in Seq(S) /\ Len(b) = size /\ \A i \in 1..size : b[i] \subseteq OwnOf(p)
  BY <1>2, <1>3 DEF BranchOutputs
<1> HIDE DEF b
<1>5. ASSUME NEW i \in DOMAIN (s.all \o b) PROVE (s.all \o b)[i] \subseteq OwnOf(p)
  <2>1. i \in 1..(Len(s.all) + Len(b)) /\ Len(s.all) \in Nat
    BY <1>1, <1>4, <1>5
  <2>2. CASE i <= Len(s.all)
    <3>1. (s.all \o b)[i] = s.all[i] /\ i \in DOMAIN s.all
      BY <1>1, <1>4, <2>1, <2>2
    <3> QED
      BY <3>1 DEF OwnSeq
  <2>3. CASE i > Len(s.all)
    <3>1. (s.all \o b)[i] = b[i - Len(s.all)] /\ i - Len(s.all) \in 1..size
      BY <1>1, <1>4, <2>1, <2>3
    <3> QED
      BY <1>4, <3>1
  <2> QED
    BY <2>1, <2>2, <2>3
<1> QED
  BY <1>5 DEF OwnSeq, b

LEMMA EndSound ==
  ASSUME ParallelShape, LoopInv, NEW n \in dag.nodes, RunParallelEnd(n), NEW k \in Loops
  PROVE  ScopeSound(k, scope'[k])
<1> DEFINE p == dag.sub[n]  s == scope[p]  size == BatchSize(p, total[p])
           all == s.all \o BranchOutputs(p, size)
<1>1. /\ p \in Loops /\ p \in DOMAIN dag.branch /\ dag' = dag
      /\ scope \in [Loops -> ScopeType] /\ size \in Nat
  BY ShapeFields, ParallelOf DEF ParallelShape, ParallelTyped, EngineTyped, EngineTypes, RunParallelEnd
<1>2. ScopeSound(p, s) /\ s \in ScopeType
  BY <1>1 DEF LoopInv
<1>3. OwnSeq(p, all) /\ all \in Seq(SUBSET (dag.nodes \cup Loops))
  BY <1>1, <1>2, BranchesOwn, GatheredAll DEF ScopeSound
<1>4. s.iteration + size \in Nat
  BY <1>1, <1>2, ScopeFields
<1>5. ~Counts(p) /\ OwnSeq(p, <<>>)
  BY <1>1 DEF ParallelShape, ParallelTyped, HasBranches, ParallelTypes, Counts, IsCounted, OwnSeq
<1> HIDE DEF all, size
<1>6. PICK x : /\ scope' = [scope EXCEPT ![p] = x]
               /\ \/ x = [s EXCEPT !.cur = {}, !.all = all, !.iteration = s.iteration + size]
                  \/ x = [s EXCEPT !.cur = {}, !.all = <<>>, !.results = all]
  <2>1. \/ scope' = [scope EXCEPT ![p].cur = {}, ![p].all = all, ![p].iteration = @ + size]
        \/ scope' = [scope EXCEPT ![p].cur = {}, ![p].all = <<>>, ![p].results = all]
    BY DEF RunParallelEnd, all, size
  <2>2. CASE scope' = [scope EXCEPT ![p].cur = {}, ![p].all = all, ![p].iteration = @ + size]
    <3>1. scope' = [scope EXCEPT ![p] = [s EXCEPT !.cur = {}, !.all = all, !.iteration = s.iteration + size]]
      BY <1>1, <1>2, <2>2 DEF ScopeType
    <3> QED
      BY <3>1
  <2>3. CASE scope' = [scope EXCEPT ![p].cur = {}, ![p].all = <<>>, ![p].results = all]
    <3>1. scope' = [scope EXCEPT ![p] = [s EXCEPT !.cur = {}, !.all = <<>>, !.results = all]]
      BY <1>1, <1>2, <2>3 DEF ScopeType
    <3> QED
      BY <3>1
  <2> QED
    BY <2>1, <2>2, <2>3
<1>7. x \in ScopeType
  <2>1. <<>> \in Seq(SUBSET (dag.nodes \cup Loops)) /\ {} \in SUBSET (dag.nodes \cup Loops)
    OBVIOUS
  <2> QED
    BY <1>2, <1>3, <1>4, <1>6, <2>1 DEF ScopeType
<1>8. x.cur = {} /\ x.all \in {all, <<>>} /\ x.results \in {s.results, all}
  BY <1>2, <1>6 DEF ScopeType
<1>9. ScopeSound(p, x)
  BY <1>2, <1>3, <1>5, <1>7, <1>8 DEF ScopeSound
<1> QED
  BY <1>1, <1>6, <1>9 DEF LoopInv

LEMMA ParallelLoops == ParallelShape /\ LoopInv /\ [ParallelNext]_parallelVars => LoopInv'
<1> SUFFICES ASSUME ParallelShape, LoopInv, [ParallelNext]_parallelVars PROVE LoopInv'
  OBVIOUS
<1>1. CASE EngineStep \/ UNCHANGED vars
  BY <1>1, EngineIsNext, LoopInvStep DEF ParallelShape, ParallelTyped
<1>2. ASSUME NEW n \in dag.nodes, RunParallelStart(n) PROVE LoopInv'
  <2>1. scope' = Entered(dag.sub[n]) /\ dag.sub[n] \in Loops
    BY <1>2, ParallelOf DEF RunParallelStart, ParallelShape, ParallelTyped
  <2>2. \A k \in Loops : ScopeSound(k, scope'[k])
    BY <2>1, EnteredSound DEF ParallelShape, ParallelTyped
  <2> QED
    BY <1>2, <2>2, SoundSame, SentinelKeepsNodes
<1>3. ASSUME NEW n \in dag.nodes, RunParallelEnd(n) PROVE LoopInv'
  BY <1>3, EndSound, SoundSame, SentinelKeepsNodes
<1>4. ASSUME NEW n \in dag.nodes, ContinueBatch(n) PROVE LoopInv'
  <2>1. scope' = scope
    BY <1>4 DEF ContinueBatch
  <2> QED
    BY <1>4, <2>1, SoundSame, SentinelKeepsNodes DEF LoopInv
<1> QED
  BY <1>1, <1>2, <1>3, <1>4 DEF ParallelNext, parallelVars

LEMMA ParallelLoopsSound == ParallelSpec => []LoopInv
<1>1. ParallelInit => LoopInv
  <2> SUFFICES ASSUME ParallelInit, NEW l \in Loops PROVE ScopeSound(l, FreshScope)
    BY DEF ParallelInit, Init, LoopInv
  <2> QED
    BY ParallelStarts, FreshSound DEF ParallelTyped
<1> QED
  BY <1>1, ShapeAlways, ParallelLoops, PTL DEF ParallelSpec

\* In a run with parallels no result, of a parallel's branch or of a loop's iteration,
\* holds an output of a block of another subflow.
THEOREM ParallelResultsAreOwn == ParallelSpec => []LoopResultsOwn
<1>1. LoopInv => LoopResultsOwn
  BY DEF LoopInv, ScopeSound, OwnSeq, LoopResultsOwn
<1> QED
  BY <1>1, ParallelLoopsSound, PTL

\* And a counted loop around a parallel still has no more results than iterations.
THEOREM ParallelResultsAreBounded == ParallelSpec => []LoopResultsBounded
<1>1. LoopInv => LoopResultsBounded
  BY DEF LoopInv, ScopeSound, Counts, LoopResultsBounded
<1> QED
  BY <1>1, ParallelLoopsSound, PTL
==============================================================================
