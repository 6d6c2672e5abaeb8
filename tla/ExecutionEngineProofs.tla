------------------------ MODULE ExecutionEngineProofs ------------------------
(***************************************************************************)
(* What holds of every run of every workflow.                              *)
(***************************************************************************)
EXTENDS ExecutionEngine, TLAPS, SequenceTheorems

DagOK == IsDag(dag)

Typed == DagOK /\ TypeOK

\* Without the edge manager, whose graph a parallel rewires.
EngineTyped == DagOK /\ EngineTypes

LEMMA InitTyped == Init => Typed
<1> SUFFICES ASSUME Init PROVE Typed
  OBVIOUS
<1>1. DagOK
  BY DagsAssumption DEF Init, DagOK
<1>2. em \in EmType
  <2>1. InitialIncoming(dag) \in [dag.nodes -> SUBSET dag.nodes]
    BY <1>1 DEF InitialIncoming, DagOK, IsDag
  <2> QED
    BY <2>1 DEF Init, EmType
<1>3. scope \in [Loops -> ScopeType]
  BY DEF Init, ScopeType, FreshScope
<1>4. blockStates \in [DOMAIN blockStates -> OutputType] /\ DOMAIN blockStates = {}
  BY DEF Init
<1>5. task \in [DOMAIN task -> TaskType] /\ DOMAIN task = {}
  BY DEF Init, EngineInit
<1>6. MayCancel \in BOOLEAN
  BY BoundsAssumption
<1>7. lock \in Seq(dag.nodes)
  BY DEF Init, EngineInit
<1> QED
  BY <1>1, <1>2, <1>3, <1>4, <1>5, <1>6, <1>7 DEF Typed, TypeOK, EngineTypes, Init, EngineInit

------------------------------------------------------------------------------
(* Type correctness.  First what the helpers return.                       *)

\* The type sets depend on nothing but the workflow, which never changes.
LEMMA TypesConstant ==
  ASSUME dag' = dag
  PROVE  /\ EmType' = EmType /\ OutputType' = OutputType
         /\ TaskType' = TaskType /\ ScopeType' = ScopeType
         /\ Loops' = Loops /\ (DagOK => DagOK')
BY DEF EmType, OutputType, TaskType, ScopeType, Loops, DagOK

\* Dropping an execution leaves the others as they are.
LEMMA SettleTyped ==
  ASSUME EngineTyped, NEW n
  PROVE  /\ DOMAIN Settle(n) \subseteq dag.nodes
         /\ Settle(n) \in [DOMAIN Settle(n) -> TaskType]
BY DEF EngineTyped, EngineTypes, Settle

\* An answer turns into a completion in line for the lock, or into nothing.
LEMMA ReturnedTyped ==
  ASSUME EngineTyped, NEW n \in DOMAIN task, NEW out \in OutputType, Returned(n, out)
  PROVE  /\ DOMAIN task' \subseteq dag.nodes /\ task' \in [DOMAIN task' -> TaskType]
         /\ lock' \in Seq(dag.nodes)
<1>1. n \in dag.nodes /\ lock \in Seq(dag.nodes) /\ task \in [DOMAIN task -> TaskType]
  BY DEF EngineTyped, EngineTypes
<1>2. CASE task[n].was
  BY <1>1, <1>2, SettleTyped DEF Returned
<1>3. CASE ~task[n].was
  <2>1. lock' \in Seq(dag.nodes)
    BY <1>1, <1>3 DEF Returned
  <2>2. [task[n] EXCEPT !.stage = "returned", !.out = out] \in TaskType
    BY <1>1 DEF TaskType
  <2>3. /\ DOMAIN task' = DOMAIN task
        /\ \A m \in DOMAIN task : task'[m] \in TaskType
        /\ task' = [m \in DOMAIN task' |-> task'[m]]
    BY <1>1, <1>3, <2>2 DEF Returned
  <2> QED
    BY <2>1, <2>3 DEF EngineTyped, EngineTypes
<1> QED
  BY <1>2, <1>3

\* Whatever is executed has an output.
LEMMA StoreTyped ==
  ASSUME EngineTyped, NEW n \in dag.nodes, NEW out \in OutputType, StoreState(n, out)
  PROVE  /\ executed' \subseteq DOMAIN blockStates' /\ DOMAIN blockStates' \subseteq dag.nodes
         /\ blockStates' \in [DOMAIN blockStates' -> OutputType]
BY DEF EngineTyped, EngineTypes, StoreState

LEMMA OutputsTyped ==
  ASSUME EngineTyped, NEW n \in dag.nodes
  PROVE  /\ Plain \in OutputType /\ ErrorOutput \in OutputType
         /\ \A r \in ControlHandles : Output(FALSE, None, r, FALSE) \in OutputType
         /\ BlockOutputs(n) \subseteq OutputType
         /\ StoredOutput(n) \in OutputType
<1>1. /\ Plain \in OutputType /\ ErrorOutput \in OutputType
      /\ \A r \in ControlHandles : Output(FALSE, None, r, FALSE) \in OutputType
  BY DEF Plain, ErrorOutput, Output, OutputType, ControlHandles, BackHandles, ExitHandles
<1>2. BlockOutputs(n) \subseteq OutputType
  <2>1. CASE dag.kind[n] = "condition"
    <3>1. BlockOutputs(n) = {Output(FALSE, o, None, FALSE) : o \in dag.options[n]}
      BY <2>1 DEF BlockOutputs
    <3>2. n \in DOMAIN dag.options
      BY <2>1 DEF EngineTyped, DagOK, IsDag
    <3>3. \A o \in dag.options[n] : Output(FALSE, o, None, FALSE) \in OutputType
      BY <3>2 DEF Output, OutputType
    <3> QED
      BY <3>1, <3>3
  <2>2. CASE dag.kind[n] # "condition"
    <3>1. Output(FALSE, None, None, TRUE) \in OutputType
      BY DEF Output, OutputType
    <3>2. BlockOutputs(n) \in {{Output(FALSE, None, None, TRUE)}, {Plain}}
      BY <2>2 DEF BlockOutputs
    <3> QED
      BY <1>1, <3>1, <3>2
  <2> QED
    BY <2>1, <2>2
<1>3. StoredOutput(n) \in OutputType
  BY <1>1 DEF StoredOutput, EngineTyped, EngineTypes
<1> QED
  BY <1>1, <1>2, <1>3

LEMMA FreshTyped == FreshScope \in ScopeType
<1>1. \A X : <<>> \in Seq(X)
  OBVIOUS
<1> QED
  BY <1>1 DEF FreshScope, ScopeType

\* What the sentinels and the outputs of a loop do to its scope.
LEMMA ScopesTyped ==
  ASSUME NEW s \in ScopeType
  PROVE  /\ ExitScope(s) \in ScopeType /\ Gathered(s) \in ScopeType
         /\ [s EXCEPT !.skipped = FALSE] \in ScopeType
         /\ [s EXCEPT !.iteration = @ + 1] \in ScopeType
         /\ \A x \in dag.nodes \cup Loops : [s EXCEPT !.cur = @ \cup {x}] \in ScopeType
<1> DEFINE C == SUBSET (dag.nodes \cup Loops)
<1>1. ScopeType = [live : BOOLEAN, skipped : BOOLEAN, iteration : Nat,
                   cur : C, all : Seq(C), results : Seq(C)]
  BY DEF ScopeType
<1>2. {} \in C /\ (\A c \in C : \A x \in dag.nodes \cup Loops : c \cup {x} \in C)
  OBVIOUS
<1> HIDE DEF C
<1>3. <<>> \in Seq(C)
  OBVIOUS
<1>4. s.all \in Seq(C) /\ s.cur \in C
  BY <1>1
<1>5. Append(s.all, s.cur) \in Seq(C)
  BY <1>4
<1>6. \A a \in Seq(C) : [s EXCEPT !.cur = {}, !.all = a] \in ScopeType
  BY <1>1, <1>2
<1>7. Gathered(s) \in ScopeType
  BY <1>4, <1>5, <1>6 DEF Gathered
<1>8. ExitScope(s) \in ScopeType
  <2>1. \A a, r \in Seq(C) : [s EXCEPT !.results = r, !.all = a] \in ScopeType
    BY <1>1
  <2> QED
    BY <1>3, <1>4, <2>1 DEF ExitScope
<1>9. [s EXCEPT !.skipped = FALSE] \in ScopeType
  BY <1>1
<1>10. [s EXCEPT !.iteration = @ + 1] \in ScopeType
  <2>1. s.iteration + 1 \in Nat
    BY <1>1
  <2>2. \A i \in Nat : [s EXCEPT !.iteration = i] \in ScopeType
    BY <1>1
  <2> QED
    BY <2>1, <2>2
<1>11. \A x \in dag.nodes \cup Loops : [s EXCEPT !.cur = @ \cup {x}] \in ScopeType
  BY <1>1, <1>2, <1>4
<1> QED
  BY <1>7, <1>8, <1>9, <1>10, <1>11

LEMMA EnteredTyped ==
  ASSUME EngineTyped, NEW l \in Loops \cup {None}
  PROVE  Entered(l) \in [Loops -> ScopeType]
<1>1. scope \in [Loops -> ScopeType]
  BY DEF EngineTyped, EngineTypes
<1>2. FreshScope \in ScopeType
  BY FreshTyped
<1>3. [FreshScope EXCEPT !.live = TRUE] \in ScopeType
  BY <1>2 DEF ScopeType
<1> QED
  BY <1>1, <1>3 DEF Entered

\* Where the nodes come from that routing the output of n makes ready: an edge
\* of n, or an edge the cascade cut.
LEMMA ReadyOrigin ==
  ASSUME NEW d, NEW e0, NEW n, NEW out
  PROVE  LET marked == [e0 EXCEPT !.act = @ \cup ActivatedTargets(d, n, out)]
             lost   == CascadeEdges(d, Starved(d, marked, n, EdgesToDeactivate(d, n, out)))
         IN  ProcessOutgoingEdges(d, e0, n, out).ready
               \subseteq {e.dst : e \in OutEdges(d, n) \cup lost}
<1> DEFINE targets == ActivatedTargets(d, n, out)
           cut     == EdgesToDeactivate(d, n, out)
           marked  == [e0 EXCEPT !.act = @ \cup targets]
           pruned  == Deactivate(d, marked, n, cut)
           next    == [pruned EXCEPT !.incoming =
                         [t \in d.nodes |-> IF t \in targets THEN @[t] \ {n} ELSE @[t]]]
           cascade == CascadeTargets(d, marked, n, cut)
                        \cup {e.dst : e \in {x \in cut : /\ targets = {}
                                                         /\ IsTerminalControlNode(d, x.dst)}}
           lost    == CascadeEdges(d, Starved(d, marked, n, cut))
<1>1. ProcessOutgoingEdges(d, e0, n, out).ready
        = {t \in targets : IsNodeReady(d, next, t)}
            \cup ReadyByCascade(d, next, n, out, cascade \ targets)
            \cup {t \in {e.dst : e \in cut} \ targets :
                    out.route \notin ExitHandles /\ t \in next.act /\ IsNodeReady(d, next, t)}
  BY DEF ProcessOutgoingEdges
<1>2. ReadyByCascade(d, next, n, out, cascade \ targets) \subseteq cascade
  BY DEF ReadyByCascade
<1>3. targets \subseteq {e.dst : e \in OutEdges(d, n)}
  BY DEF ActivatedTargets
<1>4. {e.dst : e \in cut} \subseteq {e.dst : e \in OutEdges(d, n)}
  BY DEF EdgesToDeactivate
<1>5. cascade \subseteq {e.dst : e \in lost} \cup {e.dst : e \in cut}
  BY DEF CascadeTargets
<1> HIDE DEF targets, cut, marked, pruned, next, cascade, lost
<1>6. ProcessOutgoingEdges(d, e0, n, out).ready \subseteq {e.dst : e \in OutEdges(d, n) \cup lost}
  BY <1>1, <1>2, <1>3, <1>4, <1>5
<1> QED
  BY <1>6 DEF targets, cut, marked, lost

LEMMA ReadyTyped ==
  ASSUME DagOK, NEW e0, NEW n, NEW out
  PROVE  ProcessOutgoingEdges(dag, e0, n, out).ready \subseteq dag.nodes
<1> DEFINE marked == [e0 EXCEPT !.act = @ \cup ActivatedTargets(dag, n, out)]
           lost   == CascadeEdges(dag, Starved(dag, marked, n, EdgesToDeactivate(dag, n, out)))
<1>1. ProcessOutgoingEdges(dag, e0, n, out).ready \subseteq {e.dst : e \in OutEdges(dag, n) \cup lost}
  BY ReadyOrigin
<1>2. OutEdges(dag, n) \cup lost \subseteq dag.edges
  BY DEF OutEdges, CascadeEdges
<1>3. \A e \in dag.edges : e.dst \in dag.nodes
  BY DEF DagOK, IsDag
<1> HIDE DEF lost
<1> QED
  BY <1>1, <1>2, <1>3

\* The edge manager stays within the graph.
LEMMA RoutingTyped ==
  ASSUME Typed, NEW n \in dag.nodes, NEW out
  PROVE  ProcessOutgoingEdges(dag, em, n, out).em \in EmType
<1> DEFINE targets == ActivatedTargets(dag, n, out)
           cut     == EdgesToDeactivate(dag, n, out)
           marked  == [em EXCEPT !.act = @ \cup targets]
           pruned  == Deactivate(dag, marked, n, cut)
           next    == [pruned EXCEPT !.incoming =
                         [t \in dag.nodes |-> IF t \in targets THEN @[t] \ {n} ELSE @[t]]]
<1>0. em \in EmType /\ \A e \in dag.edges : e.src \in dag.nodes /\ e.dst \in dag.nodes
  BY DEF Typed, TypeOK, DagOK, IsDag
<1>1. targets \subseteq dag.nodes /\ cut \subseteq dag.edges
  BY <1>0 DEF ActivatedTargets, EdgesToDeactivate, OutEdges
<1>2. marked \in EmType
  BY <1>0, <1>1 DEF EmType
<1>3. pruned \in EmType
  <2>1. CascadeEdges(dag, Starved(dag, marked, n, cut)) \subseteq dag.edges
    BY DEF CascadeEdges
  <2> HIDE DEF marked, cut
  <2> QED
    BY <1>1, <1>2, <2>1 DEF Deactivate, EmType
<1>4. next \in EmType
  <2> HIDE DEF pruned, targets
  <2> QED
    BY <1>3 DEF EmType
<1> QED
  BY <1>4 DEF ProcessOutgoingEdges

LEMMA RestoreTyped ==
  ASSUME Typed, NEW B
  PROVE  RestoreLoopEdges(dag, em, B) \in EmType
BY DEF Typed, TypeOK, DagOK, IsDag, EmType, RestoreLoopEdges

\* ... and no other action touches its sets.
LEMMA EdgesTyped == Typed /\ [Next]_vars => em' \in EmType
<1> SUFFICES ASSUME Typed, [Next]_vars PROVE em' \in EmType
  OBVIOUS
<1>1. em \in EmType
  BY DEF Typed, TypeOK
<1>2. CASE RunLoop \/ Cancel \/ UNCHANGED vars
  BY <1>1, <1>2 DEF RunLoop, InitializeQueue, ProcessQueue, WakeAny, LeaveLoop, WakeAll, Finish,
                    Cancel, vars
<1>3. ASSUME NEW n \in dag.nodes, Execute(n) PROVE em' \in EmType
  BY <1>1, <1>3 DEF Execute, RunBlock, FailNode, RunLoopStart, RunLoopEnd
<1>4. ASSUME NEW n \in dag.nodes, CompleteNode(n) PROVE em' \in EmType
  BY <1>1, <1>4, RestoreTyped DEF CompleteNode
<1>5. ASSUME NEW n \in dag.nodes, PauseAt(n) \/ Respond(n) PROVE em' \in EmType
  BY <1>1, <1>5 DEF PauseAt, Respond
<1>6. ASSUME NEW n \in dag.nodes, PropagateNode(n) PROVE em' \in EmType
  BY <1>1, <1>6, RoutingTyped DEF PropagateNode
<1> QED
  BY <1>2, <1>3, <1>4, <1>5, <1>6 DEF Next, Terminated, Complete

------------------------------------------------------------------------------
(* One lemma per group of actions that leaves the rest of the state alone. *)

LEMMA RunLoopKept == EngineTyped /\ RunLoop => EngineTyped'
<1> SUFFICES ASSUME EngineTyped, RunLoop PROVE EngineTyped'
  OBVIOUS
<1> USE DEF flags, outcome, states
<1>0. dag' = dag
  BY DEF RunLoop, InitializeQueue, ProcessQueue, WakeAny, LeaveLoop, WakeAll, Finish
<1>1. CASE InitializeQueue
  BY <1>0, <1>1, TypesConstant DEF EngineTyped, EngineTypes, DagOK, IsDag, InitializeQueue
<1>2. CASE ProcessQueue
  <2>1. \A n : [stage |-> "running", was |-> n \in executed, stored |-> AnswersFromState(n),
                out |-> Plain] \in TaskType
    <3>1. \A n : AnswersFromState(n) \in BOOLEAN
      BY DEF AnswersFromState
    <3>2. Plain \in OutputType
      BY DEF Plain, Output, OutputType
    <3> QED
      BY <3>1, <3>2 DEF TaskType
  <2>2. DOMAIN task' \subseteq dag.nodes /\ task' \in [DOMAIN task' -> TaskType]
    BY <1>2, <2>1 DEF EngineTyped, EngineTypes, ProcessQueue
  <2> QED
    BY <1>0, <1>2, <2>2, TypesConstant DEF EngineTyped, EngineTypes, ProcessQueue
<1>3. CASE WakeAny
  BY <1>0, <1>3, TypesConstant DEF EngineTyped, EngineTypes, WakeAny
<1>4. CASE LeaveLoop
  BY <1>0, <1>4, TypesConstant DEF EngineTyped, EngineTypes, LeaveLoop, Return
<1>5. CASE WakeAll
  BY <1>0, <1>5, TypesConstant DEF EngineTyped, EngineTypes, WakeAll
<1>6. CASE Finish
  BY <1>0, <1>6, TypesConstant DEF EngineTyped, EngineTypes, Finish, Return
<1> QED
  BY <1>1, <1>2, <1>3, <1>4, <1>5, <1>6 DEF RunLoop

LEMMA ExecuteKept ==
  ASSUME EngineTyped, NEW n \in dag.nodes, Execute(n)
  PROVE  EngineTyped'
<1> USE DEF flags, outcome, states
<1>0. dag' = dag
  BY DEF Execute, RunBlock, FailNode, RunLoopStart, RunLoopEnd
<1>1. dag.sub[n] \in Loops \cup {None} /\ scope \in [Loops -> ScopeType]
  BY DEF EngineTyped, DagOK, IsDag, EngineTypes, Loops
<1>2. Entered(dag.sub[n]) \in [Loops -> ScopeType]
  BY <1>1, EnteredTyped
<1>3. CASE RunBlock(n)
  <2>1. n \in DOMAIN task
    BY <1>3 DEF RunBlock, Running
  <2>2. scope' \in [Loops -> ScopeType]
    BY <1>1, <1>2, <1>3 DEF RunBlock
  <2>3. PICK out \in OutputType : Returned(n, out) /\ (UNCHANGED states \/ StoreState(n, out))
    BY <1>3, OutputsTyped DEF RunBlock, HandledFailures
  <2>4. /\ DOMAIN task' \subseteq dag.nodes /\ task' \in [DOMAIN task' -> TaskType]
        /\ lock' \in Seq(dag.nodes)
    BY <2>1, <2>3, ReturnedTyped
  <2>5. /\ executed' \subseteq DOMAIN blockStates' /\ DOMAIN blockStates' \subseteq dag.nodes
        /\ blockStates' \in [DOMAIN blockStates' -> OutputType]
    BY <2>3, StoreTyped DEF EngineTyped, EngineTypes
  <2> QED
    BY <1>0, <1>3, <2>2, <2>4, <2>5, TypesConstant DEF EngineTyped, EngineTypes, RunBlock
<1>4. CASE FailNode(n)
  <2>1. DOMAIN task' \subseteq dag.nodes /\ task' \in [DOMAIN task' -> TaskType]
    BY <1>4, SettleTyped DEF FailNode
  <2>2. /\ executed' \subseteq DOMAIN blockStates' /\ DOMAIN blockStates' \subseteq dag.nodes
        /\ blockStates' \in [DOMAIN blockStates' -> OutputType]
    BY <1>4, OutputsTyped, StoreTyped DEF FailNode, EngineTyped, EngineTypes
  <2> QED
    BY <1>0, <1>4, <2>1, <2>2, TypesConstant DEF EngineTyped, EngineTypes, FailNode
<1>5. CASE RunLoopStart(n)
  <2>1. n \in DOMAIN task /\ dag.sub[n] \in Loops
    BY <1>5 DEF RunLoopStart, Running, EngineTyped, DagOK, IsDag, None, Loops
  <2>2. PICK out \in OutputType : Returned(n, out)
    BY <1>5, OutputsTyped DEF RunLoopStart, ControlHandles, BackHandles, ExitHandles
  <2>3. /\ DOMAIN task' \subseteq dag.nodes /\ task' \in [DOMAIN task' -> TaskType]
        /\ lock' \in Seq(dag.nodes)
    BY <2>1, <2>2, ReturnedTyped
  <2>4. scope' \in [Loops -> ScopeType]
    <3>1. PICK enters : scope' = [Entered(dag.sub[n]) EXCEPT ![dag.sub[n]].skipped = @ \/ ~enters]
      BY <1>5 DEF RunLoopStart
    <3>2. \A s \in ScopeType : [s EXCEPT !.skipped = @ \/ ~enters] \in ScopeType
      BY DEF ScopeType
    <3> QED
      BY <1>2, <2>1, <3>1, <3>2
  <2> QED
    BY <1>0, <1>5, <2>3, <2>4, TypesConstant DEF EngineTyped, EngineTypes, RunLoopStart
<1>6. CASE RunLoopEnd(n)
  <2>1. n \in DOMAIN task /\ dag.sub[n] \in Loops
    BY <1>6 DEF RunLoopEnd, Running, EngineTyped, DagOK, IsDag, None, Loops
  <2>2. PICK out \in OutputType : Returned(n, out)
    BY <1>6, OutputsTyped DEF RunLoopEnd, ControlHandles, BackHandles, ExitHandles
  <2>3. /\ DOMAIN task' \subseteq dag.nodes /\ task' \in [DOMAIN task' -> TaskType]
        /\ lock' \in Seq(dag.nodes)
    BY <2>1, <2>2, ReturnedTyped
  <2>4. scope' \in [Loops -> ScopeType]
    <3> DEFINE s == Entered(dag.sub[n])[dag.sub[n]]
    <3>1. s \in ScopeType
      BY <1>2, <2>1
    <3> HIDE DEF s
    <3>2. /\ Gathered(s) \in ScopeType
          /\ [s EXCEPT !.skipped = FALSE] \in ScopeType
          /\ \A t \in ScopeType : ExitScope(t) \in ScopeType
      BY <3>1, ScopesTyped
    <3>3. [Gathered(s) EXCEPT !.iteration = @ + 1] \in ScopeType
      BY <3>2, ScopesTyped
    <3>4. PICK x \in ScopeType : scope' = [scope EXCEPT ![dag.sub[n]] = x]
      BY <1>6, <3>1, <3>2, <3>3 DEF RunLoopEnd, s
    <3> QED
      BY <1>1, <3>4
  <2> QED
    BY <1>0, <1>6, <2>3, <2>4, TypesConstant DEF EngineTyped, EngineTypes, RunLoopEnd
<1> QED
  BY <1>3, <1>4, <1>5, <1>6 DEF Execute

LEMMA CompleteKept ==
  ASSUME EngineTyped, NEW n \in dag.nodes, Complete(n)
  PROVE  EngineTyped'
<1> USE DEF flags, outcome, states
<1>0. dag' = dag
  BY DEF Complete, CompleteNode, PauseAt, Respond, PropagateNode
<1>1. /\ DOMAIN Settle(n) \subseteq dag.nodes
      /\ Settle(n) \in [DOMAIN Settle(n) -> TaskType]
  BY SettleTyped
<1>2. HoldsLock(n) => Tail(lock) \in Seq(dag.nodes)
  BY DEF HoldsLock, EngineTyped, EngineTypes
<1>3. CASE CompleteNode(n)
  <2>1. n \in DOMAIN task /\ HoldsLock(n) /\ task[n] \in TaskType /\ task[n].out \in OutputType
    BY <1>3 DEF CompleteNode, EngineTyped, EngineTypes, TaskType
  <2>2. CASE stoppedEarly /\ responseLocked
    BY <1>0, <1>1, <1>2, <1>3, <2>1, <2>2, TypesConstant DEF EngineTyped, EngineTypes, CompleteNode
  <2>3. CASE ~(stoppedEarly /\ responseLocked)
    <3>1. DOMAIN task' \subseteq dag.nodes /\ task' \in [DOMAIN task' -> TaskType]
      BY <1>3, <2>1, <2>3 DEF CompleteNode, EngineTyped, EngineTypes, TaskType
    <3>2. /\ executed' \subseteq DOMAIN blockStates' /\ DOMAIN blockStates' \subseteq dag.nodes
          /\ blockStates' \in [DOMAIN blockStates' -> OutputType]
      <4>1. CASE Continues(n)
        BY <1>3, <2>1, <2>3, <4>1 DEF CompleteNode, EngineTyped, EngineTypes, Unmarked
      <4>2. CASE ~Continues(n)
        BY <1>3, <2>1, <2>3, <4>2, StoreTyped DEF CompleteNode
      <4> QED
        BY <4>1, <4>2
    <3>3. scope' \in [Loops -> ScopeType]
      <4>1. scope \in [Loops -> ScopeType]
        BY DEF EngineTyped, EngineTypes
      <4>2. DropNested(dag.sub[n]) \in [Loops -> ScopeType]
        BY <4>1, FreshTyped DEF DropNested
      <4>3. \A l, x : x \in dag.nodes \cup Loops => StoreOutput(l, x) \in [Loops -> ScopeType]
        BY <4>1, ScopesTyped DEF StoreOutput
      <4>4. IsSentinel(n) => dag.sub[n] \in Loops
        BY DEF IsSentinel, EngineTyped, DagOK, IsDag, Loops
      <4> QED
        BY <1>3, <2>3, <4>1, <4>2, <4>3, <4>4 DEF CompleteNode
    <3>4. lock' = lock
      BY <1>3, <2>3 DEF CompleteNode
    <3> QED
      BY <1>0, <1>3, <3>1, <3>2, <3>3, <3>4, TypesConstant DEF EngineTyped, EngineTypes, CompleteNode
  <2> QED
    BY <2>2, <2>3
<1>4. CASE PauseAt(n)
  BY <1>0, <1>1, <1>2, <1>4, TypesConstant DEF EngineTyped, EngineTypes, PauseAt, Completing, Releases
<1>5. CASE Respond(n)
  BY <1>0, <1>1, <1>2, <1>5, TypesConstant DEF EngineTyped, EngineTypes, Respond, Completing, Releases
<1>6. CASE PropagateNode(n)
  <2>1. queue' \subseteq dag.nodes
    BY <1>6, ReadyTyped DEF PropagateNode, EngineTyped, EngineTypes
  <2>2. stoppedEarly' \in BOOLEAN /\ finalOutput' \in dag.nodes \cup {None}
    BY <1>6 DEF PropagateNode, EngineTyped, EngineTypes
  <2> QED
    BY <1>0, <1>1, <1>2, <1>6, <2>1, <2>2, TypesConstant
       DEF EngineTyped, EngineTypes, PropagateNode, Completing, Releases
<1> QED
  BY <1>3, <1>4, <1>5, <1>6 DEF Complete

LEMMA StepKept == EngineTyped /\ [Next]_vars => EngineTyped'
<1> SUFFICES ASSUME EngineTyped, [Next]_vars PROVE EngineTyped'
  OBVIOUS
<1>1. CASE RunLoop
  BY <1>1, RunLoopKept
<1>2. CASE Cancel
  BY <1>2, TypesConstant DEF EngineTyped, EngineTypes, Cancel, states, outcome
<1>3. ASSUME NEW n \in dag.nodes, Execute(n) PROVE EngineTyped'
  BY <1>3, ExecuteKept
<1>4. ASSUME NEW n \in dag.nodes, Complete(n) PROVE EngineTyped'
  BY <1>4, CompleteKept
<1>5. CASE UNCHANGED vars
  BY <1>5, TypesConstant DEF EngineTyped, EngineTypes, vars, states, flags, outcome
<1> QED
  BY <1>1, <1>2, <1>3, <1>4, <1>5 DEF Next, Terminated

LEMMA TypedIs == Typed <=> EngineTyped /\ em \in EmType
BY DEF Typed, TypeOK, EngineTyped

LEMMA DagStays == [Next]_vars => dag' = dag
BY DEF Next, RunLoop, InitializeQueue, ProcessQueue, WakeAny, LeaveLoop, WakeAll, Finish,
       Cancel, Terminated, Execute, RunBlock, FailNode, RunLoopStart, RunLoopEnd,
       Complete, CompleteNode, PauseAt, Respond, PropagateNode, vars

LEMMA StepTyped == Typed /\ [Next]_vars => Typed'
<1> SUFFICES ASSUME Typed, [Next]_vars PROVE Typed'
  OBVIOUS
<1>1. EngineTyped'
  BY StepKept, TypedIs
<1>2. em' \in EmType /\ EmType' = EmType
  BY EdgesTyped, DagStays, TypesConstant
<1>3. Typed' <=> EngineTyped' /\ (em \in EmType)'
  BY DEF Typed, TypeOK, EngineTyped
<1> QED
  BY <1>1, <1>2, <1>3

LEMMA RunLoopTyped == Typed /\ RunLoop => Typed'
BY StepTyped DEF Next

LEMMA ExecuteTyped == ASSUME Typed, NEW n \in dag.nodes, Execute(n) PROVE Typed'
BY StepTyped DEF Next

LEMMA CompleteTyped == ASSUME Typed, NEW n \in dag.nodes, Complete(n) PROVE Typed'
BY StepTyped DEF Next

\* Every reachable state is well typed, for every set of workflows: the edge
\* manager never leaves the graph, and whatever counts as executed has a stored
\* output for later blocks to refer to.
THEOREM Types == Spec => []TypeOK
<1>1. Spec => []Typed
  BY InitTyped, StepTyped, PTL DEF Spec
<1>2. Typed => TypeOK
  BY DEF Typed
<1> QED
  BY <1>1, <1>2, PTL

------------------------------------------------------------------------------
(* What the caller is told.  A run that returned without a cancellation has *)
(* nothing in flight, so nothing can change its outcome any more.           *)

ResultInv ==
  /\ pc = "done" /\ ~cancelled => task = <<>>
  /\ result = "success" => /\ pc = "done" /\ ~cancelled
                           /\ paused = {} /\ (errorFlag => responseLocked)

LEMMA NothingRuns ==
  ASSUME task = <<>>, NEW n
  PROVE  ~Execute(n) /\ ~Complete(n)
<1>1. n \notin DOMAIN task
  OBVIOUS
<1> QED
  BY <1>1 DEF Execute, Complete, RunBlock, FailNode, RunLoopStart, RunLoopEnd, Running,
              CompleteNode, PauseAt, Respond, PropagateNode, Completing

LEMMA ResultInvStep == EngineTyped /\ ResultInv /\ [Next]_vars => ResultInv'
<1> SUFFICES ASSUME EngineTyped, ResultInv, [Next]_vars PROVE ResultInv'
  OBVIOUS
<1> USE DEF flags, outcome, states
<1>0. pc = "done" /\ result = "success" => task = <<>>
  BY DEF ResultInv
<1>1. CASE RunLoop
  <2>1. CASE InitializeQueue \/ ProcessQueue \/ WakeAny \/ WakeAll
    BY <2>1 DEF ResultInv, InitializeQueue, ProcessQueue, WakeAny, WakeAll
  <2>2. CASE LeaveLoop
    BY <2>2 DEF ResultInv, LeaveLoop, Return
  <2>3. CASE Finish
    BY <2>3 DEF ResultInv, Finish, Return, EngineTyped, EngineTypes
  <2> QED
    BY <1>1, <2>1, <2>2, <2>3 DEF RunLoop
<1>2. CASE Cancel
  BY <1>2 DEF ResultInv, Cancel
<1>3. ASSUME NEW n \in dag.nodes, Execute(n) \/ Complete(n) PROVE ResultInv'
  <2>1. ~(pc = "done" /\ ~cancelled)
    BY <1>3, NothingRuns DEF ResultInv
  <2>2. pc' = pc /\ cancelled' = cancelled /\ result' = result
    BY <1>3 DEF Execute, Complete, RunBlock, FailNode, RunLoopStart, RunLoopEnd,
                CompleteNode, PauseAt, Respond, PropagateNode
  <2> QED
    BY <2>1, <2>2 DEF ResultInv
<1>4. CASE UNCHANGED vars
  BY <1>4 DEF ResultInv, vars
<1> QED
  BY <1>1, <1>2, <1>3, <1>4 DEF Next, Terminated

\* What the caller is told is final, for every workflow: a success has no
\* execution left that could still fail, no pause it forgets, and no failure
\* but one a Response block overrode; and only a cancelled run returns while
\* something is in flight.
THEOREM OutcomeIsFinal == Spec => []ResultIsFinal
<1>1. Init => ResultInv
  BY DEF Init, EngineInit, ResultInv, None
<1>2. Spec => [](Typed /\ ResultInv)
  BY <1>1, InitTyped, StepTyped, TypedIs, ResultInvStep, PTL DEF Spec
<1>3. ResultInv => ResultIsFinal
  BY DEF ResultInv, ResultIsFinal
<1> QED
  BY <1>2, <1>3, PTL

------------------------------------------------------------------------------
(* The Response block that ends a run.                                     *)

\* Whoever locks the response also stops the run.
StopInv == responseLocked => stoppedEarly

LEMMA StopInvStep == StopInv /\ [Next]_vars => StopInv'
<1> SUFFICES ASSUME StopInv, [Next]_vars PROVE StopInv'
  OBVIOUS
<1> USE DEF flags
<1>1. CASE RunLoop
  BY <1>1 DEF StopInv, RunLoop, InitializeQueue, ProcessQueue, WakeAny, LeaveLoop, WakeAll,
              Finish
<1>2. CASE Cancel
  BY <1>2 DEF StopInv, Cancel
<1>3. ASSUME NEW n \in dag.nodes, Execute(n) PROVE StopInv'
  BY <1>3 DEF StopInv, Execute, RunBlock, FailNode, RunLoopStart, RunLoopEnd
<1>4. ASSUME NEW n \in dag.nodes, Complete(n) PROVE StopInv'
  BY <1>4 DEF StopInv, Complete, CompleteNode, PauseAt, Respond, PropagateNode
<1>5. CASE UNCHANGED vars
  BY <1>5 DEF StopInv, vars
<1> QED
  BY <1>1, <1>2, <1>3, <1>4, <1>5 DEF Next, Terminated

LEMMA ResponseStep ==
  ASSUME StopInv, responseLocked, [Next]_vars
  PROVE  finalOutput' = finalOutput /\ ~Launches
<1> USE DEF flags, outcome
<1>1. stoppedEarly
  BY DEF StopInv
<1>2. CASE RunLoop
  BY <1>1, <1>2 DEF Launches, RunLoop, InitializeQueue, ProcessQueue, WakeAny, LeaveLoop,
                    WakeAll, Finish, Return
<1>3. CASE Cancel
  BY <1>3 DEF Launches, Cancel
<1>4. ASSUME NEW n \in dag.nodes, Execute(n)
      PROVE  finalOutput' = finalOutput /\ ~Launches
  BY <1>4 DEF Launches, Execute, RunBlock, FailNode, RunLoopStart, RunLoopEnd
<1>5. ASSUME NEW n \in dag.nodes, Complete(n)
      PROVE  finalOutput' = finalOutput /\ ~Launches
  BY <1>5 DEF Launches, Complete, CompleteNode, PauseAt, Respond, PropagateNode
<1>6. CASE UNCHANGED vars
  BY <1>6 DEF Launches, vars
<1> QED
  BY <1>2, <1>3, <1>4, <1>5, <1>6 DEF Next, Terminated

\* Once a Response block ended a run its output stands, whatever completes
\* after it, and no block is launched any more.
THEOREM ResponseStands == Spec => ResponseIsFinal
<1>1. Init => StopInv
  BY DEF Init, EngineInit, StopInv
<1>2. StopInv /\ [Next]_vars => [responseLocked => finalOutput' = finalOutput /\ ~Launches]_vars
  BY ResponseStep
<1> QED
  BY <1>1, <1>2, StopInvStep, PTL DEF Spec, ResponseIsFinal

------------------------------------------------------------------------------
(* The queue lock.  That a block in flight is not launched again is all it   *)
(* needs of the workflow: a second launch would forget the first one's place.*)

\* An answer joins the line, once.
LEMMA JoinLine ==
  ASSUME LockIsSound, NEW n, n \in DOMAIN task, task[n].stage = "running",
         lock \in Seq(dag.nodes), n \in dag.nodes, lock' = Append(lock, n),
         DOMAIN task' = DOMAIN task, task'[n].stage = "returned",
         \A m \in DOMAIN task \ {n} : task'[m] = task[m]
  PROVE  LockIsSound'
<1>1. \A i \in DOMAIN lock : lock[i] # n
  BY DEF LockIsSound
<1>2. /\ DOMAIN lock' = 1..(Len(lock) + 1) /\ DOMAIN lock = 1..Len(lock) /\ Len(lock) \in Nat
      /\ \A i \in 1..Len(lock) : lock'[i] = lock[i]
      /\ lock'[Len(lock) + 1] = n
  OBVIOUS
<1>3. {lock'[i] : i \in DOMAIN lock'} = {lock[i] : i \in DOMAIN lock} \cup {n}
  <2>1. DOMAIN lock' = DOMAIN lock \cup {Len(lock) + 1}
    BY <1>2
  <2> QED
    BY <1>2, <2>1
<1>4. {m \in DOMAIN task' : task'[m].stage # "running"}
        = {m \in DOMAIN task : task[m].stage # "running"} \cup {n}
  OBVIOUS
<1>5. \A i, j \in DOMAIN lock' : lock'[i] = lock'[j] => i = j
  BY <1>1, <1>2 DEF LockIsSound
<1>6. ASSUME NEW m \in DOMAIN task', task'[m].stage = "completing"
      PROVE  lock' # <<>> /\ Head(lock') = m
  <2>1. lock # <<>> /\ Head(lock) = m
    BY <1>6 DEF LockIsSound, HoldsLock
  <2> QED
    BY <1>2, <2>1
<1> QED
  BY <1>3, <1>4, <1>5, <1>6 DEF LockIsSound, HoldsLock

\* The first in line leaves it.
LEMMA LeaveLine ==
  ASSUME LockIsSound, NEW n, n \in DOMAIN task, lock \in Seq(dag.nodes), HoldsLock(n),
         lock' = Tail(lock), task' = Settle(n)
  PROVE  LockIsSound'
<1>1. /\ Len(lock) \in Nat \ {0} /\ DOMAIN lock = 1..Len(lock) /\ lock[1] = n
      /\ DOMAIN lock' = 1..(Len(lock) - 1)
      /\ \A i \in DOMAIN lock' : lock'[i] = lock[i + 1]
  BY DEF HoldsLock
<1>2. DOMAIN task' = DOMAIN task \ {n} /\ \A m \in DOMAIN task' : task'[m] = task[m]
  BY DEF Settle
<1>3. \A i \in DOMAIN lock : lock[i] = n => i = 1
  BY <1>1 DEF LockIsSound
<1>4. {lock'[i] : i \in DOMAIN lock'} = {lock[i] : i \in DOMAIN lock} \ {n}
  <2>1. \A i \in DOMAIN lock' : i + 1 \in DOMAIN lock /\ i + 1 # 1
    BY <1>1
  <2>2. ASSUME NEW j \in DOMAIN lock, j # 1 PROVE j - 1 \in DOMAIN lock' /\ lock'[j - 1] = lock[j]
    <3>1. j \in 1..Len(lock) /\ j - 1 \in 1..(Len(lock) - 1) /\ (j - 1) + 1 = j
      BY <1>1, <2>2
    <3> QED
      BY <1>1, <3>1
  <2> QED
    BY <1>1, <1>3, <2>1, <2>2
<1>5. {m \in DOMAIN task' : task'[m].stage # "running"}
        = {m \in DOMAIN task : task[m].stage # "running"} \ {n}
  BY <1>2
<1>6. \A i, j \in DOMAIN lock' : lock'[i] = lock'[j] => i = j
  BY <1>1 DEF LockIsSound
<1>7. \A m \in DOMAIN task' : task'[m].stage # "completing"
  BY <1>1, <1>2 DEF LockIsSound, HoldsLock
<1> QED
  BY <1>4, <1>5, <1>6, <1>7 DEF LockIsSound

\* An execution that never joined the line ends.
LEMMA OutsideLine ==
  ASSUME LockIsSound, NEW n \in DOMAIN task, task[n].stage = "running", task' = Settle(n), lock' = lock
  PROVE  LockIsSound'
<1>1. DOMAIN task' = DOMAIN task \ {n} /\ \A m \in DOMAIN task' : task'[m] = task[m]
  BY DEF Settle
<1>2. {m \in DOMAIN task' : task'[m].stage # "running"} = {m \in DOMAIN task : task[m].stage # "running"}
  BY <1>1
<1> QED
  BY <1>1, <1>2 DEF LockIsSound, HoldsLock

\* Whatever a node answers.
LEMMA AnswerLine ==
  ASSUME EngineTyped, LockIsSound, NEW n \in dag.nodes, NEW out, Running(n), Returned(n, out)
  PROVE  LockIsSound'
<1>0. lock \in Seq(dag.nodes) /\ task \in [DOMAIN task -> TaskType]
  BY DEF EngineTyped, EngineTypes
<1>1. n \in DOMAIN task /\ task[n].stage = "running"
  BY DEF Running
<1>2. CASE task[n].was
  BY <1>1, <1>2, OutsideLine DEF Returned
<1>3. CASE ~task[n].was
  <2>1. task' = [task EXCEPT ![n].stage = "returned", ![n].out = out] /\ lock' = Append(lock, n)
    BY <1>3 DEF Returned
  <2>2. /\ DOMAIN task' = DOMAIN task /\ task'[n].stage = "returned"
        /\ \A m \in DOMAIN task \ {n} : task'[m] = task[m]
    BY <1>0, <1>1, <2>1 DEF TaskType
  <2> QED
    BY <1>0, <1>1, <2>1, <2>2, JoinLine
<1> QED
  BY <1>2, <1>3

\* The first in line enters its section.
LEMMA EnterSection ==
  ASSUME EngineTyped, LockIsSound, NEW n \in DOMAIN task, task[n].stage = "returned", HoldsLock(n),
         task' = [task EXCEPT ![n].stage = "completing"], lock' = lock
  PROVE  LockIsSound'
<1>0. task \in [DOMAIN task -> TaskType]
  BY DEF EngineTyped, EngineTypes
<1>1. /\ DOMAIN task' = DOMAIN task /\ task'[n].stage = "completing"
      /\ \A m \in DOMAIN task \ {n} : task'[m] = task[m]
  BY <1>0 DEF TaskType
<1>2. {m \in DOMAIN task' : task'[m].stage # "running"} = {m \in DOMAIN task : task[m].stage # "running"}
  BY <1>1
<1> QED
  BY <1>1, <1>2 DEF LockIsSound, HoldsLock

LEMMA LineStep ==
  ASSUME EngineTyped, LockIsSound, Next, Launches => queue \cap DOMAIN task = {}
  PROVE  LockIsSound'
<1> USE DEF flags, outcome, states
<1>0. lock \in Seq(dag.nodes) /\ task \in [DOMAIN task -> TaskType]
  BY DEF EngineTyped, EngineTypes
<1>1. ASSUME UNCHANGED <<task, lock>> PROVE LockIsSound'
  BY <1>1 DEF LockIsSound, HoldsLock
<1>2. CASE ProcessQueue
  <2>1. queue \cap DOMAIN task = {} /\ lock' = lock /\ DOMAIN task' = DOMAIN task \cup queue
    BY <1>2 DEF ProcessQueue, Launches
  <2>2. /\ \A n \in DOMAIN task : task'[n] = task[n]
        /\ \A n \in queue : task'[n].stage = "running"
    BY <1>2, <2>1 DEF ProcessQueue
  <2>3. {n \in DOMAIN task' : task'[n].stage # "running"} = {n \in DOMAIN task : task[n].stage # "running"}
    BY <2>1, <2>2
  <2>4. \A n \in DOMAIN task' : task'[n].stage = "completing" => n \in DOMAIN task /\ task[n].stage = "completing"
    BY <2>1, <2>2
  <2> QED
    BY <2>1, <2>3, <2>4 DEF LockIsSound, HoldsLock
<1>3. CASE InitializeQueue \/ WakeAny \/ LeaveLoop \/ WakeAll \/ Finish \/ Cancel \/ Terminated
  <2>1. UNCHANGED <<task, lock>>
    BY <1>3 DEF InitializeQueue, WakeAny, LeaveLoop, WakeAll, Finish, Cancel, Terminated, vars
  <2> QED
    BY <1>1, <2>1
<1>4. ASSUME NEW n \in dag.nodes, Execute(n) PROVE LockIsSound'
  <2>1. CASE FailNode(n)
    BY <2>1, OutsideLine DEF FailNode, Running
  <2>2. CASE RunBlock(n) \/ RunLoopStart(n) \/ RunLoopEnd(n)
    <3>1. Running(n) /\ \E out : Returned(n, out)
      BY <2>2 DEF RunBlock, RunLoopStart, RunLoopEnd
    <3> QED
      BY <3>1, AnswerLine
  <2> QED
    BY <1>4, <2>1, <2>2 DEF Execute
<1>5. ASSUME NEW n \in dag.nodes, Complete(n) PROVE LockIsSound'
  <2>1. n \in DOMAIN task /\ HoldsLock(n)
    BY <1>5 DEF Complete, CompleteNode, PauseAt, Respond, PropagateNode, Completing
  <2>2. ASSUME task' = Settle(n), lock' = Tail(lock) PROVE LockIsSound'
    BY <1>0, <2>1, <2>2, LeaveLine
  <2>3. CASE CompleteNode(n)
    BY <2>1, <2>2, <2>3, EnterSection DEF CompleteNode
  <2>4. CASE PauseAt(n) \/ Respond(n) \/ PropagateNode(n)
    BY <2>2, <2>4 DEF PauseAt, Respond, PropagateNode, Releases
  <2> QED
    BY <1>5, <2>3, <2>4 DEF Complete
<1> QED
  BY <1>2, <1>3, <1>4, <1>5 DEF Next, RunLoop

\* For every workflow: as long as nothing is launched a second time, the queue
\* lock is fair and lost by nobody.  Exactly the nodes that have answered stand
\* in its line, once each, and only the first one completes.
THEOREM LineIsKept == Spec /\ NoRelaunch => []LockIsSound
<1>1. Init => LockIsSound
  BY DEF Init, EngineInit, LockIsSound
<1>2. ASSUME Typed, LockIsSound, [Next]_vars,
             [Launches => \A n \in queue : n \notin DOMAIN task /\ n \notin executed]_vars
      PROVE  LockIsSound'
  <2>1. CASE UNCHANGED vars
    <3>1. UNCHANGED <<task, lock>>
      BY <2>1 DEF vars
    <3> QED
      BY <1>2, <3>1 DEF LockIsSound, HoldsLock
  <2>2. CASE Next /\ (Launches => \A n \in queue : n \notin DOMAIN task /\ n \notin executed)
    BY <1>2, <2>2, LineStep, TypedIs
  <2> QED
    BY <1>2, <2>1, <2>2
<1> QED
  BY <1>1, <1>2, InitTyped, StepTyped, PTL DEF Spec, NoRelaunch

------------------------------------------------------------------------------
(* The results of loops.                                                   *)

\* The bodies of loops keep to their own, and counted ones to their count: what is
\* gathered is not more than the iterations that have ended, and the last one ends
\* at the count.
OwnSeq(l, q) == \A i \in DOMAIN q : q[i] \subseteq OwnOf(l)

Counts(l) == IsCounted(l) /\ dag.max[l] > 0

ScopeSound(l, s) ==
  /\ s \in ScopeType
  /\ s.cur \subseteq OwnOf(l) /\ OwnSeq(l, s.all) /\ OwnSeq(l, s.results)
  /\ Counts(l) => /\ s.live \/ s.iteration = 0
                  /\ s.iteration < dag.max[l] /\ Len(s.all) <= s.iteration
                  /\ Len(s.results) <= dag.max[l]

LoopInv == \A l \in Loops : ScopeSound(l, scope[l])

\* What a scope has, as a record.
LEMMA ScopeFields ==
  ASSUME NEW s \in ScopeType
  PROVE  /\ s.iteration \in Nat /\ s.cur \in SUBSET (dag.nodes \cup Loops)
         /\ s.all \in Seq(SUBSET (dag.nodes \cup Loops))
         /\ s.results \in Seq(SUBSET (dag.nodes \cup Loops))
         /\ Len(s.all) \in Nat /\ Len(s.results) \in Nat
<1>1. /\ s.iteration \in Nat /\ s.cur \in SUBSET (dag.nodes \cup Loops)
      /\ s.all \in Seq(SUBSET (dag.nodes \cup Loops))
      /\ s.results \in Seq(SUBSET (dag.nodes \cup Loops))
  BY DEF ScopeType
<1> QED
  BY <1>1

LEMMA FreshSound ==
  ASSUME EngineTyped, NEW l \in Loops
  PROVE  /\ ScopeSound(l, FreshScope)
         /\ ScopeSound(l, [FreshScope EXCEPT !.live = TRUE])
<1>1. FreshScope \in ScopeType /\ [FreshScope EXCEPT !.live = TRUE] \in ScopeType
  <2>1. FreshScope \in ScopeType
    BY FreshTyped
  <2> QED
    BY <2>1 DEF ScopeType
<1>2. IsCounted(l) => dag.max[l] \in Nat
  BY DEF EngineTyped, DagOK, IsDag, Loops, IsCounted
<1>3. OwnSeq(l, <<>>) /\ Len(<<>>) = 0
  BY DEF OwnSeq
<1> QED
  BY <1>1, <1>2, <1>3 DEF ScopeSound, FreshScope, Counts

\* A scope stays sound when its loop is skipped, or one of its own blocks answers.
LEMMA TouchedSound ==
  ASSUME NEW l, NEW s, ScopeSound(l, s)
  PROVE  /\ \A b \in BOOLEAN : ScopeSound(l, [s EXCEPT !.skipped = b])
         /\ \A x \in OwnOf(l) : x \in dag.nodes \cup Loops =>
              ScopeSound(l, [s EXCEPT !.cur = @ \cup {x}])
<1>1. \A b \in BOOLEAN : [s EXCEPT !.skipped = b] \in ScopeType
  BY DEF ScopeSound, ScopeType
<1>2. \A x \in dag.nodes \cup Loops : [s EXCEPT !.cur = @ \cup {x}] \in ScopeType
  BY ScopesTyped DEF ScopeSound
<1>3. \A b \in BOOLEAN : LET t == [s EXCEPT !.skipped = b]
      IN t.cur = s.cur /\ t.all = s.all /\ t.results = s.results /\ t.iteration = s.iteration
         /\ t.live = s.live
  BY DEF ScopeSound, ScopeType
<1>4. \A x : LET t == [s EXCEPT !.cur = @ \cup {x}]
      IN t.cur = s.cur \cup {x} /\ t.all = s.all /\ t.results = s.results /\ t.iteration = s.iteration
         /\ t.live = s.live
  BY DEF ScopeSound, ScopeType
<1> QED
  BY <1>1, <1>2, <1>3, <1>4 DEF ScopeSound

\* A loop that exits hands on what it has gathered.
LEMMA ExitSound ==
  ASSUME NEW l, Counts(l) => dag.max[l] \in Nat, NEW s \in ScopeType,
         OwnSeq(l, s.all), s.cur \subseteq OwnOf(l),
         Counts(l) => /\ s.live \/ s.iteration = 0
                      /\ s.iteration < dag.max[l] /\ Len(s.all) <= dag.max[l]
  PROVE  ScopeSound(l, ExitScope(s))
<1>1. ExitScope(s) \in ScopeType
  BY ScopesTyped
<1>2. LET t == ExitScope(s)
      IN t.cur = s.cur /\ t.all = <<>> /\ t.results = s.all /\ t.iteration = s.iteration
         /\ t.live = s.live
  BY DEF ExitScope, ScopeType
<1>3. OwnSeq(l, <<>>) /\ Len(<<>>) = 0 /\ s.iteration \in Nat
  BY DEF OwnSeq, ScopeType
<1> QED
  BY <1>1, <1>2, <1>3 DEF ScopeSound

\* The outputs of an iteration join those before it.
LEMMA GatheredSound ==
  ASSUME NEW l, NEW s, ScopeSound(l, s)
  PROVE  /\ Gathered(s) \in ScopeType /\ Gathered(s).cur = {}
         /\ OwnSeq(l, Gathered(s).all) /\ Len(Gathered(s).all) <= Len(s.all) + 1
         /\ Gathered(s).results = s.results /\ Gathered(s).iteration = s.iteration
         /\ Gathered(s).live = s.live
<1>1. s \in ScopeType /\ Gathered(s) \in ScopeType
  BY ScopesTyped DEF ScopeSound
<1>2. s.all \in Seq(SUBSET (dag.nodes \cup Loops)) /\ s.cur \in SUBSET (dag.nodes \cup Loops)
      /\ Len(s.all) \in Nat
  BY <1>1, ScopeFields
<1>3. LET a == Append(s.all, s.cur) IN Len(a) = Len(s.all) + 1 /\ OwnSeq(l, a)
  BY <1>2 DEF ScopeSound, OwnSeq
<1>4. LET t == Gathered(s)
      IN /\ t.cur = {} /\ t.results = s.results /\ t.iteration = s.iteration
         /\ t.live = s.live
         /\ t.all = s.all \/ t.all = Append(s.all, s.cur)
  BY <1>1 DEF Gathered, ScopeType
<1>5. OwnSeq(l, s.all) /\ Len(s.all) <= Len(s.all) + 1
  BY <1>2 DEF ScopeSound
<1>6. OwnSeq(l, Gathered(s).all) /\ Len(Gathered(s).all) <= Len(s.all) + 1
  <2>1. CASE Gathered(s).all = s.all
    BY <1>5, <2>1
  <2>2. CASE Gathered(s).all = Append(s.all, s.cur)
    <3> DEFINE a == Append(s.all, s.cur)
    <3>1. Len(a) = Len(s.all) + 1 /\ OwnSeq(l, a)
      BY <1>3
    <3> HIDE DEF a
    <3>2. Gathered(s).all = a
      BY <2>2 DEF a
    <3> QED
      BY <1>2, <3>1, <3>2
  <2> QED
    BY <1>4, <2>1, <2>2
<1> QED
  BY <1>1, <1>4, <1>6

\* The next iteration begins only short of the count.
LEMMA NextSound ==
  ASSUME NEW l, NEW s, ScopeSound(l, s), Counts(l) => dag.max[l] \in Nat,
         s.live, Counts(l) => s.iteration + 1 < dag.max[l]
  PROVE  ScopeSound(l, [Gathered(s) EXCEPT !.iteration = @ + 1])
<1> DEFINE g == Gathered(s)  t == [g EXCEPT !.iteration = @ + 1]
<1>1. /\ g \in ScopeType /\ g.cur = {} /\ OwnSeq(l, g.all) /\ Len(g.all) <= Len(s.all) + 1
      /\ g.results = s.results /\ g.iteration = s.iteration /\ g.live = s.live
  BY GatheredSound
<1>2. s \in ScopeType /\ s.iteration \in Nat /\ Len(s.all) \in Nat /\ Len(g.all) \in Nat
  BY <1>1, ScopeFields DEF ScopeSound
<1> HIDE DEF g
<1>3. t \in ScopeType
  BY <1>1, ScopesTyped
<1>4. t.cur = g.cur /\ t.all = g.all /\ t.results = g.results /\ t.iteration = g.iteration + 1
      /\ t.live = g.live
  BY <1>1 DEF ScopeType
<1> HIDE DEF t
<1>5. ScopeSound(l, t)
  BY <1>1, <1>2, <1>3, <1>4 DEF ScopeSound
<1> QED
  BY <1>5 DEF t, g

LEMMA EnteredSound ==
  ASSUME EngineTyped, LoopInv, NEW l \in Loops \cup {None}, NEW k \in Loops
  PROVE  ScopeSound(k, Entered(l)[k])
<1>1. scope \in [Loops -> ScopeType]
  BY DEF EngineTyped, EngineTypes
<1> QED
  BY <1>1, FreshSound DEF LoopInv, Entered

LEMMA LoopEndSound ==
  ASSUME EngineTyped, LoopInv, NEW n \in dag.nodes, RunLoopEnd(n), NEW k \in Loops
  PROVE  ScopeSound(k, scope'[k])
<1> DEFINE l == dag.sub[n]  s == Entered(l)[l]
<1>1. l \in Loops /\ scope \in [Loops -> ScopeType]
  BY DEF RunLoopEnd, EngineTyped, DagOK, IsDag, None, Loops, EngineTypes
<1>2. Counts(l) => dag.max[l] \in Nat
  BY <1>1 DEF EngineTyped, DagOK, IsDag, Loops, Counts, IsCounted
<1>3. ScopeSound(l, s)
  BY <1>1, EnteredSound
<1> HIDE DEF s
<1>4. s \in ScopeType /\ s.iteration \in Nat /\ Len(s.all) \in Nat
  BY <1>3, ScopeFields DEF ScopeSound
<1>5. \A t \in ScopeType : ScopeSound(l, t) => ScopeSound(l, ExitScope(t))
  <2> SUFFICES ASSUME NEW t \in ScopeType, ScopeSound(l, t) PROVE ScopeSound(l, ExitScope(t))
    OBVIOUS
  <2>1. t.iteration \in Nat /\ Len(t.all) \in Nat
    BY ScopeFields
  <2> QED
    BY <1>2, <2>1, ExitSound DEF ScopeSound
<1>6. s.live /\ (Counts(l) => s.iteration = scope[l].iteration)
  <2>1. l # None
    BY <1>1 DEF EngineTyped, DagOK, IsDag, Loops
  <2>2. CASE scope[l].live
    BY <2>1, <2>2 DEF s, Entered
  <2>3. CASE ~scope[l].live
    <3>1. s = [FreshScope EXCEPT !.live = TRUE]
      BY <1>1, <2>1, <2>3 DEF s, Entered
    <3>2. Counts(l) => scope[l].iteration = 0
      BY <1>1, <2>3 DEF LoopInv, ScopeSound
    <3> QED
      BY <3>1, <3>2 DEF FreshScope
  <2> QED
    BY <2>2, <2>3
<1>7. \A again \in Continuations(l) :
        Counts(l) => (again <=> s.iteration + 1 < dag.max[l])
  BY <1>6 DEF Continuations, Counts
<1>8. ScopeSound(l, ExitScope(Gathered(s)))
  <2>1. /\ Gathered(s) \in ScopeType /\ Gathered(s).cur = {} /\ Gathered(s).live = s.live
        /\ OwnSeq(l, Gathered(s).all) /\ Len(Gathered(s).all) <= Len(s.all) + 1
        /\ Gathered(s).iteration = s.iteration
    BY <1>3, GatheredSound
  <2>2. Len(Gathered(s).all) \in Nat
    BY <2>1, ScopeFields
  <2>3. Counts(l) => /\ s.iteration < dag.max[l]
                     /\ Len(Gathered(s).all) <= dag.max[l]
    BY <1>2, <1>3, <1>4, <2>1, <2>2 DEF ScopeSound
  <2> QED
    BY <1>2, <1>6, <2>1, <2>3, ExitSound
<1>9. PICK x : scope' = [scope EXCEPT ![l] = x] /\ ScopeSound(l, x)
  <2>1. CASE scope' = [scope EXCEPT ![l] = ExitScope(s)]
    BY <1>3, <1>4, <1>5, <2>1
  <2>2. CASE scope' = [scope EXCEPT ![l] = ExitScope([s EXCEPT !.skipped = FALSE])]
    <3>1. ScopeSound(l, [s EXCEPT !.skipped = FALSE])
      BY <1>3, TouchedSound
    <3> QED
      BY <1>5, <2>2, <3>1 DEF ScopeSound
  <2>3. ASSUME NEW again \in Continuations(l), again,
               scope' = [scope EXCEPT ![l] = [Gathered(s) EXCEPT !.iteration = @ + 1]]
        PROVE  \E x : scope' = [scope EXCEPT ![l] = x] /\ ScopeSound(l, x)
    <3>1. ScopeSound(l, [Gathered(s) EXCEPT !.iteration = @ + 1])
      BY <1>2, <1>3, <1>6, <1>7, <2>3, NextSound
    <3> QED
      BY <2>3, <3>1
  <2>4. CASE scope' = [scope EXCEPT ![l] = ExitScope(Gathered(s))]
    BY <1>8, <2>4
  <2>5. \/ scope' = [scope EXCEPT ![l] = ExitScope(s)]
        \/ scope' = [scope EXCEPT ![l] = ExitScope([s EXCEPT !.skipped = FALSE])]
        \/ \E again \in Continuations(l) :
             IF again THEN scope' = [scope EXCEPT ![l] = [Gathered(s) EXCEPT !.iteration = @ + 1]]
             ELSE scope' = [scope EXCEPT ![l] = ExitScope(Gathered(s))]
    <3> HIDE DEF l
    <3>1. l = dag.sub[n] /\ s = Entered(l)[l]
      BY DEF l, s
    <3> QED
      BY <3>1, Zenon DEF RunLoopEnd
  <2> QED
    BY <2>1, <2>2, <2>3, <2>4, <2>5
<1> QED
  BY <1>1, <1>9 DEF LoopInv

\* A completion adds an output to the loop its node is in, or drops nested scopes.
LEMMA CompletedSound ==
  ASSUME EngineTyped, LoopInv, NEW n \in dag.nodes, CompleteNode(n), NEW k \in Loops
  PROVE  ScopeSound(k, scope'[k])
<1>1. scope \in [Loops -> ScopeType] /\ ScopeSound(k, scope[k])
  BY DEF EngineTyped, EngineTypes, LoopInv
<1>2. ScopeSound(k, DropNested(dag.sub[n])[k])
  BY <1>1, FreshSound DEF DropNested
<1>3. \A l, x : x \in OwnOf(l) /\ x \in dag.nodes \cup Loops => ScopeSound(k, StoreOutput(l, x)[k])
  <2> SUFFICES ASSUME NEW l, NEW x, x \in OwnOf(l), x \in dag.nodes \cup Loops
               PROVE  ScopeSound(k, StoreOutput(l, x)[k])
    OBVIOUS
  <2>1. CASE k = l
    <3>1. ScopeSound(k, [scope[k] EXCEPT !.cur = @ \cup {x}])
      BY <1>1, <2>1, TouchedSound
    <3> QED
      BY <1>1, <2>1, <3>1 DEF StoreOutput
  <2>2. CASE k # l
    BY <1>1, <2>2 DEF StoreOutput
  <2> QED
    BY <2>1, <2>2
<1>4. CASE scope' = StoreOutput(dag.parent[dag.sub[n]], dag.sub[n]) /\ IsSentinel(n)
  <2>1. dag.sub[n] \in Loops /\ dag.sub[n] \in OwnOf(dag.parent[dag.sub[n]])
    BY <1>4 DEF IsSentinel, EngineTyped, DagOK, IsDag, Loops, OwnOf
  <2> QED
    BY <1>3, <1>4, <2>1
<1>5. CASE scope' = StoreOutput(dag.sub[n], n) /\ ~IsSentinel(n)
  <2>1. n \in OwnOf(dag.sub[n])
    BY <1>5 DEF OwnOf
  <2> QED
    BY <1>3, <1>5, <2>1
<1>6. \/ scope' = scope \/ scope' = DropNested(dag.sub[n])
      \/ scope' = StoreOutput(dag.parent[dag.sub[n]], dag.sub[n]) /\ IsSentinel(n)
      \/ scope' = StoreOutput(dag.sub[n], n) /\ ~IsSentinel(n)
  BY DEF CompleteNode
<1> QED
  BY <1>1, <1>2, <1>4, <1>5, <1>6

\* The scopes stay sound, whatever their loops are nested in and whenever they are
\* cancelled, entered again or dropped.
LEMMA LoopInvStep == EngineTyped /\ LoopInv /\ [Next]_vars => LoopInv'
<1> SUFFICES ASSUME EngineTyped, LoopInv, [Next]_vars PROVE LoopInv'
  OBVIOUS
<1>0. dag' = dag
  BY DagStays
<1>1. SUFFICES ASSUME NEW k \in Loops PROVE ScopeSound(k, scope'[k])
  <2>1. \A l, s : ScopeSound(l, s) => ScopeSound(l, s)'
    BY <1>0 DEF ScopeSound, ScopeType, OwnSeq, OwnOf, Counts, IsCounted, IsSentinel, Loops
  <2>2. \A l \in Loops : ScopeSound(l, scope'[l])
    OBVIOUS
  <2> QED
    BY <1>0, <2>1, <2>2 DEF LoopInv, Loops
<1>2. scope \in [Loops -> ScopeType] /\ ScopeSound(k, scope[k])
  BY DEF LoopInv, EngineTyped, EngineTypes
<1>3. ASSUME NEW n \in dag.nodes, RunBlock(n) PROVE ScopeSound(k, scope'[k])
  <2>1. scope' = scope \/ scope' = Entered(dag.sub[n])
    BY <1>3 DEF RunBlock
  <2>2. dag.sub[n] \in Loops \cup {None}
    BY DEF EngineTyped, DagOK, IsDag, Loops
  <2> QED
    BY <1>2, <2>1, <2>2, EnteredSound
<1>4. ASSUME NEW n \in dag.nodes, RunLoopStart(n) PROVE ScopeSound(k, scope'[k])
  <2> DEFINE l == dag.sub[n]
  <2>1. l \in Loops
    BY <1>4 DEF RunLoopStart, EngineTyped, DagOK, IsDag, None, Loops
  <2>2. PICK enters : scope' = [Entered(l) EXCEPT ![l].skipped = @ \/ ~enters]
    BY <1>4 DEF RunLoopStart
  <2>3. ScopeSound(l, Entered(l)[l]) /\ ScopeSound(k, Entered(l)[k])
        /\ Entered(l) \in [Loops -> ScopeType]
    BY <2>1, EnteredSound, EnteredTyped
  <2>4. ScopeSound(l, [Entered(l)[l] EXCEPT !.skipped = @ \/ ~enters])
    BY <2>3, TouchedSound
  <2> QED
    BY <2>1, <2>2, <2>3, <2>4
<1>5. ASSUME NEW n \in dag.nodes, FailNode(n) \/ (Complete(n) /\ ~CompleteNode(n))
      PROVE  ScopeSound(k, scope'[k])
  BY <1>2, <1>5 DEF FailNode, Complete, PauseAt, Respond, PropagateNode
<1>6. CASE RunLoop \/ Cancel \/ UNCHANGED vars
  BY <1>2, <1>6 DEF RunLoop, InitializeQueue, ProcessQueue, WakeAny, LeaveLoop, WakeAll, Finish,
                    Cancel, vars
<1> QED
  BY <1>3, <1>4, <1>5, <1>6, LoopEndSound, CompletedSound DEF Next, Terminated, Execute, Complete

LEMMA LoopsSound == Spec => []LoopInv
<1>1. Init => LoopInv
  <2> SUFFICES ASSUME Init, NEW l \in Loops PROVE ScopeSound(l, FreshScope)
    BY DEF Init, LoopInv
  <2> QED
    BY InitTyped, TypedIs, FreshSound
<1> QED
  BY <1>1, InitTyped, StepTyped, TypedIs, LoopInvStep, PTL DEF Spec

\* The results of a loop are its own, in every workflow, however deeply its loops are
\* nested, whatever order their blocks end in and whenever the run is cancelled.
THEOREM ResultsAreOwn == Spec => []LoopResultsOwn
<1>1. LoopInv => LoopResultsOwn
  BY DEF LoopInv, ScopeSound, OwnSeq, LoopResultsOwn
<1> QED
  BY <1>1, LoopsSound, PTL

\* And a counted loop never yields more of them than its count.
THEOREM ResultsAreBounded == Spec => []LoopResultsBounded
<1>1. LoopInv => LoopResultsBounded
  BY DEF LoopInv, ScopeSound, Counts, LoopResultsBounded
<1> QED
  BY <1>1, LoopsSound, PTL
==============================================================================
