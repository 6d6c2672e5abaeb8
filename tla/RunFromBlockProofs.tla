-------------------------- MODULE RunFromBlockProofs -------------------------
(***************************************************************************)
(* What holds of every run from a block of every workflow.                 *)
(***************************************************************************)
EXTENDS RunFromBlock, ReadinessProofs

\* What starts a re-run is dirty, and so is whatever lies downstream of it.
DirtyClosed ==
  rfb # {} => /\ dag.start \in rfb
              /\ \A e \in dag.edges : e.src \in rfb => e.dst \in rfb

DirtyInv == DagOK /\ DirtyClosed /\ OnlyDirtyRun

\* The cascade stays downstream of the node it starts from: a set of nodes that
\* holds this node and is closed under the edges of the graph holds whatever
\* routing the node's output makes ready.
LEMMA ReadyDownstream ==
  ASSUME NEW d, NEW e0, NEW n, NEW out, NEW S, n \in S,
         \A e \in d.edges : e.src \in S => e.dst \in S
  PROVE  ProcessOutgoingEdges(d, e0, n, out).ready \subseteq S
<1> DEFINE cut    == EdgesToDeactivate(d, n, out)
           marked == [e0 EXCEPT !.act = @ \cup ActivatedTargets(d, n, out)]
           P      == MayStarve(d, marked, cut) \cap S
<1>1. P \in StarvedClosed(d, marked, n, cut)
  <2>1. P \in SUBSET MayStarve(d, marked, cut)
    OBVIOUS
  <2>2. ASSUME NEW m \in MayStarve(d, marked, cut), Starves(d, marked, n, cut, m, P)
        PROVE  m \in P
    <3>1. PICK e \in cut \cup CascadeEdges(d, P) : e.dst = m
      BY <2>2 DEF Starves
    <3>2. e \in d.edges /\ e.src \in S
      BY <3>1 DEF EdgesToDeactivate, OutEdges, CascadeEdges
    <3> QED
      BY <3>1, <3>2
  <2> QED
    BY <2>1, <2>2 DEF StarvedClosed
<1>2. Starved(d, marked, n, cut) \subseteq S
  BY <1>1 DEF Starved
<1>3. \A e \in OutEdges(d, n) \cup CascadeEdges(d, Starved(d, marked, n, cut)) : e.dst \in S
  BY <1>2 DEF OutEdges, CascadeEdges
<1>4. ProcessOutgoingEdges(d, e0, n, out).ready
        \subseteq {e.dst : e \in OutEdges(d, n)
                              \cup CascadeEdges(d, Starved(d, marked, n, cut))}
  BY ReadyOrigin
<1> QED
  BY <1>3, <1>4

\* computeExecutionSets: the dirty set holds its start and is closed downstream.
LEMMA DirtySetClosed ==
  ASSUME DagOK, NEW s \in dag.nodes
  PROVE  /\ s \in DirtySet(s)
         /\ \A e \in dag.edges : e.src \in DirtySet(s) => e.dst \in DirtySet(s)
<1>1. s \in DirtySet(s)
  BY DEF DirtySet, Closure
<1>2. ASSUME NEW e \in dag.edges, e.src \in DirtySet(s)
      PROVE  e.dst \in DirtySet(s)
  <2>1. e.src \in dag.nodes /\ e.dst \in dag.nodes
    BY DEF DagOK, IsDag
  <2>2. <<e.src, e.dst>> \in Leads
    BY DEF Leads
  <2> QED
    BY <1>2, <2>1, <2>2 DEF DirtySet, Closure
<1> QED
  BY <1>1, <1>2

LEMMA RerunDirty ==
  ASSUME DirtyInv, NEW s \in dag.nodes, Rerun(s)
  PROVE  DirtyInv'
<1>1. DagOK /\ dag' = [dag EXCEPT !.start = s]
  BY DEF DirtyInv, Rerun
<1>2. dag'.edges = dag.edges /\ dag'.start = s
  BY <1>1 DEF DagOK, IsDag
<1>3. DagOK'
  <2>1. /\ DOMAIN dag' = DOMAIN dag
        /\ dag'.nodes = dag.nodes /\ dag'.kind = dag.kind /\ dag'.options = dag.options
        /\ dag'.role = dag.role /\ dag'.sub = dag.sub /\ dag'.body = dag.body
        /\ dag'.parent = dag.parent
    BY <1>1 DEF DagOK, IsDag
  <2> QED
    BY <1>1, <1>2, <2>1 DEF DagOK, IsDag
<1>4. DirtyClosed'
  BY <1>1, <1>2, DirtySetClosed DEF DirtyClosed, Rerun
<1>5. OnlyDirtyRun'
  <2>1. queue' = {} /\ DOMAIN task' = {}
    BY DEF Rerun
  <2> QED
    BY <2>1 DEF OnlyDirtyRun
<1> QED
  BY <1>3, <1>4, <1>5 DEF DirtyInv

\* The run itself: only what becomes ready is queued, and a dirty node never
\* answers from the state of the old run.
LEMMA NextDirty == DirtyInv /\ [Next]_vars => DirtyInv'
<1> SUFFICES ASSUME DirtyInv, [Next]_vars PROVE DirtyInv'
  OBVIOUS
<1> USE DEF flags, outcome, states
<1>1. dag' = dag /\ rfb' = rfb
  BY DEF Next, RunLoop, InitializeQueue, ProcessQueue, WakeAny, LeaveLoop, WakeAll, Finish,
         Cancel, Terminated, Execute, RunBlock, FailNode, RunLoopStart, RunLoopEnd,
         Complete, CompleteNode, PauseAt, Respond, PropagateNode, vars
<1>2. DagOK' /\ DirtyClosed'
  BY <1>1 DEF DirtyInv, DagOK, DirtyClosed
<1>3. SUFFICES ASSUME rfb # {}
               PROVE  \A n \in queue' \cup DOMAIN task' :
                         n \in rfb /\ (n \in DOMAIN task' => ~task'[n].stored)
  BY <1>1, <1>2 DEF DirtyInv, OnlyDirtyRun
<1>4. \A n \in queue \cup DOMAIN task : n \in rfb /\ (n \in DOMAIN task => ~task[n].stored)
  BY <1>3 DEF DirtyInv, OnlyDirtyRun
<1>5. CASE RunLoop
  <2>1. CASE InitializeQueue
    BY <1>3, <1>4, <2>1 DEF InitializeQueue, DirtyInv, DirtyClosed
  <2>2. CASE ProcessQueue
    BY <1>3, <1>4, <2>2 DEF ProcessQueue, AnswersFromState
  <2>3. CASE WakeAny \/ LeaveLoop \/ WakeAll \/ Finish
    BY <1>4, <2>3 DEF WakeAny, LeaveLoop, WakeAll, Finish
  <2> QED
    BY <1>5, <2>1, <2>2, <2>3 DEF RunLoop
<1>6. ASSUME NEW n \in dag.nodes, Execute(n)
      PROVE  \A m \in queue' \cup DOMAIN task' :
               m \in rfb /\ (m \in DOMAIN task' => ~task'[m].stored)
  <2>1. queue' = queue
    BY <1>6 DEF Execute, RunBlock, FailNode, RunLoopStart, RunLoopEnd
  <2>2. \/ task' = Settle(n)
        \/ \E out : task' = [task EXCEPT ![n].stage = "returned", ![n].out = out]
    BY <1>6 DEF Execute, RunBlock, FailNode, RunLoopStart, RunLoopEnd, Returned
  <2>3. CASE task' = Settle(n)
    BY <1>4, <2>1, <2>3 DEF Settle
  <2>4. ASSUME NEW out, task' = [task EXCEPT ![n].stage = "returned", ![n].out = out]
        PROVE  DOMAIN task' = DOMAIN task /\ \A m \in DOMAIN task : task'[m].stored = task[m].stored
    BY <2>4
  <2> QED
    BY <1>4, <2>1, <2>2, <2>3, <2>4
<1>7. ASSUME NEW n \in dag.nodes, Complete(n)
      PROVE  \A m \in queue' \cup DOMAIN task' :
               m \in rfb /\ (m \in DOMAIN task' => ~task'[m].stored)
  <2>1. task' \in {Settle(n), [task EXCEPT ![n].stage = "completing"]}
    BY <1>7 DEF Complete, CompleteNode, PauseAt, Respond, PropagateNode, Releases
  <2>2. \A m \in DOMAIN task' : m \in DOMAIN task /\ task'[m].stored = task[m].stored
    <3>1. CASE task' = Settle(n)
      BY <3>1 DEF Settle
    <3>2. CASE task' = [task EXCEPT ![n].stage = "completing"]
      BY <3>2
    <3> QED
      BY <2>1, <3>1, <3>2
  <2>3. n \in rfb
    BY <1>4, <1>7 DEF Complete, CompleteNode, PauseAt, Respond, PropagateNode, Completing
  <2>4. ProcessOutgoingEdges(dag, em, n, task[n].out).ready \subseteq rfb
    BY <1>3, <2>3, ReadyDownstream DEF DirtyInv, DirtyClosed
  <2>5. queue' \subseteq queue \cup ProcessOutgoingEdges(dag, em, n, task[n].out).ready
    BY <1>7 DEF Complete, CompleteNode, PauseAt, Respond, PropagateNode
  <2> QED
    BY <1>4, <2>2, <2>4, <2>5
<1>8. CASE Cancel \/ UNCHANGED vars
  BY <1>4, <1>8 DEF Cancel, vars
<1> QED
  BY <1>5, <1>6, <1>7, <1>8 DEF Next, Terminated

\* A re-run never mixes the outputs of two runs downstream of its start block:
\* for every workflow, start block and state it is given, only dirty blocks are
\* queued or run, and none of them answers from the old run.
THEOREM OnlyDirty == RerunSpec => []OnlyDirtyRun
<1>1. RerunInit => DirtyInv
  BY DagsAssumption
     DEF RerunInit, Init, EngineInit, DirtyInv, DagOK, DirtyClosed, OnlyDirtyRun
<1>2. DirtyInv /\ [RerunNext]_allVars => DirtyInv'
  <2> SUFFICES ASSUME DirtyInv, [RerunNext]_allVars PROVE DirtyInv'
    OBVIOUS
  <2>1. CASE RunStep
    BY <2>1, NextDirty DEF RunStep
  <2>2. ASSUME NEW s \in dag.nodes, Rerun(s) PROVE DirtyInv'
    BY <2>2, RerunDirty
  <2>3. CASE UNCHANGED allVars
    <3>1. UNCHANGED vars
      BY <2>3 DEF allVars
    <3> QED
      BY <3>1, NextDirty
  <2> QED
    BY <2>1, <2>2, <2>3 DEF RerunNext
<1>3. DirtyInv => OnlyDirtyRun
  BY DEF DirtyInv
<1> QED
  BY <1>1, <1>2, <1>3, PTL DEF RerunSpec

------------------------------------------------------------------------------
(* Types.  A re-run is seeded with what a run stored, which was well typed.  *)

SavedTyped ==
  /\ saved.executed \subseteq DOMAIN saved.blockStates
  /\ DOMAIN saved.blockStates \subseteq dag.nodes
  /\ saved.blockStates \in [DOMAIN saved.blockStates -> OutputType]
  /\ saved.scope \in [Loops -> ScopeType]
  /\ saved.deact \subseteq dag.edges /\ saved.act \subseteq dag.nodes

\* A re-run starts somewhere else in the same workflow.
LEMMA SameWorkflow ==
  ASSUME DagOK, NEW s \in dag.nodes, dag' = [dag EXCEPT !.start = s]
  PROVE  /\ DagOK' /\ dag'.start = s /\ dag'.nodes = dag.nodes /\ dag'.edges = dag.edges
         /\ dag'.role = dag.role /\ Loops' = Loops
         /\ EmType' = EmType /\ OutputType' = OutputType /\ TaskType' = TaskType
         /\ ScopeType' = ScopeType
<1>1. /\ DOMAIN dag' = DOMAIN dag /\ dag'.start = s
      /\ dag'.nodes = dag.nodes /\ dag'.edges = dag.edges
      /\ dag'.kind = dag.kind /\ dag'.options = dag.options
      /\ dag'.role = dag.role /\ dag'.sub = dag.sub /\ dag'.body = dag.body
      /\ dag'.parent = dag.parent
  BY DEF DagOK, IsDag
<1>2. DagOK'
  BY <1>1 DEF DagOK, IsDag
<1>3. Loops' = Loops
  BY <1>1 DEF Loops
<1>4. OutputType' = OutputType
  <2>1. dag'.options = dag.options
    BY <1>1
  <2> QED
    BY <2>1 DEF OutputType
<1> QED
  BY <1>1, <1>2, <1>3, <1>4 DEF EmType, TaskType, ScopeType

LEMMA RerunTyped ==
  ASSUME Typed, SavedTyped, NEW s \in dag.nodes, Rerun(s)
  PROVE  Typed' /\ SavedTyped'
<1>1. DagOK /\ dag' = [dag EXCEPT !.start = s] /\ saved' = saved
  BY DEF Typed, Rerun
<1>2. /\ DagOK' /\ dag'.nodes = dag.nodes /\ dag'.edges = dag.edges /\ Loops' = Loops
      /\ EmType' = EmType /\ OutputType' = OutputType /\ TaskType' = TaskType
      /\ ScopeType' = ScopeType
  BY <1>1, SameWorkflow
<1>3. SavedTyped'
  BY <1>1, <1>2 DEF SavedTyped
<1>4. em' \in EmType
  <2>1. InitialIncoming(dag) \in [dag.nodes -> SUBSET dag.nodes]
    BY <1>1 DEF InitialIncoming, DagOK, IsDag
  <2>2. em' = RerunEdges(DirtySet(s))
    BY DEF Rerun
  <2> QED
    BY <2>1, <2>2 DEF RerunEdges, EmType, SavedTyped
<1>5. scope' \in [Loops -> ScopeType]
  <2>1. scope' = [l \in Loops |->
                    IF \E n \in ReachableUpstream(DirtySet(s)) : IsSentinel(n) /\ dag.sub[n] = l
                    THEN saved.scope[l] ELSE FreshScope]
    BY DEF Rerun
  <2> QED
    BY <2>1, FreshTyped DEF SavedTyped
<1>6. /\ executed' \subseteq DOMAIN blockStates' /\ DOMAIN blockStates' \subseteq dag.nodes
      /\ blockStates' \in [DOMAIN blockStates' -> OutputType]
  BY DEF Rerun, SavedTyped
<1>7. rfb' \subseteq dag.nodes
  BY DEF Rerun, DirtySet, Closure
<1>8. /\ queue' = {} /\ task' = <<>> /\ lock' = <<>>
      /\ errorFlag' = FALSE /\ stoppedEarly' = FALSE /\ responseLocked' = FALSE
      /\ finalOutput' = None /\ paused' = {} /\ pc' = "init" /\ waitFor' = {} /\ result' = None
  BY DEF Rerun
<1>9. cancelled' \in BOOLEAN
  BY BoundsAssumption DEF Rerun
<1>10. DOMAIN task' = {} /\ task' \in [DOMAIN task' -> TaskType]
  BY <1>8
<1>11. lock' \in Seq(dag.nodes)
  BY <1>8
<1> QED
  BY <1>2, <1>3, <1>4, <1>5, <1>6, <1>7, <1>8, <1>9, <1>10, <1>11 DEF Typed, TypeOK, EngineTypes

LEMMA RunStepTyped == Typed /\ SavedTyped /\ RunStep => Typed' /\ SavedTyped'
<1> SUFFICES ASSUME Typed, SavedTyped, RunStep PROVE Typed' /\ SavedTyped'
  OBVIOUS
<1>1. Typed' /\ dag' = dag
  BY StepTyped
     DEF RunStep, Next, RunLoop, InitializeQueue, ProcessQueue, WakeAny, LeaveLoop, WakeAll,
         Finish, Cancel, Terminated, Execute, RunBlock, FailNode, RunLoopStart, RunLoopEnd,
         Complete, CompleteNode, PauseAt, Respond, PropagateNode, vars
<1>2. saved' = State \/ saved' = saved
  BY DEF RunStep
<1>3. OutputType' = OutputType /\ ScopeType' = ScopeType /\ Loops' = Loops
  BY <1>1, TypesConstant DEF Typed
<1>4. CASE saved' = State
  <2>1. /\ saved'.executed = executed /\ saved'.blockStates = blockStates
        /\ saved'.scope = scope /\ saved'.deact = em.deact /\ saved'.act = em.act
    BY <1>4 DEF State
  <2> QED
    BY <1>1, <1>3, <2>1 DEF SavedTyped, Typed, TypeOK, EngineTypes, EmType
<1>5. CASE saved' = saved
  BY <1>1, <1>3, <1>5 DEF SavedTyped
<1> QED
  BY <1>1, <1>2, <1>4, <1>5

\* Every state of a run and of the re-runs it seeds is well typed, for every
\* workflow and wherever they start.
THEOREM RerunTypes == RerunSpec => []TypeOK
<1>1. RerunInit => Typed /\ SavedTyped
  <2> SUFFICES ASSUME RerunInit PROVE Typed /\ SavedTyped
    OBVIOUS
  <2>1. Typed
    BY InitTyped DEF RerunInit
  <2>2. /\ saved.executed = executed /\ saved.blockStates = blockStates
        /\ saved.scope = scope /\ saved.deact = em.deact /\ saved.act = em.act
    BY DEF RerunInit, State
  <2> QED
    BY <2>1, <2>2 DEF SavedTyped, Typed, TypeOK, EngineTypes, EmType
<1>2. Typed /\ SavedTyped /\ [RerunNext]_allVars => Typed' /\ SavedTyped'
  <2> SUFFICES ASSUME Typed, SavedTyped, [RerunNext]_allVars PROVE Typed' /\ SavedTyped'
    OBVIOUS
  <2>1. ASSUME NEW s \in dag.nodes, Rerun(s) PROVE Typed' /\ SavedTyped'
    BY <2>1, RerunTyped
  <2>2. CASE UNCHANGED allVars
    <3>1. UNCHANGED vars /\ saved' = saved
      BY <2>2 DEF allVars
    <3>2. Typed' /\ dag' = dag
      BY <3>1, StepTyped DEF vars
    <3>3. OutputType' = OutputType /\ ScopeType' = ScopeType /\ Loops' = Loops
      BY <3>2, TypesConstant DEF Typed
    <3> QED
      BY <3>1, <3>2, <3>3 DEF SavedTyped
  <2> QED
    BY <2>1, <2>2, RunStepTyped DEF RerunNext
<1>3. Typed => TypeOK
  BY DEF Typed
<1> QED
  BY <1>1, <1>2, <1>3, PTL DEF RerunSpec

------------------------------------------------------------------------------
(* Re-runs of a workflow without loops and parallels from a client's state,  *)
(* which does not hold the edge manager's sets.                             *)

LEMMA DirtySetIsLeast ==
  ASSUME NEW s, NEW C \in SUBSET dag.nodes, s \in C,
         \A e \in dag.edges : e.src \in C => e.dst \in C
  PROVE  DirtySet(s) \subseteq C
<1>1. \A p \in Leads : p[1] \in C => p[2] \in C
  BY DEF Leads
<1> QED
  BY <1>1 DEF DirtySet, Closure

\* Every dirty block but the first has a dirty block before it.
LEMMA DirtyAreLed ==
  ASSUME DagOK, NEW s \in dag.nodes, NEW n \in DirtySet(s), n # s
  PROVE  \E e \in dag.edges : e.dst = n /\ e.src \in DirtySet(s)
<1> DEFINE D == DirtySet(s)
           C == {m \in D : m = s \/ \E e \in dag.edges : e.dst = m /\ e.src \in D}
<1>1. s \in D /\ \A e \in dag.edges : e.src \in D => e.dst \in D
  BY DirtySetClosed
<1>2. D \subseteq dag.nodes
  BY DEF DirtySet, Closure
<1> HIDE DEF D
<1>3. C \in SUBSET dag.nodes /\ s \in C /\ \A e \in dag.edges : e.src \in C => e.dst \in C
  BY <1>1, <1>2
<1>4. DirtySet(s) \subseteq C
  BY <1>3, DirtySetIsLeast
<1> QED
  BY <1>4 DEF D

\* What is kept of the old run is not dirty.
LEMMA KeptAreClean ==
  ASSUME DagOK, NEW dirty
  PROVE  ReachableUpstream(dirty) \cap dirty = {}
<1> DEFINE outside == {p \in Awaits : p[2] \notin dirty}
           S == {p[2] : p \in {q \in outside : q[1] \in dirty}}
           C == dag.nodes \ dirty
<1>1. \A p \in Awaits : p[2] \in dag.nodes
  <2>1. \A b \in dag.nodes : InitialIncoming(dag)[b] \subseteq dag.nodes
    BY DEF InitialIncoming, DagOK, IsDag
  <2> QED
    BY <2>1 DEF Awaits
<1>2. S \subseteq C /\ \A p \in outside : p[1] \in C => p[2] \in C
  BY <1>1
<1>3. ReachableUpstream(dirty) = Closure(S, outside)
  BY DEF ReachableUpstream
<1> HIDE DEF outside, S
<1>4. Closure(S, outside) \subseteq C
  BY <1>2 DEF Closure
<1> QED
  BY <1>3, <1>4

LEMMA RerunReady ==
  ASSUME ReadyInv, Typed', SnapshotHasEdges = FALSE, NEW s \in dag.nodes, Rerun(s)
  PROVE  ReadyInv'
<1> DEFINE D == DirtySet(s)
<1>1. DagOK /\ dag' = [dag EXCEPT !.start = s] /\ rfb' = D
  BY DEF ReadyInv, Flat, Rerun
<1>2. /\ DagOK' /\ dag'.nodes = dag.nodes /\ dag'.edges = dag.edges /\ dag'.start = s
      /\ dag'.role = dag.role
  BY <1>1, SameWorkflow
<1>3. s \in D /\ \A e \in dag.edges : e.src \in D => e.dst \in D
  BY <1>1, DirtySetClosed
<1>4. \A n \in D \ {s} : \E e \in dag.edges : e.dst = n /\ e.src \in D
  BY <1>1, DirtyAreLed
<1>5. D \subseteq dag.nodes
  BY DEF DirtySet, Closure
<1>6. ReachableUpstream(D) \cap D = {}
  BY <1>1, KeptAreClean
<1>7. em' = RerunEdges(D) /\ executed' \subseteq ReachableUpstream(D)
  BY DEF Rerun
<1>8. /\ queue' = {} /\ DOMAIN task' = {} /\ task' = <<>> /\ paused' = {} /\ pc' = "init"
  BY DEF Rerun
<1> HIDE DEF D
<1>9. Active' = D
  BY <1>1, <1>3 DEF Active
<1>10. /\ em'.act = {} /\ em'.deact = {}
       /\ \A n \in D : em'.incoming[n] = InitialIncoming(dag)[n] \cap D
  BY <1>5, <1>7 DEF RerunEdges
<1>11. ASSUME NEW e \in dag.edges, e.src \in D PROVE Awaited(e)'
  <2>1. Registers(dag, e) /\ e.dst \in dag.nodes
    BY <1>1 DEF ReadyInv, Flat, Registers, IsBypass, ControlHandles, DagOK, IsDag
  <2>2. e.src \in InitialIncoming(dag)[e.dst]
    BY <2>1 DEF InitialIncoming
  <2>3. e.src \in em'.incoming[e.dst] /\ e \notin em'.deact
    BY <1>3, <1>10, <1>11, <2>2
  <2> QED
    BY <2>3 DEF Awaited
\* Were the start block led to by a dirty one, every dirty block would be.
<1>12. \A e \in dag.edges : e.src \in D => e.dst # s
  <2> SUFFICES ASSUME NEW e \in dag.edges, e.src \in D, e.dst = s PROVE FALSE
    OBVIOUS
  <2>1. \A n \in D : \E x \in dag.edges : x.dst = n /\ x.src \in D
    BY <1>4
  <2> QED
    BY <1>3, <1>5, <2>1 DEF ReadyInv, Flat
<1>13. Flat'
  <2>1. /\ \A n \in dag.nodes : dag.role[n] = None
        /\ \A e \in dag.edges : e.handle \notin ControlHandles
        /\ \A S \in SUBSET dag.nodes :
             S # {} => \E n \in S : \A e \in dag.edges : e.dst = n => e.src \notin S
    BY DEF ReadyInv, Flat
  <2> QED
    BY <1>2, <1>3, <1>4, <1>5, <1>9, <1>12, <2>1 DEF Flat
<1>14. Unbegun'
  BY <1>2, <1>6, <1>7, <1>8, <1>9, <1>10, <1>11 DEF Unbegun
<1>15. Tasks' /\ Flying' = {}
  BY <1>8 DEF Tasks, Flying
<1>16. Decided'
  BY <1>2, <1>6, <1>7, <1>8, <1>9, <1>10, <1>11, <1>15 DEF Decided
<1>17. Selected' /\ Waits' /\ Marked'
  BY <1>2, <1>9, <1>10, <1>11 DEF Selected, Waits, Marked
<1>18. Passed'
  BY <1>8 DEF Passed
<1> QED
  BY <1>13, <1>14, <1>15, <1>16, <1>17, <1>18 DEF ReadyInv, Routing

RerunInv == SavedTyped /\ ReadyInv /\ StopInv /\ ResultInv /\ EndInv

LEMMA RerunInvariant == LoopFree /\ SnapshotHasEdges = FALSE => (RerunSpec => []RerunInv)
<1> SUFFICES ASSUME LoopFree, SnapshotHasEdges = FALSE PROVE RerunSpec => []RerunInv
  OBVIOUS
<1>1. RerunInit => RerunInv
  <2> SUFFICES ASSUME RerunInit PROVE RerunInv
    OBVIOUS
  <2>1. Init /\ saved = State
    BY DEF RerunInit
  <2>2. ReadyInv
    BY <2>1, ReadyInit
  <2>3. StopInv /\ ResultInv /\ EndInv
    BY <2>1 DEF Init, EngineInit, StopInv, ResultInv, EndInv, None
  <2>4. SavedTyped
    <3>1. /\ saved.executed = executed /\ saved.blockStates = blockStates
          /\ saved.scope = scope /\ saved.deact = em.deact /\ saved.act = em.act
      BY <2>1 DEF State
    <3> QED
      BY <2>2, <3>1 DEF SavedTyped, ReadyInv, Typed, TypeOK, EngineTypes, EmType
  <2> QED
    BY <2>2, <2>3, <2>4 DEF RerunInv
<1>2. RerunInv /\ [RerunNext]_allVars => RerunInv'
  <2> SUFFICES ASSUME RerunInv, [RerunNext]_allVars PROVE RerunInv'
    OBVIOUS
  <2>1. Typed
    BY DEF RerunInv, ReadyInv
  <2>2. CASE RunStep
    <3>1. [Next]_vars
      BY <2>2 DEF RunStep
    <3>2. SavedTyped'
      BY <2>1, <2>2, RunStepTyped DEF RerunInv
    <3> QED
      BY <2>1, <3>1, <3>2, ReadyStep, StopInvStep, ResultInvStep, TypedIs, EndInvStep DEF RerunInv
  <2>3. ASSUME NEW s \in dag.nodes, Rerun(s) PROVE RerunInv'
    <3>1. Typed' /\ SavedTyped'
      BY <2>1, <2>3, RerunTyped DEF RerunInv
    <3>2. ReadyInv'
      BY <2>3, <3>1, RerunReady DEF RerunInv
    <3>3. StopInv' /\ ResultInv' /\ EndInv'
      BY <2>3 DEF Rerun, StopInv, ResultInv, EndInv, None
    <3> QED
      BY <3>1, <3>2, <3>3 DEF RerunInv
  <2>4. CASE UNCHANGED allVars
    <3>1. UNCHANGED vars /\ saved' = saved
      BY <2>4 DEF allVars
    <3>2. [Next]_vars
      BY <3>1
    <3>3. dag' = dag
      BY <3>1 DEF vars
    <3>4. OutputType' = OutputType /\ ScopeType' = ScopeType /\ Loops' = Loops
      BY <3>3, TypesConstant DEF RerunInv
    <3>5. SavedTyped'
      BY <3>1, <3>3, <3>4 DEF SavedTyped, RerunInv
    <3> QED
      BY <2>1, <3>2, <3>5, ReadyStep, StopInvStep, ResultInvStep, TypedIs, EndInvStep DEF RerunInv
  <2> QED
    BY <2>2, <2>3, <2>4 DEF RerunNext
<1> QED
  BY <1>1, <1>2, PTL DEF RerunSpec

\* A re-run of such a workflow that ends by itself has followed every edge a dirty
\* block took, from whichever block and however often the workflow is run again.
THEOREM RerunsFollow ==
  LoopFree /\ SnapshotHasEdges = FALSE => (RerunSpec => []DirtyFollowed)
<1> SUFFICES ASSUME LoopFree, SnapshotHasEdges = FALSE PROVE RerunSpec => []DirtyFollowed
  OBVIOUS
<1>1. RerunInv => DirtyFollowed
  <2> SUFFICES ASSUME RerunInv, result = "success", ~stoppedEarly,
                      NEW e \in dag.edges, Took(e), rfb = {} \/ e.src \in rfb
               PROVE  e.dst \in executed
    BY DEF DirtyFollowed
  <2>1. ~cancelled /\ paused = {}
    BY DEF RerunInv, ResultInv
  <2>2. e.src \in Active
    BY DEF RerunInv, ReadyInv, Flat, DagOK, IsDag, Active
  <2>3. ~AwaitsPause(e.dst)
    BY <2>1 DEF AwaitsPause
  <2> QED
    BY <2>1, <2>2, <2>3, EndedFree, AllFollowed DEF RerunInv
<1> QED
  BY <1>1, RerunInvariant, PTL

\* Nothing of it is launched twice.
THEOREM RerunsRelaunchNothing ==
  LoopFree /\ SnapshotHasEdges = FALSE => (RerunSpec => NoRelaunch)
<1> SUFFICES ASSUME LoopFree, SnapshotHasEdges = FALSE PROVE RerunSpec => NoRelaunch
  OBVIOUS
<1>1. ASSUME RerunInv
      PROVE  [Launches => \A n \in queue : n \notin DOMAIN task /\ n \notin executed]_vars
  BY <1>1 DEF RerunInv, ReadyInv, Routing, Decided
<1> QED
  BY <1>1, RerunInvariant, PTL DEF NoRelaunch

\* And nothing of it runs that no block before it selected.  (From a state that
\* holds the edge manager's sets this fails: what the stored run activated counts
\* as selected.)
THEOREM RerunsRunSelected ==
  LoopFree /\ SnapshotHasEdges = FALSE => (RerunSpec => []OnlySelectedRun)
<1> SUFFICES ASSUME LoopFree, SnapshotHasEdges = FALSE PROVE RerunSpec => []OnlySelectedRun
  OBVIOUS
<1> QED
  BY RerunInvariant, ReadySelects, PTL DEF RerunInv
==============================================================================
