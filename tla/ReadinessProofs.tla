--------------------------- MODULE ReadinessProofs ----------------------------
(***************************************************************************)
(* When a node runs, in workflows without loops and parallels: not before  *)
(* all that leads to it is decided, once, and because it was selected.     *)
(*                                                                         *)
(* The lemmas are stated for the nodes a run is about (`Active'), all of   *)
(* them in a plain run and the dirty ones in a run from a block.           *)
(***************************************************************************)
EXTENDS ExecutionEngineProofs

Active == IF rfb = {} THEN dag.nodes ELSE rfb

\* An edge whose target still waits for it.
Awaited(e) == e.src \in em.incoming[e.dst] /\ e \notin em.deact

Ready(n) == IsNodeReady(dag, em, n)

Flying == queue \cup DOMAIN task

\* What the proofs need of the graph.
Flat ==
  /\ DagOK /\ \A n \in dag.nodes : dag.role[n] = None
  /\ \A e \in dag.edges : e.handle \notin ControlHandles
  /\ dag.start \in Active /\ Active \subseteq dag.nodes
  /\ \A e \in dag.edges : e.src \in Active => e.dst \in Active /\ e.dst # dag.start
  /\ \A n \in Active \ {dag.start} : \E e \in dag.edges : e.dst = n /\ e.src \in Active
  /\ \A S \in SUBSET dag.nodes :
       S # {} => \E n \in S : \A e \in dag.edges : e.dst = n => e.src \notin S

------------------------------------------------------------------------------
(* The cascade: Starved is the least fixed point of Starves.                *)

\* The more nodes starve, the more starve with them.
LEMMA StarvesMonotone ==
  ASSUME NEW d, NEW e0, NEW n, NEW cut, NEW m, NEW P, NEW Q, P \subseteq Q,
         Starves(d, e0, n, cut, m, P)
  PROVE  Starves(d, e0, n, cut, m, Q)
<1>1. CascadeEdges(d, P) \subseteq CascadeEdges(d, Q)
  BY DEF CascadeEdges
<1> QED
  BY <1>1 DEF Starves, HasActiveIncoming, IsActiveInto

LEMMA StarvedIsClosed ==
  ASSUME NEW d, NEW e0, NEW n, NEW cut, NEW m \in MayStarve(d, e0, cut),
         Starves(d, e0, n, cut, m, Starved(d, e0, n, cut))
  PROVE  m \in Starved(d, e0, n, cut)
<1>1. ASSUME NEW P \in StarvedClosed(d, e0, n, cut)
      PROVE  m \in P
  <2>1. Starved(d, e0, n, cut) \subseteq P
    BY DEF Starved
  <2>2. Starves(d, e0, n, cut, m, P)
    BY <2>1, StarvesMonotone
  <2> QED
    BY <2>2 DEF StarvedClosed
<1> QED
  BY <1>1 DEF Starved

LEMMA StarvedIsLeast ==
  ASSUME NEW d, NEW e0, NEW n, NEW cut, NEW P \in SUBSET MayStarve(d, e0, cut),
         \A m \in MayStarve(d, e0, cut) : Starves(d, e0, n, cut, m, P) => m \in P
  PROVE  Starved(d, e0, n, cut) \subseteq P
  BY DEF Starved, StarvedClosed

\* Nothing starves without a reason.
LEMMA StarvedStarve ==
  ASSUME NEW d, NEW e0, NEW n, NEW cut, NEW m \in Starved(d, e0, n, cut)
  PROVE  Starves(d, e0, n, cut, m, Starved(d, e0, n, cut))
<1> DEFINE P == {x \in Starved(d, e0, n, cut) : Starves(d, e0, n, cut, x, Starved(d, e0, n, cut))}
<1>1. Starved(d, e0, n, cut) \subseteq MayStarve(d, e0, cut)
  BY DEF Starved
<1>2. ASSUME NEW x \in MayStarve(d, e0, cut), Starves(d, e0, n, cut, x, P)
      PROVE  x \in P
  <2>1. Starves(d, e0, n, cut, x, Starved(d, e0, n, cut))
    BY <1>2, StarvesMonotone
  <2> QED
    BY <2>1, StarvedIsClosed
<1>3. Starved(d, e0, n, cut) \subseteq P
  BY <1>1, <1>2, StarvedIsLeast
<1> QED
  BY <1>3

------------------------------------------------------------------------------
(* Where a run stands.                                                      *)

Decided ==
  /\ Flying \subseteq Active /\ em.act \subseteq Active
  /\ queue \cap (DOMAIN task \cup executed) = {}
  /\ \A n \in Active : em.incoming[n] \subseteq Active
  /\ \A n \in Flying \cup (executed \cap Active) : Ready(n)
  /\ \A e \in dag.edges : e.src \in Flying => Awaited(e)
  /\ \A e \in dag.edges : e.src \in Active /\ ~Awaited(e) => Ready(e.src)
  /\ Flying \cup (executed \cap Active) \subseteq {dag.start} \cup em.act

LEMMA ReadyMeans ==
  ASSUME NEW n
  PROVE  Ready(n) <=> \A e \in dag.edges : e.dst = n => ~Awaited(e)
BY DEF Ready, IsNodeReady, HasActiveIncoming, IsActiveInto, Awaited

------------------------------------------------------------------------------
(* Routing the output of n.  What it makes of the bookkeeping, in a graph   *)
(* without control handles and sentinels:                                   *)

Targets(n) == ActivatedTargets(dag, n, task[n].out)

Cut(n) == EdgesToDeactivate(dag, n, task[n].out)

Dead(n) == Starved(dag, [em EXCEPT !.act = @ \cup Targets(n)], n, Cut(n))

Lost(n) == Cut(n) \cup CascadeEdges(dag, Dead(n))

Step(n) == ProcessOutgoingEdges(dag, em, n, task[n].out)

LEMMA RoutedEm ==
  ASSUME Typed, NEW n
  PROVE  /\ Step(n).em.act = em.act \cup Targets(n)
         /\ Step(n).em.deact = em.deact \cup Lost(n)
         /\ \A t \in dag.nodes : Step(n).em.incoming[t] =
               IF t \in Targets(n) THEN em.incoming[t] \ {n} ELSE em.incoming[t]
<1>1. em = [incoming |-> em.incoming, deact |-> em.deact, act |-> em.act]
  BY DEF Typed, TypeOK, EngineTypes, EmType
<1> DEFINE targets == Targets(n)
           cut     == Cut(n)
           marked  == [em EXCEPT !.act = @ \cup targets]
           dead    == CascadeEdges(dag, Starved(dag, marked, n, cut))
           pruned  == [marked EXCEPT !.deact = @ \cup cut \cup dead]
           next    == [pruned EXCEPT !.incoming =
                         [t \in dag.nodes |-> IF t \in targets THEN @[t] \ {n} ELSE @[t]]]
<1>2. Step(n).em = next
  BY DEF Step, ProcessOutgoingEdges, Deactivate, Targets, Cut
<1>3. Lost(n) = cut \cup dead
  BY DEF Lost, Dead
<1> HIDE DEF dead, cut, targets
<1>4. /\ next.act = em.act \cup targets
      /\ next.deact = em.deact \cup cut \cup dead
      /\ \A t \in dag.nodes :
           next.incoming[t] = IF t \in targets THEN em.incoming[t] \ {n} ELSE em.incoming[t]
  BY <1>1
<1> QED
  BY <1>2, <1>3, <1>4 DEF targets

\* An edge is taken or cut; either way its target waits for it no longer.
LEMMA EdgesOut ==
  ASSUME Flat, NEW n, task[n].out.route = None, NEW e \in dag.edges, e.src = n
  PROVE  /\ ShouldActivate(e, task[n].out) => e.dst \in Targets(n)
         /\ ~ShouldActivate(e, task[n].out) => e \in Cut(n)
<1>1. e.handle \notin ControlHandles
  BY DEF Flat
<1> QED
  BY <1>1 DEF Targets, Cut, ActivatedTargets, EdgesToDeactivate, OutEdges

LEMMA NoBackEdges ==
  ASSUME Flat, NEW P
  PROVE  CascadeEdges(dag, P) = {e \in dag.edges : e.src \in P}
BY DEF Flat, CascadeEdges, ControlHandles

\* What dies was still waiting for an edge, so the cascade takes away only edges
\* that were awaited, and never one of a node that is in flight or has run.
LEMMA DeadWaited ==
  ASSUME Typed, Flat, Decided, NEW n \in Flying
  PROVE  /\ \A m \in Dead(n) : m \in Active /\ ~Ready(m) /\ m \notin em.act \cup Targets(n)
         /\ \A e \in Lost(n) : e \in dag.edges /\ e.src \in Active /\ Awaited(e)
<1> DEFINE marked == [em EXCEPT !.act = @ \cup Targets(n)]
           P      == {m \in Dead(n) : m \in Active /\ ~Ready(m)}
<1>1. marked.act = em.act \cup Targets(n) /\ marked.deact = em.deact
  BY DEF Typed, TypeOK, EngineTypes, EmType
<1>2. Dead(n) = Starved(dag, marked, n, Cut(n))
  BY DEF Dead
<1>3. Cut(n) \subseteq {e \in dag.edges : e.src = n}
  BY DEF Cut, EdgesToDeactivate, OutEdges
<1>4. n \in Active /\ \A e \in dag.edges : e.src = n => Awaited(e)
  BY DEF Decided
<1>5. \A e \in dag.edges : e.src \in P => e.src \in Active /\ Awaited(e)
  BY DEF Decided
<1> HIDE DEF marked
<1>6. Dead(n) \subseteq MayStarve(dag, marked, Cut(n))
  BY <1>2 DEF Starved
<1>7. ASSUME NEW m \in MayStarve(dag, marked, Cut(n)), Starves(dag, marked, n, Cut(n), m, P)
      PROVE  m \in P
  <2>1. PICK e \in Cut(n) \cup CascadeEdges(dag, P) : e.dst = m
    BY <1>7 DEF Starves
  <2>2. e \in dag.edges /\ e.src \in Active /\ Awaited(e)
    BY <1>3, <1>4, <1>5, NoBackEdges
  <2>3. m \in Active /\ ~Ready(m)
    BY <2>1, <2>2, ReadyMeans DEF Flat
  <2>4. m \in Dead(n)
    <3>1. P \subseteq Starved(dag, marked, n, Cut(n))
      BY <1>2
    <3>2. Starves(dag, marked, n, Cut(n), m, Starved(dag, marked, n, Cut(n)))
      BY <1>7, <3>1, StarvesMonotone
    <3> QED
      BY <1>2, <3>2, StarvedIsClosed
  <2> QED
    BY <2>3, <2>4
<1>8. Dead(n) \subseteq P
  BY <1>2, <1>6, <1>7, StarvedIsLeast
<1>9. \A m \in Dead(n) : m \notin em.act \cup Targets(n)
  BY <1>1, <1>6 DEF MayStarve
<1>10. \A e \in Lost(n) : e \in dag.edges /\ e.src \in Active /\ Awaited(e)
  BY <1>3, <1>4, <1>5, <1>8, NoBackEdges DEF Lost
<1> QED
  BY <1>8, <1>9, <1>10

\* The next state of a completion that routes the output of n.
Routes(n) ==
  /\ Typed /\ Flat /\ Decided
  /\ n \in Flying /\ task[n].out.route = None
  /\ dag' = dag /\ rfb' = rfb /\ em' = Step(n).em

LEMMA AwaitedAfter ==
  ASSUME NEW n, Routes(n), NEW e \in dag.edges
  PROVE  Awaited(e)' <=> Awaited(e) /\ e \notin Lost(n) /\ ~(e.src = n /\ e.dst \in Targets(n))
<1>1. e.dst \in dag.nodes
  BY DEF Routes, Flat, DagOK, IsDag
<1>2. /\ em'.deact = em.deact \cup Lost(n)
      /\ em'.incoming[e.dst] = IF e.dst \in Targets(n) THEN em.incoming[e.dst] \ {n}
                               ELSE em.incoming[e.dst]
  BY <1>1, RoutedEm DEF Routes
<1> QED
  BY <1>2 DEF Awaited

LEMMA ReadyAfterMeans ==
  ASSUME dag' = dag, NEW t
  PROVE  Ready(t)' <=> \A e \in dag.edges : e.dst = t => ~Awaited(e)'
BY DEF Ready, IsNodeReady, HasActiveIncoming, IsActiveInto, Awaited

\* Nothing waits for n any more, and nobody begins to wait for anything.
LEMMA RoutingDecides ==
  ASSUME NEW n, Routes(n)
  PROVE  /\ \A e \in dag.edges : e.src = n => ~Awaited(e)'
         /\ \A e \in dag.edges : Awaited(e)' => Awaited(e)
         /\ \A t : Ready(t) => Ready(t)'
<1>1. \A e \in dag.edges : Awaited(e)' => Awaited(e)
  BY AwaitedAfter
<1>2. \A t : Ready(t) => Ready(t)'
  BY <1>1, ReadyMeans, ReadyAfterMeans DEF Routes
<1>3. ASSUME NEW e \in dag.edges, e.src = n PROVE ~Awaited(e)'
  BY <1>3, AwaitedAfter, EdgesOut DEF Routes, Lost
<1> QED
  BY <1>1, <1>2, <1>3

\* A dead node waits for nothing, and whatever waits for nothing now without
\* ever having been selected is dead: the cascade is complete.
LEMMA DeadAre ==
  ASSUME NEW n, Routes(n), NEW m \in dag.nodes
  PROVE  m \in Dead(n) <=> ~Ready(m) /\ Ready(m)' /\ m \notin em'.act
<1> DEFINE marked == [em EXCEPT !.act = @ \cup Targets(n)]
<1>1. /\ marked.act = em.act \cup Targets(n) /\ marked.deact = em.deact
      /\ marked.incoming = em.incoming
  BY DEF Routes, Typed, TypeOK, EngineTypes, EmType
<1>2. em'.act = em.act \cup Targets(n)
  BY RoutedEm DEF Routes
<1>3. Dead(n) = Starved(dag, marked, n, Cut(n))
  BY DEF Dead
<1>4. Lost(n) = Cut(n) \cup CascadeEdges(dag, Dead(n))
  BY DEF Lost
<1> HIDE DEF marked
<1>5. ASSUME m \in Dead(n)
      PROVE  ~Ready(m) /\ Ready(m)' /\ m \notin em'.act
  <2>0. Starves(dag, marked, n, Cut(n), m, Dead(n))
    BY <1>3, <1>5, StarvedStarve
  <2>1. ~HasActiveIncoming(dag, marked.incoming, marked.deact \cup Lost(n), m)
    BY <1>4, <2>0 DEF Starves
  <2>2. \A e \in dag.edges : e.dst = m => ~Awaited(e) \/ e \in Lost(n)
    BY <1>1, <2>1 DEF HasActiveIncoming, IsActiveInto, Awaited
  <2>3. \A e \in dag.edges : e.dst = m => ~Awaited(e)'
    BY <2>2, AwaitedAfter
  <2> QED
    BY <1>2, <1>5, <2>3, ReadyAfterMeans, DeadWaited DEF Routes
<1>6. ASSUME ~Ready(m), Ready(m)', m \notin em'.act
      PROVE  m \in Dead(n)
  <2>1. \A e \in dag.edges : e.dst = m /\ Awaited(e) => e \in Lost(n)
    BY <1>2, <1>6, AwaitedAfter, ReadyAfterMeans DEF Routes
  <2>2. PICK x \in dag.edges : x.dst = m /\ Awaited(x)
    BY <1>6, ReadyMeans
  <2>3. m \in MayStarve(dag, marked, Cut(n))
    <3>1. \A e \in dag.edges : e \in Lost(n) => e \in Cut(n) \/ e.src \notin marked.act
      BY <1>1, <1>4, DeadWaited DEF Routes, CascadeEdges
    <3> QED
      BY <1>1, <1>2, <1>6, <2>1, <2>2, <3>1 DEF MayStarve, IsActiveInto, Awaited
  <2>4. Starves(dag, marked, n, Cut(n), m, Dead(n))
    <3>1. x \in Lost(n) /\ x \notin marked.deact
      BY <1>1, <2>1, <2>2 DEF Awaited
    <3>2. ~HasActiveIncoming(dag, marked.incoming, marked.deact \cup Lost(n), m)
      BY <1>1, <2>1 DEF HasActiveIncoming, IsActiveInto, Awaited
    <3>3. dag.role[m] # "end"
      BY DEF Routes, Flat, None
    <3> QED
      BY <1>1, <1>2, <1>4, <1>6, <2>2, <3>1, <3>2, <3>3 DEF Starves
  <2> QED
    BY <1>3, <2>3, <2>4, StarvedIsClosed
<1> QED
  BY <1>5, <1>6

\* What routing finds ready are exactly the selected nodes that waited for an
\* edge before and wait for none now.
LEMMA ReadyAre ==
  ASSUME NEW n, Routes(n)
  PROVE  Step(n).ready = {t \in em'.act : ~Ready(t) /\ Ready(t)'}
<1> DEFINE marked == [em EXCEPT !.act = @ \cup Targets(n)]
           dying  == CascadeEdges(dag, Dead(n))
           reached == {e.dst : e \in {x \in dying : x \notin em.deact /\ x.dst \in em'.act}}
<1>1. marked.act = em.act \cup Targets(n) /\ marked.deact = em.deact
  BY DEF Routes, Typed, TypeOK, EngineTypes, EmType
<1>2. em'.act = em.act \cup Targets(n)
  BY RoutedEm DEF Routes
<1>3. \A t : ~IsTerminalControlNode(dag, t)
  BY DEF Routes, Flat, IsTerminalControlNode, OutEdges
<1>4. CascadeTargets(dag, marked, n, Cut(n)) = reached
  <2>1. Starved(dag, marked, n, Cut(n)) = Dead(n)
    BY DEF Dead
  <2> HIDE DEF marked
  <2> QED
    BY <1>1, <1>2, <1>3, <2>1 DEF CascadeTargets
<1>5. {e.dst : e \in {x \in Cut(n) : Targets(n) = {} /\ IsTerminalControlNode(dag, x.dst)}} = {}
  BY <1>3
<1>6. \A t : IsNodeReady(dag, em', t) <=> Ready(t)'
  BY DEF Ready, Routes
<1>7. ReadyByCascade(dag, em', n, task[n].out, reached \ Targets(n))
        = {t \in reached \ Targets(n) : Ready(t)'}
  BY <1>2, <1>6 DEF ReadyByCascade, Routes, ExitHandles, None
<1>8. Step(n).ready =
        {t \in Targets(n) : Ready(t)'} \cup {t \in reached \ Targets(n) : Ready(t)'}
          \cup {t \in {e.dst : e \in Cut(n)} \ Targets(n) : t \in em'.act /\ Ready(t)'}
  <2>0. em' = Step(n).em /\ task[n].out.route \notin ExitHandles
    BY DEF Routes, ExitHandles, None
  <2> DEFINE targets == Targets(n)
             cut     == Cut(n)
             pruned  == Deactivate(dag, marked, n, cut)
             next    == [pruned EXCEPT !.incoming =
                           [t \in dag.nodes |-> IF t \in targets THEN @[t] \ {n} ELSE @[t]]]
             cascade == CascadeTargets(dag, marked, n, cut)
                          \cup {e.dst : e \in {x \in cut : targets = {}
                                                       /\ IsTerminalControlNode(dag, x.dst)}}
  <2>1. Step(n).em = next
    BY DEF Step, ProcessOutgoingEdges, Targets, Cut
  <2>2. Step(n).ready =
          {t \in targets : IsNodeReady(dag, next, t)}
            \cup ReadyByCascade(dag, next, n, task[n].out, cascade \ targets)
            \cup {t \in {e.dst : e \in cut} \ targets :
                    /\ task[n].out.route \notin ExitHandles
                    /\ t \in next.act
                    /\ IsNodeReady(dag, next, t)}
    BY DEF Step, ProcessOutgoingEdges, Targets, Cut
  <2>3. cascade = reached
    BY <1>4, <1>5
  <2>4. next = em'
    BY <2>0, <2>1
  <2> HIDE DEF next, cascade, reached
  <2> QED
    BY <1>6, <1>7, <2>0, <2>2, <2>3, <2>4
<1>9. ASSUME NEW t \in Step(n).ready
      PROVE  t \in em'.act /\ ~Ready(t) /\ Ready(t)'
  <2>1. PICK e \in dag.edges : e.dst = t /\ (e.src = n \/ e \in Lost(n))
    BY <1>8, <1>9 DEF Targets, ActivatedTargets, Cut, EdgesToDeactivate, OutEdges, Lost,
                      CascadeEdges
  <2>2. Awaited(e)
    BY <2>1, DeadWaited DEF Routes, Decided
  <2> QED
    BY <1>2, <1>8, <1>9, <2>1, <2>2, ReadyMeans
<1>10. ASSUME NEW t \in em'.act, ~Ready(t), Ready(t)'
       PROVE  t \in Step(n).ready
  <2>1. PICK e \in dag.edges : e.dst = t /\ Awaited(e)
    BY <1>10, ReadyMeans
  <2>2. e \in Lost(n) \/ t \in Targets(n)
    BY <1>10, <2>1, AwaitedAfter, ReadyAfterMeans DEF Routes
  <2>3. t \in reached \/ t \in Targets(n) \/ t \in {x.dst : x \in Cut(n)}
    BY <2>1, <2>2 DEF Lost, Awaited
  <2> QED
    BY <1>8, <1>10, <2>3
<1> QED
  BY <1>9, <1>10

------------------------------------------------------------------------------
(* The inductive invariant.                                                 *)

Unbegun ==
  pc = "init" =>
    /\ queue = {} /\ task = <<>> /\ paused = {} /\ em.act = {}
    /\ executed \cap Active = {}
    /\ \A e \in dag.edges : e.src \in Active => Awaited(e)

Tasks ==
  \A n \in DOMAIN task :
    /\ ~task[n].was /\ ~task[n].stored /\ task[n].out.route = None
    /\ task[n].stage # "running" => n \in executed
    /\ task[n].stage = "completing" => blockStates[n] = task[n].out

\* Who counts as selected was selected by an edge that is decided.
Selected ==
  \A t \in em.act :
    \E e \in dag.edges : e.dst = t /\ e.src \in Active /\ Took(e) /\ ~Awaited(e)

\* Who was selected and waits for nothing is under way or has run.
Waits == \A t \in em.act : Ready(t) => t \in Flying \cup executed

Stopped == stoppedEarly \/ errorFlag

\* An edge is left undecided only behind a node in flight or a pause, unless
\* the run was stopped.
Passed ==
  \A e \in dag.edges : e.src \in Active /\ Ready(e.src) /\ Awaited(e) /\ pc # "init" =>
    e.src \in Flying \cup paused \/ Stopped

\* A decided edge that was taken has selected its target.
Marked ==
  \A e \in dag.edges : e.src \in Active /\ ~Awaited(e) /\ Took(e) => e.dst \in em.act

Routing == Decided /\ Selected /\ Waits /\ Passed /\ Marked

ReadyInv == Typed /\ Flat /\ Unbegun /\ Tasks /\ Routing

LEMMA Frozen ==
  ASSUME dag' = dag, rfb' = rfb, em' = em
  PROVE  /\ Active' = Active /\ (Flat => Flat')
         /\ \A e : Awaited(e)' <=> Awaited(e)
         /\ \A n : Ready(n)' <=> Ready(n)
BY DEF Active, Flat, DagOK, Awaited, Ready

LEMMA FlatStays ==
  ASSUME Flat, dag' = dag, rfb' = rfb
  PROVE  Flat' /\ Active' = Active
BY DEF Active, Flat, DagOK

\* An edge has no control handle, so it is taken once its source has run.
LEMMA TookMeans ==
  ASSUME Flat, NEW e \in dag.edges
  PROVE  Took(e) <=> e.src \in executed /\ ShouldActivate(e, blockStates[e.src])
BY DEF Took, Flat, ControlHandles

LEMMA PropagateRouting ==
  ASSUME Typed, Flat, Tasks, Routing, NEW n \in dag.nodes, PropagateNode(n),
         ~(dag.stopAfter = n /\ ~Continues(n))
  PROVE  Routing'
<1> USE DEF flags, outcome, states
<1>0. /\ n \in DOMAIN task /\ n \in Flying /\ n \in executed
      /\ task[n].out.route = None /\ blockStates[n] = task[n].out
  BY DEF PropagateNode, Completing, Tasks, Flying
<1>1. /\ UNCHANGED <<dag, rfb, executed, blockStates, errorFlag, stoppedEarly, paused, pc>>
      /\ em' = Step(n).em /\ queue' = queue \cup Step(n).ready
      /\ DOMAIN task' = DOMAIN task \ {n}
  BY DEF PropagateNode, Releases, Settle, Step
<1>2. Routes(n)
  BY <1>0, <1>1 DEF Routes, Routing
<1>3. Flat' /\ Active' = Active
  BY <1>1, FlatStays
<1>4. em'.act = em.act \cup Targets(n)
  BY <1>1, RoutedEm
<1>5. \A e \in dag.edges : Took(e)' <=> Took(e)
  BY <1>1 DEF Took
<1>6. \A e \in dag.edges :
        ~Awaited(e)' /\ Awaited(e) => e \in Lost(n) \/ (e.src = n /\ e.dst \in Targets(n))
  BY <1>2, AwaitedAfter
<1>7. Targets(n) \subseteq Active
  BY <1>0 DEF Targets, ActivatedTargets, OutEdges, Flat, Routing, Decided
<1>8. Step(n).ready \subseteq em'.act /\ em'.act \subseteq Active
      /\ \A t \in Step(n).ready : ~Ready(t) /\ Ready(t)'
  BY <1>2, <1>4, <1>7, ReadyAre DEF Routing, Decided
<1>9. Ready(n)
  BY <1>0 DEF Routing, Decided
<1>10. Flying' = (Flying \ {n}) \cup Step(n).ready
  BY <1>0, <1>1 DEF Flying, Routing, Decided
<1>11. Decided'
  <2>1. Flying' \subseteq Active' /\ em'.act \subseteq Active'
    BY <1>3, <1>8, <1>10 DEF Routing, Decided
  <2>2. queue' \cap (DOMAIN task' \cup executed') = {}
    <3>1. \A t \in Step(n).ready : t \notin Flying \cup executed
      BY <1>8 DEF Routing, Decided
    <3> QED
      BY <1>1, <3>1 DEF Flying, Routing, Decided
  <2>3. \A t \in Active' : em'.incoming[t] \subseteq Active'
    <3>1. ASSUME NEW t \in dag.nodes PROVE em'.incoming[t] \subseteq em.incoming[t]
      <4>1. em'.incoming[t] = IF t \in Targets(n) THEN em.incoming[t] \ {n} ELSE em.incoming[t]
        BY <1>1, RoutedEm
      <4> QED
        BY <4>1
    <3> QED
      BY <1>3, <3>1 DEF Flat, Routing, Decided
  <2>4. \A t \in Flying' \cup (executed' \cap Active') : Ready(t)'
    BY <1>1, <1>2, <1>3, <1>8, <1>10, RoutingDecides DEF Routing, Decided
  <2>5. ASSUME NEW e \in dag'.edges, e.src \in Flying' PROVE Awaited(e)'
    <3>1. e \in dag.edges /\ e.src \in Active /\ e.src \in dag.nodes
      BY <1>1, <1>3, <2>1, <2>5 DEF Flat
    <3>2. Awaited(e)
      BY <1>8, <1>10, <2>5, <3>1 DEF Routing, Decided
    <3>3. e.src # n
      BY <1>8, <1>9, <1>10, <2>5
    <3>4. e.src \notin Dead(n)
      BY <1>2, <1>8, <1>10, <2>5, <3>1, DeadAre DEF Routing, Decided
    <3>5. e \notin Lost(n)
      BY <3>3, <3>4 DEF Lost, Cut, EdgesToDeactivate, OutEdges, CascadeEdges
    <3> QED
      BY <1>6, <3>1, <3>2, <3>3, <3>5
  <2>6. ASSUME NEW e \in dag'.edges, e.src \in Active', ~Awaited(e)' PROVE Ready(e.src)'
    <3>1. e \in dag.edges /\ e.src \in Active /\ e.src \in dag.nodes
      BY <1>1, <1>3, <2>6 DEF Flat
    <3>2. CASE ~Awaited(e) \/ e.src = n
      BY <1>2, <1>9, <3>1, <3>2, RoutingDecides DEF Routing, Decided
    <3>3. CASE e.src \in Dead(n)
      BY <1>2, <3>1, <3>3, DeadAre
    <3> QED
      BY <1>6, <2>6, <3>1, <3>2, <3>3
         DEF Lost, Cut, EdgesToDeactivate, OutEdges, CascadeEdges
  <2>7. Flying' \cup (executed' \cap Active') \subseteq {dag'.start} \cup em'.act
    BY <1>1, <1>3, <1>4, <1>8, <1>10 DEF Routing, Decided
  <2> QED
    BY <2>1, <2>2, <2>3, <2>4, <2>5, <2>6, <2>7 DEF Decided
<1>12. Selected'
  <2> SUFFICES ASSUME NEW t \in em'.act
               PROVE  \E e \in dag.edges : e.dst = t /\ e.src \in Active /\ Took(e) /\ ~Awaited(e)'
    BY <1>1, <1>3, <1>5 DEF Selected
  <2>1. CASE t \in em.act
    BY <1>2, <2>1, RoutingDecides DEF Routing, Selected
  <2>2. CASE t \in Targets(n)
    <3>1. PICK e \in dag.edges : e.src = n /\ e.dst = t /\ ShouldActivate(e, task[n].out)
      BY <2>2 DEF Targets, ActivatedTargets, OutEdges
    <3>2. Took(e) /\ n \in Active
      BY <1>0, <3>1, TookMeans DEF Routing, Decided
    <3> QED
      BY <1>2, <3>1, <3>2, RoutingDecides
  <2> QED
    BY <1>4, <2>1, <2>2
<1>13. Waits'
  <2> SUFFICES ASSUME NEW t \in em'.act, Ready(t)' PROVE t \in Flying' \cup executed
    BY <1>1 DEF Waits
  <2>1. CASE Ready(t)
    <3>1. t \in em.act
      <4>1. ASSUME t \in Targets(n) PROVE FALSE
        <5>1. PICK e \in dag.edges : e.src = n /\ e.dst = t
          BY <4>1 DEF Targets, ActivatedTargets, OutEdges
        <5> QED
          BY <1>0, <2>1, <5>1, ReadyMeans DEF Routing, Decided
      <4> QED
        BY <1>4, <4>1
    <3> QED
      BY <1>0, <1>10, <2>1, <3>1 DEF Routing, Waits
  <2>2. CASE ~Ready(t)
    BY <1>2, <1>10, <2>2, ReadyAre
  <2> QED
    BY <2>1, <2>2
<1>14. Passed'
  <2> SUFFICES ASSUME NEW e \in dag.edges, e.src \in Active, Ready(e.src)', Awaited(e)', pc # "init"
               PROVE  e.src \in Flying' \cup paused \/ Stopped
    BY <1>1, <1>3 DEF Passed, Stopped
  <2>1. e.src # n /\ Awaited(e)
    BY <1>2, RoutingDecides
  <2>2. CASE Ready(e.src)
    BY <1>10, <2>1, <2>2 DEF Routing, Passed
  <2>3. CASE ~Ready(e.src)
    <3>1. e.src \in dag.nodes
      BY DEF Flat
    <3>2. e.src \notin Dead(n)
      BY <1>2, AwaitedAfter, NoBackEdges DEF Lost
    <3>3. e.src \in em'.act
      BY <1>2, <2>3, <3>1, <3>2, DeadAre
    <3> QED
      BY <1>2, <1>10, <2>3, <3>3, ReadyAre
  <2> QED
    BY <2>2, <2>3
<1>15. Marked'
  <2> SUFFICES ASSUME NEW e \in dag.edges, e.src \in Active, ~Awaited(e)', Took(e)
               PROVE  e.dst \in em'.act
    BY <1>1, <1>3, <1>5 DEF Marked
  <2>1. CASE ~Awaited(e) \/ e.dst \in Targets(n)
    BY <1>4, <2>1 DEF Routing, Marked
  <2>2. CASE e \in Lost(n) /\ e.dst \notin Targets(n)
    <3>1. e.src \in executed /\ ShouldActivate(e, blockStates[e.src])
      BY TookMeans
    <3>2. e \notin Cut(n)
      BY <1>0, <3>1 DEF Cut, EdgesToDeactivate, OutEdges
    <3>3. e.src \in Dead(n)
      BY <2>2, <3>2 DEF Lost, CascadeEdges
    <3> QED
      BY <1>0, <3>1, <3>3, DeadWaited DEF Routing, Decided
  <2> QED
    BY <1>6, <2>1, <2>2
<1> QED
  BY <1>11, <1>12, <1>13, <1>14, <1>15 DEF Routing

\* Every other step of a node leaves the edges alone: the node n stores an output
\* or ends, and an end that routes nothing is a pause or stops the run.
LEMMA StayRouting ==
  ASSUME Flat, Routing, NEW n \in DOMAIN task,
         UNCHANGED <<dag, em, rfb, queue, pc>>,
         executed \subseteq executed', executed' \subseteq executed \cup {n},
         \A m \in executed \ {n} : blockStates'[m] = blockStates[m],
         paused \subseteq paused', Stopped => Stopped',
         \/ DOMAIN task' = DOMAIN task
         \/ /\ DOMAIN task' = DOMAIN task \ {n}
            /\ n \in executed' /\ (n \in paused' \/ Stopped')
  PROVE  Routing'
<1>1. /\ Active' = Active /\ \A e : Awaited(e)' <=> Awaited(e)
      /\ \A m : Ready(m)' <=> Ready(m)
  BY Frozen
<1>2. n \in Flying /\ \A e \in dag.edges : e.src = n => Awaited(e)
  BY DEF Flying, Routing, Decided
<1>3. ASSUME NEW e \in dag.edges, ~Awaited(e) PROVE Took(e)' <=> Took(e)
  <2>1. Took(e) <=> e.src \in executed /\ ShouldActivate(e, blockStates[e.src])
    BY TookMeans
  <2>2. Flat'
    BY Frozen
  <2>3. Took(e)' <=> e.src \in executed' /\ ShouldActivate(e, blockStates'[e.src])
    BY <2>2 DEF Took, Flat, ControlHandles
  <2>4. e.src # n
    BY <1>2, <1>3
  <2> QED
    BY <2>1, <2>3, <2>4
<1>4. Flying' \subseteq Flying /\ Flying \subseteq Flying' \cup {n}
      /\ (n \in Flying' \/ (n \in executed' /\ (n \in paused' \/ Stopped')))
  BY DEF Flying
<1>5. Decided'
  BY <1>1, <1>2, <1>4 DEF Routing, Decided, Flying
<1>6. Selected'
  BY <1>1, <1>3 DEF Routing, Selected
<1>7. Waits'
  BY <1>1, <1>4 DEF Routing, Waits
<1>8. Passed'
  BY <1>1, <1>4 DEF Routing, Passed
<1>9. Marked'
  BY <1>1, <1>3 DEF Routing, Marked
<1> QED
  BY <1>5, <1>6, <1>7, <1>8, <1>9 DEF Routing

\* What a block answers in such a workflow has no route.
LEMMA NoRoutes ==
  ASSUME NEW n, NEW out \in BlockOutputs(n) \cup HandledFailures(n)
  PROVE  out.route = None
BY DEF BlockOutputs, HandledFailures, ErrorOutput, Plain, Output

LEMMA NoSentinels ==
  ASSUME Flat, NEW n \in dag.nodes
  PROVE  /\ ~IsSentinel(n) /\ ~Continues(n) /\ ~RunLoopStart(n) /\ ~RunLoopEnd(n)
BY DEF Flat, IsSentinel, Continues, RunLoopStart, RunLoopEnd, None

LEMMA ExecuteReady ==
  ASSUME ReadyInv, NEW n \in dag.nodes, Execute(n)
  PROVE  ReadyInv'
<1> USE DEF flags, outcome, states
<1>1. Typed'
  BY ExecuteTyped DEF ReadyInv
<1>2. n \in DOMAIN task /\ ~task[n].stored /\ ~task[n].was /\ ~IsSentinel(n)
  BY NoSentinels DEF ReadyInv, Execute, RunBlock, FailNode, Running, Tasks
<1>3. /\ UNCHANGED <<dag, em, queue, rfb, stoppedEarly, paused, pc>>
      /\ pc # "init"
  BY <1>2, NoSentinels DEF ReadyInv, Unbegun, Execute, RunBlock, FailNode
<1>4. Flat' /\ Unbegun'
  BY <1>3, Frozen DEF ReadyInv, Unbegun
<1>5. CASE RunBlock(n)
  <2>1. PICK out : out.route = None /\ Returned(n, out) /\ StoreState(n, out)
    BY <1>2, <1>5, NoRoutes DEF RunBlock
  <2>2. /\ task' = [task EXCEPT ![n].stage = "returned", ![n].out = out]
        /\ executed' = executed \cup {n}
        /\ \A m \in executed \ {n} : blockStates'[m] = blockStates[m]
    BY <1>2, <2>1 DEF Returned, StoreState, ReadyInv, Typed, TypeOK, EngineTypes
  <2>3. Routing'
    BY <1>2, <1>3, <1>5, <2>2, StayRouting DEF ReadyInv, RunBlock, Stopped
  <2>4. Tasks'
    <3>1. task \in [DOMAIN task -> TaskType]
      BY DEF ReadyInv, Typed, TypeOK, EngineTypes
    <3>2. /\ DOMAIN task' = DOMAIN task
          /\ task'[n].stage = "returned" /\ task'[n].out.route = None
          /\ ~task'[n].was /\ ~task'[n].stored
          /\ \A m \in DOMAIN task \ {n} : task'[m] = task[m]
      BY <1>2, <2>1, <2>2, <3>1 DEF TaskType
    <3> QED
      BY <2>2, <3>2 DEF ReadyInv, Tasks
  <2> QED
    BY <1>1, <1>4, <2>3, <2>4 DEF ReadyInv
<1>6. CASE FailNode(n)
  <2>1. /\ task' = Settle(n) /\ errorFlag'
        /\ executed' = executed \cup {n}
        /\ \A m \in executed \ {n} : blockStates'[m] = blockStates[m]
    BY <1>2, <1>6 DEF FailNode, StoreState, ReadyInv, Typed, TypeOK, EngineTypes
  <2>2. Routing'
    BY <1>2, <1>3, <1>6, <2>1, StayRouting DEF ReadyInv, Settle, Stopped
  <2>3. Tasks'
    BY <2>1 DEF ReadyInv, Tasks, Settle
  <2> QED
    BY <1>1, <1>4, <2>2, <2>3 DEF ReadyInv
<1> QED
  BY <1>5, <1>6, NoSentinels DEF ReadyInv, Execute

LEMMA CompleteReady ==
  ASSUME ReadyInv, NEW n \in dag.nodes, Complete(n)
  PROVE  ReadyInv'
<1> USE DEF flags, outcome, states
<1>1. Typed'
  BY CompleteTyped DEF ReadyInv
<1>2. n \in DOMAIN task /\ n \in executed /\ n \in Flying
  BY DEF ReadyInv, Complete, CompleteNode, PauseAt, Respond, PropagateNode, Completing, Tasks, Flying
<1>3. UNCHANGED <<dag, rfb, pc>> /\ pc # "init"
  BY <1>2 DEF ReadyInv, Unbegun, Complete, CompleteNode, PauseAt, Respond, PropagateNode
<1>4. Flat' /\ Unbegun'
  BY <1>3, FlatStays DEF ReadyInv, Unbegun
<1>5. CASE CompleteNode(n)
  <2>1. CASE stoppedEarly /\ responseLocked
    <3>1. UNCHANGED <<em, queue, states, flags, paused>> /\ task' = Settle(n)
      BY <1>5, <2>1 DEF CompleteNode
    <3>2. Routing'
      BY <1>2, <1>3, <2>1, <3>1, StayRouting DEF ReadyInv, Settle, Stopped
    <3>3. Tasks'
      BY <3>1 DEF ReadyInv, Tasks, Settle
    <3> QED
      BY <1>1, <1>4, <3>2, <3>3 DEF ReadyInv
  <2>2. CASE ~(stoppedEarly /\ responseLocked)
    <3>1. /\ UNCHANGED <<em, queue, flags, paused>>
          /\ task' = [task EXCEPT ![n].stage = "completing"]
          /\ StoreState(n, task[n].out)
      BY <1>5, <2>2, NoSentinels DEF CompleteNode, ReadyInv
    <3>2. /\ executed' = executed \cup {n}
          /\ \A m \in executed \ {n} : blockStates'[m] = blockStates[m]
          /\ blockStates'[n] = task[n].out
      BY <3>1 DEF StoreState, ReadyInv, Typed, TypeOK, EngineTypes
    <3>3. Routing'
      BY <1>2, <1>3, <3>1, <3>2, StayRouting DEF ReadyInv, Stopped
    <3>4. Tasks'
      <4>1. task \in [DOMAIN task -> TaskType]
        BY DEF ReadyInv, Typed, TypeOK, EngineTypes
      <4>2. /\ DOMAIN task' = DOMAIN task
            /\ task'[n].stage = "completing" /\ task'[n].out = task[n].out
            /\ task'[n].was = task[n].was /\ task'[n].stored = task[n].stored
            /\ \A m \in DOMAIN task \ {n} : task'[m] = task[m]
        BY <1>2, <3>1, <4>1 DEF TaskType
      <4> QED
        BY <3>2, <4>2 DEF ReadyInv, Tasks
    <3> QED
      BY <1>1, <1>4, <3>3, <3>4 DEF ReadyInv
  <2> QED
    BY <2>1, <2>2
<1>6. ASSUME PauseAt(n) \/ Respond(n) \/ PropagateNode(n) PROVE Tasks'
  BY <1>6 DEF ReadyInv, Tasks, PauseAt, Respond, PropagateNode, Releases, Settle
<1>7. CASE PauseAt(n)
  <2>1. Routing'
    BY <1>2, <1>3, <1>7, StayRouting DEF ReadyInv, PauseAt, Releases, Settle, Stopped
  <2> QED
    BY <1>1, <1>4, <1>6, <1>7, <2>1 DEF ReadyInv
<1>8. CASE Respond(n)
  <2>1. Routing'
    BY <1>2, <1>3, <1>8, StayRouting DEF ReadyInv, Respond, Releases, Settle, Stopped
  <2> QED
    BY <1>1, <1>4, <1>6, <1>8, <2>1 DEF ReadyInv
<1>9. CASE PropagateNode(n)
  <2>1. CASE dag.stopAfter = n /\ ~Continues(n)
    <3>1. Routing'
      BY <1>2, <1>3, <1>9, <2>1, StayRouting DEF ReadyInv, PropagateNode, Releases, Settle, Stopped
    <3> QED
      BY <1>1, <1>4, <1>6, <1>9, <3>1 DEF ReadyInv
  <2>2. CASE ~(dag.stopAfter = n /\ ~Continues(n))
    BY <1>1, <1>4, <1>6, <1>9, <2>2, PropagateRouting DEF ReadyInv
  <2> QED
    BY <2>1, <2>2
<1> QED
  BY <1>5, <1>7, <1>8, <1>9 DEF Complete

\* The run begins at the trigger, the one node that waits for nothing.
LEMMA BeginReady == ReadyInv /\ InitializeQueue => ReadyInv'
<1> SUFFICES ASSUME ReadyInv, InitializeQueue PROVE ReadyInv'
  OBVIOUS
<1> USE DEF flags, outcome, states
<1>1. Typed'
  BY RunLoopTyped DEF ReadyInv, RunLoop
<1>2. /\ UNCHANGED <<dag, em, rfb, task, states, flags, paused>>
      /\ queue' = {dag.start} /\ queue = {} /\ task = <<>> /\ pc' = "check"
      /\ em.act = {} /\ executed \cap Active = {}
      /\ \A e \in dag.edges : e.src \in Active => Awaited(e)
  BY DEF InitializeQueue, ReadyInv, Unbegun
<1>3. Flat' /\ Unbegun' /\ Tasks'
  BY <1>2, FlatStays DEF ReadyInv, Unbegun, Tasks
<1>4. /\ Active' = Active /\ \A e : Awaited(e)' <=> Awaited(e)
      /\ \A m : Ready(m)' <=> Ready(m)
  BY <1>2, Frozen
<1>5. Flying' = {dag.start} /\ dag.start \in Active /\ dag.start \notin executed
  BY <1>2 DEF Flying, ReadyInv, Flat
<1>6. Ready(dag.start)
  <2>1. ASSUME NEW e \in dag.edges, e.dst = dag.start PROVE ~Awaited(e)
    <3>1. e.src \notin Active
      BY <2>1 DEF ReadyInv, Flat
    <3> QED
      BY <1>5, <2>1, <3>1 DEF Awaited, ReadyInv, Routing, Decided
  <2> QED
    BY <2>1, ReadyMeans
<1>7. \A t \in Active \ {dag.start} : ~Ready(t)
  BY <1>2, ReadyMeans DEF ReadyInv, Flat
<1>8. Decided'
  BY <1>2, <1>4, <1>5, <1>6 DEF ReadyInv, Routing, Decided
<1>9. Selected' /\ Waits' /\ Marked'
  BY <1>2, <1>4 DEF Selected, Waits, Marked
<1>10. Passed'
  BY <1>2, <1>4, <1>5, <1>7 DEF Passed
<1> QED
  BY <1>1, <1>3, <1>8, <1>9, <1>10 DEF ReadyInv, Routing

\* The queue is launched: what is under way stays the same.
LEMMA LaunchReady == ReadyInv /\ ProcessQueue => ReadyInv'
<1> SUFFICES ASSUME ReadyInv, ProcessQueue PROVE ReadyInv'
  OBVIOUS
<1> USE DEF flags, outcome, states
<1>1. Typed'
  BY RunLoopTyped DEF ReadyInv, RunLoop
<1>2. /\ UNCHANGED <<dag, em, rfb, states, flags, paused>>
      /\ queue' = {} /\ DOMAIN task' = DOMAIN task \cup queue /\ pc = "check" /\ pc' = "waitAny"
  BY DEF ProcessQueue
<1>3. Flat' /\ Unbegun'
  BY <1>2, FlatStays DEF ReadyInv, Unbegun
<1>4. /\ Active' = Active /\ \A e : Awaited(e)' <=> Awaited(e)
      /\ \A m : Ready(m)' <=> Ready(m)
      /\ \A e : Took(e)' <=> Took(e)
  BY <1>2, Frozen DEF Took
<1>5. Flying' = Flying
  BY <1>2 DEF Flying
<1>6. Tasks'
  <2> SUFFICES ASSUME NEW n \in DOMAIN task'
               PROVE  /\ ~task'[n].was /\ ~task'[n].stored /\ task'[n].out.route = None
                      /\ task'[n].stage # "running" => n \in executed
                      /\ task'[n].stage = "completing" => blockStates[n] = task'[n].out
    BY <1>2 DEF Tasks
  <2>1. CASE n \in queue
    <3>1. n \notin executed /\ n \in Active
      BY <2>1 DEF ReadyInv, Routing, Decided, Flying
    <3>2. AnswersFromState(n) \in BOOLEAN /\ ~AnswersFromState(n)
      BY <3>1 DEF AnswersFromState, Active
    <3>3. task'[n] = [stage |-> "running", was |-> n \in executed,
                      stored |-> AnswersFromState(n), out |-> Plain]
      BY <2>1 DEF ProcessQueue
    <3>4. /\ task'[n].stage = "running" /\ task'[n].out = Plain
          /\ task'[n].was = (n \in executed) /\ task'[n].stored = AnswersFromState(n)
      BY <3>2, <3>3
    <3> QED
      BY <3>1, <3>2, <3>4 DEF Plain, Output
  <2>2. CASE n \notin queue
    BY <1>2, <2>2 DEF ProcessQueue, ReadyInv, Tasks
  <2> QED
    BY <2>1, <2>2
<1>7. Decided'
  BY <1>2, <1>4, <1>5 DEF ReadyInv, Routing, Decided
<1>8. Selected' /\ Waits' /\ Marked'
  BY <1>2, <1>4, <1>5 DEF ReadyInv, Routing, Selected, Waits, Marked
<1>9. Passed'
  BY <1>2, <1>4, <1>5 DEF ReadyInv, Routing, Passed, Stopped
<1> QED
  BY <1>1, <1>3, <1>6, <1>7, <1>8, <1>9 DEF ReadyInv, Routing

\* Nothing else touches what the invariant is about.
LEMMA IdleReady ==
  ASSUME ReadyInv, Typed', UNCHANGED <<dag, em, rfb, queue, task, states, paused, errorFlag, stoppedEarly>>,
         pc' = pc \/ (pc # "init" /\ pc' # "init")
  PROVE  ReadyInv'
<1> USE DEF states
<1>1. Flat' /\ Unbegun' /\ Tasks'
  BY FlatStays DEF ReadyInv, Unbegun, Tasks, Active, Awaited
<1>2. /\ Active' = Active /\ \A e : Awaited(e)' <=> Awaited(e)
      /\ \A m : Ready(m)' <=> Ready(m)
      /\ \A e : Took(e)' <=> Took(e)
  BY Frozen DEF Took
<1>3. Decided'
  BY <1>2 DEF ReadyInv, Routing, Decided, Flying
<1>4. Selected' /\ Waits' /\ Marked'
  BY <1>2 DEF ReadyInv, Routing, Selected, Waits, Marked, Flying
<1>5. Passed'
  BY <1>2 DEF ReadyInv, Routing, Passed, Stopped, Flying
<1> QED
  BY <1>1, <1>3, <1>4, <1>5 DEF ReadyInv, Routing

LEMMA ReadyStep == ReadyInv /\ [Next]_vars => ReadyInv'
<1> SUFFICES ASSUME ReadyInv, [Next]_vars PROVE ReadyInv'
  OBVIOUS
<1> USE DEF flags, outcome, states
<1>0. Typed'
  BY StepTyped DEF ReadyInv
<1>1. CASE InitializeQueue
  BY <1>1, BeginReady
<1>2. CASE ProcessQueue
  BY <1>2, LaunchReady
<1>3. CASE WakeAny \/ LeaveLoop \/ WakeAll \/ Finish
  <2>1. /\ UNCHANGED <<dag, em, rfb, queue, task, states, paused, errorFlag, stoppedEarly>>
        /\ pc # "init" /\ pc' # "init"
    BY <1>3 DEF WakeAny, LeaveLoop, WakeAll, Finish, Return
  <2> QED
    BY <1>0, <2>1, IdleReady
<1>4. CASE Cancel
  <2>1. UNCHANGED <<dag, em, rfb, queue, task, states, paused, errorFlag, stoppedEarly, pc>>
    BY <1>4 DEF Cancel
  <2> QED
    BY <1>0, <2>1, IdleReady
<1>5. ASSUME NEW n \in dag.nodes, Execute(n) PROVE ReadyInv'
  BY <1>5, ExecuteReady
<1>6. ASSUME NEW n \in dag.nodes, Complete(n) PROVE ReadyInv'
  BY <1>6, CompleteReady
<1>7. CASE UNCHANGED vars
  <2>1. UNCHANGED <<dag, em, rfb, queue, task, states, paused, errorFlag, stoppedEarly, pc>>
    BY <1>7 DEF vars
  <2> QED
    BY <1>0, <2>1, IdleReady
<1> QED
  BY <1>1, <1>2, <1>3, <1>4, <1>5, <1>6, <1>7 DEF Next, Terminated, RunLoop

\* Workflows without loops and parallels.
LoopFree == \A d \in Dags : IsFlat(d)

LEMMA FlatInit == Init /\ IsFlat(dag) => ReadyInv
<1> SUFFICES ASSUME Init, IsFlat(dag) PROVE ReadyInv
  OBVIOUS
<1>1. Typed /\ rfb = {} /\ Active = dag.nodes
  BY InitTyped DEF Init, Active
<1>2. /\ queue = {} /\ task = <<>> /\ paused = {} /\ pc = "init"
      /\ executed = {} /\ em.act = {}
      /\ em.deact = {} /\ em.incoming = InitialIncoming(dag)
  BY DEF Init, EngineInit
<1>3. Flat
  <2>1. dag.start \in dag.nodes /\ \A e \in dag.edges : e.src \in dag.nodes /\ e.dst \in dag.nodes
    BY <1>1 DEF Typed, DagOK, IsDag
  <2> QED
    BY <1>1, <2>1 DEF Flat, IsFlat, Typed
<1>4. \A e \in dag.edges : Awaited(e)
  <2>1. \A e \in dag.edges : Registers(dag, e) /\ e.dst \in dag.nodes
    BY <1>1 DEF IsFlat, Registers, IsBypass, ControlHandles, Typed, DagOK, IsDag
  <2>2. \A e \in dag.edges : e.src \in InitialIncoming(dag)[e.dst]
    BY <2>1 DEF InitialIncoming
  <2> QED
    BY <1>2, <2>2 DEF Awaited
<1>5. \A n \in dag.nodes : em.incoming[n] \subseteq dag.nodes
  BY <1>1 DEF Typed, TypeOK, EngineTypes, EmType
<1>6. Unbegun /\ Tasks /\ Flying = {}
  BY <1>2, <1>4 DEF Unbegun, Tasks, Flying
<1>7. Decided
  BY <1>1, <1>2, <1>4, <1>5, <1>6 DEF Decided
<1>8. Selected /\ Waits /\ Marked /\ Passed
  BY <1>2, <1>4 DEF Selected, Waits, Marked, Passed
<1> QED
  BY <1>1, <1>3, <1>6, <1>7, <1>8 DEF ReadyInv, Routing

LEMMA ReadyInit == LoopFree /\ Init => ReadyInv
BY FlatInit DEF LoopFree, Init

LEMMA ReadyAlways == LoopFree => (Spec => []ReadyInv)
<1> SUFFICES ASSUME LoopFree PROVE Spec => []ReadyInv
  OBVIOUS
<1>1. Init => ReadyInv
  BY ReadyInit
<1> QED
  BY <1>1, ReadyStep, PTL DEF Spec

------------------------------------------------------------------------------
(* What follows for the runs of a plain workflow.                           *)

\* In a workflow without loops and parallels nothing is launched twice: what is
\* queued is neither in flight nor has it been executed, however many edges meet
\* in it and in whatever order the blocks before it end.
THEOREM NothingRelaunched == LoopFree => (Spec => NoRelaunch)
<1> SUFFICES ASSUME LoopFree PROVE Spec => NoRelaunch
  OBVIOUS
<1>1. ReadyInv /\ [Next]_vars =>
        [Launches => \A n \in queue : n \notin DOMAIN task /\ n \notin executed]_vars
  BY DEF ReadyInv, Routing, Decided
<1> QED
  BY <1>1, ReadyAlways, PTL DEF Spec, NoRelaunch

LEMMA ReadySelects == ReadyInv => OnlySelectedRun
<1> SUFFICES ASSUME ReadyInv, NEW n \in Flying
             PROVE  n = dag.start \/ \E e \in dag.edges : e.dst = n /\ Took(e)
  BY DEF OnlySelectedRun, Flying
<1> QED
  BY DEF ReadyInv, Routing, Decided, Selected

\* In such a workflow a block is queued, or runs, only if an executed block before
\* it took an edge to it.
THEOREM OnlySelected == LoopFree => (Spec => []OnlySelectedRun)
<1> SUFFICES ASSUME LoopFree PROVE Spec => []OnlySelectedRun
  OBVIOUS
<1> QED
  BY ReadySelects, ReadyAlways, PTL

\* In such a workflow no join overtakes a block upstream of it.  The nodes that
\* still wait for an edge are closed under the edges, and hold everything that
\* follows a node in flight: its edges are all awaited.
THEOREM NothingOvertaken == LoopFree => (Spec => []NoOvertaking)
<1> SUFFICES ASSUME LoopFree PROVE Spec => []NoOvertaking
  OBVIOUS
<1>1. ReadyInv => NoOvertaking
  <2> SUFFICES ASSUME ReadyInv, NEW n \in Flying, NEW m \in Flying, Precedes(m, n)
               PROVE  FALSE
    BY DEF NoOvertaking, Flying
  <2> DEFINE S == {x \in Active : ~Ready(x)}
  <2>1. S \in SUBSET dag.nodes
    BY DEF ReadyInv, Flat
  <2>2. ASSUME NEW e \in dag.edges, e.src \in S \cup {m} PROVE e.dst \in S
    <3>1. Awaited(e) /\ e.dst \in Active
      BY <2>2 DEF ReadyInv, Routing, Decided, Flat
    <3> QED
      BY <3>1, ReadyMeans
  <2>3. n \in S
    BY <2>1, <2>2 DEF Precedes
  <2> QED
    BY <2>3 DEF ReadyInv, Routing, Decided
<1> QED
  BY <1>1, ReadyAlways, PTL

\* The ends of a run: what it returns is fixed when nothing is left to do.
EndInv ==
  /\ result \in {"success", "paused"} => pc = "done"
  /\ result \in {"success", "paused"} /\ ~cancelled => (errorFlag => responseLocked)
  /\ pc \in {"waitAll", "settle", "done"} /\ ~cancelled /\ ~Stopped => queue = {} /\ task = <<>>

LEMMA EndInvStep == Typed /\ ResultInv /\ EndInv /\ [Next]_vars => EndInv'
<1> SUFFICES ASSUME Typed, ResultInv, EndInv, [Next]_vars PROVE EndInv'
  OBVIOUS
<1> USE DEF flags, outcome, states
<1>1. CASE InitializeQueue \/ ProcessQueue \/ WakeAny \/ WakeAll
  BY <1>1 DEF EndInv, Stopped, InitializeQueue, ProcessQueue, WakeAny, WakeAll
<1>2. CASE LeaveLoop
  BY <1>2 DEF EndInv, Stopped, LeaveLoop, Return, HasWork
<1>3. CASE Finish
  BY <1>3 DEF EndInv, Stopped, Finish, Return
<1>4. CASE Cancel
  BY <1>4 DEF EndInv, Cancel
<1>5. ASSUME NEW n \in dag.nodes, Execute(n) \/ Complete(n) PROVE EndInv'
  <2>1. task # <<>> /\ ~(pc = "done" /\ ~cancelled)
    BY <1>5, NothingRuns DEF ResultInv
  <2>2. UNCHANGED <<pc, cancelled, result>>
    BY <1>5 DEF Execute, Complete, RunBlock, FailNode, RunLoopStart, RunLoopEnd,
                CompleteNode, PauseAt, Respond, PropagateNode
  <2>3. Stopped => Stopped'
    <3>1. CASE Execute(n)
      BY <3>1 DEF Stopped, Execute, RunBlock, FailNode, RunLoopStart, RunLoopEnd
    <3>2. CASE Complete(n)
      BY <3>2 DEF Stopped, Complete, CompleteNode, PauseAt, Respond, PropagateNode
    <3> QED
      BY <1>5, <3>1, <3>2
  <2> QED
    BY <2>1, <2>2, <2>3 DEF EndInv
<1>6. CASE UNCHANGED vars
  BY <1>6 DEF EndInv, Stopped, vars
<1> QED
  BY <1>1, <1>2, <1>3, <1>4, <1>5, <1>6 DEF Next, Terminated, RunLoop

\* What follows a node that waits for a pause waits for it too.
LEMMA PauseReaches ==
  ASSUME Flat, NEW e \in dag.edges
  PROVE  e.src \in paused \/ AwaitsPause(e.src) => AwaitsPause(e.dst)
<1>1. Registers(dag, e)
  BY DEF Flat, Registers, IsBypass, ControlHandles
<1>2. ASSUME e.src \in paused PROVE Precedes(e.src, e.dst)
  BY <1>1 DEF Precedes
<1>3. ASSUME NEW p \in paused, Precedes(p, e.src) PROVE Precedes(p, e.dst)
  BY <1>1, <1>3 DEF Precedes
<1> QED
  BY <1>2, <1>3 DEF AwaitsPause

\* When nothing is queued or in flight any more, and the run was not stopped, all
\* that a block led to has been executed or waits for a pause.  A node left waiting
\* would wait for another one left waiting, and so on against the order of the graph.
LEMMA AllFollowed ==
  ASSUME ReadyInv, Flying = {}, ~Stopped, pc # "init",
         NEW e \in dag.edges, e.src \in Active, Took(e)
  PROVE  e.dst \in executed \/ AwaitsPause(e.dst)
<1>1. \A x \in dag.edges : x.src \in Active /\ Ready(x.src) /\ Awaited(x) => x.src \in paused
  BY DEF ReadyInv, Routing, Passed
<1>2. ASSUME NEW k \in Active, ~Ready(k) PROVE AwaitsPause(k)
  <2> DEFINE Z == {y \in Active : ~Ready(y) /\ ~AwaitsPause(y)}
  <2>1. ASSUME Z # {} PROVE FALSE
    <3>1. PICK y \in Z : \A x \in dag.edges : x.dst = y => x.src \notin Z
      <4>1. \A S \in SUBSET dag.nodes :
             S # {} => \E m \in S : \A x \in dag.edges : x.dst = m => x.src \notin S
        BY DEF ReadyInv, Flat
      <4>2. Z \in SUBSET dag.nodes
        BY DEF ReadyInv, Flat
      <4> HIDE DEF Z
      <4> QED
        BY <2>1, <4>1, <4>2
    <3>2. PICK x \in dag.edges : x.dst = y /\ Awaited(x)
      BY ReadyMeans
    <3>3. x.src \in Active
      BY <3>1, <3>2 DEF Awaited, ReadyInv, Routing, Decided
    <3>4. x.src \in paused \/ AwaitsPause(x.src)
      BY <1>1, <3>1, <3>2, <3>3
    <3> QED
      BY <3>1, <3>2, <3>4, PauseReaches DEF ReadyInv
  <2> QED
    BY <1>2, <2>1
<1>3. Ready(e.src) /\ e.dst \in Active
  BY TookMeans DEF ReadyInv, Routing, Decided, Flat
<1>4. CASE e.src \in paused
  BY <1>4, PauseReaches DEF ReadyInv
<1>5. CASE ~Ready(e.dst)
  BY <1>2, <1>3, <1>5
<1>6. CASE e.src \notin paused /\ Ready(e.dst)
  <2>1. e.dst \in em.act
    BY <1>1, <1>3, <1>6 DEF ReadyInv, Routing, Marked
  <2> QED
    BY <1>6, <2>1 DEF ReadyInv, Routing, Waits
<1> QED
  BY <1>4, <1>5, <1>6

LEMMA EndedFree ==
  ASSUME StopInv, EndInv, result \in {"success", "paused"}, ~stoppedEarly, ~cancelled
  PROVE  Flying = {} /\ ~Stopped /\ pc # "init"
BY DEF StopInv, EndInv, Stopped, Flying

PlainRun == rfb = {}

LEMMA PlainRunStep == PlainRun /\ [Next]_vars => PlainRun'
BY DEF PlainRun, Next, RunLoop, InitializeQueue, ProcessQueue, WakeAny, LeaveLoop, WakeAll, Finish,
       Cancel, Terminated, Execute, RunBlock, FailNode, RunLoopStart, RunLoopEnd,
       Complete, CompleteNode, PauseAt, Respond, PropagateNode, vars

\* In such a workflow a run that ends by itself has followed every edge a block
\* took, short of what waits for a pause: no join is left waiting for a branch
\* that was pruned, and a snapshot leaves nothing due undone.
THEOREM NothingLeft == LoopFree => (Spec => []NothingStranded)
<1> SUFFICES ASSUME LoopFree PROVE Spec => []NothingStranded
  OBVIOUS
<1>1. Init => StopInv /\ ResultInv /\ EndInv /\ PlainRun
  BY DEF Init, EngineInit, StopInv, ResultInv, EndInv, PlainRun, None
<1>2. PlainRun /\ [Next]_vars => PlainRun'
  BY PlainRunStep
<1>3. ASSUME ReadyInv, StopInv, EndInv, PlainRun PROVE NothingStranded
  <2> SUFFICES ASSUME result \in {"success", "paused"}, ~stoppedEarly, ~cancelled
               PROVE  /\ \A e \in dag.edges : Took(e) => e.dst \in executed \/ AwaitsPause(e.dst)
                      /\ \A n \in dag.nodes : dag.role[n] # "start"
    <3>1. executed \subseteq dag.nodes
      BY <1>3 DEF ReadyInv, Typed, TypeOK, EngineTypes
    <3> QED
      BY <3>1 DEF NothingStranded
  <2>1. \A e \in dag.edges : e.src \in Active
    BY <1>3 DEF ReadyInv, Flat, DagOK, IsDag, PlainRun, Active
  <2>2. \A n \in dag.nodes : dag.role[n] # "start"
    BY <1>3 DEF ReadyInv, Flat, None
  <2> QED
    BY <1>3, <2>1, <2>2, EndedFree, AllFollowed
<1>4. ReadyInv => Typed
  BY DEF ReadyInv
<1> QED
  BY <1>1, <1>2, <1>3, <1>4, ReadyAlways, StopInvStep, ResultInvStep, TypedIs, EndInvStep, PTL DEF Spec

\* In such a workflow, then, the queue lock is sound outright.
THEOREM LineIsSound == LoopFree => (Spec => []LockIsSound)
BY LineIsKept, NothingRelaunched

------------------------------------------------------------------------------
(* The refinement of Dataflow.  Besides what ReadyInv says it needs that a  *)
(* node which is ready and was not selected is dead: what Dataflow calls    *)
(* skipped is then what the cascade has pruned.                             *)

\* A block that is ready and was not selected is dead, and so are its edges.
Pruned ==
  \A e \in dag.edges : Ready(e.src) /\ e.src \notin em.act \cup {dag.start} => ~Awaited(e)

\* What a block has answered is one of its answers.
Answered ==
  \A n \in DOMAIN task : task[n].stage # "running" =>
    \/ task[n].out \in BlockOutputs(n)
    \/ task[n].out = ErrorOutput /\ HasErrorPort(n)

\* A paused block has been executed, and nothing of it is under way.
Rests == paused \subseteq executed /\ paused \cap Flying = {}

\* The trigger was queued first of all.
Triggered == pc # "init" => dag.start \in Flying \cup executed

FlowInv ==
  /\ ReadyInv /\ PlainRun /\ StopInv /\ ResultInv /\ EndInv
  /\ Pruned /\ Answered /\ Rests /\ Triggered

LEMMA FateMeans ==
  ASSUME NEW e \in dag.edges
  PROVE  FateOf(e) = IF Awaited(e) THEN "open" ELSE IF Took(e) THEN "taken" ELSE "dead"
BY DEF FateOf, IsActiveInto, Awaited

\* The words of Dataflow, in those of the engine.
Worded ==
  /\ \A n \in dag.nodes : Flow!IsDecided(n) <=> Ready(n)
  /\ \A n \in dag.nodes : Flow!IsChosen(n) <=> n = dag.start \/ n \in em.act
  /\ \A n \in dag.nodes : Flow!IsOpen(n) <=> \E e \in dag.edges : e.src = n /\ Awaited(e)

LEMMA FlowWords == ReadyInv /\ PlainRun => Worded
<1> SUFFICES ASSUME ReadyInv, PlainRun, NEW n \in dag.nodes
             PROVE  /\ Flow!IsDecided(n) <=> Ready(n)
                    /\ Flow!IsChosen(n) <=> n = dag.start \/ n \in em.act
                    /\ Flow!IsOpen(n) <=> \E e \in dag.edges : e.src = n /\ Awaited(e)
  BY DEF Worded
<1>1. \A e \in dag.edges :
        /\ FateOf(e) = "open" <=> Awaited(e)
        /\ FateOf(e) = "taken" <=> ~Awaited(e) /\ Took(e)
  BY FateMeans
<1>2. Flow!IsDecided(n) <=> Ready(n)
  BY <1>1, ReadyMeans DEF Flow!IsDecided
<1>3. \A e \in dag.edges : e.src \in Active
  BY DEF ReadyInv, Flat, DagOK, IsDag, PlainRun, Active
<1>4. Flow!IsChosen(n) <=> n = dag.start \/ n \in em.act
  <2>1. Flow!IsChosen(n) <=>
          n = dag.start \/ \E e \in dag.edges : e.dst = n /\ ~Awaited(e) /\ Took(e)
    BY <1>1 DEF Flow!IsChosen
  <2> QED
    BY <1>3, <2>1 DEF ReadyInv, Routing, Selected, Marked
<1>5. Flow!IsOpen(n) <=> \E e \in dag.edges : e.src = n /\ Awaited(e)
  BY <1>1 DEF Flow!IsOpen
<1> QED
  BY <1>2, <1>4, <1>5

\* While n is in flight all of its edges are open; so what it stores decides none.
LEMMA FateStays ==
  ASSUME Flat, Decided, NEW n \in Flying, UNCHANGED <<dag, em, rfb>>,
         executed \subseteq executed', executed' \subseteq executed \cup {n},
         \A m \in executed \ {n} : blockStates'[m] = blockStates[m]
  PROVE  \A e \in dag.edges : FateOf(e)' = FateOf(e)
<1> SUFFICES ASSUME NEW e \in dag.edges PROVE FateOf(e)' = FateOf(e)
  OBVIOUS
<1>1. (Awaited(e)' <=> Awaited(e)) /\ Flat'
  BY Frozen
<1>2. FateOf(e)' = IF Awaited(e)' THEN "open" ELSE IF Took(e)' THEN "taken" ELSE "dead"
  BY DEF FateOf, IsActiveInto, Awaited
<1>3. ASSUME ~Awaited(e) PROVE Took(e)' <=> Took(e)
  <2>1. e.src # n
    BY <1>3 DEF Decided
  <2>2. Took(e) <=> e.src \in executed /\ ShouldActivate(e, blockStates[e.src])
    BY TookMeans
  <2>3. Took(e)' <=> e.src \in executed' /\ ShouldActivate(e, blockStates'[e.src])
    BY <1>1 DEF Took, Flat, ControlHandles
  <2> QED
    BY <2>1, <2>2, <2>3
<1> QED
  BY <1>1, <1>2, <1>3, FateMeans

Begun == executed \cup DOMAIN task

LEMMA SilentFlow ==
  ASSUME UNCHANGED <<dag, paused>>, Begun' = Begun, EndedByItself' = EndedByItself,
         \A e \in dag.edges : FateOf(e)' = FateOf(e)
  PROVE  UNCHANGED Flow!vars
BY DEF Flow!vars, Begun

\* While something is in flight the run has not ended by itself.
LEMMA NotEnded ==
  ASSUME ResultInv, EndInv, task # <<>>
  PROVE  ~EndedByItself
BY DEF ResultInv, EndInv, EndedByItself

\* Whatever a node does but route its output, its edges stay open.
LEMMA QuietFlow ==
  ASSUME FlowInv, NEW n \in DOMAIN task, UNCHANGED <<dag, em, rfb, paused, cancelled, result>>,
         executed \subseteq executed', executed' \subseteq executed \cup {n},
         \A m \in executed \ {n} : blockStates'[m] = blockStates[m],
         DOMAIN task' = DOMAIN task \/ (DOMAIN task' = DOMAIN task \ {n} /\ n \in executed'),
         stoppedEarly => stoppedEarly'
  PROVE  UNCHANGED Flow!vars
<1>1. n \in Flying /\ Flat /\ Decided
  BY DEF Flying, FlowInv, ReadyInv, Routing
<1>2. \A e \in dag.edges : FateOf(e)' = FateOf(e)
  BY <1>1, FateStays
<1>3. Begun' = Begun
  BY DEF Begun
<1>4. ~EndedByItself
  <2>1. task # <<>>
    OBVIOUS
  <2> QED
    BY <2>1, NotEnded DEF FlowInv
<1>5. EndedByItself' = EndedByItself
  BY <1>4 DEF EndedByItself
<1> QED
  BY <1>2, <1>3, <1>5, SilentFlow

LEMMA ExecuteFlow ==
  ASSUME FlowInv, NEW n \in dag.nodes, Execute(n)
  PROVE  UNCHANGED Flow!vars
<1> USE DEF flags, outcome, states
<1>1. n \in DOMAIN task /\ ~task[n].stored /\ ~task[n].was /\ ~IsSentinel(n)
  BY NoSentinels DEF FlowInv, ReadyInv, Execute, RunBlock, FailNode, Running, Tasks
<1>2. UNCHANGED <<dag, em, rfb, paused, cancelled, result, stoppedEarly>>
  BY <1>1, NoSentinels DEF FlowInv, ReadyInv, Execute, RunBlock, FailNode
<1>3. RunBlock(n) \/ FailNode(n)
  BY NoSentinels DEF FlowInv, ReadyInv, Execute
<1>4. PICK out : /\ StoreState(n, out)
                 /\ DOMAIN task' = DOMAIN task \/ DOMAIN task' = DOMAIN task \ {n}
  BY <1>1, <1>3 DEF RunBlock, FailNode, Returned, Settle
<1>5. /\ executed' = executed \cup {n}
      /\ \A m \in executed \ {n} : blockStates'[m] = blockStates[m]
  BY <1>4 DEF StoreState, FlowInv, ReadyInv, Typed, TypeOK, EngineTypes
<1> QED
  BY <1>1, <1>2, <1>4, <1>5, QuietFlow

\* The answer of n, in the words of Dataflow: the handles it takes.
LEMMA AnswersAre ==
  ASSUME Flat, Answered, NEW n \in dag.nodes, n \in DOMAIN task,
         task[n].stage = "completing"
  PROVE  \E handles \in Flow!Answers(n) :
           \A e \in dag.edges : e.src = n =>
             (ShouldActivate(e, task[n].out) <=> e.handle \in handles)
<1> USE DEF None
<1>1. \A e \in dag.edges : e.handle \notin ControlHandles
  BY DEF Flat
<1>2. CASE task[n].out \in BlockOutputs(n)
  <2>1. PICK o \in Flow!Options(n) :
          /\ task[n].out.error = FALSE /\ task[n].out.route = None
          /\ task[n].out.option = o /\ o # "error"
    <3>1. \A o : /\ Output(FALSE, o, None, FALSE).error = FALSE
                 /\ Output(FALSE, o, None, FALSE).route = None
                 /\ Output(FALSE, o, None, FALSE).option = o
      BY DEF Output
    <3>2. CASE dag.kind[n] = "condition"
      <4>1. PICK o \in dag.options[n] : task[n].out = Output(FALSE, o, None, FALSE)
        BY <1>2, <3>2 DEF BlockOutputs
      <4>2. o \in Flow!Options(n) /\ o # "error"
        BY <3>2 DEF Flow!Options, Flat, DagOK, IsDag
      <4> QED
        BY <3>1, <4>1, <4>2
    <3>3. CASE dag.kind[n] # "condition"
      <4>1. task[n].out.error = FALSE /\ task[n].out.route = None /\ task[n].out.option = None
        BY <1>2, <3>3 DEF BlockOutputs, Plain, Output
      <4> QED
        BY <3>3, <4>1 DEF Flow!Options
    <3> QED
      BY <3>2, <3>3
  <2>2. {"none", "source", o} \in Flow!Answers(n)
    BY DEF Flow!Answers
  <2>3. \A e \in dag.edges :
          ShouldActivate(e, task[n].out) <=> e.handle \in {"none", "source", o}
    BY <1>1, <2>1 DEF ShouldActivate
  <2> QED
    BY <2>2, <2>3
<1>3. CASE task[n].out = ErrorOutput /\ HasErrorPort(n)
  <2>1. task[n].out.error = TRUE /\ task[n].out.route = None /\ task[n].out.option = None
    BY <1>3 DEF ErrorOutput, Output
  <2>2. {"none", "error"} \in Flow!Answers(n)
    BY <1>3 DEF Flow!Answers, HasErrorPort, OutEdges
  <2>3. \A e \in dag.edges :
          ShouldActivate(e, task[n].out) <=> e.handle \in {"none", "error"}
    BY <1>1, <2>1 DEF ShouldActivate
  <2> QED
    BY <2>2, <2>3
<1> QED
  BY <1>2, <1>3 DEF Answered

LEMMA FlowWordsNext == (ReadyInv /\ PlainRun)' => Worded'
BY FlowWords, PTL

\* The output of n is routed: n answers, and what its answer excludes is pruned in
\* the same step.
LEMMA RouteFlow ==
  ASSUME FlowInv, (ReadyInv /\ PlainRun)', NEW n \in dag.nodes, PropagateNode(n),
         ~(dag.stopAfter = n /\ ~Continues(n))
  PROVE  Flow!Answer(n)
<1> USE DEF flags, outcome, states
<1>0. /\ n \in DOMAIN task /\ n \in Flying /\ n \in executed /\ n \notin paused
      /\ task[n].out.route = None /\ blockStates[n] = task[n].out
      /\ task[n].stage = "completing"
  BY DEF PropagateNode, Completing, FlowInv, ReadyInv, Tasks, Flying, Rests
<1>1. /\ UNCHANGED <<dag, rfb, executed, blockStates, stoppedEarly, paused, cancelled, result>>
      /\ em' = Step(n).em /\ DOMAIN task' = DOMAIN task \ {n}
  BY DEF PropagateNode, Releases, Settle, Step
<1>2. Routes(n)
  BY <1>0, <1>1 DEF Routes, Routing, FlowInv, ReadyInv
<1>3. /\ \A e \in dag.edges : Took(e)' <=> Took(e)
      /\ \A e \in dag.edges : FateOf(e)' = IF Awaited(e)' THEN "open"
                                           ELSE IF Took(e)' THEN "taken" ELSE "dead"
  BY <1>1 DEF Took, FateOf, IsActiveInto, Awaited
<1>4. \A e \in dag.edges : e.src = n => Awaited(e) /\ ~Awaited(e)'
  BY <1>0, <1>2, RoutingDecides DEF FlowInv, ReadyInv, Routing, Decided
<1>5. \A e \in dag.edges : e.src \in dag.nodes /\ e.src \in Active
  BY DEF FlowInv, ReadyInv, Flat, DagOK, IsDag, PlainRun, Active
<1>6. \A m \in dag.nodes : Flow!IsSkipped(m)' <=> Ready(m)' /\ m # dag.start /\ m \notin em'.act
  BY <1>1, FlowWordsNext DEF Worded, Flow!IsSkipped
<1>7. PICK handles \in Flow!Answers(n) :
        \A e \in dag.edges : e.src = n => (ShouldActivate(e, task[n].out) <=> e.handle \in handles)
  BY <1>0, AnswersAre DEF FlowInv, ReadyInv
<1>8. ASSUME NEW e \in dag.edges, e.src = n
      PROVE  FateOf(e)' = IF e.handle \in handles THEN "taken" ELSE "dead"
  <2>1. Took(e) <=> e.handle \in handles
    BY <1>0, <1>7, <1>8, TookMeans DEF FlowInv, ReadyInv
  <2> QED
    BY <1>3, <1>4, <1>8, <2>1
<1>9. ASSUME NEW e \in dag.edges, e.src # n, Awaited(e)
      PROVE  FateOf(e)' = IF Flow!IsSkipped(e.src)' THEN "dead" ELSE FateOf(e)
  <2>1. e \in Lost(n) <=> e.src \in Dead(n)
    BY <1>9, NoBackEdges DEF Lost, Cut, EdgesToDeactivate, OutEdges, FlowInv, ReadyInv
  <2>2. Awaited(e)' <=> e.src \notin Dead(n)
    BY <1>2, <1>9, <2>1, AwaitedAfter
  <2>3. e.src \in Dead(n) <=> ~Ready(e.src) /\ Ready(e.src)' /\ e.src \notin em'.act
    BY <1>2, <1>5, DeadAre
  <2>4. Ready(dag.start)
    BY <1>5, ReadyMeans DEF FlowInv, ReadyInv, Flat
  <2>5. em.act \subseteq em'.act
    BY <1>1, RoutedEm DEF FlowInv, ReadyInv
  <2>6. e.src \in Dead(n) <=> Flow!IsSkipped(e.src)'
    BY <1>5, <1>6, <1>9, <2>3, <2>4, <2>5 DEF FlowInv, Pruned
  <2>7. e.src \in Dead(n) => ~Took(e)
    BY <1>5, <2>3, TookMeans DEF FlowInv, ReadyInv, Routing, Decided
  <2> QED
    BY <1>3, <1>9, <2>2, <2>6, <2>7, FateMeans
<1>10. ASSUME NEW e \in dag.edges, ~Awaited(e) PROVE FateOf(e)' = FateOf(e) /\ FateOf(e) # "open"
  <2>1. ~Awaited(e)'
    BY <1>2, <1>10, RoutingDecides
  <2> QED
    BY <1>3, <1>10, <2>1, FateMeans
<1>11. ~EndedByItself /\ EndedByItself' = EndedByItself
  <2>1. task # <<>>
    BY <1>0
  <2> QED
    BY <1>1, <2>1, NotEnded DEF FlowInv, EndedByItself
<1>12. \A e \in dag.edges : FateOf(e) = "open" <=> Awaited(e)
  BY FateMeans
<1>13. ASSUME NEW e \in dag.edges
       PROVE  FateOf(e)' = IF e.src = n THEN (IF e.handle \in handles THEN "taken" ELSE "dead")
                           ELSE IF FateOf(e) = "open" /\ Flow!IsSkipped(e.src)' THEN "dead"
                           ELSE FateOf(e)
  BY <1>4, <1>8, <1>9, <1>10, <1>12
<1>14. (executed \cup DOMAIN task)' = executed \cup DOMAIN task
  BY <1>0, <1>1
<1> QED
  BY <1>0, <1>1, <1>4, <1>7, <1>11, <1>12, <1>13, <1>14 DEF Flow!Answer

LEMMA CompleteFlow ==
  ASSUME FlowInv, (ReadyInv /\ PlainRun)', NEW n \in dag.nodes, Complete(n)
  PROVE  [Flow!Next]_(Flow!vars)
<1> USE DEF flags, outcome, states
<1>1. n \in DOMAIN task /\ n \in executed /\ n \in Flying /\ n \notin paused
  BY DEF FlowInv, ReadyInv, Complete, CompleteNode, PauseAt, Respond, PropagateNode, Completing,
         Tasks, Flying, Rests
<1>2. ~EndedByItself
  <2>1. task # <<>>
    BY <1>1
  <2> QED
    BY <2>1, NotEnded DEF FlowInv
<1>3. UNCHANGED <<dag, rfb, cancelled, result>>
  BY DEF Complete, CompleteNode, PauseAt, Respond, PropagateNode
<1>4. CASE CompleteNode(n)
  <2>1. UNCHANGED <<em, paused, stoppedEarly>>
    BY <1>4, NoSentinels DEF CompleteNode, FlowInv, ReadyInv
  <2>2. /\ executed' = executed \/ executed' = executed \cup {n}
        /\ \A m \in executed \ {n} : blockStates'[m] = blockStates[m]
    BY <1>4, NoSentinels DEF CompleteNode, StoreState, FlowInv, ReadyInv, Typed, TypeOK, EngineTypes
  <2>3. DOMAIN task' = DOMAIN task \/ DOMAIN task' = DOMAIN task \ {n}
    BY <1>4 DEF CompleteNode, Settle
  <2> QED
    BY <1>1, <1>3, <2>1, <2>2, <2>3, QuietFlow
<1>5. CASE PauseAt(n)
  <2>1. /\ UNCHANGED <<em, executed, blockStates, stoppedEarly>>
        /\ paused' = paused \cup {n} /\ DOMAIN task' = DOMAIN task \ {n}
    BY <1>5 DEF PauseAt, Releases, Settle
  <2>2. \A e \in dag.edges : FateOf(e)' = FateOf(e)
    BY <1>1, <1>3, <2>1, FateStays DEF FlowInv, ReadyInv, Routing
  <2>3. \A e \in dag.edges : e.src = n => FateOf(e) = "open"
    BY <1>1, FateMeans DEF FlowInv, ReadyInv, Routing, Decided
  <2>4. EndedByItself' = EndedByItself
    BY <1>3, <2>1 DEF EndedByItself
  <2>5. (executed \cup DOMAIN task)' = executed \cup DOMAIN task
    BY <1>1, <2>1
  <2>6. Flow!Hold(n)
    BY <1>1, <1>2, <1>3, <2>1, <2>2, <2>3, <2>4, <2>5 DEF Flow!Hold
  <2> QED
    BY <2>6 DEF Flow!Next
<1>6. CASE Respond(n)
  <2>1. /\ UNCHANGED <<em, paused, executed, blockStates>> /\ stoppedEarly'
        /\ DOMAIN task' = DOMAIN task \ {n}
    BY <1>6 DEF Respond, Releases, Settle
  <2> QED
    BY <1>1, <1>3, <2>1, QuietFlow
<1>7. CASE PropagateNode(n)
  <2>1. CASE dag.stopAfter = n /\ ~Continues(n)
    <3>1. /\ UNCHANGED <<em, paused, executed, blockStates>> /\ stoppedEarly'
          /\ DOMAIN task' = DOMAIN task \ {n}
      BY <1>7, <2>1 DEF PropagateNode, Releases, Settle
    <3> QED
      BY <1>1, <1>3, <3>1, QuietFlow
  <2>2. CASE ~(dag.stopAfter = n /\ ~Continues(n))
    BY <1>7, <2>2, RouteFlow DEF Flow!Next
  <2> QED
    BY <2>1, <2>2
<1> QED
  BY <1>4, <1>5, <1>6, <1>7 DEF Complete

\* What is launched was due.
LEMMA LaunchFlow == FlowInv /\ ProcessQueue => Flow!Begin
<1> SUFFICES ASSUME FlowInv, ProcessQueue PROVE Flow!Begin
  OBVIOUS
<1> USE DEF flags, outcome, states
<1>1. /\ UNCHANGED <<dag, em, executed, blockStates, paused, cancelled, stoppedEarly, result>>
      /\ DOMAIN task' = DOMAIN task \cup queue /\ pc = "check"
  BY DEF ProcessQueue
<1>2. ~EndedByItself /\ EndedByItself' = EndedByItself
  BY <1>1 DEF FlowInv, EndInv, EndedByItself
<1>3. \A e \in dag.edges : FateOf(e)' = FateOf(e)
  BY <1>1 DEF FateOf, IsActiveInto, Took
<1>4. queue \subseteq Flow!Due
  <2>1. ASSUME NEW n \in queue
        PROVE  n \in dag.nodes /\ n \notin executed \cup DOMAIN task /\ Ready(n)
               /\ (n = dag.start \/ n \in em.act)
    BY DEF FlowInv, ReadyInv, Flat, Routing, Decided, Flying
  <2> QED
    BY <2>1, FlowWords DEF Worded, Flow!Due, FlowInv
<1>5. (executed \cup DOMAIN task)' = (executed \cup DOMAIN task) \cup queue
  BY <1>1
<1> QED
  BY <1>1, <1>2, <1>3, <1>4, <1>5 DEF Flow!Begin

LEMMA EndFlow ==
  FlowInv /\ [Next]_vars /\ (ReadyInv /\ StopInv /\ EndInv)' /\ EndedByItself'
    => EndedByItself \/ Finish
<1> SUFFICES ASSUME [Next]_vars, EndedByItself', ~EndedByItself, FlowInv PROVE Finish
  OBVIOUS
<1> USE DEF flags, outcome, states
<1>1. ASSUME NEW n \in dag.nodes, Execute(n) \/ Complete(n) PROVE FALSE
  <2>1. UNCHANGED <<result, cancelled>> /\ (stoppedEarly => stoppedEarly')
    BY <1>1 DEF Execute, Complete, RunBlock, FailNode, RunLoopStart, RunLoopEnd,
                CompleteNode, PauseAt, Respond, PropagateNode
  <2> QED
    BY <2>1 DEF EndedByItself
<1>2. CASE InitializeQueue \/ ProcessQueue \/ WakeAny \/ WakeAll \/ Cancel \/ UNCHANGED vars
  BY <1>2 DEF EndedByItself, InitializeQueue, ProcessQueue, WakeAny, WakeAll, Cancel, vars
<1>3. CASE LeaveLoop
  BY <1>3 DEF EndedByItself, LeaveLoop, Return
<1> QED
  BY <1>1, <1>2, <1>3 DEF Next, RunLoop, Terminated

\* A run that ends has nothing due, and every block that began has gone on or waits.
LEMMA FinishFlow == FlowInv /\ Finish /\ EndInv' /\ StopInv' => [Flow!Next]_(Flow!vars)
<1> SUFFICES ASSUME FlowInv, Finish, EndInv', StopInv' PROVE [Flow!Next]_(Flow!vars)
  OBVIOUS
<1> USE DEF flags, outcome, states
<1>1. /\ UNCHANGED <<dag, em, task, executed, blockStates, paused, cancelled, stoppedEarly>>
      /\ UNCHANGED <<errorFlag, responseLocked, queue>> /\ task = <<>> /\ pc = "settle"
  BY DEF Finish
<1>2. ~EndedByItself
  BY <1>1 DEF FlowInv, EndInv, EndedByItself
<1>3. /\ \A e \in dag.edges : FateOf(e)' = FateOf(e)
      /\ (executed \cup DOMAIN task)' = executed \cup DOMAIN task
  BY <1>1 DEF FateOf, IsActiveInto, Took
<1>4. CASE EndedByItself'
  <2>1. Flying = {} /\ ~Stopped
    BY <1>1, <1>4 DEF FlowInv, EndInv, StopInv, EndedByItself, Stopped, Flying
  <2>2. Flow!Due = {}
    <3>1. ASSUME NEW n \in dag.nodes, Ready(n), n = dag.start \/ n \in em.act
          PROVE  n \in executed
      <4>1. CASE n \in em.act
        BY <2>1, <3>1, <4>1 DEF FlowInv, ReadyInv, Routing, Waits
      <4>2. CASE n = dag.start
        BY <1>1, <2>1, <4>2 DEF FlowInv, Triggered
      <4> QED
        BY <3>1, <4>1, <4>2
    <3> QED
      BY <3>1, FlowWords DEF Worded, Flow!Due, FlowInv
  <2>3. \A n \in (executed \cup DOMAIN task) \ paused : ~Flow!IsOpen(n)
    <3>1. ASSUME NEW n \in executed \ paused, NEW e \in dag.edges, e.src = n, Awaited(e) PROVE FALSE
      <4>1. n \in Active
        BY <3>1 DEF FlowInv, ReadyInv, Flat, DagOK, IsDag, PlainRun, Active
      <4> QED
        BY <1>1, <2>1, <3>1, <4>1 DEF FlowInv, ReadyInv, Routing, Decided, Passed
    <3>2. executed \cup DOMAIN task \subseteq dag.nodes /\ DOMAIN task = {}
      BY <1>1 DEF FlowInv, ReadyInv, Typed, TypeOK, EngineTypes
    <3> QED
      BY <3>1, <3>2, FlowWords DEF Worded, FlowInv
  <2> QED
    BY <1>1, <1>2, <1>3, <1>4, <2>2, <2>3 DEF Flow!Next, Flow!End
<1>5. CASE ~EndedByItself'
  <2>1. Begun' = Begun /\ EndedByItself' = EndedByItself
    BY <1>2, <1>3, <1>5 DEF Begun, EndedByItself
  <2> QED
    BY <1>1, <1>3, <2>1, SilentFlow
<1> QED
  BY <1>4, <1>5

------------------------------------------------------------------------------
(* The invariant of the refinement.                                         *)

LEMMA PrunedStays ==
  ASSUME Pruned, UNCHANGED <<dag, em, rfb>>
  PROVE  Pruned'
BY Frozen DEF Pruned

LEMMA ExecuteBooks ==
  ASSUME FlowInv, NEW n \in dag.nodes, Execute(n)
  PROVE  (Pruned /\ Answered /\ Rests /\ Triggered)'
<1> USE DEF flags, outcome, states
<1>1. n \in DOMAIN task /\ ~task[n].stored /\ ~task[n].was /\ ~IsSentinel(n) /\ n \in Flying
  BY NoSentinels DEF FlowInv, ReadyInv, Execute, RunBlock, FailNode, Running, Tasks, Flying
<1>2. UNCHANGED <<dag, em, rfb, paused, queue, pc>>
  BY <1>1, NoSentinels DEF FlowInv, ReadyInv, Execute, RunBlock, FailNode
<1>3. CASE RunBlock(n)
  <2>1. PICK out \in BlockOutputs(n) \cup HandledFailures(n) :
               Returned(n, out) /\ StoreState(n, out)
    BY <1>1, <1>3 DEF RunBlock
  <2>2. /\ task' = [task EXCEPT ![n].stage = "returned", ![n].out = out]
        /\ executed' = executed \cup {n}
    BY <1>1, <2>1 DEF Returned, StoreState
  <2>3. /\ DOMAIN task' = DOMAIN task /\ task'[n].out = out
        /\ \A m \in DOMAIN task \ {n} : task'[m] = task[m]
    BY <1>1, <2>2 DEF FlowInv, ReadyInv, Typed, TypeOK, EngineTypes, TaskType
  <2>4. \A m \in DOMAIN task : BlockOutputs(m)' = BlockOutputs(m) /\ (HasErrorPort(m)' <=> HasErrorPort(m))
    BY <1>2 DEF BlockOutputs, HasErrorPort
  <2>5. out \in BlockOutputs(n) \/ (out = ErrorOutput /\ HasErrorPort(n))
    BY <2>1 DEF HandledFailures
  <2>6. Answered'
    BY <2>3, <2>4, <2>5 DEF FlowInv, Answered
  <2> QED
    BY <1>2, <2>2, <2>3, <2>6, PrunedStays DEF FlowInv, Rests, Triggered, Flying
<1>4. CASE FailNode(n)
  <2>1. executed' = executed \cup {n} /\ task' = Settle(n)
    BY <1>1, <1>4 DEF FailNode, StoreState
  <2>2. \A m \in DOMAIN task : BlockOutputs(m)' = BlockOutputs(m) /\ (HasErrorPort(m)' <=> HasErrorPort(m))
    BY <1>2 DEF BlockOutputs, HasErrorPort
  <2>3. Answered'
    BY <2>1, <2>2 DEF FlowInv, Answered, Settle
  <2> QED
    BY <1>2, <2>1, <2>3, PrunedStays DEF FlowInv, Rests, Triggered, Flying, Settle
<1> QED
  BY <1>3, <1>4, NoSentinels DEF FlowInv, ReadyInv, Execute

LEMMA CompleteBooks ==
  ASSUME FlowInv, NEW n \in dag.nodes, Complete(n)
  PROVE  (Pruned /\ Answered /\ Rests /\ Triggered)'
<1> USE DEF flags, outcome, states
<1>1. n \in DOMAIN task /\ n \in executed /\ n \in Flying /\ n \notin paused
  BY DEF FlowInv, ReadyInv, Complete, CompleteNode, PauseAt, Respond, PropagateNode, Completing,
         Tasks, Flying, Rests
<1>2. UNCHANGED <<dag, rfb, pc>>
  BY DEF Complete, CompleteNode, PauseAt, Respond, PropagateNode
<1>3. executed \subseteq executed' /\ paused' \subseteq paused \cup {n}
      /\ (n \in paused' => DOMAIN task' = DOMAIN task \ {n})
  <2>1. CASE CompleteNode(n)
    BY <1>1, <2>1, NoSentinels DEF CompleteNode, StoreState, FlowInv, ReadyInv
  <2>2. CASE PauseAt(n)
    BY <2>2 DEF PauseAt, Releases, Settle
  <2>3. CASE Respond(n) \/ PropagateNode(n)
    BY <1>1, <2>3 DEF Respond, PropagateNode
  <2> QED
    BY <2>1, <2>2, <2>3 DEF Complete
<1>4. Answered'
  <2>1. \A m \in DOMAIN task : BlockOutputs(m)' = BlockOutputs(m) /\ (HasErrorPort(m)' <=> HasErrorPort(m))
    BY <1>2 DEF BlockOutputs, HasErrorPort
  <2>2. /\ DOMAIN task' \subseteq DOMAIN task
        /\ \A m \in DOMAIN task' : task'[m].out = task[m].out
        /\ \A m \in DOMAIN task' : task'[m].stage # "running" => task[m].stage # "running"
    <3>1. CASE CompleteNode(n)
      <4>1. task' = Settle(n) \/ task' = [task EXCEPT ![n].stage = "completing"]
        BY <3>1 DEF CompleteNode
      <4>2. task[n].stage = "returned"
        BY <3>1 DEF CompleteNode
      <4> QED
        BY <1>1, <4>1, <4>2 DEF Settle, FlowInv, ReadyInv, Typed, TypeOK, EngineTypes, TaskType
    <3>2. CASE ~CompleteNode(n)
      <4>1. task' = Settle(n)
        BY <3>2 DEF Complete, PauseAt, Respond, PropagateNode, Releases
      <4> QED
        BY <4>1 DEF Settle
    <3> QED
      BY <3>1, <3>2
  <2> QED
    BY <2>1, <2>2 DEF FlowInv, Answered
<1>5. CASE PropagateNode(n) /\ ~(dag.stopAfter = n /\ ~Continues(n))
  <2>1. Routes(n)
    BY <1>1, <1>5 DEF PropagateNode, Completing, Step, Routes, FlowInv, ReadyInv, Tasks, Routing
  <2>2. /\ em' = Step(n).em /\ queue' = queue \cup Step(n).ready
        /\ DOMAIN task' = DOMAIN task \ {n} /\ paused' = paused /\ executed' = executed
    BY <1>5 DEF PropagateNode, Releases, Settle, Step
  <2>3. Pruned'
    <3> SUFFICES ASSUME NEW e \in dag.edges, Ready(e.src)', e.src \notin em'.act \cup {dag.start}
                 PROVE  ~Awaited(e)'
      BY <1>2 DEF Pruned
    <3>0. e.src \in dag.nodes
      BY DEF FlowInv, ReadyInv, Flat, DagOK, IsDag
    <3>1. em.act \subseteq em'.act
      BY <2>2, RoutedEm DEF FlowInv, ReadyInv
    <3>2. CASE Ready(e.src)
      BY <2>1, <3>1, <3>2, RoutingDecides DEF FlowInv, Pruned
    <3>3. CASE ~Ready(e.src)
      <4>1. e.src \in Dead(n)
        BY <2>1, <3>0, <3>3, DeadAre
      <4>2. e \in Lost(n)
        BY <4>1, NoBackEdges DEF Lost, FlowInv, ReadyInv
      <4> QED
        BY <2>1, <4>2, AwaitedAfter
    <3> QED
      BY <3>2, <3>3
  <2>4. \A t \in Step(n).ready : ~Ready(t)
    BY <2>1, ReadyAre
  <2>5. Step(n).ready \cap (executed \cup Flying) = {}
    <3>1. executed \subseteq Active
      BY DEF FlowInv, ReadyInv, PlainRun, Active, Typed, TypeOK, EngineTypes
    <3> QED
      BY <2>4, <3>1 DEF FlowInv, ReadyInv, Routing, Decided
  <2> QED
    BY <1>1, <1>2, <1>4, <2>2, <2>3, <2>5 DEF FlowInv, Rests, Triggered, Flying
<1>6. CASE ~(PropagateNode(n) /\ ~(dag.stopAfter = n /\ ~Continues(n)))
  <2>1. UNCHANGED <<em, queue>> /\ DOMAIN task' \subseteq DOMAIN task
        /\ DOMAIN task \subseteq DOMAIN task' \cup {n}
    BY <1>6, NoSentinels DEF Complete, CompleteNode, PauseAt, Respond, PropagateNode, Releases,
                             Settle, FlowInv, ReadyInv
  <2>2. n \notin queue
    BY <1>1 DEF FlowInv, ReadyInv, Routing, Decided
  <2>3. Rests'
    BY <1>1, <1>3, <2>1, <2>2 DEF FlowInv, Rests, Flying
  <2>4. Triggered'
    BY <1>1, <1>2, <1>3, <2>1 DEF FlowInv, Triggered, Flying
  <2> QED
    BY <1>2, <1>4, <2>1, <2>3, <2>4, PrunedStays DEF FlowInv
<1> QED
  BY <1>5, <1>6

LEMMA BeginBooks == FlowInv /\ InitializeQueue => (Pruned /\ Answered /\ Rests /\ Triggered)'
<1> SUFFICES ASSUME FlowInv, InitializeQueue PROVE (Pruned /\ Answered /\ Rests /\ Triggered)'
  OBVIOUS
<1> USE DEF flags, outcome, states
<1>1. /\ UNCHANGED <<dag, em, rfb, executed, task, paused>> /\ pc = "init"
      /\ queue' = {dag.start}
  BY DEF InitializeQueue, FlowInv, PlainRun
<1>2. task = <<>> /\ paused = {}
  BY <1>1 DEF FlowInv, ReadyInv, Unbegun
<1>3. Rests' /\ Answered' /\ Triggered'
  BY <1>1, <1>2 DEF Rests, Answered, Triggered, Flying
<1> QED
  BY <1>1, <1>3, PrunedStays DEF FlowInv

LEMMA LaunchBooks == FlowInv /\ ProcessQueue => (Pruned /\ Answered /\ Rests /\ Triggered)'
<1> SUFFICES ASSUME FlowInv, ProcessQueue PROVE (Pruned /\ Answered /\ Rests /\ Triggered)'
  OBVIOUS
<1> USE DEF flags, outcome, states
<1>1. /\ UNCHANGED <<dag, em, rfb, executed, paused>> /\ pc # "init"
      /\ queue' = {} /\ DOMAIN task' = DOMAIN task \cup queue
  BY DEF ProcessQueue
<1>2. Flying' = Flying
  BY <1>1 DEF Flying
<1>3. Answered'
  <2> SUFFICES ASSUME NEW n \in DOMAIN task', task'[n].stage # "running"
               PROVE  \/ task'[n].out \in BlockOutputs(n)
                      \/ task'[n].out = ErrorOutput /\ HasErrorPort(n)
    BY <1>1 DEF Answered, BlockOutputs, HasErrorPort
  <2>1. n \notin queue
    <3>1. n \in queue => task'[n].stage = "running"
      BY DEF ProcessQueue
    <3> QED
      BY <3>1
  <2> QED
    BY <1>1, <2>1 DEF ProcessQueue, FlowInv, Answered
<1> QED
  BY <1>1, <1>2, <1>3, PrunedStays DEF FlowInv, Rests, Triggered

LEMMA IdleBooks ==
  ASSUME FlowInv, UNCHANGED <<dag, em, rfb, queue, task, executed, paused>>,
         pc' = pc \/ pc # "init"
  PROVE  (Pruned /\ Answered /\ Rests /\ Triggered)'
<1>1. Answered'
  BY DEF FlowInv, Answered, BlockOutputs, HasErrorPort
<1> QED
  BY <1>1, PrunedStays DEF FlowInv, Rests, Triggered, Flying

LEMMA FlowInvStep == FlowInv /\ [Next]_vars => FlowInv'
<1> SUFFICES ASSUME FlowInv, [Next]_vars PROVE FlowInv'
  OBVIOUS
<1> USE DEF flags, outcome, states
<1>0. (ReadyInv /\ PlainRun /\ StopInv /\ ResultInv /\ EndInv)'
  <2>1. Typed
    BY DEF FlowInv, ReadyInv
  <2> QED
    BY <2>1, ReadyStep, PlainRunStep, StopInvStep, ResultInvStep, TypedIs, EndInvStep DEF FlowInv
<1>1. (Pruned /\ Answered /\ Rests /\ Triggered)'
  <2>1. CASE WakeAny \/ LeaveLoop \/ WakeAll \/ Finish \/ Cancel \/ UNCHANGED vars
    <3>1. UNCHANGED <<dag, em, rfb, queue, task, executed, paused>> /\ (pc' = pc \/ pc # "init")
      BY <2>1 DEF WakeAny, LeaveLoop, WakeAll, Finish, Return, Cancel, vars
    <3> QED
      BY <3>1, IdleBooks
  <2> QED
    BY <2>1, BeginBooks, LaunchBooks, ExecuteBooks, CompleteBooks DEF Next, Terminated, RunLoop
<1> QED
  BY <1>0, <1>1 DEF FlowInv

LEMMA FlowStep == FlowInv /\ [Next]_vars => [Flow!Next]_(Flow!vars)
<1> SUFFICES ASSUME FlowInv, [Next]_vars PROVE [Flow!Next]_(Flow!vars)
  OBVIOUS
<1> USE DEF flags, outcome, states
<1>0. FlowInv' /\ (ReadyInv /\ PlainRun)' /\ (ReadyInv /\ StopInv /\ EndInv)'
  <2>1. FlowInv'
    BY FlowInvStep
  <2> QED
    BY <2>1 DEF FlowInv
<1>1. CASE InitializeQueue \/ WakeAny \/ LeaveLoop \/ WakeAll \/ Cancel \/ UNCHANGED vars
  <2>1. UNCHANGED <<dag, em, task, executed, blockStates, paused>>
    BY <1>1 DEF InitializeQueue, WakeAny, LeaveLoop, WakeAll, Return, Cancel, vars,
                FlowInv, PlainRun
  <2>2. /\ \A e \in dag.edges : FateOf(e)' = FateOf(e)
        /\ Begun' = Begun
    BY <2>1 DEF FateOf, IsActiveInto, Took, Begun
  <2>3. EndedByItself' = EndedByItself
    <3>1. ASSUME EndedByItself' PROVE EndedByItself
      <4>1. EndedByItself \/ Finish
        BY <1>0, <3>1, EndFlow
      <4>2. ~(Finish /\ ~EndedByItself)
        BY <1>1, <3>1 DEF Finish, InitializeQueue, WakeAny, LeaveLoop, WakeAll, Return, Cancel, vars,
                          EndedByItself
      <4> QED
        BY <4>1, <4>2
    <3>2. ASSUME EndedByItself PROVE EndedByItself'
      <4>1. pc = "done" /\ ~cancelled
        BY <3>2 DEF FlowInv, EndInv, EndedByItself
      <4>2. UNCHANGED <<result, stoppedEarly, cancelled>>
        BY <1>1, <4>1 DEF InitializeQueue, WakeAny, LeaveLoop, WakeAll, Cancel, vars
      <4> QED
        BY <3>2, <4>2 DEF EndedByItself
    <3> QED
      BY <3>1, <3>2 DEF EndedByItself
  <2> QED
    BY <2>1, <2>2, <2>3, SilentFlow
<1>2. CASE ProcessQueue
  BY <1>2, LaunchFlow DEF Flow!Next
<1>3. CASE Finish
  BY <1>0, <1>3, FinishFlow
<1>4. ASSUME NEW n \in dag.nodes, Execute(n) PROVE UNCHANGED Flow!vars
  BY <1>4, ExecuteFlow
<1>5. ASSUME NEW n \in dag.nodes, Complete(n) PROVE [Flow!Next]_(Flow!vars)
  BY <1>0, <1>5, CompleteFlow
<1> QED
  BY <1>1, <1>2, <1>3, <1>4, <1>5 DEF Next, Terminated, RunLoop

LEMMA FlowInit == Init /\ IsFlat(dag) => FlowInv /\ Flow!Init
<1> SUFFICES ASSUME Init, IsFlat(dag) PROVE FlowInv /\ Flow!Init
  OBVIOUS
<1>1. ReadyInv /\ PlainRun /\ StopInv /\ ResultInv /\ EndInv
  BY FlatInit DEF Init, EngineInit, StopInv, ResultInv, EndInv, PlainRun, None
<1>2. /\ task = <<>> /\ paused = {} /\ executed = {} /\ pc = "init" /\ result = None
      /\ \A e \in dag.edges : e.src \in dag.nodes /\ Awaited(e)
  BY <1>1 DEF Init, EngineInit, ReadyInv, Unbegun, Flat, DagOK, IsDag, PlainRun, Active
<1>3. Answered /\ Rests /\ Triggered
  BY <1>2 DEF Answered, Rests, Triggered
<1>4. Pruned
  <2> SUFFICES ASSUME NEW e \in dag.edges, Ready(e.src), e.src # dag.start, Awaited(e)
               PROVE  FALSE
    BY DEF Pruned
  <2>1. PICK x \in dag.edges : x.dst = e.src
    BY <1>1, <1>2 DEF ReadyInv, Flat, PlainRun, Active
  <2> QED
    BY <1>2, <2>1, ReadyMeans
<1>5. ~EndedByItself
  BY <1>2 DEF EndedByItself, None
<1>6. [e \in dag.edges |-> FateOf(e)] = [e \in dag.edges |-> "open"]
  BY <1>2, FateMeans
<1>7. executed \cup DOMAIN task = {}
  BY <1>2
<1> QED
  BY <1>1, <1>2, <1>3, <1>4, <1>5, <1>6, <1>7 DEF FlowInv, Flow!Init, EndedByItself

\* In a workflow without loops and parallels the engine runs as Dataflow says, in
\* whatever order its blocks end, fail or pause and whenever it is stopped: routing
\* the output of a block is Answer, a pause Hold, launching the queue Begin, a run
\* that ends by itself End, and everything else a stutter.
THEOREM RunsAsDataflow == Spec => ImplementsDataflow
<1> DEFINE FlatFlow == IsFlat(dag) => FlowInv
<1>1. Init => FlatFlow /\ (IsFlat(dag) => Flow!Init)
  BY FlowInit
<1>2. FlatFlow /\ [Next]_vars => FlatFlow'
  <2>1. ASSUME [Next]_vars PROVE IsFlat(dag)' <=> IsFlat(dag)
    BY <2>1, DagStays DEF IsFlat
  <2> QED
    BY <2>1, FlowInvStep
<1>3. FlatFlow /\ [Next]_vars => [Flow!Next \/ ~IsFlat(dag)]_<<Flow!vars>>
  BY FlowStep
<1> HIDE DEF FlatFlow
<1> QED
  BY <1>1, <1>2, <1>3, PTL DEF Spec, ImplementsDataflow
==============================================================================
