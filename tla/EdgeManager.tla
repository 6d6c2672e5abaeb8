----------------------------- MODULE EdgeManager -----------------------------
(***************************************************************************)
(* Edge propagation of the workflow executor                               *)
(* (executor/execution/edge-manager.ts).                                   *)
(*                                                                         *)
(* A DAG is a record: `nodes', `edges' (records [src, dst, handle]), and   *)
(* for every node the subflow it belongs to (`sub') and its sentinel role  *)
(* (`role').  The bookkeeping of an EdgeManager, together with the         *)
(* incomingEdges sets of the DAG nodes it prunes, is a record              *)
(*   em = [incoming, deact, act]                                           *)
(* with incoming : node -> sources still awaited, deact : deactivated      *)
(* edges (deactivatedEdges), act : nodesWithActivatedEdge.                 *)
(* All operators are pure: they take an em and return the next one.        *)
(***************************************************************************)
EXTENDS Naturals, FiniteSets

None == "none"        \* no handle, no option, no route, no subflow

\* The types of a parallel container; the other types are those of a loop.
ParallelTypes == {"count", "collection"}

\* CONTROL_BACK_EDGE_HANDLES and SUBFLOW_CONTROL_EDGE_HANDLES.
BackHandles    == {"loop_continue", "parallel_continue"}
ExitHandles    == {"loop_exit", "parallel_exit"}
ControlHandles == BackHandles \cup ExitHandles

\* What a finished block hands to edge routing.  `option' stands for
\* selectedOption of a condition and selectedRoute of a router, `route' for the
\* selectedRoute of a sentinel.
Output(error, option, route, pause) ==
  [error |-> error, option |-> option, route |-> route, pause |-> pause]

Plain == Output(FALSE, None, None, FALSE)

OutEdges(dag, n) == {e \in dag.edges : e.src = n}

\* The bypass a subflow's start sentinel takes when its body is skipped.
IsBypass(dag, e) ==
  /\ e.handle \in ExitHandles
  /\ dag.role[e.src] = "start" /\ dag.role[e.dst] = "end"
  /\ dag.sub[e.src] = dag.sub[e.dst]

\* Edges that count as an input of their target: not the back edge of a subflow
\* and not its bypass (addEdge with registerIncoming: false).
Registers(dag, e) == e.handle \notin BackHandles /\ ~IsBypass(dag, e)

InitialIncoming(dag) ==
  [n \in dag.nodes |->
     {e.src : e \in {x \in dag.edges : x.dst = n /\ Registers(dag, x)}}]

IsActiveInto(dag, incoming, deact, e, n) ==
  e.dst = n /\ e.src \in incoming[n] /\ e \notin deact

\* countActiveIncomingEdges(node) > 0
HasActiveIncoming(dag, incoming, deact, n) ==
  \E e \in dag.edges : IsActiveInto(dag, incoming, deact, e, n)

\* Mutant: a join starts with the first edge that reaches it.
ReadyByFirstEdge(dag, em, n) ==
  n \in em.act \/ ~HasActiveIncoming(dag, em.incoming, em.deact, n)

IsNodeReady(dag, em, n) == ~HasActiveIncoming(dag, em.incoming, em.deact, n)

\* Handles are those of the workflows: none, conditions and routes, error, source.
\* For one of no known kind, which no workflow has, the code answers TRUE.
ShouldActivate(e, out) ==
  IF out.route # None THEN e.handle = out.route
  ELSE CASE e.handle \in ControlHandles -> FALSE
         [] e.handle = None             -> TRUE
         [] e.handle = "error"          -> out.error
         [] e.handle = "source"         -> ~out.error
         [] OTHER                       -> e.handle = out.option

IsTerminalControlNode(dag, n) ==
  /\ OutEdges(dag, n) # {}
  /\ \A e \in OutEdges(dag, n) : e.handle \in ControlHandles

\* t is a sentinel of the subflow n itself belongs to.
IsEnclosingSentinel(dag, n, t) ==
  dag.role[t] # None /\ dag.sub[n] # None /\ dag.sub[n] = dag.sub[t]

(***************************************************************************)
(* deactivateEdgeAndDescendants.  The code walks depth first from each     *)
(* deactivated edge, and cuts off the targets that can no longer be        *)
(* reached; the result does not depend on the order of the walk, because a *)
(* target is looked at again with every further edge it loses.  It is the  *)
(* least set of starved nodes: a node that just lost an edge, was never    *)
(* activated, awaits no active edge, and is not the end sentinel enclosing *)
(* the node `n' where the cascade began.                                   *)
(***************************************************************************)
CascadeEdges(dag, P) ==
  {e \in dag.edges : e.src \in P /\ e.handle \notin BackHandles}

Starves(dag, em, n, cut, m, P) ==
  LET lost == cut \cup CascadeEdges(dag, P)
  IN  /\ m \notin em.act
      /\ \E e \in lost : e.dst = m /\ e \notin em.deact
      /\ ~HasActiveIncoming(dag, em.incoming, em.deact \cup lost, m)
      /\ ~(dag.role[m] = "end" /\ IsEnclosingSentinel(dag, n, m))

\* The nodes that may starve: each edge they still await is cut or comes from
\* another node that was never activated.
MayStarve(dag, em, cut) ==
  {m \in dag.nodes \ em.act :
     /\ \E e \in dag.edges : e.dst = m /\ e \notin em.deact
     /\ \A e \in dag.edges :
          IsActiveInto(dag, em.incoming, em.deact, e, m) => e \in cut \/ e.src \notin em.act}

StarvedClosed(dag, em, n, cut) ==
  {P \in SUBSET MayStarve(dag, em, cut) :
     \A m \in MayStarve(dag, em, cut) : Starves(dag, em, n, cut, m, P) => m \in P}

Starved(dag, em, n, cut) ==
  LET closed == StarvedClosed(dag, em, n, cut)
  IN  {m \in MayStarve(dag, em, cut) : \A P \in closed : m \in P}

\* Mutant: the edges not selected are deactivated, but nothing behind them.
DeactivateShallow(dag, em, n, cut) == [em EXCEPT !.deact = @ \cup cut]

\* Deactivate the edges `cut' out of n and everything that dies with them.
Deactivate(dag, em, n, cut) ==
  [em EXCEPT !.deact = @ \cup cut
                         \cup CascadeEdges(dag, Starved(dag, em, n, cut))]

\* Mutant: every node the cascade touched counts as one that may be ready.
AllCascadeTargets(dag, em, n, cut) ==
  {e.dst : e \in CascadeEdges(dag, Starved(dag, em, n, cut))}

\* The nodes the cascade touched that may have become ready by it.
CascadeTargets(dag, em, n, cut) ==
  {e.dst : e \in {x \in CascadeEdges(dag, Starved(dag, em, n, cut)) :
                    /\ x \notin em.deact
                    /\ IsTerminalControlNode(dag, x.dst) \/ x.dst \in em.act}}

(***************************************************************************)
(* processOutgoingEdges(node, output): the edges the output selects are    *)
(* taken, the others are deactivated, and the nodes that became ready are  *)
(* returned in `ready'.                                                    *)
(***************************************************************************)
ActivatedTargets(dag, n, out) ==
  {e.dst : e \in {x \in OutEdges(dag, n) : ShouldActivate(x, out)}}

EdgesToDeactivate(dag, n, out) ==
  {e \in OutEdges(dag, n) : ~ShouldActivate(e, out) /\ e.handle \notin ControlHandles}

ReadyByCascade(dag, em, n, out, targets) ==
  LET deadEnd == ActivatedTargets(dag, n, out) = {}
      routed  == out.option # None \/ out.route # None
      exits   == out.route \in ExitHandles
  IN  {t \in targets :
         /\ IsNodeReady(dag, em, t)
         /\ \/ ~exits /\ t \in em.act
            \/ deadEnd /\ (routed => IsEnclosingSentinel(dag, n, t))}

ProcessOutgoingEdges(dag, em, n, out) ==
  LET targets == ActivatedTargets(dag, n, out)
      cut     == EdgesToDeactivate(dag, n, out)
      marked  == [em EXCEPT !.act = @ \cup targets]
      pruned  == Deactivate(dag, marked, n, cut)
      next    == [pruned EXCEPT !.incoming =
                    [t \in dag.nodes |->
                       IF t \in targets THEN @[t] \ {n} ELSE @[t]]]
      cascade == CascadeTargets(dag, marked, n, cut)
                   \cup {e.dst : e \in {x \in cut : /\ targets = {}
                                                    /\ IsTerminalControlNode(dag, x.dst)}}
  IN  [em    |-> next,
       ready |-> {t \in targets : IsNodeReady(dag, next, t)}
                   \cup ReadyByCascade(dag, next, n, out, cascade \ targets)
                   \cup {t \in {e.dst : e \in cut} \ targets :
                           /\ out.route \notin ExitHandles
                           /\ t \in next.act
                           /\ IsNodeReady(dag, next, t)}]

\* Mutant: what was deactivated in an iteration stays so in the next one.
RestoreInputsOnly(dag, em, B) ==
  [em EXCEPT !.incoming =
     [n \in dag.nodes |->
        @[n] \cup {e.src : e \in {x \in dag.edges : /\ n \in B /\ x.dst = n /\ x.src \in B
                                                  /\ Registers(dag, x)}}]]

\* restoreLoopEdges: the nodes B of a loop get back the inputs they have from
\* inside the loop, and forget what was deactivated or activated there.
RestoreLoopEdges(dag, em, B) ==
  [incoming |-> [n \in dag.nodes |->
                   IF n \in B
                   THEN em.incoming[n] \cup
                          {e.src : e \in {x \in dag.edges : /\ x.dst = n /\ x.src \in B
                                                            /\ Registers(dag, x)}}
                   ELSE em.incoming[n]],
   deact    |-> {e \in em.deact : e.src \notin B},
   act      |-> em.act \ B]
==============================================================================
