----------------------------- MODULE DagBuilder ------------------------------
(***************************************************************************)
(* From a serialized workflow to the DAG the executor runs                 *)
(* (executor/dag/builder.ts and the constructors of dag/construction).     *)
(*                                                                         *)
(* A workflow w has `blocks' (with subflow containers, loops and parallels,*)
(* among them), `enabled' ones, a `trigger', connections `conns' ([src,    *)
(* dst, handle]), and for each container its child blocks `nodes', the ids *)
(* `start' and `end' of its sentinels, its `type' and iteration or branch  *)
(* count `max'.  A parallel also has a `batch' size, and its children, no  *)
(* containers themselves, stand for their node in the first branch of a    *)
(* batch; w.copies[b] lists the nodes of child b in all branches.          *)
(***************************************************************************)
EXTENDS EdgeManager

SubflowIds(w) == DOMAIN w.subflows

\* PathConstructor: breadth-first search from the trigger over enabled blocks.
Reachable(w) ==
  LET reach[k \in 0..Cardinality(w.blocks)] ==
        IF k = 0 THEN {w.trigger}
        ELSE LET near == reach[k - 1]
             IN  near \cup {c.dst : c \in {x \in w.conns : /\ x.src \in near \cap w.enabled
                                                           /\ x.dst \in w.enabled}}
  IN  reach[Cardinality(w.blocks)]

\* A subflow none of whose children is reachable keeps its sentinels, empty.
Children(w, l) ==
  IF w.subflows[l].nodes \cap Reachable(w) = {} THEN {} ELSE w.subflows[l].nodes

ReachableSubflows(w) == SubflowIds(w) \cap Reachable(w)

Sentinels(w) == UNION {{w.subflows[l].start, w.subflows[l].end} : l \in ReachableSubflows(w)}

\* NodeConstructor, LoopConstructor and ParallelConstructor.
Nodes(w) ==
  ((w.enabled \cap Reachable(w)) \ SubflowIds(w)) \cup Sentinels(w)

\* The innermost subflow that lists a block.
InnermostSubflow(w, b) ==
  LET candidates == {l \in SubflowIds(w) : b \in Children(w, l)}
  IN  IF candidates = {} THEN None
      ELSE CHOOSE l \in candidates : \A k \in candidates \ {l} : k \notin Children(w, l)

InSubflow(w, b) == \E l \in SubflowIds(w) : b \in Children(w, l) \cap Reachable(w)

CrossesBoundary(w, c) ==
  \/ InSubflow(w, c.src) # InSubflow(w, c.dst)
  \/ InSubflow(w, c.src) /\ InnermostSubflow(w, c.src) # InnermostSubflow(w, c.dst)

IsParallel(w, l) == w.subflows[l].type \in ParallelTypes

\* The routes by which an end sentinel leaves its subflow and goes on with it.
ExitHandle(w, l)     == IF IsParallel(w, l) THEN "parallel_exit" ELSE "loop_exit"
ContinueHandle(w, l) == IF IsParallel(w, l) THEN "parallel_continue" ELSE "loop_continue"

StartFacing(w, b) == IF b \in SubflowIds(w) THEN w.subflows[b].start ELSE b
EndFacing(w, b)   == IF b \in SubflowIds(w) THEN w.subflows[b].end ELSE b

Edge(src, dst, handle) == [src |-> src, dst |-> dst, handle |-> handle]

\* wireRegularEdges: an edge from or to a container is one of its sentinels';
\* edges across the boundary of a subflow are left to the sentinels.
RegularEdges(w) ==
  LET N == Nodes(w)
  IN  {e \in {Edge(EndFacing(w, c.src), StartFacing(w, c.dst),
                   IF c.src \in SubflowIds(w) THEN ExitHandle(w, c.src) ELSE c.handle) :
                c \in {x \in w.conns : ~CrossesBoundary(w, x)}} :
         e.src \in N /\ e.dst \in N}

\* findLoopBoundaryNodes, findParallelBoundaryNodes: the children without an
\* input, and without an output, inside the subflow.
EffectiveNodes(w, l) ==
  UNION {{StartFacing(w, b), EndFacing(w, b)} : b \in Children(w, l)}

StartNodes(w, l, E) ==
  {b \in Children(w, l) :
     /\ StartFacing(w, b) \in Nodes(w)
     /\ ~\E e \in E : e.dst = StartFacing(w, b) /\ e.src \in EffectiveNodes(w, l)}

TerminalNodes(w, l, E) ==
  {b \in Children(w, l) :
     /\ EndFacing(w, b) \in Nodes(w)
     /\ ~\E e \in E : e.src = EndFacing(w, b) /\ e.dst \in EffectiveNodes(w, l)}

\* addSubflowStartExitBypass
Bypass(w, l) == Edge(w.subflows[l].start, w.subflows[l].end, ExitHandle(w, l))

\* wireLoopSentinels and wireParallelSentinels, for one subflow.
SentinelEdges(w, l, E) ==
  LET start == w.subflows[l].start
      end   == w.subflows[l].end
  IN  IF l \notin ReachableSubflows(w) THEN {}
      ELSE IF Children(w, l) = {}
      THEN {Bypass(w, l) : c \in {x \in w.conns : x.src = l}}
      ELSE {Edge(start, StartFacing(w, b), None) : b \in StartNodes(w, l, E)}
             \cup {Edge(EndFacing(w, b), end,
                        IF b \in SubflowIds(w) THEN ExitHandle(w, b) ELSE None) :
                     b \in TerminalNodes(w, l, E)}
             \cup {Bypass(w, l), Edge(end, start, ContinueHandle(w, l))}

BuildEdges(w) ==
  LET E == RegularEdges(w)
  IN  E \cup UNION {SentinelEdges(w, l, E) : l \in SubflowIds(w)}

\* collectAllLoopNodeIds: the nodes of a subflow and of those nested in it.
SubflowBody(w, l) ==
  LET nested[k \in 0..Cardinality(SubflowIds(w))] ==
        IF k = 0 THEN {l}
        ELSE LET outer == nested[k - 1]
             IN  outer \cup (SubflowIds(w) \cap UNION {Children(w, m) : m \in outer})
      all == nested[Cardinality(SubflowIds(w))]
  IN  (UNION {Children(w, m) : m \in all} \ SubflowIds(w))
        \cup UNION {{w.subflows[m].start, w.subflows[m].end} : m \in all}

\* validateSubflowStructure: a subflow with children must lead from its start
\* to one of them.
IsValid(w) ==
  \A l \in ReachableSubflows(w) :
    Children(w, l) # {} =>
      \E e \in BuildEdges(w) : /\ e.src = w.subflows[l].start
                               /\ e.dst \in Children(w, l)
                                            \cup {w.subflows[k].start : k \in SubflowIds(w) \cap Children(w, l)}

SubflowOf(w, n) ==
  IF \E l \in SubflowIds(w) : n \in {w.subflows[l].start, w.subflows[l].end}
  THEN CHOOSE l \in SubflowIds(w) : n \in {w.subflows[l].start, w.subflows[l].end}
  ELSE InnermostSubflow(w, n)

RoleOf(w, n) ==
  CASE \E l \in SubflowIds(w) : n = w.subflows[l].start -> "start"
    [] \E l \in SubflowIds(w) : n = w.subflows[l].end   -> "end"
    [] OTHER                                      -> None

------------------------------------------------------------------------------
(* The branches of a parallel (ParallelExpander).  Runs add and rewire them *)
(* while they go on; their nodes are named here, once and for all.          *)

Templates(w, p) == Children(w, p) \cap Nodes(w)

Parallels(w) == {p \in ReachableSubflows(w) : IsParallel(w, p)}

\* buildBranchNodeId: node n in branch i of a batch, n itself in the first one.
BranchNode(w, p, i, n) == IF n \in Templates(w, p) THEN w.copies[n][i] ELSE n

\* wireInternalEdges and wireSentinelEdges, for branch i: the edges of the first
\* branch, from the start sentinel to the end sentinel.
BranchEdges(w, p, i) ==
  LET inside == Templates(w, p) \cup {w.subflows[p].start, w.subflows[p].end}
  IN  {Edge(BranchNode(w, p, i, e.src), BranchNode(w, p, i, e.dst), e.handle) :
         e \in {x \in BuildEdges(w) : /\ x.src \in inside /\ x.dst \in inside
                                      /\ x.handle \notin ControlHandles}}

Branches(w, p) ==
  [i \in 1..w.subflows[p].batch |->
     [nodes |-> {BranchNode(w, p, i, n) : n \in Templates(w, p)},
      edges |-> BranchEdges(w, p, i)]]

Copies(w, T) ==
  T \cup UNION {UNION {{w.copies[b][i] : i \in 1..w.subflows[p].batch} : b \in T \cap Templates(w, p)} :
                  p \in Parallels(w)}

\* The node a node is a copy of.
Template(w, n) == CHOOSE t \in Nodes(w) : n \in Copies(w, {t})

Build(w) ==
  LET N        == Copies(w, Nodes(w))
      template == [n \in N |-> Template(w, n)]
      kind(t)  == IF t \in DOMAIN w.kind THEN w.kind[t] ELSE "plain"
  IN  [nodes     |-> N,
       edges     |-> BuildEdges(w),
       start     |-> w.trigger,
       stopAfter |-> w.stopAfter,
       kind      |-> [n \in N |-> kind(template[n])],
       options   |-> [n \in {m \in N : template[m] \in DOMAIN w.options} |->
                        w.options[template[n]]],
       fallible  |-> {n \in N : template[n] \in w.fallible},
       sub       |-> [n \in N |-> SubflowOf(w, template[n])],
       role      |-> [n \in N |-> RoleOf(w, n)],
       body      |-> [l \in ReachableSubflows(w) |-> Copies(w, SubflowBody(w, l) \cap Nodes(w))],
       parent    |-> [l \in ReachableSubflows(w) |-> InnermostSubflow(w, l)],
       loop      |-> [l \in ReachableSubflows(w) |-> w.subflows[l].type],
       max       |-> [l \in ReachableSubflows(w) |-> w.subflows[l].max],
       batch     |-> [p \in Parallels(w) |-> w.subflows[p].batch],
       branch    |-> [p \in Parallels(w) |-> Branches(w, p)]]
==============================================================================
