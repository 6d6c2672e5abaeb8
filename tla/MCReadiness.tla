---------------------------- MODULE MCReadiness ------------------------------
(***************************************************************************)
(* The engine on every workflow of four blocks without loops, and on a     *)
(* loop that runs twice for every body of three blocks.  Each block is a   *)
(* plain one, with `source' and `error' edges, or a condition with two     *)
(* branches, and may lead to any later block, by both its edges too; of    *)
(* workflows that differ in names only one is taken (Canonical).  Then     *)
(* loops in loops, and parallels whose branches run in several batches:    *)
(* behind conditions, in loops, with none, or with choices and failures in *)
(* their branches.  A parallel in a loop runs in every iteration, or is     *)
(* skipped in some and never needs a second batch.                         *)
(***************************************************************************)
EXTENDS ParallelRun, DagBuilder, TLC

\* The handle of the edge `wire' stands for, given the kind of its source.
Named(kind, wire) ==
  IF kind = "condition" THEN (IF wire = "x" THEN "a" ELSE "b")
  ELSE (IF wire = "x" THEN "source" ELSE "error")

Wires(h, kind) ==
  UNION {{Edge(p[1], p[2], Named(kind[p[1]], wire)) : wire \in h[p]} : p \in DOMAIN h}

Fallible(h) == {p[1] : p \in {q \in DOMAIN h : "y" \in h[q]}}

Loop(nodes, start, end, type) ==
  [nodes |-> nodes, start |-> start, end |-> end, type |-> type, max |-> 2]

Choices(blocks) == [n \in blocks |-> {"a", "b", None}]

------------------------------------------------------------------------------
(* Of workflows that differ in names only, one is enough.                   *)

Rank == [n1 |-> 1, n2 |-> 2, n3 |-> 3, n4 |-> 4, b1 |-> 1, b2 |-> 2, b3 |-> 3]

\* The branches of a condition may change places, for both are answers it may give:
\* the first edge that belongs to one of them only belongs to the first one.
BranchesInOrder(h, kind) ==
  \A p \in DOMAIN h : kind[p[1]] = "condition" /\ h[p] = {"y"} =>
    \E q \in DOMAIN h : q[1] = p[1] /\ Rank[q[2]] < Rank[p[2]] /\ h[q] = {"x"}

\* A condition without edges is a plain block without edges.
ConditionsLead(h, kind) ==
  \A n \in DOMAIN kind : kind[n] = "condition" => \E p \in DOMAIN h : p[1] = n /\ h[p] # {}

Inputs(h, n) == {c \in (DOMAIN h) \X {"x", "y"} : c[1][2] = n /\ c[2] \in h[c[1]]}

\* Neighbours that no edge links may change places: conditions come first, then the
\* one with fewer inputs.
NeighboursInOrder(h, kind) ==
  \A p \in DOMAIN h : Rank[p[2]] = Rank[p[1]] + 1 /\ h[p] = {} =>
    IF kind[p[1]] = kind[p[2]]
    THEN Cardinality(Inputs(h, p[1])) <= Cardinality(Inputs(h, p[2]))
    ELSE kind[p[1]] = "condition"

Canonical(h, kind) ==
  BranchesInOrder(h, kind) /\ ConditionsLead(h, kind) /\ NeighboursInOrder(h, kind)

------------------------------------------------------------------------------
Blocks == {"n1", "n2", "n3", "n4"}

Steps == {<<"n1", "n2">>, <<"n1", "n3">>, <<"n1", "n4">>,
          <<"n2", "n3">>, <<"n2", "n4">>, <<"n3", "n4">>}

\* h says which of the two edges of p[1] lead to p[2].
Wirings ==
  {h \in [Steps -> SUBSET {"x", "y"}] :
     \A n \in Blocks \ {"n1"} : \E p \in Steps : p[2] = n /\ h[p] # {}}

Kinds == {k \in [Blocks -> {"plain", "condition"}] : k["n4"] = "plain"}

Flat == [n \in Blocks |-> None]

Acyclic(h, kind) ==
  [nodes |-> Blocks, edges |-> Wires(h, kind), start |-> "n1", stopAfter |-> None,
   kind |-> kind, options |-> Choices(Blocks), fallible |-> Fallible(h),
   sub |-> Flat, role |-> Flat, body |-> <<>>, parent |-> <<>>, loop |-> <<>>, max |-> <<>>,
   batch |-> <<>>, branch |-> <<>>]

Acyclics == {Acyclic(c[1], c[2]) : c \in {d \in Wirings \X Kinds : Canonical(d[1], d[2])}}

\* They are what the theorems on workflows without loops and parallels speak of.
ASSUME AcyclicsAreFlat == \A d \in Acyclics : IsFlat(d)

------------------------------------------------------------------------------
Body  == {"b1", "b2", "b3"}
Links == {<<"b1", "b2">>, <<"b1", "b3">>, <<"b2", "b3">>}

Bodies == [Links -> SUBSET {"x", "y"}] \X [Body -> {"plain", "condition"}]

Looped(h, kind) ==
  LET entry == {b \in Body : \A p \in Links : p[2] = b => h[p] = {}}
  IN  [blocks    |-> {"in", "L", "out"} \cup Body,
       enabled   |-> {"in", "L", "out"} \cup Body,
       trigger   |-> "in",
       conns     |-> Wires(h, kind)
                       \cup {Edge("L", b, "loop_start") : b \in entry}
                       \cup {Edge("in", "L", "source"), Edge("L", "out", "loop_end")},
       kind      |-> kind,
       options   |-> Choices(Body),
       fallible  |-> Fallible(h),
       stopAfter |-> None,
       subflows  |-> "L" :> Loop(Body, "Ls", "Le", "for")]

------------------------------------------------------------------------------
\* A loop in a loop, behind a condition whose other branch is a dead end.
Nested(outer, inner) ==
  LET blocks == {"in", "L", "c", "K", "x", "y"}
  IN  [blocks    |-> blocks,
       enabled   |-> blocks,
       trigger   |-> "in",
       conns     |-> {Edge("in", "L", "source"), Edge("L", "c", "loop_start"), Edge("c", "K", "a"),
                      Edge("K", "x", "loop_start"), Edge("K", "y", "loop_end")},
       kind      |-> "c" :> "condition",
       options   |-> "c" :> {"a", "b"},
       fallible  |-> {},
       stopAfter |-> None,
       subflows  |-> "L" :> Loop({"c", "K", "y"}, "Ls", "Le", outer)
                       @@ "K" :> Loop({"x"}, "Ks", "Ke", inner)]

------------------------------------------------------------------------------
(* Parallels: branches and their copies, three of them in batches of two.   *)

Copied ==
  "c" :> <<"c", "c2", "c3">> @@ "x" :> <<"x", "x2", "x3">> @@ "y" :> <<"y", "y2", "y3">>

Parallel(nodes, type, max, batch) ==
  [nodes |-> nodes, start |-> "Ps", end |-> "Pe", type |-> type, max |-> max, batch |-> batch]

Parallelled(conns, conditions, fallible, subflows) ==
  LET blocks == UNION {{e.src, e.dst} : e \in conns}
  IN  [blocks    |-> blocks,
       enabled   |-> blocks,
       trigger   |-> "in",
       conns     |-> conns,
       kind      |-> [n \in conditions |-> "condition"],
       options   |-> [n \in conditions |-> {"a", "b"}],
       fallible  |-> fallible,
       stopAfter |-> None,
       subflows  |-> subflows,
       copies    |-> Copied]

\* Each branch ends in one of two blocks, or in the dead end of its condition.
Choosing(type, max, batch) ==
  Parallelled({Edge("in", "P", "source"), Edge("P", "c", "parallel_start"), Edge("c", "x", "a"),
               Edge("P", "out", "parallel_end")},
              {"c"}, {}, "P" :> Parallel({"c", "x"}, type, max, batch))

\* A failure in a branch that is handled and joins the path it left.
Handling ==
  Parallelled({Edge("in", "P", "source"), Edge("P", "c", "parallel_start"),
               Edge("c", "y", "source"), Edge("c", "x", "error"), Edge("x", "y", "source"),
               Edge("P", "out", "parallel_end")},
              {}, {"c"}, "P" :> Parallel({"c", "x", "y"}, "collection", 3, 2))

\* A parallel in each iteration of a loop, between two blocks of it.
InLoop(type, max, batch) ==
  Parallelled({Edge("in", "L", "source"), Edge("L", "b", "loop_start"), Edge("b", "P", "source"),
               Edge("P", "x", "parallel_start"), Edge("P", "d", "parallel_end"),
               Edge("L", "out", "loop_end")},
              {}, {}, "L" :> Loop({"b", "P", "d"}, "Ls", "Le", "for")
                        @@ "P" :> Parallel({"x"}, type, max, batch))

\* A parallel on one branch of a condition, and one that has no blocks.
Skipping ==
  Parallelled({Edge("in", "b", "source"), Edge("b", "P", "a"), Edge("b", "d", "b"),
               Edge("P", "x", "parallel_start"), Edge("P", "d", "parallel_end")},
              {"b"}, {"x"}, "P" :> Parallel({"x"}, "count", 3, 2))

NoBranches == [Skipping EXCEPT !.enabled = @ \ {"x"}]

MCDags ==
  Acyclics \cup
  {Build(Looped(c[1], c[2])) : c \in {d \in Bodies : Canonical(d[1], d[2])}} \cup
  {Build(w) : w \in {Nested("while", "doWhile"),
                     Choosing("count", 5, 3), Choosing("collection", 3, 1), Handling,
                     InLoop("count", 3, 2), InLoop("collection", 2, 2), Skipping, NoBranches}}
==============================================================================
