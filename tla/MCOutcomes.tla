------------------------------ MODULE MCOutcomes ------------------------------
(***************************************************************************)
(* The engine on workflows built by DagBuilder, cancelled at any point.    *)
(* Loops: of every type, nested, behind a condition, with dead ends and    *)
(* handled failures in their bodies, with two chains side by side, or      *)
(* without blocks.  And the ways a run ends: Response blocks, pauses,      *)
(* failures, a block to stop after, alone and against each other in        *)
(* branches that run side by side.                                         *)
(***************************************************************************)
EXTENDS ExecutionEngine, DagBuilder, TLC

Loop(nodes, start, end, type, max) ==
  [nodes |-> nodes, start |-> start, end |-> end, type |-> type, max |-> max]

Workflow(conns, kind, fallible, stopAfter, loops) ==
  LET blocks == UNION {{c[1], c[2]} : c \in conns}
  IN  [blocks    |-> blocks,
       enabled   |-> blocks,
       trigger   |-> "in",
       conns     |-> {Edge(c[1], c[2], c[3]) : c \in conns},
       kind      |-> kind,
       options   |-> [n \in DOMAIN kind |-> {"a", "b"}],
       fallible  |-> fallible,
       stopAfter |-> stopAfter,
       subflows  |-> loops]

------------------------------------------------------------------------------
(* Loops.                                                                   *)

Iterating(conns, conditions, fallible, loops) ==
  Workflow(conns, [n \in conditions |-> "condition"], fallible, None, loops)

\* A condition with a dead end beside a plain chain.
Branching(type, max) ==
  Iterating({<<"in", "L", "source">>, <<"L", "c", "loop_start">>, <<"L", "y", "loop_start">>,
             <<"c", "x", "a">>, <<"L", "out", "loop_end">>},
           {"c"}, {},
           "L" :> Loop({"c", "x", "y"}, "Ls", "Le", type, max))

\* A handled failure that leads to a join with the branch it left.
ErrorInBody ==
  Iterating({<<"in", "L", "source">>, <<"L", "x", "loop_start">>, <<"x", "y", "source">>,
             <<"x", "h", "error">>, <<"h", "y", "source">>, <<"L", "out", "loop_end">>},
           {}, {"x"},
           "L" :> Loop({"x", "h", "y"}, "Ls", "Le", "for", 2))

\* A loop on one branch of a condition, and a join behind it.
Skipped ==
  Iterating({<<"in", "c", "source">>, <<"c", "L", "a">>, <<"c", "out", "b">>,
             <<"L", "x", "loop_start">>, <<"L", "out", "loop_end">>},
           {"c"}, {},
           "L" :> Loop({"x"}, "Ls", "Le", "forEach", 0))

\* A loop in a loop, behind a condition whose other branch is a dead end.
Nested ==
  Iterating({<<"in", "L", "source">>, <<"L", "c", "loop_start">>, <<"c", "K", "a">>,
             <<"K", "x", "loop_start">>, <<"K", "y", "loop_end">>},
           {"c"}, {},
           "L" :> Loop({"c", "K", "y"}, "Ls", "Le", "for", 2)
             @@ "K" :> Loop({"x"}, "Ks", "Ke", "for", 2))

\* Two loops side by side that meet in a join; one of them may fail to start.
SideBySide ==
  Iterating({<<"in", "L", "source">>, <<"in", "K", "source">>,
             <<"L", "x", "loop_start">>, <<"K", "y", "loop_start">>,
             <<"L", "out", "loop_end">>, <<"K", "out", "loop_end">>},
           {}, {"Ks"},
           "L" :> Loop({"x"}, "Ls", "Le", "while", 0)
             @@ "K" :> Loop({"y"}, "Ks", "Ke", "forEach", 1))

\* A loop none of whose blocks is enabled.
NoBlocks ==
  [Iterating({<<"in", "L", "source">>, <<"L", "x", "loop_start">>, <<"L", "out", "loop_end">>}, {}, {},
            "L" :> Loop({"x"}, "Ls", "Le", "for", 2))
     EXCEPT !.enabled = @ \ {"x"}]

------------------------------------------------------------------------------
(* Ends.                                                                    *)

\* Two branches and what the two blocks on them are.
Fork(left, right, fallible, stopAfter) ==
  Workflow({<<"in", "l", "source">>, <<"in", "r", "source">>,
             <<"l", "x", "source">>, <<"r", "y", "source">>},
           "l" :> left @@ "r" :> right, fallible, stopAfter, <<>>)

\* A pause and a failure that is handled meet in a join.
PausedJoin ==
  Workflow({<<"in", "l", "source">>, <<"in", "r", "source">>, <<"l", "x", "source">>,
             <<"r", "x", "source">>, <<"r", "h", "error">>, <<"h", "x", "source">>},
           "l" :> "pause", {"r"}, None, <<>>)

\* Stop after a loop has been left.
StopAfterLoop ==
  Workflow({<<"in", "L", "source">>, <<"L", "x", "loop_start">>, <<"L", "y", "loop_end">>},
           <<>>, {"x"}, "Le",
           "L" :> [nodes |-> {"x"}, start |-> "Ls", end |-> "Le", type |-> "for", max |-> 2])

Workflows ==
  {Branching("for", 2), Branching("while", 0), Branching("doWhile", 0), ErrorInBody, Skipped,
   Nested, SideBySide, NoBlocks,
   Fork("response", "plain", {"r"}, None), Fork("response", "response", {"x"}, None),
   Fork("response", "pause", {}, None), Fork("pause", "plain", {"y"}, None),
   Fork("pause", "pause", {}, None), Fork("plain", "condition", {"l"}, "r"),
   PausedJoin, StopAfterLoop}

MCDags == {Build(w) : w \in {v \in Workflows : IsValid(v)}}
==============================================================================
