--------------------------- MODULE MCRunFromBlock ----------------------------
(***************************************************************************)
(* Runs of workflows with conditions, joins and loops, and runs again from  *)
(* every block of them that admits it.                                     *)
(***************************************************************************)
EXTENDS RunFromBlock, DagBuilder, TLC

Loop(nodes, start, end, type) ==
  [nodes |-> nodes, start |-> start, end |-> end, type |-> type, max |-> 2]

Workflow(conns, conditions, fallible, loops) ==
  LET blocks == UNION {{c[1], c[2]} : c \in conns}
  IN  [blocks    |-> blocks,
       enabled   |-> blocks,
       trigger   |-> "in",
       conns     |-> {Edge(c[1], c[2], c[3]) : c \in conns},
       kind      |-> [n \in conditions |-> "condition"],
       options   |-> [n \in conditions |-> {"a", "b"}],
       fallible  |-> fallible,
       stopAfter |-> None,
       subflows  |-> loops]

\* A condition whose branches meet again, with a handled failure behind it.
Diamond ==
  Workflow({<<"in", "c", "source">>, <<"c", "x", "a">>, <<"c", "y", "b">>,
            <<"x", "j", "source">>, <<"y", "j", "source">>, <<"y", "h", "error">>},
           {"c"}, {"y"}, <<>>)

\* A branch that joins one that was not run again.
Sibling ==
  Workflow({<<"in", "c", "source">>, <<"in", "u", "source">>, <<"c", "x", "a">>,
            <<"x", "j", "source">>, <<"u", "j", "source">>},
           {"c"}, {}, <<>>)

\* A loop with a condition in its body.
Looped ==
  Workflow({<<"in", "L", "source">>, <<"L", "c", "loop_start">>, <<"c", "x", "a">>,
            <<"L", "out", "loop_end">>},
           {"c"}, {}, "L" :> Loop({"c", "x"}, "Ls", "Le", "for"))

\* A loop in a loop, behind a condition whose other branch is a dead end.
Nested(outer, inner) ==
  Workflow({<<"in", "L", "source">>, <<"L", "c", "loop_start">>, <<"c", "K", "a">>,
            <<"K", "x", "loop_start">>, <<"K", "y", "loop_end">>},
           {"c"}, {},
           "L" :> Loop({"c", "K", "y"}, "Ls", "Le", outer) @@ "K" :> Loop({"x"}, "Ks", "Ke", inner))

MCDags == {Build(w) : w \in {Diamond, Sibling, Looped, Nested("for", "for")}}
==============================================================================
