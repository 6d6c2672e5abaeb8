------------------------------- MODULE Dataflow -------------------------------
(***************************************************************************)
(* What a run of a workflow without loops and parallels promises, however  *)
(* it keeps its books: every edge is open until it is taken or dead; a     *)
(* block begins when all edges into it are decided and one of them was     *)
(* taken; a block none was taken to is skipped, and with the answer that   *)
(* decides this all edges behind it die.  ExecutionEngine implements it    *)
(* with counts of awaited edges, sets of activated nodes and a cascade of  *)
(* deactivations (execution/edge-manager.ts).                              *)
(***************************************************************************)
VARIABLES
  dag,    \* the workflow: a record with nodes, edges, start, kind and options
  fate,   \* edge -> what is known of it
  begun,  \* the blocks that have begun
  held,   \* the blocks that wait for somebody's answer
  ended   \* whether the run has ended by itself

vars == <<dag, fate, begun, held, ended>>

Init ==
  /\ fate = [e \in dag.edges |-> "open"]
  /\ begun = {} /\ held = {} /\ ended = FALSE

\* What is known of the edges into n.
IsDecided(n) == \A e \in dag.edges : e.dst = n => fate[e] # "open"
IsChosen(n)  == n = dag.start \/ \E e \in dag.edges : e.dst = n /\ fate[e] = "taken"
IsSkipped(n) == IsDecided(n) /\ ~IsChosen(n)

\* n has not said yet which edges it takes.
IsOpen(n) == \E e \in dag.edges : e.src = n /\ fate[e] = "open"

Due == {n \in dag.nodes \ begun : IsDecided(n) /\ IsChosen(n)}

\* The blocks that are due begin, some or all of them.
Begin ==
  /\ ~ended
  /\ \E S \in SUBSET Due : begun' = begun \cup S
  /\ UNCHANGED <<dag, fate, held, ended>>

\* The handles a block may answer by: `error' if it has such edges, or `source'
\* and the option it has chosen; edges without a handle are taken either way.
Options(n) == IF dag.kind[n] = "condition" THEN dag.options[n] ELSE {"none"}

Answers(n) ==
  {{"none", "source", o} : o \in Options(n)}
    \cup {{"none", "error"} : e \in {x \in dag.edges : x.src = n /\ x.handle = "error"}}

\* Block n goes on from its answer: its edges are decided, and every edge out of a
\* block that is thereby skipped dies at once.
Answer(n) ==
  /\ ~ended /\ n \in begun \ held
  /\ \A e \in dag.edges : e.src = n => fate[e] = "open"
  /\ \E handles \in Answers(n) :
       fate' = [e \in dag.edges |->
                  IF e.src = n THEN (IF e.handle \in handles THEN "taken" ELSE "dead")
                  ELSE IF fate[e] = "open" /\ IsSkipped(e.src)' THEN "dead"
                  ELSE fate[e]]
  /\ UNCHANGED <<dag, begun, held, ended>>

\* Block n waits: it does not go on in this run.
Hold(n) ==
  /\ ~ended /\ n \in begun \ held
  /\ \A e \in dag.edges : e.src = n => fate[e] = "open"
  /\ held' = held \cup {n}
  /\ UNCHANGED <<dag, fate, begun, ended>>

\* A run that is not stopped ends when nothing is due, and every block that has
\* begun has gone on or waits.
End ==
  /\ ~ended /\ Due = {}
  /\ \A n \in begun \ held : ~IsOpen(n)
  /\ ended' = TRUE
  /\ UNCHANGED <<dag, fate, begun, held>>

Next == Begin \/ End \/ \E n \in dag.nodes : Answer(n) \/ Hold(n)

Spec == Init /\ [][Next]_vars
==============================================================================
