--------------------------- MODULE MCWorkflowRuns ---------------------------
(***************************************************************************)
(* TLC instances of WorkflowRuns.                                          *)
(***************************************************************************)
EXTENDS WorkflowRuns, TLC

CONSTANTS e1, e2, e3, p1, f1, s1, k1, k2, q1

\* Node 2 takes its input from node 1; node 3 stands alone.
Chain == {<<1, 2>>}

Attempts == [n \in 1..NodeCount |-> IF n = 1 THEN 2 ELSE 1]

\* Every command has an id of its own.
Commands ==
  [type \in CommandType |->
     CASE type = "execute-node"   -> {e1, e2, e3}
       [] type = "complete-node"  -> {p1}
       [] type = "fail-node"      -> {f1}
       [] type = "skip-node"      -> {s1}
       [] type = "cancel"         -> {k1, k2}
       [] type = "confirm-cancel" -> {q1}]

Symmetry == Permutations(Calls) \cup Permutations({e1, e2, e3})
            \cup Permutations({k1, k2}) \cup Permutations(Results)
=============================================================================
