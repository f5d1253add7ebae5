-------------------------- MODULE MCTaskWorkerPool --------------------------
(***************************************************************************)
(* TLC instances of TaskWorkerPool.                                        *)
(***************************************************************************)
EXTENDS TaskWorkerPool

CONSTANTS f1, f2, f3

\* Two answers of the model that render to the same files, and one that
\* renders to others.
MCArtifactsOf == [f \in {f1, f2, f3} |-> IF f = f3 THEN "other" ELSE "same"]
=============================================================================
