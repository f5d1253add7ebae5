--------------------------- MODULE MCTaskLifecycle ---------------------------
(***************************************************************************)
(* TLC instances of TaskLifecycle.                                         *)
(***************************************************************************)
EXTENDS TaskLifecycle, TLC

\* Client commands and fingerprints are only ever compared for equality.
Symmetry == Permutations(Commands) \cup Permutations(Fingerprints)
=============================================================================
