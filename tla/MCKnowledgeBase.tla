-------------------------- MODULE MCKnowledgeBase --------------------------
(***************************************************************************)
(* Two API processes share the upload directories and the knowledge base.  *)
(***************************************************************************)
EXTENDS KnowledgeBase, TLC

CONSTANTS u0, u1, u2

(* Three files with different contents.  The names of the last two stand   *)
(* for the same new document, unless the request names its target.         *)
Files == [u \in Uploads |->
            [name |-> IF u = u0 THEN "policy" ELSE "manual", hash |-> u]]

(* The first file is in the knowledge base already. *)
EarlierUploads == <<u0>>

Symmetry == Permutations(Processes) \cup Permutations({u1, u2})
=============================================================================
