----------------------------- MODULE MCDialogue -----------------------------
(***************************************************************************)
(* TLC instance of Dialogue.  Chats are interchangeable, so permuting them *)
(* is a symmetry; it is not used where liveness is checked.                *)
(***************************************************************************)
EXTENDS Dialogue, TLC

ChatSymmetry == Permutations(Chats)
=============================================================================
