------------------------ MODULE MCAttachmentStorage ------------------------
(***************************************************************************)
(* TLC instance of AttachmentStorage: the kind and the store of each job   *)
(* are given by its name.                                                  *)
(***************************************************************************)
EXTENDS AttachmentStorage

MCKinds == [j \in Jobs |->
  CASE j = "api"    -> {"upload"}
    [] j = "reader" -> {"read", "list"}
    [] j = "scoped" -> {"agent", "mcp", "result"}]

MCStoreOf == [j \in Jobs |->
  IF j = "scoped" THEN "scopedStore" ELSE "apiStore"]
=============================================================================
