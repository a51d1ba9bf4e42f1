----------------------------- MODULE MCSharedPtr -----------------------------
(***************************************************************************)
(* The instance of SharedPtr that is model-checked.  Liveness is checked   *)
(* with safety, so its threads and references are not declared symmetric.  *)
(***************************************************************************)
EXTENDS SharedPtr

=============================================================================
