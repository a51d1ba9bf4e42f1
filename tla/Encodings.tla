----------------------------- MODULE Encodings ------------------------------
(***************************************************************************)
(* Unicode, by the name Units and the proofs about Unicode have for it.    *)
(***************************************************************************)
Codes == INSTANCE Unicode
=============================================================================
