-------------------------- MODULE MCStringBuilder ---------------------------
(***************************************************************************)
(* Model-checking instances of StringBuilder.                              *)
(***************************************************************************)
EXTENDS StringBuilder

Blocks == {0, 2}
=============================================================================
