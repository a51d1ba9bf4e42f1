---------------------------- MODULE MCMemStream -----------------------------
(***************************************************************************)
(* The instance of MemStream that is model-checked.                        *)
(***************************************************************************)
EXTENDS MemStream

\* Any allocation may fail, any may succeed.
MayFail == {TRUE, FALSE}

=============================================================================
