----------------------------- MODULE MCJsonHeap -----------------------------
(***************************************************************************)
(* Model-checking instances of JsonHeap.                                   *)
(***************************************************************************)
EXTENDS JsonHeap, TLC

Symmetry == Permutations(Thread) \cup Permutations(Addr)
=============================================================================
