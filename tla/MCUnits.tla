------------------------------ MODULE MCUnits ------------------------------
(***************************************************************************)
(* Units with small constants.                                             *)
(***************************************************************************)
EXTENDS Units, TLC

Symmetry == Permutations(Sock)
=============================================================================
