-------------------------------- MODULE MCMap --------------------------------
(***************************************************************************)
(* Model-checking instances of Map.                                        *)
(***************************************************************************)
EXTENDS Map

CONSTANTS FirstVal, SecondVal

MCKey7 == 1..7
MCKey8 == 1..8

\* The second value is used in the trees over the first four keys.
SecondInSmall ==
  \A e, f \in {InOrder(root)[i] : i \in 1..Len(InOrder(root))} : e[2] = SecondVal => f[1] <= 4

=============================================================================
