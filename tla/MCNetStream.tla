--------------------------- MODULE MCNetStream ------------------------------
(***************************************************************************)
(* The instances of NetStream that are model-checked.                      *)
(***************************************************************************)
EXTENDS NetStream

CONSTANT Writer  \* the side that has bytes to write; the other only reads

EveryFault == {"send", "recv", "close"}
NoFault == {}
OneWay == [s \in Side |-> IF s = Writer THEN 2 ELSE 0]

=============================================================================
