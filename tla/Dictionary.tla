----------------------------- MODULE Dictionary -----------------------------
(***************************************************************************)
(* What vial_map promises: a dictionary that owns the keys and the values  *)
(* it holds.  Whatever an operation takes out of the dictionary it         *)
(* releases, and it releases nothing else.                                 *)
(***************************************************************************)
CONSTANTS Key, Val

VARIABLES
  dict,      \* the values under each key: none, or one
  released   \* the entries the last operation released

dictVars == <<dict, released>>

Init == dict = [k \in Key |-> {}] /\ released = {}

Put(k, v) ==
  /\ released' = {k} \X dict[k]
  /\ dict' = [dict EXCEPT ![k] = {v}]

Remove(k) ==
  /\ released' = {k} \X dict[k]
  /\ dict' = [dict EXCEPT ![k] = {}]

Clear ==
  /\ released' = UNION {{k} \X dict[k] : k \in Key}
  /\ dict' = [k \in Key |-> {}]

Next ==
  \/ \E k \in Key, v \in Val : Put(k, v)
  \/ \E k \in Key : Remove(k)
  \/ Clear

Spec == Init /\ [][Next]_dictVars

=============================================================================
