---------------------------- MODULE SharedObject ----------------------------
(***************************************************************************)
(* What a vial_sharedptr promises its users: an object with any number of  *)
(* references, each owned by one thread, which is disposed exactly once,   *)
(* by the thread that gives up the last reference, and is reclaimed after  *)
(* that and before anybody can own a reference to it again.  There is no   *)
(* count and no lock here.                                                 *)
(***************************************************************************)
CONSTANTS
  Thread,   \* the threads that share the object
  Ref,      \* the references that can be outstanding at one time
  None      \* the owner of a reference nobody holds

VARIABLES
  owner,    \* owner[r]: the thread that holds r, or None
  block     \* "free", "live", or "disposed" (disposed, memory not yet freed)

objVars == <<owner, block>>

Held == {r \in Ref : owner[r] # None}

Init ==
  /\ owner = [r \in Ref |-> None]
  /\ block = "free"

New(t, r) ==
  /\ block = "free"
  /\ owner' = [owner EXCEPT ![r] = t]
  /\ block' = "live"

Copy(t, r) ==
  /\ block = "live"
  /\ \E q \in Ref : owner[q] = t
  /\ owner[r] = None
  /\ owner' = [owner EXCEPT ![r] = t]
  /\ UNCHANGED block

Hand(t, u, r) ==
  /\ block = "live"
  /\ owner[r] = t
  /\ owner' = [owner EXCEPT ![r] = u]
  /\ UNCHANGED block

Drop(t, r) ==
  /\ block = "live"
  /\ owner[r] = t
  /\ Held # {r}
  /\ owner' = [owner EXCEPT ![r] = None]
  /\ UNCHANGED block

DisposeLast(t, r) ==
  /\ block = "live"
  /\ owner[r] = t
  /\ Held = {r}
  /\ block' = "disposed"
  /\ UNCHANGED owner

Reclaim(t, r) ==
  /\ block = "disposed"
  /\ owner[r] = t
  /\ owner' = [owner EXCEPT ![r] = None]
  /\ block' = "free"

Next ==
  \E t \in Thread, r \in Ref :
    \/ New(t, r)
    \/ Copy(t, r)
    \/ \E u \in Thread : Hand(t, u, r)
    \/ Drop(t, r)
    \/ DisposeLast(t, r)
    \/ Reclaim(t, r)

Spec == Init /\ [][Next]_objVars

=============================================================================
