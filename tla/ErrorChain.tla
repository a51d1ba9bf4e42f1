----------------------------- MODULE ErrorChain -----------------------------
(***************************************************************************)
(* Errors (src/src/error.c): a chain of errors, each the cause of the one  *)
(* before it, with the frames of the calls that passed it on.  What counts *)
(* here is what they allocate.                                             *)
(***************************************************************************)
EXTENDS Integers, Sequences, Functions

\* vial_error_new: the error owns its cause from now on.
error_new(message, cause) == <<[message |-> message, frames |-> 0]>> \o cause

\* vial_error_throw, vial_error_rethrow: one frame more.
Thrown(e) == [e EXCEPT ![1].frames = @ + 1]

\* An error of a socket call: the number of an errno as its message, and a frame for each
\* function of the library it passed through.
SocketError(frames) == <<[message |-> TRUE, frames |-> frames]>>

\* vial_error_free: the error, its message and its frames, and the same for its causes.
ErrorBlocks(e) ==
  SumFunction([i \in 1..Len(e) |-> 1 + (IF e[i].message THEN 1 ELSE 0) + e[i].frames])
=============================================================================
