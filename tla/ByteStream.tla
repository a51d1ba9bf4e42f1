----------------------------- MODULE ByteStream -----------------------------
(***************************************************************************)
(* What a vial_memstream promises while memory can be allocated: a file in *)
(* memory with one position.  The operations are told apart by the call    *)
(* the client made, which the last step records with its outcome; a call   *)
(* that fails changes nothing, and this says exactly which calls fail.     *)
(***************************************************************************)
EXTENDS Integers, Sequences

CONSTANTS
  Unlimited   \* the limit of a stream that grows

VARIABLES
  open,   \* between init and close or dispose
  data,   \* the bytes of the stream
  pos,    \* how many of them lie before the position
  limit,  \* the largest length: a number, or Unlimited
  call    \* the last call: [op, arg, err, out]

state == <<open, data, pos, limit>>
streamVars == <<open, data, pos, limit, call>>

Within(n) == limit = Unlimited \/ n <= limit

\* s with the bytes b from offset n on, longer than s if they reach past its end.
Overwritten(s, n, b) ==
  SubSeq(s, 1, n) \o b \o SubSeq(s, n + Len(b) + 1, Len(s))

\* Where a seek leads.
Target(offset, origin) ==
  offset + (CASE origin = "set" -> 0 [] origin = "cur" -> pos [] origin = "end" -> Len(data))

Init ==
  /\ open = FALSE
  /\ data = <<>>
  /\ pos = 0
  /\ limit = 0
  /\ call = [op |-> "none", arg |-> 0, err |-> "none", out |-> 0]

\* The stream starts with its whole buffer as content and stands at its beginning.
Open ==
  /\ call'.op = "open"
  /\ ~open
  /\ open'
  /\ Len(data') = call'.arg
  /\ pos' = 0
  /\ limit' \in {Unlimited, Len(data')}

\* A growing stream that would start empty is not open.
OpenEmpty ==
  /\ call'.op = "open"
  /\ call'.arg = 0
  /\ ~open
  /\ UNCHANGED state

\* Nothing is left after close, which fails on a stream that is not open, and dispose,
\* which never fails.
Shut ==
  /\ call'.op \in {"close", "dispose"}
  /\ call'.op = "close" => open
  /\ call'.err = "none"
  /\ open' = FALSE
  /\ data' = <<>>
  /\ pos' = 0
  /\ limit' = 0

Disposed ==
  /\ call'.op \notin {"open", "dispose", "flush"}
  /\ ~open
  /\ call'.err = "disposed"
  /\ UNCHANGED state

Flush ==
  /\ call'.op = "flush"
  /\ call'.err = "none"
  /\ UNCHANGED state

Write ==
  /\ call'.op = "write"
  /\ open
  /\ IF Within(pos + Len(call'.arg))
     THEN /\ call'.err = "none"
          /\ data' = Overwritten(data, pos, call'.arg)
          /\ pos' = pos + Len(call'.arg)
          /\ UNCHANGED <<open, limit>>
     ELSE /\ call'.err = "notsup"
          /\ UNCHANGED state

Read ==
  /\ call'.op = "read"
  /\ open
  /\ IF pos + call'.arg <= Len(data)
     THEN /\ call'.err = "none"
          /\ call'.out = SubSeq(data, pos + 1, pos + call'.arg)
          /\ pos' = pos + call'.arg
          /\ UNCHANGED <<open, data, limit>>
     ELSE /\ call'.err = "notsup"
          /\ UNCHANGED state

\* Moving past the end extends the data with bytes nobody has chosen.
Seek ==
  /\ call'.op = "seek"
  /\ open
  /\ LET offset == call'.arg[1]
         to == Target(offset, call'.arg[2])
     IN IF to >= 0 /\ Within(to) /\ ~(call'.arg[2] = "end" /\ offset > 0)
        THEN /\ call'.err = "none"
             /\ pos' = to
             /\ Len(data') = IF to > Len(data) THEN to ELSE Len(data)
             /\ SubSeq(data', 1, Len(data)) = data
             /\ UNCHANGED <<open, limit>>
        ELSE /\ call'.err = "notsup"
             /\ UNCHANGED state

Query ==
  /\ call'.op \in {"position", "available"}
  /\ open
  /\ call'.err = "none"
  /\ call'.out = IF call'.op = "position" THEN pos ELSE Len(data) - pos
  /\ UNCHANGED state

Next == Open \/ OpenEmpty \/ Shut \/ Disposed \/ Flush \/ Write \/ Read \/ Seek \/ Query

Spec == Init /\ [][Next]_streamVars

=============================================================================
