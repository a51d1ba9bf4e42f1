----------------------------- MODULE FileStream -----------------------------
(***************************************************************************)
(* The stream over a FILE (src/src/io/stream/filestream.c).  The file is   *)
(* external: a position, a length, and calls that may fail.                *)
(***************************************************************************)
EXTENDS Integers

CONSTANTS
  MaxLength,  \* bound: the length of the file
  Word        \* how many values a size_t has

VARIABLES
  pointer,    \* self->file is not NULL
  opened,     \* the file has not been closed
  position,   \* where the file is, which may be past its end
  length,     \* how long it is
  outcome     \* the last call, whether it succeeded, and the number it returned

vars == <<pointer, opened, position, length, outcome>>

Sizes == 0..MaxLength + 1
Smaller(a, b) == IF a < b THEN a ELSE b
Larger(a, b) == IF a > b THEN a ELSE b

Init ==
  /\ pointer = FALSE /\ opened = FALSE
  /\ position = 0 /\ length = 0
  /\ outcome = [call |-> "none", ok |-> TRUE, value |-> 0]

\* A call that finds a file; without one it returns an error (Disposed).  Once a file that was
\* closed has been used nothing more is said.
Calls(call, ok, value) ==
  /\ pointer /\ opened
  /\ outcome' = [call |-> call, ok |-> ok, value |-> value]

\* vial_filestream_init, over a file the client has opened.
FileInit(n) ==
  /\ ~pointer
  /\ pointer' = TRUE /\ opened' = TRUE
  /\ position' = 0 /\ length' = n
  /\ outcome' = [call |-> "init", ok |-> TRUE, value |-> 0]

Disposed ==
  /\ ~pointer
  /\ outcome' = [call |-> "disposed", ok |-> FALSE, value |-> 0]
  /\ UNCHANGED <<pointer, opened, position, length>>

\* Any call after the file was closed under the stream: undefined.
UseClosed ==
  /\ pointer /\ ~opened /\ outcome.call # "undefined"
  /\ outcome' = [call |-> "undefined", ok |-> FALSE, value |-> 0]
  /\ UNCHANGED <<pointer, opened, position, length>>

\* impl_dispose forgets the file, which is the client's.
FileDispose ==
  /\ pointer
  /\ pointer' = FALSE
  /\ outcome' = [call |-> "dispose", ok |-> TRUE, value |-> 0]
  /\ UNCHANGED <<opened, position, length>>

\* Mutant: the pointer is never forgotten.
FileCloseKeeps(ok) ==
  /\ Calls("close", ok, 0)
  /\ opened' = FALSE
  /\ UNCHANGED <<pointer, position, length>>

\* fclose gives the file up also when it fails; the pointer is only forgotten when it does not.
FileClose(ok) ==
  /\ Calls("close", ok, 0)
  /\ opened' = FALSE
  /\ pointer' = ~ok
  /\ UNCHANGED <<position, length>>

FileFlush(ok) == Calls("flush", ok, 0) /\ UNCHANGED <<pointer, opened, position, length>>

\* fseek from the start, the position or the end.
FileSeek(offset, origin, ok) ==
  LET target == offset + CASE origin = "set" -> 0 [] origin = "cur" -> position [] origin = "end" -> length
  IN /\ target <= MaxLength + 1 /\ (target < 0 => ~ok)
     /\ Calls("seek", ok, 0)
     /\ position' = IF ok THEN target ELSE position
     /\ UNCHANGED <<pointer, opened, length>>

FilePosition(ok) ==
  /\ Calls("position", ok, IF ok THEN position ELSE 0)
  /\ UNCHANGED <<pointer, opened, position, length>>

\* ftell, fseek to the end, ftell, fseek back: the first seek is not tested, and the difference
\* of the two positions is converted to a size_t.  failing is the call that fails.
FileAvailable(failing) ==
  LET end == IF failing = "seek_end" THEN position ELSE length
  IN /\ Calls("available", failing \in {"none", "seek_end"},
              IF failing \in {"none", "seek_end"} THEN (end - position) % Word ELSE 0)
     /\ position' = IF failing \in {"tell_end", "seek_back"} THEN end ELSE position
     /\ UNCHANGED <<pointer, opened, length>>

\* fread of one item succeeds with all of its bytes; short of that it has still moved.
FileRead(size, got) ==
  /\ got <= Smaller(size, Larger(length - position, 0))
  /\ Calls("read", got = size, got)
  /\ position' = position + got
  /\ UNCHANGED <<pointer, opened, length>>

FileWrite(size, put) ==
  /\ put <= size /\ position + put <= MaxLength
  /\ Calls("write", put = size, put)
  /\ position' = position + put
  /\ length' = IF put = 0 THEN length ELSE Larger(length, position')
  /\ UNCHANGED <<pointer, opened>>

Next ==
  \/ Disposed \/ UseClosed \/ FileDispose
  \/ \E n \in 0..MaxLength : FileInit(n)
  \/ \E ok \in BOOLEAN :
       \/ FileClose(ok) \/ FileFlush(ok) \/ FilePosition(ok)
       \/ \E offset \in -2..2, origin \in {"set", "cur", "end"} : FileSeek(offset, origin, ok)
  \/ \E failing \in {"none", "tell", "seek_end", "tell_end", "seek_back"} : FileAvailable(failing)
  \/ \E size, n \in Sizes : FileRead(size, n) \/ FileWrite(size, n)

-----------------------------------------------------------------------------
\* The stream touches a closed file only after a close that failed.  available reports the bytes
\* up to the end, as a number that wraps around past the end, unless its seek failed; when another
\* of its steps fails it may leave the stream at the end.  No other query, no flush and no close
\* moves the stream, and no read moves it past the end.
KeepsToItsFile ==
  [][LET call == outcome'.call
     IN /\ call = "undefined" => outcome.call = "close" /\ ~outcome.ok
        /\ call = "available" =>
             /\ outcome'.ok => position' = position
                               /\ outcome'.value \in {0, (length - position) % Word}
             /\ position' \in {position, length} /\ length' = length
        /\ call \in {"flush", "position", "close", "undefined", "disposed"} =>
             <<position', length'>> = <<position, length>>
        /\ call = "read" => length' = length /\ position' <= Larger(position, length)
        /\ outcome'.ok /\ call = "position" => outcome'.value = position]_vars
=============================================================================
