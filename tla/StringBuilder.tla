--------------------------- MODULE StringBuilder ----------------------------
(***************************************************************************)
(* vial_stringbuilder (src/src/text/stringbuilder.c): a text in a block    *)
(* that grows.  One call is one action.  Characters are members of Char;   *)
(* the numbers and strings that append_int, insert_string and the like     *)
(* format all reach the block as a piece, a sequence of characters.        *)
(* Allocations succeed: the code tests none of them.                       *)
(***************************************************************************)
EXTENDS Integers, Sequences

CONSTANTS
  Char,        \* the characters a client writes
  Nul,         \* the 0 that ends a C string
  Uninit,      \* the content of memory nobody has written
  FirstBlocks, \* bound: the capacities a builder is created with
  MaxLength,   \* bound: no client makes a text longer than this
  MaxPiece     \* bound: the longest piece appended or inserted

ASSUME SizeAssumption == FirstBlocks \subseteq Nat /\ MaxLength \in Nat /\ MaxPiece \in Nat

VARIABLES
  buffer,   \* the cells of self->buffer, from 0
  null,     \* self->buffer is NULL
  length,   \* self->length
  capacity, \* self->capacity
  outside,  \* a call has read or written outside of the block
  call      \* the last call, and what it returned

vars == <<buffer, null, length, capacity, outside, call>>

Cell == Char \cup {Nul, Uninit}
Pieces == UNION {[1..n -> Char] : n \in 0..MaxPiece}
Larger(a, b) == IF a > b THEN a ELSE b

\* The text the builder holds.
Text == [i \in 1..length |-> buffer[i - 1]]

Called(op, from, to, piece, out) ==
  call' = [op |-> op, from |-> from, to |-> to, piece |-> piece, out |-> out]

\* malloc(n)
Fresh(n) == [i \in 0..(n - 1) |-> Uninit]

\* init_cstr starts without a block, and so may init_cap(0), as malloc(0) likes.
Init ==
  /\ \E n \in FirstBlocks : capacity = n /\ buffer = Fresh(n) /\ null \in BOOLEAN /\ (null => n = 0)
  /\ length = 0
  /\ outside = FALSE
  /\ call = [op |-> "init", from |-> 0, to |-> 0, piece |-> <<>>, out |-> <<>>]

\* Mutant: a block that has doubled is taken to be large enough.
DoubledOnly(n) == IF capacity < n THEN 2 * capacity + 1 ELSE capacity

\* reserve: the capacity when n characters are asked for, the block realloc returns, and whether
\* there still is none.
Reserved(n) == IF capacity < n THEN Larger(2 * capacity, n) ELSE capacity
Grown(n) == [i \in 0..(Reserved(n) - 1) |-> IF i \in DOMAIN buffer THEN buffer[i] ELSE Uninit]
NullAfter(n) == null /\ capacity >= n

\* memmove of n cells inside a block, and memcpy of a piece into it.
Moved(b, to, from, n) ==
  [i \in DOMAIN b |-> IF i \in to..(to + n - 1) THEN b[from + (i - to)] ELSE b[i]]
Copied(b, to, piece) ==
  [i \in DOMAIN b |-> IF i \in to..(to + Len(piece) - 1) THEN piece[i - to + 1] ELSE b[i]]

\* What happens next is undefined.
Overruns(op, from, to, piece) ==
  /\ outside' = TRUE
  /\ Called(op, from, to, piece, <<>>)
  /\ UNCHANGED <<buffer, null, length, capacity>>

\* reserve, as a call of a client.
Reserve(n) ==
  /\ ~outside
  /\ buffer' = Grown(n) /\ null' = NullAfter(n) /\ capacity' = Reserved(n)
  /\ Called("reserve", length, length, <<>>, <<>>)
  /\ UNCHANGED <<length, outside>>

\* append_char_array, on which every append but append_char rests.
AppendCharArray(piece) ==
  /\ ~outside
  /\ IF piece = <<>> THEN UNCHANGED <<buffer, null, length, capacity>>
     ELSE LET end == length + Len(piece)
          IN /\ buffer' = Copied(Grown(end), length, piece)
             /\ null' = NullAfter(end)
             /\ capacity' = Reserved(end)
             /\ length' = end
  /\ Called("append", length, length, piece, <<>>)
  /\ UNCHANGED outside

AppendChar(c) ==
  /\ ~outside
  /\ buffer' = Copied(Grown(length + 1), length, <<c>>)
  /\ null' = NullAfter(length + 1)
  /\ capacity' = Reserved(length + 1)
  /\ length' = length + 1
  /\ Called("append", length, length, <<c>>, <<>>)
  /\ UNCHANGED outside

\* Mutant: the loop stops before it moves the first character.
InsertCharLate(at, c) ==
  /\ ~outside
  /\ buffer' = Copied(Moved(Grown(length + 1), at + 2, at + 1, Larger(length - at - 1, 0)), at, <<c>>)
  /\ null' = NullAfter(length + 1)
  /\ capacity' = Reserved(length + 1)
  /\ length' = length + 1
  /\ Called("insert_char", at, at, <<c>>, <<>>)
  /\ UNCHANGED outside

\* insert_char: the loop moves the whole tail, length - at characters.
InsertChar(at, c) ==
  /\ ~outside
  /\ buffer' = Copied(Moved(Grown(length + 1), at + 1, at, length - at), at, <<c>>)
  /\ null' = NullAfter(length + 1)
  /\ capacity' = Reserved(length + 1)
  /\ length' = length + 1
  /\ Called("insert_char", at, at, <<c>>, <<>>)
  /\ UNCHANGED outside

\* Mutant: the piece is inserted without asking for room.
InsertUnreserved(at, piece) ==
  /\ ~outside
  /\ \/ at + 2 * Len(piece) > capacity /\ Overruns("insert", at, at, piece)
     \/ /\ at + 2 * Len(piece) <= capacity
        /\ buffer' = Copied(Moved(buffer, at + Len(piece), at, Len(piece)), at, piece)
        /\ length' = length + Len(piece)
        /\ Called("insert", at, at, piece, <<>>)
        /\ UNCHANGED <<null, capacity, outside>>

\* insert_char_array: the memmove takes as many characters as the piece has, whatever the
\* length of the tail.
InsertCharArray(at, piece) ==
  LET n == Len(piece)
  IN /\ ~outside
     /\ \/ /\ n = 0
           /\ Called("insert", at, at, piece, <<>>)
           /\ UNCHANGED <<buffer, null, length, capacity, outside>>
        \/ /\ n > 0 /\ at + 2 * n > Reserved(length + n)
           /\ Overruns("insert", at, at, piece)
        \/ /\ n > 0 /\ at + 2 * n <= Reserved(length + n)
           /\ buffer' = Copied(Moved(Grown(length + n), at + n, at, n), at, piece)
           /\ null' = NullAfter(length + n)
           /\ capacity' = Reserved(length + n)
           /\ length' = length + n
           /\ Called("insert", at, at, piece, <<>>)
           /\ UNCHANGED outside

\* delete: the memmove takes as many characters as it deletes, whatever the length of the tail.
Delete(start, end) ==
  /\ ~outside
  /\ \/ end + (end - start) > capacity /\ Overruns("delete", start, end, <<>>)
     \/ /\ end + (end - start) <= capacity
        /\ buffer' = Moved(buffer, start, end, end - start)
        /\ length' = length - (end - start)
        /\ Called("delete", start, end, <<>>, <<>>)
        /\ UNCHANGED <<null, capacity, outside>>

\* delete_at: the loop moves the whole tail.
DeleteAt(at) ==
  /\ ~outside
  /\ buffer' = Moved(buffer, at, at + 1, length - 1 - at)
  /\ length' = length - 1
  /\ Called("delete_at", at, at + 1, <<>>, <<>>)
  /\ UNCHANGED <<null, capacity, outside>>

\* set
Set(at, c) ==
  /\ ~outside
  /\ buffer' = [buffer EXCEPT ![at] = c]
  /\ Called("set", at, at + 1, <<c>>, <<>>)
  /\ UNCHANGED <<null, length, capacity, outside>>

\* reverse: the pairs of cells swapped while l < r.  Without a block, r is the address before NULL,
\* the highest there is, and the first swap follows l = NULL.
Reverse ==
  /\ ~outside
  /\ \/ null /\ Overruns("reverse", 0, length, <<>>)
     \/ /\ ~null
        /\ buffer' = [i \in DOMAIN buffer |-> IF i < length THEN buffer[length - 1 - i] ELSE buffer[i]]
        /\ Called("reverse", 0, length, <<>>, <<>>)
        /\ UNCHANGED <<null, length, capacity, outside>>

\* to_string
ToString ==
  /\ ~outside
  /\ Called("to_string", 0, length, <<>>, Text)
  /\ UNCHANGED <<buffer, null, length, capacity, outside>>

\* Mutant: the capacity of the block given away is kept.
EmptiedPartly == buffer' = Fresh(0) /\ null' = TRUE /\ length' = 0 /\ capacity' = capacity

\* The fields after dispose and extract_cstr.
Emptied == buffer' = Fresh(0) /\ null' = TRUE /\ length' = 0 /\ capacity' = 0

\* extract_cstr: the block, ended with a 0, is the caller's.
ExtractCstr ==
  LET ended == Copied(Grown(length + 1), length, <<Nul>>)
  IN /\ ~outside
     /\ Emptied
     /\ Called("extract", 0, length, <<>>, [i \in 1..(length + 1) |-> ended[i - 1]])
     /\ UNCHANGED outside

Dispose ==
  /\ ~outside
  /\ Emptied
  /\ Called("dispose", 0, 0, <<>>, <<>>)
  /\ UNCHANGED outside

\* The calls a client may make: offsets of the text, ranges in order.
Next ==
  \/ \E piece \in Pieces :
       /\ length + Len(piece) <= MaxLength
       /\ \/ AppendCharArray(piece)
          \/ \E at \in 0..length : InsertCharArray(at, piece)
  \/ \E c \in Char :
       \/ /\ length < MaxLength
          /\ \/ AppendChar(c)
             \/ \E at \in 0..length : InsertChar(at, c)
       \/ \E at \in 0..(length - 1) : Set(at, c)
  \/ \E start, end \in 0..length : start <= end /\ Delete(start, end)
  \/ \E at \in 0..(length - 1) : DeleteAt(at)
  \/ \E n \in 0..MaxLength : Reserve(n)
  \/ Reverse \/ ToString \/ ExtractCstr \/ Dispose

Spec == Init /\ [][Next]_vars

-----------------------------------------------------------------------------
\* The fields keep their types, and the result of a call is a text or a C string.
TypeOK ==
  /\ capacity \in Nat /\ length \in Nat
  /\ buffer \in [0..(capacity - 1) -> Cell]
  /\ null \in BOOLEAN /\ outside \in BOOLEAN
  /\ call.out \in Seq(Cell)

\* The text always lies inside the block: every index the code forms from length is allocated, and
\* a builder that has any capacity has a block.
InBlock == length <= capacity /\ (null => capacity = 0)

\* What each call is meant to do to a text.
Edited(t, c) ==
  CASE c.op \in {"append", "insert", "insert_char"} ->
         SubSeq(t, 1, c.from) \o c.piece \o SubSeq(t, c.from + 1, Len(t))
    [] c.op \in {"delete", "delete_at", "set"} ->
         SubSeq(t, 1, c.from) \o c.piece \o SubSeq(t, c.to + 1, Len(t))
    [] c.op = "reverse" -> [i \in 1..Len(t) |-> t[Len(t) + 1 - i]]
    [] c.op \in {"reserve", "to_string"} -> t
    [] c.op \in {"extract", "dispose"} -> <<>>

\* The tail behind the place where call c inserts or deletes, and how much of it is moved.
TailOf(c) == length - c.to
MovedBy(c) == IF c.op = "insert" THEN Len(c.piece) ELSE c.to - c.from
ShortMove(c) == c.op \in {"insert", "delete"} /\ MovedBy(c) \in 1..(TailOf(c) - 1)
LongMove(c) == c.op \in {"insert", "delete"} /\ MovedBy(c) > TailOf(c)

\* Every call that stays in the block does to the text what it is meant to, unless it is an
\* insert or a delete that moves less than the tail; and the texts that leave the builder are the
\* one it holds, the extracted one with its end.
CallsEdit ==
  [][/\ outside' \/ ShortMove(call') \/ Text' = Edited(Text, call')
     /\ call'.op = "to_string" => call'.out = Text
     /\ call'.op = "extract" => call'.out = Append(Text, Nul)]_vars

\* Only an insert or a delete that moves more than the tail leaves the block, and the reversal of a
\* builder without one, that is, one without capacity: appends, single characters, pieces
\* exactly as long as the tail and other reversals never do.
OverrunsOnlyThere ==
  [][outside' => LongMove(call') \/ (call'.op = "reverse" /\ capacity = 0)]_vars

\* What the test expects of an insert in front of a tail: the text with the piece inside.
InsertEdits ==
  [][call'.op = "insert" /\ ~outside' => Text' = Edited(Text, call')]_vars
=============================================================================
