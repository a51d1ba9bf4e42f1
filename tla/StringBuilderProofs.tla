------------------------ MODULE StringBuilderProofs -------------------------
(***************************************************************************)
(* The text stays inside the block of a string builder, every call but a   *)
(* short move edits it as it is meant to, and only long moves and the      *)
(* reversal of nothing can leave the block: for any characters, first      *)
(* capacities and bounds.                                                  *)
(***************************************************************************)
EXTENDS StringBuilder, SequenceTheorems, TLAPS

IInv == TypeOK /\ InBlock

-----------------------------------------------------------------------------
\* Lemmas about the block.

\* What reserve returns is at least what was asked for and at least what there was.
LEMMA ReservedSuffices ==
  ASSUME TypeOK, NEW n \in Nat
  PROVE  Reserved(n) \in Nat /\ n <= Reserved(n) /\ capacity <= Reserved(n)
BY DEF TypeOK, Reserved, Larger

\* realloc returns a block of that capacity, which keeps the cells there were.
LEMMA GrownIsBlock ==
  ASSUME TypeOK, NEW n \in Nat
  PROVE  /\ Grown(n) \in [0..(Reserved(n) - 1) -> Cell]
         /\ \A i \in 0..(capacity - 1) : Grown(n)[i] = buffer[i]
<1>1. Reserved(n) \in Nat /\ capacity <= Reserved(n)
  BY ReservedSuffices
<1>2. Uninit \in Cell
  BY DEF Cell
<1> QED
  BY <1>1, <1>2 DEF TypeOK, Grown

\* A memmove whose source lies in the block leaves a block of the same capacity.
LEMMA MovedIsBlock ==
  ASSUME NEW k \in Nat, NEW b \in [0..(k - 1) -> Cell],
         NEW to \in Nat, NEW from \in Nat, NEW n \in Nat, from + n <= k
  PROVE  Moved(b, to, from, n) \in [0..(k - 1) -> Cell]
<1>1. ASSUME NEW i \in 0..(k - 1), i \in to..(to + n - 1)
      PROVE  from + (i - to) \in 0..(k - 1)
  BY <1>1
<1> QED
  BY <1>1 DEF Moved

\* So does a memcpy.
LEMMA CopiedIsBlock ==
  ASSUME NEW k \in Nat, NEW b \in [0..(k - 1) -> Cell], NEW to \in Nat, NEW p \in Seq(Cell)
  PROVE  Copied(b, to, p) \in [0..(k - 1) -> Cell]
<1>1. ASSUME NEW i \in 0..(k - 1), i \in to..(to + Len(p) - 1)
      PROVE  p[i - to + 1] \in Cell
  BY <1>1
<1> QED
  BY <1>1 DEF Copied

\* The characters of a piece are cells.
LEMMA PieceIsText ==
  ASSUME NEW p \in Pieces
  PROVE  p \in Seq(Cell) /\ Len(p) \in Nat
<1>1. PICK n \in 0..MaxPiece : p \in [1..n -> Char]
  BY DEF Pieces
<1>2. n \in Nat
  BY SizeAssumption
<1> QED
  BY <1>1, <1>2 DEF Cell

\* The text is a sequence of cells of the given length.
LEMMA TextIsText ==
  ASSUME IInv
  PROVE  /\ Text \in Seq(Cell)
         /\ Len(Text) = length
         /\ \A i \in 1..length : Text[i] = buffer[i - 1]
<1>1. ASSUME NEW i \in 1..length
      PROVE  buffer[i - 1] \in Cell
  BY <1>1 DEF IInv, TypeOK, InBlock
<1> QED
  BY <1>1 DEF IInv, TypeOK, InBlock, Text

-----------------------------------------------------------------------------
\* The invariant.

LEMMA InitInv == Init => IInv
<1> SUFFICES ASSUME Init PROVE IInv
  OBVIOUS
<1>1. PICK n \in FirstBlocks : capacity = n /\ buffer = Fresh(n) /\ (null => n = 0)
  BY Zenon DEF Init
<1>2. n \in Nat /\ Uninit \in Cell
  BY SizeAssumption DEF Cell
<1>3. buffer \in [0..(capacity - 1) -> Cell]
  BY <1>1, <1>2 DEF Fresh
<1>4. outside \in BOOLEAN
  BY Zenon DEF Init
<1>5. capacity \in Nat /\ length \in Nat /\ length <= capacity /\ call.out \in Seq(Cell)
  BY <1>1, <1>2 DEF Init
<1>6. null \in BOOLEAN
  BY Zenon DEF Init
<1>7. null => capacity = 0
  BY <1>1, Zenon
<1> QED
  BY <1>3, <1>4, <1>5, <1>6, <1>7, Zenon DEF IInv, TypeOK, InBlock

\* The invariant without what it says of null.
Fits ==
  /\ capacity \in Nat /\ length \in Nat /\ length <= capacity
  /\ buffer \in [0..(capacity - 1) -> Cell] /\ outside \in BOOLEAN /\ call.out \in Seq(Cell)

\* What is left to show once outside is known to stay FALSE.
LEMMA BlockInv ==
  ASSUME capacity' \in Nat, length' \in Nat, length' <= capacity',
         buffer' \in [0..(capacity' - 1) -> Cell], outside' \in BOOLEAN, call'.out \in Seq(Cell)
  PROVE  Fits'
BY Zenon DEF Fits

LEMMA CallOut ==
  ASSUME NEW op, NEW from, NEW to, NEW piece, NEW out, Called(op, from, to, piece, out)
  PROVE  /\ call'.op = op /\ call'.from = from /\ call'.to = to
         /\ call'.piece = piece /\ call'.out = out
BY DEF Called

LEMMA EmptyOut == <<>> \in Seq(Cell)
OBVIOUS

\* A call that overruns changes nothing else.
LEMMA OverrunsInv ==
  ASSUME IInv, NEW op, NEW from, NEW to, NEW piece, Overruns(op, from, to, piece)
  PROVE  Fits'
<1>1. call'.out = <<>>
  BY CallOut, Zenon DEF Overruns
<1>2. outside' \in BOOLEAN
  BY Zenon DEF Overruns
<1>3. /\ capacity' \in Nat /\ length' \in Nat /\ length' <= capacity'
      /\ buffer' \in [0..(capacity' - 1) -> Cell]
  BY DEF Overruns, IInv, TypeOK, InBlock
<1> QED
  BY <1>1, <1>2, <1>3, EmptyOut, BlockInv, Zenon

\* Appending a piece: the block is large enough for the text and the piece.
LEMMA AppendInv ==
  ASSUME IInv, NEW p \in Seq(Cell), ~outside, UNCHANGED outside, call'.out \in Seq(Cell),
         buffer' = Copied(Grown(length + Len(p)), length, p),
         capacity' = Reserved(length + Len(p)),
         length' = length + Len(p)
  PROVE  Fits'
<1>1. length + Len(p) \in Nat /\ length \in Nat
  BY DEF IInv, TypeOK
<1>2. Reserved(length + Len(p)) \in Nat /\ length + Len(p) <= Reserved(length + Len(p))
  BY <1>1, ReservedSuffices DEF IInv
<1>3. Grown(length + Len(p)) \in [0..(Reserved(length + Len(p)) - 1) -> Cell]
  BY <1>1, GrownIsBlock DEF IInv
<1>4. Copied(Grown(length + Len(p)), length, p) \in [0..(Reserved(length + Len(p)) - 1) -> Cell]
  BY <1>1, <1>2, <1>3, CopiedIsBlock
<1>5. outside' \in BOOLEAN
  BY Zenon DEF IInv, TypeOK
<1> QED
  BY <1>1, <1>2, <1>4, <1>5, BlockInv

\* Inserting: the same, after a memmove of n cells of the block from at to to.
LEMMA InsertInv ==
  ASSUME IInv, NEW p \in Seq(Cell), ~outside, UNCHANGED outside, call'.out \in Seq(Cell),
         NEW at \in Nat, NEW to \in Nat, NEW n \in Nat, at + n <= Reserved(length + Len(p)),
         buffer' = Copied(Moved(Grown(length + Len(p)), to, at, n), at, p),
         capacity' = Reserved(length + Len(p)),
         length' = length + Len(p)
  PROVE  Fits'
<1>1. length + Len(p) \in Nat
  BY DEF IInv, TypeOK
<1>2. Reserved(length + Len(p)) \in Nat /\ length + Len(p) <= Reserved(length + Len(p))
  BY <1>1, ReservedSuffices DEF IInv
<1>3. Grown(length + Len(p)) \in [0..(Reserved(length + Len(p)) - 1) -> Cell]
  BY <1>1, GrownIsBlock DEF IInv
<1>4. Moved(Grown(length + Len(p)), to, at, n) \in [0..(Reserved(length + Len(p)) - 1) -> Cell]
  BY <1>2, <1>3, MovedIsBlock
<1>5. Copied(Moved(Grown(length + Len(p)), to, at, n), at, p)
        \in [0..(Reserved(length + Len(p)) - 1) -> Cell]
  BY <1>2, <1>4, CopiedIsBlock
<1>6. outside' \in BOOLEAN
  BY Zenon DEF IInv, TypeOK
<1> QED
  BY <1>1, <1>2, <1>5, <1>6, BlockInv

-----------------------------------------------------------------------------
\* One lemma per operation.

LEMMA AppendCharArrayInv ==
  ASSUME IInv, NEW p \in Pieces, AppendCharArray(p)
  PROVE  Fits'
<1>1. ~outside /\ UNCHANGED outside /\ call'.out = <<>>
  BY CallOut, Zenon DEF AppendCharArray
<1>2. CASE p = <<>>
  <2>1. UNCHANGED <<buffer, null, length, capacity>>
    BY <1>2 DEF AppendCharArray
  <2>2. outside' \in BOOLEAN
    BY <1>1, Zenon DEF IInv, TypeOK
  <2>3. /\ capacity' \in Nat /\ length' \in Nat /\ length' <= capacity'
        /\ buffer' \in [0..(capacity' - 1) -> Cell]
    BY <2>1 DEF IInv, TypeOK, InBlock
  <2> QED
    BY <1>1, <2>2, <2>3, EmptyOut, BlockInv, Zenon
<1>3. CASE p # <<>>
  <2>1. /\ buffer' = Copied(Grown(length + Len(p)), length, p)
        /\ capacity' = Reserved(length + Len(p))
        /\ length' = length + Len(p)
    BY <1>3, Zenon DEF AppendCharArray
  <2> QED
    BY <1>1, <2>1, PieceIsText, EmptyOut, AppendInv, Zenon
<1> QED
  BY <1>2, <1>3, Zenon

LEMMA CharIsText ==
  ASSUME NEW c \in Char
  PROVE  <<c>> \in Seq(Cell) /\ Len(<<c>>) = 1
BY DEF Cell

LEMMA AppendCharInv ==
  ASSUME IInv, NEW c \in Char, AppendChar(c)
  PROVE  Fits'
<1>1. ~outside /\ UNCHANGED outside /\ call'.out = <<>>
  BY CallOut, Zenon DEF AppendChar
<1>2. /\ buffer' = Copied(Grown(length + Len(<<c>>)), length, <<c>>)
      /\ capacity' = Reserved(length + Len(<<c>>))
      /\ length' = length + Len(<<c>>)
  BY CharIsText, Zenon DEF AppendChar
<1> QED
  BY <1>1, <1>2, CharIsText, EmptyOut, AppendInv, Zenon

LEMMA InsertCharInv ==
  ASSUME IInv, NEW c \in Char, NEW at \in 0..length, InsertChar(at, c)
  PROVE  Fits'
<1> DEFINE n == length - at
<1>1. ~outside /\ UNCHANGED outside /\ call'.out = <<>>
  BY CallOut, Zenon DEF InsertChar
<1>2. /\ buffer' = Copied(Moved(Grown(length + Len(<<c>>)), at + 1, at, n), at, <<c>>)
      /\ capacity' = Reserved(length + Len(<<c>>))
      /\ length' = length + Len(<<c>>)
  BY CharIsText, Zenon DEF InsertChar
<1>3. at \in Nat /\ at + 1 \in Nat /\ n \in Nat /\ at + n = length /\ length \in Nat
  BY DEF IInv, TypeOK
<1>4. at + n <= Reserved(length + Len(<<c>>))
  <2>1. length + 1 <= Reserved(length + 1) /\ Reserved(length + 1) \in Nat
    BY <1>3, ReservedSuffices DEF IInv
  <2> QED
    BY <1>3, <2>1, CharIsText
<1> HIDE DEF n
<1> QED
  BY <1>1, <1>2, <1>3, <1>4, CharIsText, EmptyOut, InsertInv, Zenon

LEMMA InsertCharArrayInv ==
  ASSUME IInv, NEW p \in Pieces, NEW at \in 0..length, InsertCharArray(at, p)
  PROVE  Fits'
<1> DEFINE n == Len(p)
<1>0. ~outside /\ at \in Nat /\ length \in Nat /\ p \in Seq(Cell) /\ n \in Nat /\ at + n \in Nat
  <2>1. ~outside
    BY Zenon DEF InsertCharArray
  <2>2. at \in Nat /\ length \in Nat /\ p \in Seq(Cell) /\ n \in Nat
    BY PieceIsText DEF IInv, TypeOK
  <2> QED
    BY <2>1, <2>2
<1>1. CASE n = 0 /\ Called("insert", at, at, p, <<>>) /\ UNCHANGED <<buffer, null, length, capacity, outside>>
  <2>1. call'.out = <<>>
    BY <1>1, CallOut, Zenon
  <2>2. outside' \in BOOLEAN
    BY <1>0, <1>1, Zenon DEF IInv, TypeOK
  <2>3. /\ capacity' \in Nat /\ length' \in Nat /\ length' <= capacity'
        /\ buffer' \in [0..(capacity' - 1) -> Cell]
    BY <1>1 DEF IInv, TypeOK, InBlock
  <2> QED
    BY <2>1, <2>2, <2>3, EmptyOut, BlockInv, Zenon
<1>2. CASE Overruns("insert", at, at, p)
  BY <1>2, OverrunsInv, Zenon
<1>3. CASE /\ at + 2 * n <= Reserved(length + n)
           /\ buffer' = Copied(Moved(Grown(length + n), at + n, at, n), at, p)
           /\ capacity' = Reserved(length + n)
           /\ length' = length + n
           /\ Called("insert", at, at, p, <<>>)
           /\ UNCHANGED outside
  <2>1. call'.out = <<>>
    BY <1>3, CallOut, Zenon
  <2>2. at + n <= Reserved(length + n)
    <3>1. length + n \in Nat
      BY <1>0
    <3>2. Reserved(length + n) \in Nat
      BY <3>1, ReservedSuffices DEF IInv
    <3> QED
      BY <1>0, <1>3, <3>2
  <2> HIDE DEF n
  <2>3. n = Len(p)
    BY DEF n
  <2> QED
    BY <1>0, <1>3, <2>1, <2>2, <2>3, EmptyOut, InsertInv, Zenon
<1> QED
  BY <1>1, <1>2, <1>3, Zenon DEF InsertCharArray

\* What shortens the text and moves cells of the block.
LEMMA ShorterInv ==
  ASSUME IInv, ~outside, UNCHANGED <<capacity, outside>>, call'.out \in Seq(Cell),
         NEW to \in Nat, NEW from \in Nat, NEW n \in Nat, from + n <= capacity,
         buffer' = Moved(buffer, to, from, n), length' \in 0..length
  PROVE  Fits'
<1>1. buffer' \in [0..(capacity - 1) -> Cell]
  BY MovedIsBlock DEF IInv, TypeOK
<1>2. outside' \in BOOLEAN
  BY Zenon DEF IInv, TypeOK
<1>3. capacity' \in Nat /\ length' \in Nat /\ length' <= capacity'
  BY DEF IInv, TypeOK, InBlock
<1> QED
  BY <1>1, <1>2, <1>3, BlockInv, Zenon

LEMMA DeleteInv ==
  ASSUME IInv, NEW start \in 0..length, NEW end \in 0..length, start <= end, Delete(start, end)
  PROVE  Fits'
<1>0. ~outside
  BY Zenon DEF Delete
<1>1. CASE Overruns("delete", start, end, <<>>)
  BY <1>1, OverrunsInv, Zenon
<1>2. CASE /\ end + (end - start) <= capacity
           /\ buffer' = Moved(buffer, start, end, end - start)
           /\ length' = length - (end - start)
           /\ Called("delete", start, end, <<>>, <<>>)
           /\ UNCHANGED <<null, capacity, outside>>
  <2>1. call'.out = <<>>
    BY <1>2, CallOut, Zenon
  <2>2. start \in Nat /\ end \in Nat /\ end - start \in Nat /\ length' \in 0..length
    BY <1>2 DEF IInv, TypeOK
  <2> QED
    BY <1>0, <1>2, <2>1, <2>2, EmptyOut, ShorterInv, Zenon
<1> QED
  BY <1>1, <1>2, Zenon DEF Delete

LEMMA DeleteAtInv ==
  ASSUME IInv, NEW at \in 0..(length - 1), DeleteAt(at)
  PROVE  Fits'
<1>1. ~outside /\ UNCHANGED <<null, capacity, outside>> /\ call'.out = <<>>
  BY CallOut, Zenon DEF DeleteAt
<1>2. buffer' = Moved(buffer, at, at + 1, length - 1 - at)
  BY Zenon DEF DeleteAt
<1>3. /\ at \in Nat /\ at + 1 \in Nat /\ length - 1 - at \in Nat
      /\ (at + 1) + (length - 1 - at) <= capacity /\ length' \in 0..length
  BY DEF DeleteAt, IInv, TypeOK, InBlock
<1> QED
  BY <1>1, <1>2, <1>3, EmptyOut, ShorterInv, Zenon

LEMMA SetInv ==
  ASSUME IInv, NEW c \in Char, NEW at \in 0..(length - 1), Set(at, c)
  PROVE  Fits'
<1>1. call'.out = <<>>
  BY CallOut, Zenon DEF Set
<1>2. outside' \in BOOLEAN
  BY Zenon DEF Set, IInv, TypeOK
<1>3. /\ capacity' \in Nat /\ length' \in Nat /\ length' <= capacity'
      /\ buffer' \in [0..(capacity' - 1) -> Cell]
  BY DEF Set, IInv, TypeOK, InBlock, Cell
<1> QED
  BY <1>1, <1>2, <1>3, EmptyOut, BlockInv, Zenon

LEMMA ReverseInv ==
  ASSUME IInv, Reverse
  PROVE  Fits'
<1>1. CASE Overruns("reverse", 0, length, <<>>)
  BY <1>1, OverrunsInv, Zenon
<1>2. CASE /\ buffer' = [i \in DOMAIN buffer |-> IF i < length THEN buffer[length - 1 - i] ELSE buffer[i]]
           /\ Called("reverse", 0, length, <<>>, <<>>)
           /\ UNCHANGED <<null, length, capacity, outside>>
  <2>1. call'.out = <<>>
    BY <1>2, CallOut, Zenon
  <2>2. outside' \in BOOLEAN
    BY <1>2, Zenon DEF IInv, TypeOK
  <2>3. capacity' \in Nat /\ length' \in Nat /\ length' <= capacity' /\ capacity' = capacity
    BY <1>2 DEF IInv, TypeOK, InBlock
  <2>4. buffer' \in [0..(capacity - 1) -> Cell]
    <3>1. ASSUME NEW i \in 0..(capacity - 1), i < length
          PROVE  length - 1 - i \in 0..(capacity - 1)
      BY <3>1 DEF IInv, TypeOK, InBlock
    <3> QED
      BY <1>2, <3>1 DEF IInv, TypeOK
  <2> QED
    BY <2>1, <2>2, <2>3, <2>4, EmptyOut, BlockInv, Zenon
<1> QED
  BY <1>1, <1>2, Zenon DEF Reverse

LEMMA ReserveInv ==
  ASSUME IInv, NEW n \in Nat, Reserve(n)
  PROVE  Fits'
<1>1. call'.out = <<>>
  BY CallOut, Zenon DEF Reserve
<1>2. outside' \in BOOLEAN
  BY Zenon DEF Reserve, IInv, TypeOK
<1>3. buffer' = Grown(n) /\ capacity' = Reserved(n) /\ length' = length
  BY Zenon DEF Reserve
<1>4. Reserved(n) \in Nat /\ capacity <= Reserved(n) /\ Grown(n) \in [0..(Reserved(n) - 1) -> Cell]
  BY ReservedSuffices, GrownIsBlock DEF IInv
<1>5. capacity' \in Nat /\ length' \in Nat /\ length' <= capacity'
  BY <1>3, <1>4 DEF IInv, TypeOK, InBlock
<1> QED
  BY <1>1, <1>2, <1>3, <1>4, <1>5, EmptyOut, BlockInv, Zenon

LEMMA ToStringInv ==
  ASSUME IInv, ToString
  PROVE  Fits'
<1>1. call'.out \in Seq(Cell)
  <2>1. call'.out = Text
    BY CallOut, Zenon DEF ToString
  <2> QED
    BY <2>1, TextIsText, Zenon
<1>2. outside' \in BOOLEAN
  BY Zenon DEF ToString, IInv, TypeOK
<1>3. /\ capacity' \in Nat /\ length' \in Nat /\ length' <= capacity'
      /\ buffer' \in [0..(capacity' - 1) -> Cell]
  BY DEF ToString, IInv, TypeOK, InBlock
<1> QED
  BY <1>1, <1>2, <1>3, BlockInv, Zenon

\* The fields are those of an empty builder without a block.
LEMMA EmptiedIsBlock ==
  ASSUME Emptied
  PROVE  /\ capacity' \in Nat /\ length' \in Nat /\ length' <= capacity'
         /\ buffer' \in [0..(capacity' - 1) -> Cell]
BY DEF Emptied, Fresh, Cell

LEMMA ExtractCstrInv ==
  ASSUME IInv, ExtractCstr
  PROVE  Fits'
<1> DEFINE ended == Copied(Grown(length + 1), length, <<Nul>>)
<1>0. length \in Nat /\ length + 1 \in Nat
  BY DEF IInv, TypeOK
<1>1. length + 1 <= Reserved(length + 1) /\ Reserved(length + 1) \in Nat
  BY <1>0, ReservedSuffices DEF IInv
<1>2. ended \in [0..(Reserved(length + 1) - 1) -> Cell]
  <2>1. Grown(length + 1) \in [0..(Reserved(length + 1) - 1) -> Cell]
    BY <1>0, GrownIsBlock DEF IInv
  <2>2. <<Nul>> \in Seq(Cell)
    BY DEF Cell
  <2> QED
    BY <1>0, <1>1, <2>1, <2>2, CopiedIsBlock
<1>3. call'.out = [i \in 1..(length + 1) |-> ended[i - 1]]
  BY CallOut, Zenon DEF ExtractCstr
<1>4. call'.out \in Seq(Cell)
  <2> HIDE DEF ended
  <2>1. ASSUME NEW i \in 1..(length + 1)
        PROVE  ended[i - 1] \in Cell
    BY <1>0, <1>1, <1>2
  <2> QED
    BY <1>0, <1>3, <2>1
<1>5. outside' \in BOOLEAN
  BY Zenon DEF ExtractCstr, IInv, TypeOK
<1>6. Emptied
  BY Zenon DEF ExtractCstr
<1> QED
  BY <1>4, <1>5, <1>6, EmptiedIsBlock, BlockInv, Zenon

LEMMA DisposeInv ==
  ASSUME IInv, Dispose
  PROVE  Fits'
<1>1. call'.out = <<>> /\ Emptied
  BY CallOut, Zenon DEF Dispose
<1>2. outside' \in BOOLEAN
  BY Zenon DEF Dispose, IInv, TypeOK
<1> QED
  BY <1>1, <1>2, EmptyOut, EmptiedIsBlock, BlockInv, Zenon

-----------------------------------------------------------------------------
\* The disjuncts of Next, as one case each.
LEMMA NextCases ==
  ASSUME Next
  PROVE  \/ \E p \in Pieces : AppendCharArray(p)
         \/ \E p \in Pieces, at \in 0..length : InsertCharArray(at, p)
         \/ \E c \in Char : AppendChar(c)
         \/ \E c \in Char, at \in 0..length : InsertChar(at, c)
         \/ \E c \in Char, at \in 0..(length - 1) : Set(at, c)
         \/ \E start, end \in 0..length : start <= end /\ Delete(start, end)
         \/ \E at \in 0..(length - 1) : DeleteAt(at)
         \/ \E n \in 0..MaxLength : Reserve(n)
         \/ Reverse \/ ToString \/ ExtractCstr \/ Dispose
BY Zenon DEF Next

\* A builder without a block gets one with the first character it has room for.
LEMMA NullGoes ==
  ASSUME IInv, NEW n \in Nat, null' = NullAfter(n), capacity' = Reserved(n)
  PROVE  null' \in BOOLEAN /\ (null' => capacity' = 0)
<1>1. CASE null /\ capacity >= n
  <2>1. capacity = 0
    BY <1>1, Zenon DEF IInv, InBlock
  <2>2. capacity' = 0
    BY <1>1, <2>1 DEF Reserved
  <2> QED
    BY <1>1, <2>2, Zenon DEF NullAfter
<1>2. CASE ~(null /\ capacity >= n)
  BY <1>2, Zenon DEF NullAfter
<1> QED
  BY <1>1, <1>2, Zenon

LEMMA NullStays ==
  ASSUME IInv, null' = null, capacity' = capacity
  PROVE  null' \in BOOLEAN /\ (null' => capacity' = 0)
BY Zenon DEF IInv, TypeOK, InBlock

LEMMA NullNext ==
  ASSUME IInv, Next
  PROVE  null' \in BOOLEAN /\ (null' => capacity' = 0)
<1>1. length \in Nat /\ length + 1 \in Nat /\ 0..MaxLength \subseteq Nat
  BY SizeAssumption DEF IInv, TypeOK
<1>2. ASSUME NEW p \in Pieces PROVE length + Len(p) \in Nat
  BY <1>1, PieceIsText, LenProperties
<1>3. ASSUME NEW p \in Pieces, AppendCharArray(p) PROVE null' \in BOOLEAN /\ (null' => capacity' = 0)
  <2>1. CASE p = <<>>
    <3>1. null' = null /\ capacity' = capacity
      BY <1>3, <2>1 DEF AppendCharArray
    <3> QED
      BY <3>1, NullStays, Zenon
  <2>2. CASE p # <<>>
    <3>1. null' = NullAfter(length + Len(p)) /\ capacity' = Reserved(length + Len(p))
      BY <1>3, <2>2, Zenon DEF AppendCharArray
    <3> QED
      BY <1>2, <3>1, NullGoes, Zenon
  <2> QED
    BY <2>1, <2>2, Zenon
<1>4. ASSUME NEW c \in Char, NEW at, AppendChar(c) \/ InsertChar(at, c)
      PROVE  null' \in BOOLEAN /\ (null' => capacity' = 0)
  <2>1. null' = NullAfter(length + 1) /\ capacity' = Reserved(length + 1)
    BY <1>4, Zenon DEF AppendChar, InsertChar
  <2> QED
    BY <1>1, <2>1, NullGoes, Zenon
<1>5. ASSUME NEW p \in Pieces, NEW at, InsertCharArray(at, p) PROVE null' \in BOOLEAN /\ (null' => capacity' = 0)
  <2>1. CASE null' = null /\ capacity' = capacity
    BY <2>1, NullStays, Zenon
  <2>2. CASE null' = NullAfter(length + Len(p)) /\ capacity' = Reserved(length + Len(p))
    BY <1>2, <2>2, NullGoes, Zenon
  <2> QED
    BY <1>5, <2>1, <2>2, Zenon DEF InsertCharArray, Overruns
<1>6. ASSUME NEW n \in 0..MaxLength, Reserve(n) PROVE null' \in BOOLEAN /\ (null' => capacity' = 0)
  <2>1. null' = NullAfter(n) /\ capacity' = Reserved(n)
    BY <1>6, Zenon DEF Reserve
  <2> QED
    BY <1>1, <2>1, NullGoes, Zenon
<1>7. ASSUME NEW c, NEW at, NEW start, NEW end, Set(at, c) \/ Delete(start, end) \/ DeleteAt(at) \/ Reverse \/ ToString
      PROVE  null' \in BOOLEAN /\ (null' => capacity' = 0)
  <2>1. null' = null /\ capacity' = capacity
    BY <1>7, Zenon DEF Set, Delete, DeleteAt, Reverse, ToString, Overruns
  <2> QED
    BY <2>1, NullStays, Zenon
<1>8. ASSUME ExtractCstr \/ Dispose PROVE null' \in BOOLEAN /\ (null' => capacity' = 0)
  BY <1>8, Zenon DEF ExtractCstr, Dispose, Emptied
<1> QED
  BY NextCases, <1>3, <1>4, <1>5, <1>6, <1>7, <1>8, Zenon

LEMMA NextInv == IInv /\ [Next]_vars => IInv'
<1> SUFFICES ASSUME IInv, [Next]_vars PROVE IInv'
  OBVIOUS
<1>1. CASE UNCHANGED vars
  <2>1. /\ capacity' = capacity /\ length' = length /\ buffer' = buffer
        /\ outside' = outside /\ call' = call /\ null' = null
    BY <1>1, Zenon DEF vars
  <2> QED
    BY <2>1, Zenon DEF IInv, TypeOK, InBlock
<1>2. CASE Next
  <2>1. Fits'
    <3>1. \A n \in 0..MaxLength : n \in Nat
      OBVIOUS
    <3> QED
      BY <1>2, <3>1, NextCases, AppendCharArrayInv, InsertCharArrayInv, AppendCharInv, InsertCharInv, SetInv,
         DeleteInv, DeleteAtInv, ReserveInv, ReverseInv, ToStringInv, ExtractCstrInv, DisposeInv, Zenon
  <2>2. null' \in BOOLEAN /\ (null' => capacity' = 0)
    BY <1>2, NullNext, Zenon
  <2> QED
    BY <2>1, <2>2, Zenon DEF Fits, IInv, TypeOK, InBlock
<1> QED
  BY <1>1, <1>2, Zenon

LEMMA Invariant == Spec => []IInv
BY InitInv, NextInv, PTL DEF Spec

\* The fields of a string builder keep their types: the block always has the capacity the
\* builder believes it has.
THEOREM TypeCorrect == Spec => []TypeOK
<1>1. IInv => TypeOK
  BY DEF IInv
<1> QED
  BY <1>1, Invariant, PTL

\* The text stays inside the block over any sequence of calls.
THEOREM TextInBlock == Spec => []InBlock
<1>1. IInv => InBlock
  BY DEF IInv
<1> QED
  BY <1>1, Invariant, PTL

-----------------------------------------------------------------------------
\* Which calls may leave the block.

LEMMA InsertOverrun ==
  ASSUME IInv, NEW p \in Pieces, NEW at \in 0..length, InsertCharArray(at, p), outside'
  PROVE  LongMove(call')
<1>1. at + 2 * Len(p) > Reserved(length + Len(p)) /\ Overruns("insert", at, at, p)
  BY Zenon DEF InsertCharArray
<1>2. call'.op = "insert" /\ call'.to = at /\ call'.piece = p
  BY <1>1, CallOut, Zenon DEF Overruns
<1>3. length \in Nat /\ at \in Nat /\ Len(p) \in Nat /\ length + Len(p) \in Nat
  BY PieceIsText DEF IInv, TypeOK
<1>4. length + Len(p) <= Reserved(length + Len(p)) /\ Reserved(length + Len(p)) \in Nat
  BY <1>3, ReservedSuffices DEF IInv
<1>5. Len(p) > length - at
  BY <1>1, <1>3, <1>4
<1> QED
  BY <1>2, <1>5 DEF LongMove, MovedBy, TailOf

LEMMA DeleteOverrun ==
  ASSUME IInv, NEW start \in 0..length, NEW end \in 0..length, Delete(start, end), outside'
  PROVE  LongMove(call')
<1>1. end + (end - start) > capacity /\ Overruns("delete", start, end, <<>>)
  BY Zenon DEF Delete
<1>2. call'.op = "delete" /\ call'.from = start /\ call'.to = end
  BY <1>1, CallOut, Zenon DEF Overruns
<1>3. end - start > length - end
  BY <1>1 DEF IInv, TypeOK, InBlock
<1> QED
  BY <1>2, <1>3 DEF LongMove, MovedBy, TailOf

LEMMA ReverseOverrun ==
  ASSUME IInv, Reverse, outside'
  PROVE  call'.op = "reverse" /\ capacity = 0
<1>1. null /\ Overruns("reverse", 0, length, <<>>)
  BY Zenon DEF Reverse
<1> QED
  BY <1>1, CallOut, Zenon DEF Overruns, IInv, InBlock

\* Every other call leaves outside as it was, FALSE.
LEMMA OthersStay ==
  ASSUME NEW c, NEW at, NEW p, NEW n,
         \/ AppendCharArray(p) \/ AppendChar(c) \/ InsertChar(at, c) \/ Set(at, c) \/ DeleteAt(at)
         \/ Reserve(n) \/ ToString \/ ExtractCstr \/ Dispose
  PROVE  ~outside'
BY Zenon DEF AppendCharArray, AppendChar, InsertChar, Set, DeleteAt, Reserve, ToString, ExtractCstr,
     Dispose

\* What OverrunsOnlyThere says of a step.
OverrunIsKnown == outside' => LongMove(call') \/ (call'.op = "reverse" /\ capacity = 0)

LEMMA StepOverruns == IInv /\ [Next]_vars => OverrunIsKnown \/ UNCHANGED vars
<1> SUFFICES ASSUME IInv, Next, outside' PROVE LongMove(call') \/ (call'.op = "reverse" /\ capacity = 0)
  BY Zenon DEF OverrunIsKnown
<1> QED
  BY NextCases, InsertOverrun, DeleteOverrun, ReverseOverrun, OthersStay, Zenon

\* Only an insert or a delete that moves more than the tail, and the reversal of a builder without
\* capacity, can touch memory outside of the block, whatever has been called before.
THEOREM OverrunsAreKnown == Spec => OverrunsOnlyThere
<1>1. IInv /\ [Next]_vars => [outside' => LongMove(call') \/ (call'.op = "reverse" /\ capacity = 0)]_vars
  BY StepOverruns, Zenon DEF OverrunIsKnown
<1> QED
  BY <1>1, Invariant, PTL DEF Spec, OverrunsOnlyThere

-----------------------------------------------------------------------------
\* What each call does to the text.

\* Three texts one after the other: the length, and the characters of each part.
LEMMA ThreeParts ==
  ASSUME NEW a \in Seq(Cell), NEW p \in Seq(Cell), NEW z \in Seq(Cell)
  PROVE  /\ (a \o p) \o z \in Seq(Cell)
         /\ Len((a \o p) \o z) = Len(a) + Len(p) + Len(z)
         /\ \A i \in 1..Len(a) : ((a \o p) \o z)[i] = a[i]
         /\ \A i \in 1..Len(p) : ((a \o p) \o z)[Len(a) + i] = p[i]
         /\ \A i \in 1..Len(z) : ((a \o p) \o z)[Len(a) + Len(p) + i] = z[i]
<1> DEFINE b == a \o p
           r == b \o z
<1>1. Len(a) \in Nat /\ Len(p) \in Nat /\ Len(z) \in Nat
  BY LenProperties
<1>2. b \in Seq(Cell) /\ Len(b) = Len(a) + Len(p)
  BY ConcatProperties
<1>3. \A i \in 1..(Len(a) + Len(p)) : b[i] = IF i <= Len(a) THEN a[i] ELSE p[i - Len(a)]
  BY ConcatProperties
<1> HIDE DEF b
<1>4. r \in Seq(Cell) /\ Len(r) = Len(b) + Len(z)
  BY <1>2, ConcatProperties
<1>5. \A i \in 1..(Len(b) + Len(z)) : r[i] = IF i <= Len(b) THEN b[i] ELSE z[i - Len(b)]
  BY <1>2, ConcatProperties
<1> HIDE DEF r
<1>6. \A i \in 1..Len(a) : r[i] = a[i]
  BY <1>1, <1>2, <1>3, <1>5, SMTT(60)
<1>7. \A i \in 1..Len(p) : r[Len(a) + i] = p[i]
  <2> TAKE i \in 1..Len(p)
  <2>1. Len(a) + i \in 1..(Len(a) + Len(p)) /\ ~(Len(a) + i <= Len(a)) /\ (Len(a) + i) - Len(a) = i
    BY <1>1
  <2>2. b[Len(a) + i] = p[i]
    BY <1>3, <2>1
  <2> QED
    BY <1>1, <1>2, <1>5, <2>1, <2>2
<1>8. \A i \in 1..Len(z) : r[Len(a) + Len(p) + i] = z[i]
  <2> TAKE i \in 1..Len(z)
  <2>1. /\ Len(b) + i \in 1..(Len(b) + Len(z)) /\ ~(Len(b) + i <= Len(b))
        /\ (Len(b) + i) - Len(b) = i /\ Len(b) + i = Len(a) + Len(p) + i
    BY <1>1, <1>2
  <2>2. r[Len(b) + i] = z[i]
    BY <1>5, <2>1
  <2> QED
    BY <2>1, <2>2
<1>9. Len(r) = Len(a) + Len(p) + Len(z)
  BY <1>2, <1>4
<1> QED
  BY <1>4, <1>6, <1>7, <1>8, <1>9 DEF r, b

\* A piece in the place of the characters from + 1 to to.
Spliced(t, from, p, to) == SubSeq(t, 1, from) \o p \o SubSeq(t, to + 1, Len(t))

IsSpliced(r, t, from, p, to) ==
  /\ r \in Seq(Cell)
  /\ Len(r) = from + Len(p) + (Len(t) - to)
  /\ \A i \in 1..from : r[i] = t[i]
  /\ \A i \in 1..Len(p) : r[from + i] = p[i]
  /\ \A i \in 1..(Len(t) - to) : r[from + Len(p) + i] = t[to + i]

LEMMA SplicedParts ==
  ASSUME NEW t \in Seq(Cell), NEW p \in Seq(Cell), NEW from \in Nat, NEW to \in Nat,
         from <= to, to <= Len(t)
  PROVE  IsSpliced(Spliced(t, from, p, to), t, from, p, to)
<1> DEFINE a == SubSeq(t, 1, from)
           z == SubSeq(t, to + 1, Len(t))
<1>1. Len(t) \in Nat /\ \A i \in 1..Len(t) : t[i] \in Cell
  BY LenProperties, ElementOfSeq
<1>2. a \in Seq(Cell) /\ Len(a) = from /\ \A i \in 1..from : a[i] = t[i]
  BY <1>1, SubSeqProperties
<1>3. /\ z \in Seq(Cell) /\ Len(z) = Len(t) - to
      /\ \A i \in 1..(Len(t) - to) : z[i] = t[to + i]
  <2>1. /\ z \in Seq(Cell)
        /\ Len(z) = IF to + 1 <= Len(t) THEN Len(t) - (to + 1) + 1 ELSE 0
        /\ \A i \in 1..(Len(t) - (to + 1) + 1) : z[i] = t[(to + 1) + i - 1]
    BY <1>1, SubSeqProperties
  <2>2. Len(t) - (to + 1) + 1 = Len(t) - to
    BY <1>1
  <2>3. \A i \in 1..(Len(t) - to) : (to + 1) + i - 1 = to + i
    OBVIOUS
  <2> HIDE DEF z
  <2>4. Len(z) = Len(t) - to
    BY <1>1, <2>1
  <2> QED
    BY <2>1, <2>2, <2>3, <2>4
<1> HIDE DEF a, z
<1>4. Spliced(t, from, p, to) = (a \o p) \o z
  BY DEF Spliced, a, z
<1> DEFINE r == (a \o p) \o z
<1>5. /\ r \in Seq(Cell)
      /\ Len(r) = Len(a) + Len(p) + Len(z)
      /\ \A i \in 1..Len(a) : r[i] = a[i]
      /\ \A i \in 1..Len(p) : r[Len(a) + i] = p[i]
      /\ \A i \in 1..Len(z) : r[Len(a) + Len(p) + i] = z[i]
  BY <1>2, <1>3, ThreeParts, ZenonT(60)
<1> HIDE DEF r
<1> QED
  BY <1>2, <1>3, <1>4, <1>5 DEF r, IsSpliced

\* The text after a call, as TextIsText.
LEMMA CellsAreText ==
  ASSUME NEW n \in Nat, NEW b, NEW t, \A i \in 1..n : b[i - 1] \in Cell, t = [i \in 1..n |-> b[i - 1]]
  PROVE  t \in Seq(Cell) /\ Len(t) = n /\ \A i \in 1..n : t[i] = b[i - 1]
<1>1. t \in [1..n -> Cell]
  OBVIOUS
<1> QED
  BY <1>1

LEMMA NextTextIsText ==
  ASSUME Fits'
  PROVE  /\ Text' \in Seq(Cell)
         /\ Len(Text') = length'
         /\ \A i \in 1..length' : Text'[i] = buffer'[i - 1]
<1>1. length' \in Nat
  BY Zenon DEF Fits
<1>2. ASSUME NEW i \in 1..length'
      PROVE  buffer'[i - 1] \in Cell
  <2> DEFINE n == length'
             k == capacity'
             b == buffer'
  <2>1. n \in Nat /\ k \in Nat /\ n <= k /\ b \in [0..(k - 1) -> Cell] /\ i \in 1..n
    BY <1>1, <1>2, Zenon DEF Fits
  <2> HIDE DEF n, k, b
  <2>2. i - 1 \in 0..(k - 1)
    BY <2>1
  <2>3. b[i - 1] \in Cell
    BY <2>1, <2>2
  <2> QED
    BY <2>3 DEF b
<1>3. Text' = [i \in 1..length' |-> buffer'[i - 1]]
  BY DEF Text
<1> QED
  BY <1>1, <1>2, <1>3, CellsAreText, Zenon

\* A call edits the text when the cells of its block are those of the three parts.
LEMMA EditOfText ==
  ASSUME IInv, Fits', NEW p \in Seq(Cell), NEW from \in Nat, NEW to \in Nat,
         from <= to, to <= length,
         length' = from + Len(p) + (length - to),
         \A j \in 0..(from - 1) : buffer'[j] = buffer[j],
         \A j \in 0..(Len(p) - 1) : buffer'[from + j] = p[j + 1],
         \A j \in 0..(length - to - 1) : buffer'[from + Len(p) + j] = buffer[to + j]
  PROVE  Text' = Spliced(Text, from, p, to)
<1> DEFINE t == Text
           n == Text'
           r == Spliced(t, from, p, to)
<1>1. /\ t \in Seq(Cell) /\ Len(t) = length /\ length \in Nat /\ Len(p) \in Nat
      /\ \A i \in 1..length : t[i] = buffer[i - 1]
  BY TextIsText, LenProperties DEF IInv, TypeOK
<1>2. n \in Seq(Cell) /\ Len(n) = length' /\ \A i \in 1..length' : n[i] = buffer'[i - 1]
  BY NextTextIsText
<1> HIDE DEF t, n
<1>3. /\ r \in Seq(Cell)
      /\ Len(r) = from + Len(p) + (length - to)
      /\ \A i \in 1..from : r[i] = t[i]
      /\ \A i \in 1..Len(p) : r[from + i] = p[i]
      /\ \A i \in 1..(length - to) : r[from + Len(p) + i] = t[to + i]
  <2>1. to <= Len(t)
    BY <1>1
  <2>2. IsSpliced(r, t, from, p, to)
    BY <1>1, <2>1, SplicedParts, Zenon
  <2> HIDE DEF r
  <2> QED
    BY <1>1, <2>2 DEF IsSpliced
<1> HIDE DEF r
<1>4. ASSUME NEW i \in 1..length'
      PROVE  n[i] = r[i]
  <2>1. n[i] = buffer'[i - 1]
    BY <1>2
  <2>2. CASE i <= from
    <3>1. i \in 1..from /\ i \in 1..length /\ i - 1 \in 0..(from - 1)
      BY <1>1, <2>2
    <3> QED
      BY <1>1, <1>3, <2>1, <3>1
  <2>3. CASE i > from /\ i <= from + Len(p)
    <3>1. i - from \in 1..Len(p) /\ i - from - 1 \in 0..(Len(p) - 1)
      BY <1>1, <2>3
    <3>2. from + (i - from) = i /\ from + (i - from - 1) = i - 1 /\ (i - from - 1) + 1 = i - from
      BY <1>1
    <3>3. r[i] = p[i - from]
      BY <1>3, <3>1, <3>2
    <3>4. buffer'[i - 1] = p[i - from]
      BY <3>1, <3>2
    <3> QED
      BY <2>1, <3>3, <3>4
  <2>4. CASE i > from + Len(p)
    <3> DEFINE k == i - from - Len(p)
    <3>1. k \in 1..(length - to) /\ k - 1 \in 0..(length - to - 1) /\ to + k \in 1..length
      BY <1>1, <2>4
    <3>2. from + Len(p) + k = i /\ from + Len(p) + (k - 1) = i - 1 /\ (to + k) - 1 = to + (k - 1)
      BY <1>1
    <3> HIDE DEF k
    <3>3. r[i] = t[to + k]
      BY <1>3, <3>1, <3>2
    <3>4. buffer'[i - 1] = buffer[to + (k - 1)]
      BY <3>1, <3>2
    <3>5. t[to + k] = buffer[to + (k - 1)]
      BY <1>1, <3>1, <3>2
    <3> QED
      BY <2>1, <3>3, <3>4, <3>5
  <2> QED
    BY <1>1, <2>2, <2>3, <2>4
<1>5. n = r
  BY <1>2, <1>3, <1>4, SeqEqual
<1> QED
  BY <1>5 DEF n, r, t

-----------------------------------------------------------------------------
\* What the first length cells of a block are when a piece goes in front of cell at.
HasPiece(c, b, at, p, len) ==
  /\ \A j \in 0..(at - 1) : c[j] = b[j]
  /\ \A j \in 0..(Len(p) - 1) : c[at + j] = p[j + 1]
  /\ \A j \in 0..(len - at - 1) : c[at + Len(p) + j] = b[at + j]

LEMMA InsertedCells ==
  ASSUME NEW k \in Nat, NEW b \in [0..(k - 1) -> Cell], NEW p \in Seq(Cell), NEW at \in Nat,
         NEW len \in Nat, NEW n \in Nat, at <= len, len + Len(p) <= k, at + n <= k, len - at <= n
  PROVE  HasPiece(Copied(Moved(b, at + Len(p), at, n), at, p), b, at, p, len)
<1> DEFINE m == Moved(b, at + Len(p), at, n)
           c == Copied(m, at, p)
<1>1. Len(p) \in Nat /\ at + Len(p) \in Nat
  BY LenProperties
<1>2. m \in [0..(k - 1) -> Cell]
  BY <1>1, MovedIsBlock
<1>3. \A j \in 0..(k - 1) :
        m[j] = IF j \in (at + Len(p))..(at + Len(p) + n - 1) THEN b[at + (j - (at + Len(p)))] ELSE b[j]
  BY <1>1 DEF Moved
<1> HIDE DEF m
<1>4. \A j \in 0..(k - 1) : c[j] = IF j \in at..(at + Len(p) - 1) THEN p[j - at + 1] ELSE m[j]
  BY <1>1, <1>2 DEF Copied
<1> HIDE DEF c
<1>5. ASSUME NEW j \in 0..(at - 1)
      PROVE  c[j] = b[j]
  <2>1. /\ j \in 0..(k - 1) /\ ~(j \in at..(at + Len(p) - 1))
        /\ ~(j \in (at + Len(p))..(at + Len(p) + n - 1))
    BY <1>1, <1>5
  <2> QED
    BY <1>3, <1>4, <2>1
<1>6. ASSUME NEW j \in 0..(Len(p) - 1)
      PROVE  c[at + j] = p[j + 1]
  <2>1. at + j \in 0..(k - 1) /\ at + j \in at..(at + Len(p) - 1) /\ (at + j) - at + 1 = j + 1
    BY <1>1, <1>6
  <2> QED
    BY <1>4, <2>1
<1>7. ASSUME NEW j \in 0..(len - at - 1)
      PROVE  c[at + Len(p) + j] = b[at + j]
  <2> DEFINE i == at + Len(p) + j
  <2>1. j \in Nat /\ j < n /\ at + Len(p) + j < k
    BY <1>1, <1>7
  <2>2. i \in 0..(k - 1)
    BY <1>1, <2>1
  <2>3. ~(i \in at..(at + Len(p) - 1)) /\ i \in (at + Len(p))..(at + Len(p) + n - 1)
    BY <1>1, <2>1
  <2>4. at + (i - (at + Len(p))) = at + j
    BY <1>1, <2>1
  <2> HIDE DEF i
  <2>5. c[i] = m[i]
    BY <1>4, <2>2, <2>3
  <2>6. m[i] = b[at + (i - (at + Len(p)))]
    BY <1>3, <2>2, <2>3
  <2> QED
    BY <2>4, <2>5, <2>6 DEF i
<1>8. HasPiece(c, b, at, p, len)
  BY <1>5, <1>6, <1>7 DEF HasPiece
<1> QED
  BY <1>8 DEF c, m

\* At the end of the text there is nothing to move.
LEMMA AppendedCells ==
  ASSUME NEW k \in Nat, NEW b \in [0..(k - 1) -> Cell], NEW p \in Seq(Cell), NEW len \in Nat,
         len + Len(p) <= k
  PROVE  HasPiece(Copied(b, len, p), b, len, p, len)
<1> DEFINE c == Copied(b, len, p)
<1>1. Len(p) \in Nat
  BY LenProperties
<1>2. \A j \in 0..(k - 1) : c[j] = IF j \in len..(len + Len(p) - 1) THEN p[j - len + 1] ELSE b[j]
  BY DEF Copied
<1> HIDE DEF c
<1>3. ASSUME NEW j \in 0..(len - 1)
      PROVE  c[j] = b[j]
  <2>1. j \in 0..(k - 1) /\ ~(j \in len..(len + Len(p) - 1))
    BY <1>1, <1>3
  <2> QED
    BY <1>2, <2>1
<1>4. ASSUME NEW j \in 0..(Len(p) - 1)
      PROVE  c[len + j] = p[j + 1]
  <2>1. len + j \in 0..(k - 1) /\ len + j \in len..(len + Len(p) - 1) /\ (len + j) - len + 1 = j + 1
    BY <1>1, <1>4
  <2> QED
    BY <1>2, <2>1
<1>5. \A j \in 0..(len - len - 1) : c[len + Len(p) + j] = b[len + j]
  OBVIOUS
<1>6. HasPiece(c, b, len, p, len)
  BY <1>3, <1>4, <1>5 DEF HasPiece
<1> QED
  BY <1>6 DEF c

\* When the block that grew has the piece, the text has.
LEMMA InsertIsEdit ==
  ASSUME IInv, Fits', NEW p \in Seq(Cell), NEW at \in Nat, at <= length,
         length' = length + Len(p),
         HasPiece(buffer', Grown(length + Len(p)), at, p, length)
  PROVE  Text' = Spliced(Text, at, p, at)
<1> DEFINE g == Grown(length + Len(p))
<1>1. Len(p) \in Nat /\ length \in Nat /\ capacity \in Nat /\ length <= capacity /\ length + Len(p) \in Nat
  BY LenProperties DEF IInv, TypeOK, InBlock
<1>2. \A i \in 0..(capacity - 1) : g[i] = buffer[i]
  BY <1>1, GrownIsBlock DEF IInv
<1>3. HasPiece(buffer', g, at, p, length)
  OBVIOUS
<1> HIDE DEF g
<1>4. \A j \in 0..(at - 1) : buffer'[j] = buffer[j]
  <2> TAKE j \in 0..(at - 1)
  <2>1. j \in 0..(capacity - 1)
    BY <1>1
  <2> QED
    BY <1>2, <1>3, <2>1 DEF HasPiece
<1>5. \A j \in 0..(Len(p) - 1) : buffer'[at + j] = p[j + 1]
  BY <1>3 DEF HasPiece
<1>6. \A j \in 0..(length - at - 1) : buffer'[at + Len(p) + j] = buffer[at + j]
  <2> TAKE j \in 0..(length - at - 1)
  <2>1. at + j \in 0..(capacity - 1)
    BY <1>1
  <2> QED
    BY <1>2, <1>3, <2>1 DEF HasPiece
<1>7. length' = at + Len(p) + (length - at)
  BY <1>1
<1>8. at <= at
  OBVIOUS
<1> QED
  BY <1>4, <1>5, <1>6, <1>7, <1>8, EditOfText, Zenon

\* What the first cells of a block are when those from start to end are closed over.
IsClosed(c, b, start, end, len) ==
  /\ \A j \in 0..(start - 1) : c[j] = b[j]
  /\ \A j \in 0..(len - end - 1) : c[start + j] = b[end + j]

LEMMA ClosedCells ==
  ASSUME NEW k \in Nat, NEW b \in [0..(k - 1) -> Cell], NEW start \in Nat, NEW end \in Nat,
         NEW len \in Nat, NEW n \in Nat, start <= end, end <= len, len <= k, end + n <= k,
         start = end \/ len - end <= n
  PROVE  IsClosed(Moved(b, start, end, n), b, start, end, len)
<1> DEFINE m == Moved(b, start, end, n)
<1>1. \A j \in 0..(k - 1) : m[j] = IF j \in start..(start + n - 1) THEN b[end + (j - start)] ELSE b[j]
  BY DEF Moved
<1> HIDE DEF m
<1>2. ASSUME NEW j \in 0..(start - 1)
      PROVE  m[j] = b[j]
  <2>1. j \in 0..(k - 1) /\ ~(j \in start..(start + n - 1))
    BY <1>2
  <2> QED
    BY <1>1, <2>1
<1>3. ASSUME NEW j \in 0..(len - end - 1)
      PROVE  m[start + j] = b[end + j]
  <2> DEFINE i == start + j
  <2>1. i \in 0..(k - 1) /\ end + (i - start) = end + j
    BY <1>3
  <2>2. CASE i \in start..(start + n - 1)
    <3> HIDE DEF i
    <3> QED
      BY <1>1, <2>1, <2>2 DEF i
  <2>3. CASE ~(i \in start..(start + n - 1))
    <3>1. start = end /\ i = end + j
      BY <1>3, <2>3
    <3> HIDE DEF i
    <3>2. m[i] = b[i]
      BY <1>1, <2>1, <2>3
    <3> QED
      BY <3>1, <3>2 DEF i
  <2> QED
    BY <2>2, <2>3
<1> QED
  BY <1>2, <1>3 DEF m, IsClosed

LEMMA DeleteIsEdit ==
  ASSUME IInv, Fits', NEW start \in Nat, NEW end \in Nat, NEW n \in Nat,
         start <= end, end <= length, end + n <= capacity, start = end \/ length - end <= n,
         buffer' = Moved(buffer, start, end, n), length' = length - (end - start)
  PROVE  Text' = Spliced(Text, start, <<>>, end)
<1>1. /\ length \in Nat /\ capacity \in Nat /\ length <= capacity
      /\ buffer \in [0..(capacity - 1) -> Cell]
  BY DEF IInv, TypeOK, InBlock
<1>2. /\ \A j \in 0..(start - 1) : buffer'[j] = buffer[j]
      /\ \A j \in 0..(length - end - 1) : buffer'[start + j] = buffer[end + j]
  <2>1. IsClosed(Moved(buffer, start, end, n), buffer, start, end, length)
    BY <1>1, ClosedCells
  <2> QED
    BY <2>1, Zenon DEF IsClosed
<1>3. <<>> \in Seq(Cell) /\ Len(<<>>) = 0
  OBVIOUS
<1> DEFINE p == <<>>
<1>4. p \in Seq(Cell) /\ Len(p) = 0
  BY <1>3
<1> HIDE DEF p
<1>5. length' = start + Len(p) + (length - end)
  BY <1>1, <1>4
<1>6. \A j \in 0..(Len(p) - 1) : buffer'[start + j] = p[j + 1]
  BY <1>4
<1>7. \A j \in 0..(length - end - 1) : buffer'[start + Len(p) + j] = buffer[end + j]
  <2> TAKE j \in 0..(length - end - 1)
  <2>1. start + Len(p) + j = start + j
    BY <1>1, <1>4
  <2> QED
    BY <1>2, <2>1
<1>8. Text' = Spliced(Text, start, p, end)
  BY <1>2, <1>4, <1>5, <1>6, <1>7, EditOfText, Zenon
<1> QED
  BY <1>8 DEF p

-----------------------------------------------------------------------------
\* What CallsEdit says of a step.
CallEdits ==
  /\ outside' \/ ShortMove(call') \/ Text' = Edited(Text, call')
  /\ call'.op = "to_string" => call'.out = Text
  /\ call'.op = "extract" => call'.out = Append(Text, Nul)

LEMMA EditedIsSpliced ==
  ASSUME NEW t, NEW c
  PROVE  /\ c.op \in {"append", "insert", "insert_char"} => Edited(t, c) = Spliced(t, c.from, c.piece, c.from)
         /\ c.op \in {"delete", "delete_at", "set"} => Edited(t, c) = Spliced(t, c.from, c.piece, c.to)
         /\ c.op \in {"reserve", "to_string"} => Edited(t, c) = t
         /\ c.op \in {"extract", "dispose"} => Edited(t, c) = <<>>
BY DEF Edited, Spliced

LEMMA SpliceEdits ==
  ASSUME NEW op \in {"append", "insert", "insert_char", "delete", "delete_at", "set"},
         NEW from, NEW to, NEW piece, Called(op, from, to, piece, <<>>),
         op \in {"append", "insert", "insert_char"} => to = from,
         Text' = Spliced(Text, from, piece, to)
  PROVE  CallEdits
<1>1. call'.op = op /\ call'.from = from /\ call'.to = to /\ call'.piece = piece
  BY CallOut, SMTT(60)
<1>2. Edited(Text, call') = Spliced(Text, from, piece, to)
  BY <1>1, EditedIsSpliced
<1> QED
  BY <1>1, <1>2 DEF CallEdits

LEMMA AppendEdits ==
  ASSUME IInv, Fits', NEW p \in Seq(Cell),
         Called("append", length, length, p, <<>>),
         buffer' = Copied(Grown(length + Len(p)), length, p), length' = length + Len(p)
  PROVE  CallEdits
<1>1. Len(p) \in Nat /\ length \in Nat /\ length + Len(p) \in Nat
  BY LenProperties DEF IInv, TypeOK
<1> DEFINE k == Reserved(length + Len(p))
<1>2. k \in Nat /\ length + Len(p) <= k /\ Grown(length + Len(p)) \in [0..(k - 1) -> Cell]
  BY <1>1, ReservedSuffices, GrownIsBlock DEF IInv
<1>3. HasPiece(buffer', Grown(length + Len(p)), length, p, length)
  <2> HIDE DEF k
  <2> QED
    BY <1>1, <1>2, AppendedCells
<1>4. Text' = Spliced(Text, length, p, length)
  BY <1>1, <1>3, InsertIsEdit
<1> QED
  BY <1>4, SpliceEdits

LEMMA InsertEditsText ==
  ASSUME IInv, Fits', NEW p \in Seq(Cell), NEW at \in 0..length, NEW n \in Nat,
         NEW op \in {"insert", "insert_char"}, Called(op, at, at, p, <<>>),
         at + n <= Reserved(length + Len(p)), length - at <= n,
         buffer' = Copied(Moved(Grown(length + Len(p)), at + Len(p), at, n), at, p),
         length' = length + Len(p)
  PROVE  CallEdits
<1>1. Len(p) \in Nat /\ length \in Nat /\ length + Len(p) \in Nat /\ at \in Nat /\ at <= length
  BY LenProperties DEF IInv, TypeOK
<1> DEFINE k == Reserved(length + Len(p))
<1>2. k \in Nat /\ length + Len(p) <= k /\ Grown(length + Len(p)) \in [0..(k - 1) -> Cell]
  BY <1>1, ReservedSuffices, GrownIsBlock DEF IInv
<1>3. HasPiece(buffer', Grown(length + Len(p)), at, p, length)
  <2>1. at + n <= k
    OBVIOUS
  <2> HIDE DEF k
  <2> QED
    BY <1>1, <1>2, <2>1, InsertedCells
<1>4. Text' = Spliced(Text, at, p, at)
  BY <1>1, <1>3, InsertIsEdit
<1> QED
  BY <1>4, SpliceEdits

-----------------------------------------------------------------------------
\* Each call edits the text, and hands over what it should.

LEMMA AppendCharArrayEdits ==
  ASSUME IInv, NEW p \in Pieces, AppendCharArray(p)
  PROVE  CallEdits
<1>1. Fits' /\ Called("append", length, length, p, <<>>) /\ p \in Seq(Cell)
  BY AppendCharArrayInv, PieceIsText DEF AppendCharArray
<1>2. CASE p = <<>>
  <2>1. Text' = Text /\ Text \in Seq(Cell) /\ Len(Text) = length /\ length \in Nat
    BY <1>2, TextIsText DEF AppendCharArray, Text, IInv, TypeOK
  <2>2. Spliced(Text, length, <<>>, length) = Text
    <3> DEFINE t == Text
    <3>1. t \in Seq(Cell) /\ Len(t) = length /\ length \in Nat
      BY <2>1
    <3> HIDE DEF t
    <3>2. SubSeq(t, 1, length) = t
      BY <3>1, SubSeqFull
    <3>3. SubSeq(t, length + 1, Len(t)) = <<>>
      BY <3>1, SubSeqEmpty
    <3>4. t \o <<>> = t
      BY <3>1, ConcatEmptySeq
    <3>5. Spliced(t, length, <<>>, length) = t
      BY <3>2, <3>3, <3>4 DEF Spliced
    <3> QED
      BY <3>5 DEF t
  <2> QED
    BY <1>1, <1>2, <2>1, <2>2, SpliceEdits
<1>3. CASE p # <<>>
  <2>1. buffer' = Copied(Grown(length + Len(p)), length, p) /\ length' = length + Len(p)
    BY <1>3, Zenon DEF AppendCharArray
  <2> QED
    BY <1>1, <2>1, AppendEdits
<1> QED
  BY <1>2, <1>3

LEMMA AppendCharEdits ==
  ASSUME IInv, NEW c \in Char, AppendChar(c)
  PROVE  CallEdits
<1>1. Fits' /\ Called("append", length, length, <<c>>, <<>>)
  BY AppendCharInv DEF AppendChar
<1>2. /\ buffer' = Copied(Grown(length + Len(<<c>>)), length, <<c>>)
      /\ length' = length + Len(<<c>>)
  BY CharIsText, Zenon DEF AppendChar
<1> QED
  BY <1>1, <1>2, CharIsText, AppendEdits, Zenon

LEMMA InsertCharEdits ==
  ASSUME IInv, NEW c \in Char, NEW at \in 0..length, InsertChar(at, c)
  PROVE  CallEdits
<1> DEFINE n == length - at
           p == <<c>>
<1>1. Fits' /\ Called("insert_char", at, at, p, <<>>)
  BY InsertCharInv DEF InsertChar
<1>2. p \in Seq(Cell) /\ Len(p) = 1
  BY CharIsText
<1>3. n \in Nat /\ length - at <= n /\ at + n = length /\ length \in Nat
  BY DEF IInv, TypeOK
<1>4. /\ buffer' = Copied(Moved(Grown(length + Len(p)), at + Len(p), at, n), at, p)
      /\ length' = length + Len(p)
  BY <1>2, Zenon DEF InsertChar
<1>5. at + n <= Reserved(length + Len(p))
  <2>1. length + 1 <= Reserved(length + 1) /\ Reserved(length + 1) \in Nat
    BY <1>3, ReservedSuffices DEF IInv
  <2> HIDE DEF n, p
  <2> QED
    BY <1>2, <1>3, <2>1
<1> HIDE DEF n, p
<1> QED
  BY <1>1, <1>2, <1>3, <1>4, <1>5, InsertEditsText, Zenon

LEMMA InsertCharArrayEdits ==
  ASSUME IInv, NEW p \in Pieces, NEW at \in 0..length, InsertCharArray(at, p)
  PROVE  CallEdits
<1> DEFINE n == Len(p)
<1>0. /\ Fits' /\ p \in Seq(Cell) /\ n \in Nat /\ length \in Nat /\ at \in Nat
  BY InsertCharArrayInv, PieceIsText DEF IInv, TypeOK
<1>1. CASE n = 0 /\ Called("insert", at, at, p, <<>>) /\ UNCHANGED <<buffer, null, length, capacity, outside>>
  <2>1. Text' = Text /\ Text \in Seq(Cell) /\ Len(Text) = length
    BY <1>1, TextIsText DEF Text
  <2>2. Text' = Spliced(Text, at, p, at)
    <3>1. \A j \in 0..(length - at - 1) : buffer'[at + Len(p) + j] = buffer[at + j]
      BY <1>0, <1>1
    <3>2. length' = at + Len(p) + (length - at)
      BY <1>0, <1>1
    <3>3. at <= at /\ at <= length
      BY <1>0
    <3>4. \A j \in 0..(Len(p) - 1) : buffer'[at + j] = p[j + 1]
      BY <1>0, <1>1
    <3>5. \A j \in 0..(at - 1) : buffer'[j] = buffer[j]
      BY <1>1
    <3> QED
      BY <1>0, <3>1, <3>2, <3>3, <3>4, <3>5, EditOfText, Zenon
  <2> QED
    BY <1>1, <2>2, SpliceEdits
<1>2. CASE Overruns("insert", at, at, p)
  <2>1. outside' /\ call'.op = "insert"
    BY <1>2, CallOut, Zenon DEF Overruns
  <2> QED
    BY <2>1, Zenon DEF CallEdits
<1>3. CASE /\ at + 2 * n <= Reserved(length + n)
           /\ buffer' = Copied(Moved(Grown(length + n), at + n, at, n), at, p)
           /\ length' = length + n
           /\ n > 0
           /\ Called("insert", at, at, p, <<>>)
  <2>1. call'.op = "insert" /\ call'.to = at /\ call'.piece = p
    BY <1>3, CallOut, Zenon
  <2>2. CASE n < length - at
    <3>1. ShortMove(call')
      BY <1>0, <1>3, <2>1, <2>2 DEF ShortMove, MovedBy, TailOf
    <3> QED
      BY <2>1, <3>1, Zenon DEF CallEdits
  <2>3. CASE length - at <= n
    <3>1. at + n <= Reserved(length + n)
      <4>1. length + n \in Nat
        BY <1>0
      <4>2. Reserved(length + n) \in Nat
        BY <4>1, ReservedSuffices DEF IInv
      <4> QED
        BY <1>0, <1>3, <4>2
    <3> QED
      BY <1>0, <1>3, <2>3, <3>1, InsertEditsText, Zenon
  <2> QED
    BY <1>0, <2>2, <2>3
<1> QED
  BY <1>1, <1>2, <1>3, Zenon DEF InsertCharArray

LEMMA DeleteEdits ==
  ASSUME IInv, NEW start \in 0..length, NEW end \in 0..length, start <= end, Delete(start, end)
  PROVE  CallEdits
<1>1. Fits' /\ length \in Nat /\ start \in Nat /\ end \in Nat /\ end <= length /\ end - start \in Nat
  BY DeleteInv DEF IInv, TypeOK
<1>2. CASE Overruns("delete", start, end, <<>>)
  <2>1. outside' /\ call'.op = "delete"
    BY <1>2, CallOut, Zenon DEF Overruns
  <2> QED
    BY <2>1, Zenon DEF CallEdits
<1>3. CASE /\ end + (end - start) <= capacity
           /\ buffer' = Moved(buffer, start, end, end - start)
           /\ length' = length - (end - start)
           /\ Called("delete", start, end, <<>>, <<>>)
  <2>1. call'.op = "delete" /\ call'.from = start /\ call'.to = end
    BY <1>3, CallOut, Zenon
  <2>2. CASE start < end /\ end - start < length - end
    <3>1. ShortMove(call')
      BY <1>1, <2>1, <2>2 DEF ShortMove, MovedBy, TailOf
    <3> QED
      BY <2>1, <3>1, Zenon DEF CallEdits
  <2>3. CASE start = end \/ length - end <= end - start
    <3>1. Text' = Spliced(Text, start, <<>>, end)
      BY <1>1, <1>3, <2>3, DeleteIsEdit, Zenon
    <3> QED
      BY <1>3, <3>1, SpliceEdits
  <2> QED
    BY <1>1, <2>2, <2>3
<1> QED
  BY <1>2, <1>3, Zenon DEF Delete

LEMMA DeleteAtEdits ==
  ASSUME IInv, NEW at \in 0..(length - 1), DeleteAt(at)
  PROVE  CallEdits
<1> DEFINE n == length - 1 - at
           end == at + 1
<1>1. /\ Fits' /\ length \in Nat /\ at \in Nat /\ end \in Nat /\ n \in Nat
      /\ at <= end /\ end <= length /\ end + n <= capacity /\ length - end <= n
  BY DeleteAtInv DEF IInv, TypeOK, InBlock
<1>2. buffer' = Moved(buffer, at, end, n) /\ Called("delete_at", at, end, <<>>, <<>>)
  BY Zenon DEF DeleteAt
<1>3. length' = length - (end - at)
  BY <1>1 DEF DeleteAt
<1> HIDE DEF n, end
<1>4. Text' = Spliced(Text, at, <<>>, end)
  BY <1>1, <1>2, <1>3, DeleteIsEdit, Zenon
<1> QED
  BY <1>2, <1>4, SpliceEdits

LEMMA SetEdits ==
  ASSUME IInv, NEW c \in Char, NEW at \in 0..(length - 1), Set(at, c)
  PROVE  CallEdits
<1> DEFINE p == <<c>>
           to == at + 1
<1>1. /\ Fits' /\ length \in Nat /\ capacity \in Nat /\ length <= capacity
      /\ buffer \in [0..(capacity - 1) -> Cell] /\ at \in Nat /\ to \in Nat /\ at <= to /\ to <= length
      /\ p \in Seq(Cell) /\ Len(p) = 1 /\ p[1] = c
  BY SetInv, CharIsText DEF IInv, TypeOK, InBlock
<1>2. buffer' = [buffer EXCEPT ![at] = c] /\ length' = length /\ Called("set", at, to, p, <<>>)
  BY DEF Set
<1>3. \A j \in 0..(capacity - 1) : buffer'[j] = IF j = at THEN c ELSE buffer[j]
  BY <1>1, <1>2
<1> HIDE DEF p
<1>4. \A j \in 0..(at - 1) : buffer'[j] = buffer[j]
  BY <1>1, <1>3
<1>5. \A j \in 0..(Len(p) - 1) : buffer'[at + j] = p[j + 1]
  <2> TAKE j \in 0..(Len(p) - 1)
  <2>1. j = 0 /\ at + j = at /\ at \in 0..(capacity - 1)
    BY <1>1
  <2> QED
    BY <1>1, <1>3, <2>1
<1>6. \A j \in 0..(length - to - 1) : buffer'[at + Len(p) + j] = buffer[to + j]
  <2> TAKE j \in 0..(length - to - 1)
  <2>1. at + Len(p) + j = to + j /\ to + j \in 0..(capacity - 1) /\ to + j # at
    BY <1>1
  <2> QED
    BY <1>3, <2>1
<1>7. length' = at + Len(p) + (length - to)
  BY <1>1, <1>2
<1> HIDE DEF to
<1>8. Text' = Spliced(Text, at, p, to)
  BY <1>1, <1>4, <1>5, <1>6, <1>7, EditOfText, Zenon
<1> QED
  BY <1>2, <1>8, SpliceEdits

LEMMA ReverseEdits ==
  ASSUME IInv, Reverse
  PROVE  CallEdits
<1>0. CASE Overruns("reverse", 0, length, <<>>)
  <2>1. outside' /\ call'.op = "reverse"
    BY <1>0, CallOut, Zenon DEF Overruns
  <2> QED
    BY <2>1, Zenon DEF CallEdits
<1> SUFFICES ASSUME /\ buffer' = [i \in DOMAIN buffer |-> IF i < length THEN buffer[length - 1 - i] ELSE buffer[i]]
                    /\ Called("reverse", 0, length, <<>>, <<>>)
                    /\ UNCHANGED <<null, length, capacity, outside>>
             PROVE  CallEdits
  BY <1>0, Zenon DEF Reverse
<1> DEFINE t == Text
           n == Text'
<1>1. /\ Fits' /\ length \in Nat /\ capacity \in Nat /\ length <= capacity
      /\ buffer \in [0..(capacity - 1) -> Cell]
  BY ReverseInv DEF IInv, TypeOK, InBlock
<1>2. /\ length' = length /\ call'.op = "reverse"
      /\ buffer' = [i \in DOMAIN buffer |-> IF i < length THEN buffer[length - 1 - i] ELSE buffer[i]]
  BY CallOut, Zenon
<1>3. n = [i \in 1..length |-> buffer'[i - 1]]
  BY <1>2 DEF Text
<1>4. t \in Seq(Cell) /\ Len(t) = length /\ \A i \in 1..length : t[i] = buffer[i - 1]
  BY TextIsText
<1> HIDE DEF t, n
<1>5. ASSUME NEW i \in 1..length
      PROVE  buffer'[i - 1] = t[Len(t) + 1 - i]
  <2>1. /\ i - 1 \in 0..(capacity - 1) /\ i - 1 < length /\ length + 1 - i \in 1..length
        /\ (length + 1 - i) - 1 = length - 1 - (i - 1)
    BY <1>1, <1>5
  <2>2. buffer'[i - 1] = buffer[length - 1 - (i - 1)]
    BY <1>1, <1>2, <2>1
  <2> QED
    BY <1>4, <2>1, <2>2
<1>6. n = [i \in 1..Len(t) |-> t[Len(t) + 1 - i]]
  BY <1>3, <1>4, <1>5
<1>7. Edited(t, call') = [i \in 1..Len(t) |-> t[Len(t) + 1 - i]]
  BY <1>2 DEF Edited
<1> QED
  BY <1>2, <1>6, <1>7 DEF CallEdits, n, t

LEMMA ReserveEdits ==
  ASSUME IInv, NEW n \in Nat, Reserve(n)
  PROVE  CallEdits
<1>1. call'.op = "reserve" /\ length' = length /\ buffer' = Grown(n)
  BY CallOut, Zenon DEF Reserve
<1>2. length \in Nat /\ capacity \in Nat /\ length <= capacity
      /\ \A i \in 0..(capacity - 1) : Grown(n)[i] = buffer[i]
  BY GrownIsBlock DEF IInv, TypeOK, InBlock
<1>3. \A i \in 1..length : buffer'[i - 1] = buffer[i - 1]
  <2> TAKE i \in 1..length
  <2>1. i - 1 \in 0..(capacity - 1)
    BY <1>2
  <2> QED
    BY <1>1, <1>2, <2>1, Zenon
<1>4. Text' = Text
  BY <1>1, <1>3 DEF Text
<1>5. Edited(Text, call') = Text
  BY <1>1, EditedIsSpliced
<1> QED
  BY <1>1, <1>4, <1>5 DEF CallEdits

LEMMA ToStringEdits ==
  ASSUME IInv, ToString
  PROVE  CallEdits
<1>1. call'.op = "to_string" /\ call'.out = Text /\ Text' = Text
  BY CallOut, Zenon DEF ToString, Text
<1>2. Edited(Text, call') = Text
  BY <1>1, EditedIsSpliced
<1> QED
  BY <1>1, <1>2 DEF CallEdits

\* Without characters there is an empty text.
LEMMA EmptiedText ==
  ASSUME Emptied
  PROVE  Text' = <<>>
BY DEF Emptied, Text

LEMMA DisposeEdits ==
  ASSUME IInv, Dispose
  PROVE  CallEdits
<1>1. call'.op = "dispose" /\ Text' = <<>>
  BY CallOut, EmptiedText, Zenon DEF Dispose
<1>2. Edited(Text, call') = <<>>
  BY <1>1, EditedIsSpliced
<1> QED
  BY <1>1, <1>2 DEF CallEdits

LEMMA ExtractCstrEdits ==
  ASSUME IInv, ExtractCstr
  PROVE  CallEdits
<1> DEFINE p == <<Nul>>
           g == Grown(length + 1)
           ended == Copied(g, length, p)
           out == [i \in 1..(length + 1) |-> ended[i - 1]]
           t == Text
<1>1. call'.op = "extract" /\ call'.out = out /\ Text' = <<>>
  BY CallOut, EmptiedText, Zenon DEF ExtractCstr
<1>2. Edited(Text, call') = <<>>
  BY <1>1, EditedIsSpliced
<1>3. /\ length \in Nat /\ length + 1 \in Nat /\ capacity \in Nat /\ length <= capacity
      /\ p \in Seq(Cell) /\ Len(p) = 1 /\ p[1] = Nul /\ Nul \in Cell
  BY DEF IInv, TypeOK, InBlock, Cell
<1> HIDE DEF p
<1>4. \A i \in 0..(capacity - 1) : g[i] = buffer[i]
  BY <1>3, GrownIsBlock DEF IInv
<1>5. HasPiece(ended, g, length, p, length)
  <2>1. g \in [0..(Reserved(length + 1) - 1) -> Cell] /\ Reserved(length + 1) \in Nat
        /\ length + 1 <= Reserved(length + 1)
    BY <1>3, GrownIsBlock, ReservedSuffices DEF IInv
  <2> DEFINE k == Reserved(length + 1)
  <2> HIDE DEF g
  <2>2. k \in Nat /\ g \in [0..(k - 1) -> Cell] /\ length + Len(p) <= k
    BY <1>3, <2>1
  <2> HIDE DEF k
  <2> QED
    BY <1>3, <2>2, AppendedCells
<1>6. t \in Seq(Cell) /\ Len(t) = length /\ \A i \in 1..length : t[i] = buffer[i - 1]
  BY TextIsText
<1> HIDE DEF t, g, ended
<1>7. \A i \in 1..length : out[i] = t[i]
  <2> TAKE i \in 1..length
  <2>1. i \in 1..(length + 1) /\ i - 1 \in 0..(length - 1) /\ i - 1 \in 0..(capacity - 1)
    BY <1>3
  <2>2. ended[i - 1] = buffer[i - 1]
    BY <1>4, <1>5, <2>1 DEF HasPiece
  <2> QED
    BY <1>6, <2>1, <2>2
<1>8. out[length + 1] = Nul
  <2>1. length + 1 \in 1..(length + 1) /\ (length + 1) - 1 = length + 0 /\ 0 \in 0..(Len(p) - 1)
    BY <1>3
  <2>2. ended[length + 0] = p[0 + 1]
    BY <1>5, <2>1, Zenon DEF HasPiece
  <2> QED
    BY <1>3, <2>1, <2>2
<1>9. out = Append(t, Nul)
  <2> DEFINE a == Append(t, Nul)
  <2>1. /\ a \in Seq(Cell) /\ Len(a) = length + 1 /\ a[length + 1] = Nul
        /\ \A i \in 1..length : a[i] = t[i]
    BY <1>3, <1>6, AppendProperties
  <2>2. out \in [1..(length + 1) -> Cell]
    <3> HIDE DEF a
    <3>1. \A i \in 1..(length + 1) : out[i] \in Cell
      <4> TAKE i \in 1..(length + 1)
      <4>1. i = length + 1 \/ i \in 1..length
        BY <1>3
      <4>2. i \in 1..length => t[i] \in Cell
        BY <1>6, ElementOfSeq
      <4> HIDE DEF out
      <4> QED
        BY <1>3, <1>7, <1>8, <4>1, <4>2
    <3> QED
      BY <3>1
  <2>3. out \in Seq(Cell) /\ Len(out) = length + 1
    BY <1>3, <2>2
  <2> HIDE DEF a, out
  <2>4. \A i \in 1..(length + 1) : out[i] = a[i]
    BY <1>3, <1>7, <1>8, <2>1
  <2>5. out = a
    BY <2>1, <2>3, <2>4, SeqEqual
  <2> QED
    BY <2>5 DEF a
<1>10. call'.out = Append(Text, Nul)
  BY <1>1, <1>9 DEF t
<1> QED
  BY <1>1, <1>2, <1>10 DEF CallEdits

LEMMA NextEdits == IInv /\ [Next]_vars => CallEdits \/ UNCHANGED vars
<1> SUFFICES ASSUME IInv, Next PROVE CallEdits
  BY Zenon
<1> QED
  <2>1. \A n \in 0..MaxLength : n \in Nat
    OBVIOUS
  <2> QED
    BY <2>1, NextCases, AppendCharArrayEdits, InsertCharArrayEdits, AppendCharEdits, InsertCharEdits, SetEdits,
       DeleteEdits, DeleteAtEdits, ReserveEdits, ReverseEdits, ToStringEdits, ExtractCstrEdits, DisposeEdits, Zenon

\* Every call that stays in the block does to the text what it is meant to, unless it is an insert
\* or a delete that moves less than the tail; and the strings that leave the builder are its text.
THEOREM CallsEditText == Spec => CallsEdit
<1>1. IInv /\ [Next]_vars =>
        [/\ outside' \/ ShortMove(call') \/ Text' = Edited(Text, call')
         /\ call'.op = "to_string" => call'.out = Text
         /\ call'.op = "extract" => call'.out = Append(Text, Nul)]_vars
  BY NextEdits, Zenon DEF CallEdits
<1> QED
  BY <1>1, Invariant, PTL DEF Spec, CallsEdit
=============================================================================
