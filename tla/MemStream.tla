----------------------------- MODULE MemStream ------------------------------
(***************************************************************************)
(* vial_memstream (src/src/io/stream/memstream.c): a stream over a buffer  *)
(* of its own that grows, or over a buffer of the caller's that does not.  *)
(* One call is one action; malloc and realloc may fail, which the code     *)
(* does not test.  The arithmetic is that of integers: buffers as long as  *)
(* half the address space, where size_t would wrap, cannot be allocated.   *)
(***************************************************************************)
EXTENDS Integers, Sequences

CONSTANTS
  Byte,         \* the bytes a client writes
  Uninit,       \* the content of memory nobody has written
  Null,         \* the NULL pointer
  AllocOutcome, \* what an allocation may do: {TRUE}, or {TRUE, FALSE} where it may fail
  MaxBuffer,    \* bound: the longest initial buffer
  MaxSize,      \* bound: no client moves the position beyond it
  MaxWrite      \* bound: the longest write

ASSUME AllocAssumption == AllocOutcome \subseteq BOOLEAN
ASSUME NullAssumption == Null \notin Nat /\ Null \notin Seq(Byte \cup {Uninit})
ASSUME BoundAssumption == MaxBuffer \in Nat /\ MaxSize \in Nat /\ MaxWrite \in Nat

VARIABLES
  buf,        \* self->buf: Null, or the cells of the block
  allocated,  \* self->allocated
  size,       \* self->size
  position,   \* self->position
  resizeable, \* self->resizeable
  crashed,    \* the program has followed a NULL pointer
  lost,       \* a block was overwritten by a failed realloc and can never be freed
  call        \* the last call and its outcome

fields == <<buf, allocated, size, position, resizeable>>
vars == <<buf, allocated, size, position, resizeable, crashed, lost, call>>

Cell == Byte \cup {Uninit}
Larger(a, b) == IF a > b THEN a ELSE b

Returns(op, arg, err, out) == call' = [op |-> op, arg |-> arg, err |-> err, out |-> out]
Throws(op, arg, err) ==
  /\ Returns(op, arg, err, 0)
  /\ UNCHANGED <<fields, crashed, lost>>

\* Every call but flush and dispose begins with this test.
Disposed(op, arg) == ~crashed /\ buf = Null /\ Throws(op, arg, "disposed")
Usable == ~crashed /\ buf # Null

Init ==
  /\ buf = Null
  /\ allocated = 0
  /\ size = 0
  /\ position = 0
  /\ resizeable = FALSE
  /\ crashed = FALSE
  /\ lost = FALSE
  /\ call = [op |-> "none", arg |-> 0, err |-> "none", out |-> 0]

\* vial_memstream_init: no block for size 0, and none if malloc fails.
InitOwn(n) ==
  /\ ~crashed
  /\ buf = Null
  /\ \E done \in AllocOutcome :
       buf' = IF n > 0 /\ done THEN [i \in 1..n |-> Uninit] ELSE Null
  /\ allocated' = n
  /\ size' = n
  /\ position' = 0
  /\ resizeable' = TRUE
  /\ Returns("open", n, "none", 0)
  /\ UNCHANGED <<crashed, lost>>

\* vial_memstream_init_buf.
InitBuf(b) ==
  /\ ~crashed
  /\ buf = Null
  /\ buf' = b
  /\ allocated' = Len(b)
  /\ size' = Len(b)
  /\ position' = 0
  /\ resizeable' = FALSE
  /\ Returns("open", Len(b), "none", 0)
  /\ UNCHANGED <<crashed, lost>>

\* Mutant: the block grows by less than what is missing.
BlockShort(n, done) ==
  IF n <= allocated THEN buf
  ELSE IF done THEN buf \o [i \in 1..allocated |-> Uninit]
  ELSE Null

\* Mutant: a buffer of the caller's is reallocated as well.
RefusesNothing(n) == FALSE

\* resize: what it refuses, and the buffer it leaves behind when it does not.  The block at
\* least doubles; when realloc fails buf is NULL, allocated is the new size all the same and
\* the caller is told nothing.
Refuses(n) == n > allocated /\ ~resizeable
NewSize(n) == IF n > allocated THEN Larger(n, 2 * allocated) ELSE allocated
Block(n, done) ==
  IF n <= allocated THEN buf
  ELSE IF done THEN buf \o [i \in 1..(NewSize(n) - allocated) |-> Uninit]
  ELSE Null

\* memcpy of b to offset n of the block s.
Copied(s, n, b) == [i \in 1..Len(s) |-> IF i - n \in 1..Len(b) THEN b[i - n] ELSE s[i]]

\* Mutant: the size follows the position back.
ExtendedAlways(end) == end

\* "if (position > size) size = position"
Extended(end) == Larger(size, end)

\* impl_write: memcpy to NULL + position crashes.
Write(b) ==
  LET end == position + Len(b)
  IN \/ Disposed("write", b)
     \/ Usable /\ Refuses(end) /\ Throws("write", b, "notsup")
     \/ /\ Usable /\ ~Refuses(end)
        /\ \E done \in AllocOutcome :
             /\ buf' = IF Block(end, done) = Null THEN Null
                       ELSE Copied(Block(end, done), position, b)
             /\ crashed' = (buf' = Null)
             /\ lost' = (lost \/ buf' = Null)
        /\ allocated' = NewSize(end)
        /\ position' = end
        /\ size' = Extended(end)
        /\ Returns("write", b, "none", 0)
        /\ UNCHANGED resizeable

\* impl_read.
Read(n) ==
  \/ Disposed("read", n)
  \/ Usable /\ size - position < n /\ Throws("read", n, "notsup")
  \/ /\ Usable /\ ~(size - position < n)
     /\ Returns("read", n, "none", SubSeq(buf, position + 1, position + n))
     /\ position' = position + n
     /\ UNCHANGED <<buf, allocated, size, resizeable, crashed, lost>>

\* Mutant: the position moves before resize has agreed.
SeekForwardEager(arg, to) ==
  \/ /\ Usable /\ Refuses(to)
     /\ position' = to
     /\ Returns("seek", arg, "notsup", 0)
     /\ UNCHANGED <<buf, allocated, size, resizeable, crashed, lost>>
  \/ /\ Usable /\ ~Refuses(to)
     /\ \E done \in AllocOutcome :
          /\ buf' = Block(to, done)
          /\ lost' = (lost \/ buf' = Null)
     /\ allocated' = NewSize(to)
     /\ position' = to
     /\ size' = Extended(to)
     /\ Returns("seek", arg, "none", 0)
     /\ UNCHANGED <<resizeable, crashed>>

\* The forward branches of impl_seek: to is offset for SEEK_SET, position + offset for
\* SEEK_CUR.
SeekForward(arg, to) ==
  \/ Usable /\ Refuses(to) /\ Throws("seek", arg, "notsup")
  \/ /\ Usable /\ ~Refuses(to)
     /\ \E done \in AllocOutcome :
          /\ buf' = Block(to, done)
          /\ lost' = (lost \/ buf' = Null)
     /\ allocated' = NewSize(to)
     /\ position' = to
     /\ size' = Extended(to)
     /\ Returns("seek", arg, "none", 0)
     /\ UNCHANGED <<resizeable, crashed>>

\* Mutant: no test that the stream reaches back that far.
SeekBackUnchecked(arg, from) ==
  /\ Usable
  /\ position' = from + arg[1]
  /\ Returns("seek", arg, "none", 0)
  /\ UNCHANGED <<buf, allocated, size, resizeable, crashed, lost>>

\* The branches that move back from an end of the stream or refuse to.
SeekBack(arg, from) ==
  LET offset == arg[1]
  IN \/ Usable /\ -offset > from /\ Throws("seek", arg, "notsup")
     \/ /\ Usable /\ ~(-offset > from)
        /\ position' = from + offset
        /\ Returns("seek", arg, "none", 0)
        /\ UNCHANGED <<buf, allocated, size, resizeable, crashed, lost>>

\* impl_seek.
Seek(offset, origin) ==
  LET arg == <<offset, origin>>
  IN \/ Disposed("seek", arg)
     \/ origin = "set" /\ offset < 0 /\ Usable /\ Throws("seek", arg, "notsup")
     \/ origin = "set" /\ offset >= 0 /\ SeekForward(arg, offset)
     \/ origin = "cur" /\ offset < 0 /\ SeekBack(arg, position)
     \/ origin = "cur" /\ offset >= 0 /\ SeekForward(arg, position + offset)
     \/ origin = "end" /\ offset > 0 /\ Usable /\ Throws("seek", arg, "notsup")
     \/ origin = "end" /\ offset <= 0 /\ SeekBack(arg, size)

\* impl_position, impl_available, impl_flush.
Query(op) ==
  \/ Disposed(op, 0)
  \/ /\ Usable
     /\ Returns(op, 0, "none", IF op = "position" THEN position ELSE size - position)
     /\ UNCHANGED <<fields, crashed, lost>>

Flush ==
  /\ ~crashed
  /\ Returns("flush", 0, "none", 0)
  /\ UNCHANGED <<fields, crashed, lost>>

\* impl_close frees the buffer, also one that is the caller's.
Close ==
  \/ Disposed("close", 0)
  \/ /\ Usable
     /\ buf' = Null
     /\ allocated' = 0
     /\ size' = 0
     /\ position' = 0
     /\ Returns("close", 0, "none", 0)
     /\ UNCHANGED <<resizeable, crashed, lost>>

\* impl_dispose leaves the caller's buffer to the caller, and size and position as they are.
Dispose ==
  /\ ~crashed
  /\ buf' = Null
  /\ Returns("dispose", 0, "none", 0)
  /\ UNCHANGED <<allocated, size, position, resizeable, crashed, lost>>

Writes == UNION {[1..n -> Byte] : n \in 0..MaxWrite}
Buffers == UNION {[1..n -> Byte] : n \in 0..MaxBuffer}

Next ==
  \/ \E n \in 0..MaxBuffer : InitOwn(n)
  \/ \E b \in Buffers : InitBuf(b)
  \/ \E b \in Writes : position + Len(b) <= MaxSize /\ Write(b)
  \/ \E n \in 0..(MaxSize + 1) : Read(n)
  \/ \E origin \in {"set", "cur", "end"}, offset \in -(MaxSize + 1)..MaxSize :
       (origin = "cur" => position + offset <= MaxSize) /\ Seek(offset, origin)
  \/ \E op \in {"position", "available"} : Query(op)
  \/ Flush
  \/ Close
  \/ Dispose

Spec == Init /\ [][Next]_vars

-----------------------------------------------------------------------------
TypeOK ==
  /\ buf # Null => buf \in Seq(Cell)
  /\ allocated \in Nat
  /\ size \in Nat
  /\ position \in Nat
  /\ resizeable \in BOOLEAN
  /\ crashed \in BOOLEAN
  /\ lost \in BOOLEAN

\* Position, size and block stay in step over any sequence of seeks, reads, writes and
\* growths: no read or write of the stream reaches past its block.
InBounds ==
  buf # Null => /\ Len(buf) = allocated
                /\ size <= allocated
                /\ position <= size

\* A call that reports an error has changed nothing (resize runs before the fields are set).
FailureChangesNothing ==
  [][call'.err # "none" => UNCHANGED <<fields, crashed, lost>>]_vars

\* A failed allocation hurts only a call that had to grow the block: the caller's buffer is
\* never replaced, and nothing but such a call loses a block or crashes.
OnlyGrowthLoses ==
  [][(lost' # lost \/ crashed' # crashed) => resizeable /\ call'.op \in {"seek", "write"}
                                          /\ allocated' > allocated]_vars

\* An allocation has failed: now or before in a call that grew the block, or in an init.
ShortOfMemory == lost' \/ (call'.op = "open" /\ buf' = Null /\ size' > 0)

\* Refinement, as long as allocations succeed: every call does what it does to a file in
\* memory, and fails exactly when it may.
Stream ==
  INSTANCE ByteStream WITH
    Unlimited <- Null,
    open <- buf # Null,
    data <- IF buf = Null THEN <<>> ELSE SubSeq(buf, 1, size),
    pos <- IF buf = Null THEN 0 ELSE position,
    limit <- IF buf = Null THEN 0 ELSE IF resizeable THEN Null ELSE allocated
ImplementsStream == Stream!Init /\ [][ShortOfMemory \/ Stream!Next]_Stream!streamVars

=============================================================================
