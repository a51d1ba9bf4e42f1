------------------------------ MODULE KeyStream ------------------------------
(***************************************************************************)
(* The random stream over ChaCha20 (src/src/crypto/secure_random.c and     *)
(* chacha20.c).  Block number n of the key stream is known by n alone.     *)
(* The counter is the number of the block after the one in the buffer.     *)
(***************************************************************************)
EXTENDS Integers, Sequences

CONSTANTS
  Blocks,     \* how many values the counter has: 2^32 in the code
  BlockSize,  \* the bytes of a block: 64 in the code
  MaxMove     \* bound: the bytes of a read and the offset of a seek

VARIABLES
  counter,    \* state[12]
  bytes,      \* the number of the block in the buffer
  used,       \* used_bytes
  at,         \* where the next byte should come from, see ReadsOn
  result      \* what the last call returned: bytes, a position, or nothing

vars == <<counter, bytes, used, at, result>>
Period == Blocks * BlockSize

\* vial_chacha20_init and vial_chacha20_next
Init ==
  /\ counter = 1 % Blocks /\ bytes = 0 /\ used = 0
  /\ at = 0
  /\ result = <<"none">>

\* impl_seek, in 64-bit arithmetic that wraps around at a multiple of the period; the counter
\* keeps the low 32 bits of the block.
Sought(position) == (position \div BlockSize) % Blocks

\* Mutant: the buffer is not filled again.
SeekStale(position) ==
  /\ counter' = (Sought(position) + 1) % Blocks
  /\ used' = position % BlockSize
  /\ result' = <<"none">>
  /\ UNCHANGED bytes

SeekTo(position) ==
  /\ bytes' = Sought(position)
  /\ counter' = (Sought(position) + 1) % Blocks
  /\ used' = position % BlockSize
  /\ result' = <<"none">>

\* The current position counts the block in the buffer twice.
Current == counter * BlockSize + used

Seek(offset, origin) ==
  \/ origin = "set" /\ offset >= 0 /\ SeekTo(offset) /\ at' = offset % Period
  \/ origin = "cur" /\ SeekTo(Current + offset) /\ at' = (at + BlockSize + offset) % Period
  \/ origin = "end" /\ offset <= 0 /\ SeekTo(Period + offset) /\ at' = offset % Period

\* The other seeks are refused; then nothing changes.
SeekRefused(offset, origin) ==
  /\ (origin = "set" /\ offset < 0) \/ (origin = "end" /\ offset > 0)
  /\ result' = <<"refused">>
  /\ UNCHANGED <<counter, bytes, used, at>>

Position == result' = <<"position", Current>> /\ UNCHANGED <<counter, bytes, used, at>>
Available == result' = <<"available", Period - Current>> /\ UNCHANGED <<counter, bytes, used, at>>

\* impl_read: from the buffer, or what is left in the buffer, whole blocks and the start of one.
FromBlock(block, from, n) == [i \in 1..n |-> <<block, from + i - 1>>]
Read(size) ==
  LET left == BlockSize - used
      after == size - left
      whole == after \div BlockSize
      rest == after % BlockSize
      block(k) == (counter + k) % Blocks
  IN /\ \/ /\ size = 0
           /\ result' = <<"bytes", <<>>>>
           /\ UNCHANGED <<counter, bytes, used>>
        \/ /\ size > 0 /\ left > size
           /\ result' = <<"bytes", FromBlock(bytes, used, size)>>
           /\ used' = used + size
           /\ UNCHANGED <<counter, bytes>>
        \/ /\ size > 0 /\ left <= size
           /\ result' = <<"bytes",
                FromBlock(bytes, used, left)
                \o [i \in 1..whole * BlockSize |-> <<block((i - 1) \div BlockSize), (i - 1) % BlockSize>>]
                \o FromBlock(block(whole), 0, rest)>>
           /\ bytes' = block(whole)
           /\ counter' = block(whole + 1)
           /\ used' = rest
     /\ at' = (at + size) % Period

Next ==
  \/ Position \/ Available
  \/ \E size \in 0..MaxMove : Read(size)
  \/ \E offset \in -MaxMove..MaxMove, origin \in {"set", "cur", "end"} :
       Seek(offset, origin) \/ SeekRefused(offset, origin)

-----------------------------------------------------------------------------
\* Whatever the sizes of the reads and the seeks between them, the bytes that are read are those
\* of the key stream from where the last call left off, around its end.  A seek from the start
\* or the end goes where it says, one from the current position a block further, and the
\* position that is reported is a block too large, around the end.
ReadsOn ==
  [][/\ result'[1] = "bytes" =>
          result'[2] = [i \in 1..Len(result'[2]) |->
            LET place == (at + i - 1) % Period IN <<place \div BlockSize, place % BlockSize>>]
     /\ result'[1] = "position" => result'[2] % Period = (at + BlockSize) % Period
     /\ result'[1] = "available" => (result'[2] + at + BlockSize) % Period = 0]_vars
=============================================================================
