------------------------------- MODULE Sha256 -------------------------------
(***************************************************************************)
(* SHA-256, HMAC and the hash stream (src/src/crypto/sha256.c,             *)
(* hmac_sha256.c and src/src/io/stream/hashstream.c) over a compression    *)
(* function that is left open: a digest is known by the blocks that were   *)
(* compressed.  A byte is a set of marks and exclusive or their symmetric  *)
(* difference, so that the padding and the keys can be told apart.         *)
(***************************************************************************)
EXTENDS Integers, Sequences

CONSTANTS
  BlockSize,   \* the bytes of a block: 64 in the code
  LengthAt,    \* where the length stands in the last block: 56 in the code
  DigestSize,  \* the bytes of a digest: 32 in the code
  MaxMessage   \* bound: the bytes of a message, and of a key

VARIABLES
  hasher,      \* the blocks compressed so far, the bytes in the buffer, the bits compressed
  use,         \* what it is used for: a stream, an HMAC, or nothing before the next init
  pad,         \* k_pad of the HMAC
  key,         \* how many bytes its key had
  fed,         \* how many bytes of a message were written since the start
  digest       \* the digest the last call gave, and of what it is one

vars == <<hasher, use, pad, key, fed, digest>>

Xor(a, b) == (a \ b) \cup (b \ a)
Zero == {}
Named(name, n) == [i \in 1..n |-> {<<name, i>>}]
Zeros(n) == [i \in 1..n |-> Zero]
LengthField(bits) == [i \in 1..BlockSize - LengthAt |-> {<<"length", bits, i>>}]
DigestOf(blocks) == [i \in 1..DigestSize |-> {<<"digest", blocks, i>>}]

-----------------------------------------------------------------------------
\* vial_sha256_init
Fresh == [blocks |-> <<>>, buffer |-> <<>>, bits |-> 0]

\* sha256_compress, with the bits it adds to the length.
Compressed(h, block, bits) == [h EXCEPT !.blocks = Append(@, block), !.bits = @ + bits, !.buffer = <<>>]

Chunk(s, i) == SubSeq(s, (i - 1) * BlockSize + 1, i * BlockSize)
Chunks(s) == [i \in 1..Len(s) \div BlockSize |-> Chunk(s, i)]
Rest(s) == SubSeq(s, (Len(s) \div BlockSize) * BlockSize + 1, Len(s))
From(s, n) == SubSeq(s, n + 1, Len(s))

\* Whole blocks are compressed where they are; what is left goes to the empty buffer.
Direct(h, in) ==
  [h EXCEPT !.blocks = @ \o Chunks(in), !.bits = @ + 8 * BlockSize * Len(Chunks(in)), !.buffer = @ \o Rest(in)]

\* Mutant: also when the buffer is not empty.
UpdateDirect(h, in) ==
  LET room == BlockSize - Len(h.buffer)
      filled == h.buffer \o SubSeq(in, 1, IF Len(in) < room THEN Len(in) ELSE room)
  IN IF h.buffer = <<>> \/ Len(in) >= BlockSize THEN Direct(h, in)
     ELSE IF Len(filled) < BlockSize THEN [h EXCEPT !.buffer = filled]
     ELSE Direct(Compressed(h, filled, 8 * BlockSize), From(in, room))

\* vial_sha256_update: a buffer that is not empty is filled first.
update(h, in) ==
  LET room == BlockSize - Len(h.buffer)
      filled == h.buffer \o SubSeq(in, 1, IF Len(in) < room THEN Len(in) ELSE room)
  IN IF h.buffer = <<>> THEN Direct(h, in)
     ELSE IF Len(filled) < BlockSize THEN [h EXCEPT !.buffer = filled]
     ELSE Direct(Compressed(h, filled, 8 * BlockSize), From(in, room))

\* vial_sha256_done: the end mark, a block more when the length does not fit behind it, zeros and
\* the length.
done(h) ==
  LET bits == h.bits + 8 * Len(h.buffer)
      ended == [h EXCEPT !.buffer = Append(@, {<<"end">>}), !.bits = bits]
      n == Len(ended.buffer)
      fits == IF n <= LengthAt THEN ended
              ELSE Compressed(ended, ended.buffer \o Zeros(BlockSize - n), 0)
      filled == fits.buffer \o Zeros(LengthAt - Len(fits.buffer))
      last == Compressed(fits, filled \o LengthField(bits), 0)
  IN [hasher |-> [last EXCEPT !.buffer = filled], out |-> DigestOf(last.blocks)]

\* vial_sha256_hash
hash(in) == done(update(Fresh, in)).out

-----------------------------------------------------------------------------
Init ==
  /\ hasher = Fresh
  /\ use = "none" /\ pad = <<>> /\ key = 0
  /\ fed = 0
  /\ digest = [kind |-> "none", key |-> 0, fed |-> 0, out |-> <<>>]

GivesNone == digest' = [kind |-> "none", key |-> 0, fed |-> 0, out |-> <<>>]
Gives(kind, out) == digest' = [kind |-> kind, key |-> key, fed |-> fed, out |-> out]

\* vial_hashstream_init
StreamInit ==
  /\ use' = "stream" /\ hasher' = Fresh /\ fed' = 0
  /\ pad' = <<>> /\ key' = 0
  /\ GivesNone

\* impl_write of the stream, vial_hmac_sha256_update: the next n bytes of the message.
Write(n) ==
  /\ use # "none" /\ fed + n <= MaxMessage
  /\ hasher' = update(hasher, From(Named("byte", fed + n), fed))
  /\ fed' = fed + n
  /\ GivesNone
  /\ UNCHANGED <<use, pad, key>>

\* vial_hashstream_sha256 starts a new message.
StreamSha256 ==
  /\ use = "stream"
  /\ Gives("sha256", done(hasher).out)
  /\ hasher' = Fresh /\ fed' = 0
  /\ UNCHANGED <<use, pad, key>>

\* vial_hashstream_sha256d: the digest of the digest.
StreamSha256d ==
  /\ use = "stream"
  /\ Gives("sha256d", hash(done(hasher).out))
  /\ hasher' = Fresh /\ fed' = 0
  /\ UNCHANGED <<use, pad, key>>

XorAll(s, mark) == [i \in 1..Len(s) |-> Xor(s[i], {<<mark>>})]

\* vial_hmac_sha256_init: a key longer than a block is hashed.
MacInit(n) ==
  LET given == Named("key", n)
      short == IF n > BlockSize THEN hash(given) ELSE given
      inner == XorAll(short \o Zeros(BlockSize - Len(short)), "ipad")
  IN /\ hasher' = update(Fresh, inner)
     /\ pad' = XorAll(XorAll(inner, "ipad"), "opad")
     /\ use' = "mac" /\ key' = n /\ fed' = 0
     /\ GivesNone

\* vial_hmac_sha256_done; the hasher may not be used before the next init.
MacDone ==
  /\ use = "mac"
  /\ LET outer == update(update(Fresh, pad), done(hasher).out)
     IN Gives("hmac", done(outer).out) /\ hasher' = done(outer).hasher
  /\ use' = "none"
  /\ UNCHANGED <<pad, key, fed>>

Next ==
  \/ StreamInit \/ StreamSha256 \/ StreamSha256d \/ MacDone
  \/ \E n \in 0..MaxMessage : Write(n) \/ MacInit(n)

-----------------------------------------------------------------------------
\* The digest of a message that is there at once: padded as a whole, then cut into blocks.
Hash(message) ==
  LET gap == CHOOSE z \in 0..BlockSize - 1 : (Len(message) + 1 + z) % BlockSize = LengthAt
  IN DigestOf(Chunks(message \o <<{<<"end">>}>> \o Zeros(gap) \o LengthField(8 * Len(message))))

Mac(n, message) ==
  LET short == IF n > BlockSize THEN Hash(Named("key", n)) ELSE Named("key", n)
      whole == short \o Zeros(BlockSize - Len(short))
  IN Hash(XorAll(whole, "opad") \o Hash(XorAll(whole, "ipad") \o message))

\* However a message is cut into writes, and whatever the hasher was used for before, a digest is
\* that of the whole message: SHA-256, twice SHA-256, or HMAC with the key.
DigestOfMessage ==
  LET message == Named("byte", digest.fed)
  IN CASE digest.kind = "sha256" -> digest.out = Hash(message)
       [] digest.kind = "sha256d" -> digest.out = Hash(Hash(message))
       [] digest.kind = "hmac" -> digest.out = Mac(digest.key, message)
       [] OTHER -> TRUE
=============================================================================
