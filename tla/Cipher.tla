------------------------------- MODULE Cipher -------------------------------
(***************************************************************************)
(* The modes of AES (src/src/crypto/aes.c) over a block cipher of which    *)
(* only the inverse is known, and the padding (pkcs7_pad.c).  One context  *)
(* encrypts a message call by call, another decrypts what comes out, in    *)
(* calls of other sizes.  A block is a set of marks and exclusive or their *)
(* symmetric difference.                                                   *)
(***************************************************************************)
EXTENDS Integers, Sequences

CONSTANTS
  BlockSize,   \* the bytes of a block: 16 in the code
  MaxLength    \* bound: the bytes of a message

VARIABLES
  mode,        \* of both contexts
  length,      \* how many bytes the message has
  blklen,      \* the length the client passes to the padding
  encIv,       \* the chaining vector of the context that encrypts
  decIv,       \* and of the one that decrypts
  sent,        \* how many blocks were encrypted
  wire,        \* the encrypted blocks that were not decrypted yet
  got          \* the blocks that were decrypted

vars == <<mode, length, blklen, encIv, decIv, sent, wire, got>>

Xor(a, b) == (a \ b) \cup (b \ a)
Plain(i) == {<<"plain", i>>}
Vector == {<<"vector", 0>>}

\* aes_encrypt and aes_decrypt, each the inverse of the other.
E(b) == IF \E x \in b : b = {x} /\ x[1] = "D" THEN (CHOOSE x \in b : TRUE)[2] ELSE {<<"E", b>>}
D(b) == IF \E x \in b : b = {x} /\ x[1] = "E" THEN (CHOOSE x \in b : TRUE)[2] ELSE {<<"D", b>>}

Modes == {"ECB", "CBC", "CFB"}

-----------------------------------------------------------------------------
\* One turn of a loop: from the cell src of the memory to the cell dst, which may be the same.
\* vial_aes_encrypt
EncryptBlock(iv, memory, src, dst) ==
  LET blk == CASE mode = "ECB" -> E(memory[src])
               [] mode = "CBC" -> E(Xor(memory[src], iv))
               [] mode = "CFB" -> Xor(E(iv), memory[src])
  IN [iv |-> IF mode = "ECB" THEN iv ELSE blk, memory |-> [memory EXCEPT ![dst] = blk]]

\* Mutant: the block is stored before the next chaining vector is read.
DecryptStoresFirst(iv, memory, src, dst) ==
  LET blk == CASE mode = "ECB" -> D(memory[src])
               [] mode = "CBC" -> Xor(D(memory[src]), iv)
               [] mode = "CFB" -> Xor(E(iv), memory[src])
      stored == [memory EXCEPT ![dst] = blk]
  IN [iv |-> IF mode = "ECB" THEN iv ELSE stored[src], memory |-> stored]

\* vial_aes_decrypt: the encrypted block is read before its place may be overwritten.
DecryptBlock(iv, memory, src, dst) ==
  LET blk == CASE mode = "ECB" -> D(memory[src])
               [] mode = "CBC" -> Xor(D(memory[src]), iv)
               [] mode = "CFB" -> Xor(E(iv), memory[src])
  IN [iv |-> IF mode = "ECB" THEN iv ELSE memory[src], memory |-> [memory EXCEPT ![dst] = blk]]

\* A loop over n blocks: of 2n cells the first n hold the source; in place they are the
\* destination as well.
Loop(Turn(_, _, _, _), iv, blocks, inPlace) ==
  LET n == Len(blocks)
      dst(i) == IF inPlace THEN i ELSE n + i
      turns[i \in 0..n] ==
        IF i = 0 THEN [iv |-> iv, memory |-> [c \in 1..2 * n |-> IF c <= n THEN blocks[c] ELSE {}]]
        ELSE LET before == turns[i - 1] IN Turn(before.iv, before.memory, i, dst(i))
  IN [iv |-> turns[n].iv, blocks |-> [i \in 1..n |-> turns[n].memory[dst(i)]]]

-----------------------------------------------------------------------------
\* vial_pkcs7_pad: how many bytes it adds, each with that number as its value.  What is done is
\* to the length that is passed, not to that of the message.
Padding == BlockSize - (blklen % BlockSize)
Padded == length + Padding

\* The loops leave out a rest that is shorter than a block.
Blocks == Padded \div BlockSize

\* vial_aes_init of both, with the same key and the same vector.
Init ==
  /\ mode \in Modes
  /\ length \in 0..MaxLength /\ blklen \in 0..BlockSize
  /\ encIv = Vector /\ decIv = Vector
  /\ sent = 0 /\ wire = <<>> /\ got = <<>>

Encrypt(n, inPlace) ==
  LET out == Loop(EncryptBlock, encIv, [i \in 1..n |-> Plain(sent + i)], inPlace)
  IN /\ sent + n <= Blocks
     /\ encIv' = out.iv
     /\ wire' = wire \o out.blocks
     /\ sent' = sent + n
     /\ UNCHANGED <<mode, length, blklen, decIv, got>>

Decrypt(n, inPlace) ==
  LET out == Loop(DecryptBlock, decIv, SubSeq(wire, 1, n), inPlace)
  IN /\ n <= Len(wire)
     /\ decIv' = out.iv
     /\ wire' = SubSeq(wire, n + 1, Len(wire))
     /\ got' = got \o out.blocks
     /\ UNCHANGED <<mode, length, blklen, encIv, sent>>

Next ==
  \E n \in 1..MaxLength \div BlockSize + 1, inPlace \in BOOLEAN :
    Encrypt(n, inPlace) \/ Decrypt(n, inPlace)

-----------------------------------------------------------------------------
\* vial_pkcs7_size: what is left when the value of the last byte is taken off, which nothing checks.
\* That byte is of the padding, or, when the decrypted blocks end inside the message, of the
\* message: then it has any value.  (A difference below 0 is a huge size_t, no more the length.)
Unpadded(byte) ==
  Len(got) * BlockSize - (IF Len(got) * BlockSize > length THEN Padding ELSE byte)

\* What is decrypted is what was encrypted, in every mode, however the two sides cut it into calls,
\* and whether or not they work in place.  The message comes out again without its padding if and
\* only if the length passed for the padding was that of the message, up to whole blocks, or,
\* by chance, the message has whole blocks and its last byte, taken for the padding, is 0.
CipherInverts ==
  /\ got = [i \in 1..Len(got) |-> Plain(i)]
  /\ Len(got) = Blocks /\ Blocks > 0 =>
       \A byte \in 0..255 :
         Unpadded(byte) = length <=>
           (length - blklen) % BlockSize = 0 \/ (length % BlockSize = 0 /\ byte = 0)
=============================================================================
