------------------------------- MODULE Units -------------------------------
(***************************************************************************)
(* Components that do not interact, in one specification: unit, chosen at  *)
(* the start, says which of them moves.                                    *)
(***************************************************************************)
EXTENDS Integers, Sequences, FiniteSets, Encodings

CONSTANTS
  Unit,                                          \* the components
  Sock, Program, Closed, MaxFd, MaxLost,         \* of SocketTable
  MaxFile, Word,                                 \* of FileStream
  StreamBlocks, StreamBlock, MaxMove,            \* of KeyStream
  HashBlock, LengthAt, DigestSize, MaxMessage,   \* of Sha256
  CipherBlock, MaxText,                          \* of Cipher
  Item, Uninit, MaxSize, MaxRun,                 \* of Vector
  Char, Byte, CodePoint, Key,                    \* what the inputs of the operators consist of
  MaxInput                                       \* bound: the length of an input of an operator

ASSUME SocketsAssumption == Closed \notin Sock /\ IsFiniteSet(Sock) /\ MaxFd \in Nat
ASSUME FileAssumption == MaxFile \in Nat /\ Word \in Nat \ {0}
ASSUME RandomAssumption == StreamBlocks \in Nat \ {0} /\ StreamBlock \in Nat \ {0} /\ MaxMove \in Nat
ASSUME HasherAssumption ==
  HashBlock \in Nat \ {0} /\ LengthAt \in 0..HashBlock - 1 /\ DigestSize \in 0..HashBlock /\ MaxMessage \in Nat
ASSUME AesAssumption == CipherBlock \in Nat \ {0} /\ MaxText \in Nat
ASSUME ItemsAssumption == MaxSize \in Nat /\ MaxRun \in Nat
ASSUME InputsAssumption ==
  /\ Char \subseteq 0..255 /\ Byte \subseteq 0..255 /\ Key \subseteq Int
  /\ \A code \in CodePoint : code \in Nat /\ code < 1114112

VARIABLES
  unit,
  file, sock, call, error, heap, robbed, last,
  pointer, opened, position, length, outcome,
  counter, bytes, used, at, result,
  hasher, use, pad, key, fed, digest,
  mode, size, blklen, encIv, decIv, sent, wire, got,
  values, count, capacity, edit,
  input

socketVars == <<file, sock, call, error, heap, robbed, last>>
fileVars == <<pointer, opened, position, length, outcome>>
streamVars == <<counter, bytes, used, at, result>>
hashVars == <<hasher, use, pad, key, fed, digest>>
cipherVars == <<mode, size, blklen, encIv, decIv, sent, wire, got>>
vectorVars == <<values, count, capacity, edit>>

Sockets == INSTANCE SocketTable
File == INSTANCE FileStream WITH MaxLength <- MaxFile
Random == INSTANCE KeyStream WITH Blocks <- StreamBlocks, BlockSize <- StreamBlock
Hasher == INSTANCE Sha256 WITH BlockSize <- HashBlock
Aes == INSTANCE Cipher WITH BlockSize <- CipherBlock, MaxLength <- MaxText, length <- size
Items == INSTANCE Vector WITH size <- count, call <- edit
Base == INSTANCE BaseEncoding
Sort == INSTANCE MergeSort

\* What the inputs of the pure operators consist of.
Alphabet(u) ==
  CASE u = "base" -> Char
    [] u = "utf8" -> Byte
    [] u = "codes" -> CodePoint
    [] u = "sort" -> Key
    [] OTHER -> {}

Init ==
  /\ unit \in Unit
  /\ Sockets!Init /\ File!Init /\ Random!Init /\ Hasher!Init /\ Items!Init
  /\ IF unit = "cipher" THEN Aes!Init
     ELSE /\ mode = "none" /\ size = 0 /\ blklen = 0 /\ encIv = {} /\ decIv = {}
          /\ sent = 0 /\ wire = <<>> /\ got = <<>>
  /\ input = <<>>

Moves(u, vars) == unit = u /\ UNCHANGED vars

Next ==
  /\ UNCHANGED unit
  /\ \/ Moves("sockets", <<fileVars, streamVars, hashVars, cipherVars, vectorVars, input>>) /\ Sockets!Next
     \/ Moves("file", <<socketVars, streamVars, hashVars, cipherVars, vectorVars, input>>) /\ File!Next
     \/ Moves("random", <<socketVars, fileVars, hashVars, cipherVars, vectorVars, input>>) /\ Random!Next
     \/ Moves("hash", <<socketVars, fileVars, streamVars, cipherVars, vectorVars, input>>) /\ Hasher!Next
     \/ Moves("cipher", <<socketVars, fileVars, streamVars, hashVars, vectorVars, input>>) /\ Aes!Next
     \/ Moves("vector", <<socketVars, fileVars, streamVars, hashVars, cipherVars, input>>) /\ Items!Next
     \/ /\ Len(input) < (IF unit = "sort" THEN MaxInput + 2 ELSE MaxInput)
        /\ \E x \in Alphabet(unit) : input' = Append(input, x)
        /\ UNCHANGED <<socketVars, fileVars, streamVars, hashVars, cipherVars, vectorVars>>

Spec == Init /\ [][Next]_<<unit, socketVars, fileVars, streamVars, hashVars, cipherVars, vectorVars, input>>

-----------------------------------------------------------------------------
\* The sockets: each closes its own descriptor, but for descriptor 0 (SocketTable).
ClosesItsOwn == Sockets!ClosesItsOwn

\* The sockets lose descriptors, lists and errors in the named places only (SocketTable).
LosesOnlyThere == Sockets!LosesOnlyThere

\* The stream over a file uses it while it is open and moves it as its calls say (FileStream).
KeepsToItsFile == File!KeepsToItsFile

\* The random stream reads the key stream without gaps and repetitions (KeyStream).
ReadsOn == Random!ReadsOn

\* Vectors edit their items, but for items of their own behind the place of an insert (Vector).
EditsItems == Items!EditsItems

\* Digests are those of the whole message (Sha256).
DigestOfMessage == Hasher!DigestOfMessage

\* Decryption inverts encryption, and what the padding needs for that (Cipher).
CipherInverts == unit = "cipher" => Aes!CipherInverts

\* Decoding inverts encoding in every base, and reads other texts as their digits (BaseEncoding).
BaseInverts == unit = "base" => Base!InvertsBases(input)

\* Decoding inverts encoding in UTF-8 and UTF-16, and accepts what has their structure (Unicode).
UnicodeInverts ==
  /\ unit = "utf8" => Codes!DecodesUtf8(input)
  /\ unit = "codes" => Codes!InvertsCodes(input)

\* Merge sort sorts and is stable (MergeSort).
SortIsStable == unit = "sort" => Sort!SortsStably(input)
=============================================================================
