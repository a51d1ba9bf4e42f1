------------------------------ MODULE Unicode ------------------------------
(***************************************************************************)
(* UTF-8 and UTF-16 (src/include/vial/encoding/unicode.h and               *)
(* src/src/encoding/unicode.c): the decoders take a unit at a time and     *)
(* keep a state, the error, and the code so far.                           *)
(***************************************************************************)
EXTENDS Integers, Sequences, Functions

\* low | (high * unit), for a unit that is a power of two and a low below 64 units.
Or(low, high, unit) ==
  (low % unit)
  + unit * (high + SumFunction([b \in {1, 2, 4, 8, 16, 32} |->
                      IF (low \div (b * unit)) % 2 = 1 /\ (high \div b) % 2 = 0 THEN b ELSE 0]))

\* The state of a decoder, the code the caller keeps, and the codes that were complete.
Fresh == [state |-> 0, error |-> FALSE, code |-> 0, codes |-> <<>>]

\* vial_utf8_transitions: the mask of the bits a byte carries, as how many there are, and the
\* next state: how many bytes are expected, plus 3.
Lead(in) == IF in < 128 THEN 0 ELSE IF in \in 192..223 THEN 1 ELSE IF in \in 224..239 THEN 2
            ELSE IF in \in 240..247 THEN 3 ELSE -1
Values(lead) == IF lead = 0 THEN 128 ELSE 2^(6 - lead)
transition(in, state) ==
  IF state = 0 /\ Lead(in) >= 0
  THEN [ok |-> TRUE, values |-> Values(Lead(in)),
        state |-> IF Lead(in) = 0 THEN 0 ELSE Lead(in) + 3]
  ELSE IF state > 3 /\ in \in 128..191
  THEN [ok |-> TRUE, values |-> 64, state |-> IF state = 4 THEN 0 ELSE state - 1]
  ELSE [ok |-> FALSE, values |-> 8, state |-> 0]

\* vial_utf8_decode: after an error the top bit of the byte is kept with its low three, and the
\* decoder is ready for a new character.
utf8_decode(d, in) ==
  LET next == transition(in, d.state)
      bits == (in % next.values) + (IF ~next.ok /\ in >= 128 THEN 128 ELSE 0)
      code == IF d.state > 3 THEN Or(bits, d.code, 64) ELSE bits
  IN [state |-> next.state, error |-> d.error \/ ~next.ok, code |-> code,
      codes |-> IF next.state = 0 THEN Append(d.codes, code) ELSE d.codes]

\* vial_utf8_encode: the bytes that count; those behind them are scratch.
utf8_encode(code) ==
  LET offset == (IF code >= 128 THEN 1 ELSE 0) + (IF code >= 2048 THEN 1 ELSE 0)
                + (IF code >= 65536 THEN 1 ELSE 0)
      mask == 255 \div 2^(IF offset = 0 THEN 0 ELSE offset + 2)
  IN <<(((255 - mask) * 2) % 256) + ((code \div 64^offset) % (mask + 1))>>
     \o [i \in 1..offset |-> 128 + ((code \div 64^(offset - i)) % 64)]

Sur1(in) == in \in 55296..56319
Sur2(in) == in \in 56320..57343

\* Mutant: a second surrogate that comes first is no error.
Utf16Lenient(d, in) ==
  LET bits == IF Sur1(in) \/ Sur2(in) THEN in % 1024 ELSE in
      code == IF d.state = 1 THEN Or(bits, d.code, 1024) + 65536 ELSE bits
      state == IF Sur1(in) /\ d.state = 0 THEN 1 ELSE 0
  IN [state |-> state, error |-> d.error \/ (d.state = 1 /\ ~Sur2(in)), code |-> code,
      codes |-> IF state = 0 THEN Append(d.codes, code) ELSE d.codes]

\* vial_utf16_decode
utf16_decode(d, in) ==
  LET bits == IF Sur1(in) \/ Sur2(in) THEN in % 1024 ELSE in
      code == IF d.state = 1 THEN Or(bits, d.code, 1024) + 65536 ELSE bits
      state == IF Sur1(in) /\ d.state = 0 THEN 1 ELSE 0
  IN [state |-> state, error |-> d.error \/ (d.state = 1 /\ ~Sur2(in)) \/ (d.state = 0 /\ Sur2(in)),
      code |-> code, codes |-> IF state = 0 THEN Append(d.codes, code) ELSE d.codes]

\* vial_utf16_encode
utf16_encode(code) ==
  IF code < 65536 THEN <<code>>
  ELSE <<55296 + (((code - 65536) \div 1024) % 1024), 56320 + ((code - 65536) % 1024)>>

\* The loops of a client over a text, and over the characters it writes.
Utf8(bytes) ==
  LET decoded[i \in 0..Len(bytes)] == IF i = 0 THEN Fresh ELSE utf8_decode(decoded[i - 1], bytes[i])
  IN decoded[Len(bytes)]
Utf16(units) ==
  LET decoded[i \in 0..Len(units)] == IF i = 0 THEN Fresh ELSE utf16_decode(decoded[i - 1], units[i])
  IN decoded[Len(units)]
Written8(codes) ==
  LET written[i \in 0..Len(codes)] == IF i = 0 THEN <<>> ELSE written[i - 1] \o utf8_encode(codes[i])
  IN written[Len(codes)]
Written16(codes) ==
  LET written[i \in 0..Len(codes)] == IF i = 0 THEN <<>> ELSE written[i - 1] \o utf16_encode(codes[i])
  IN written[Len(codes)]

-----------------------------------------------------------------------------
Clean(d) == ~d.error /\ d.state = 0

\* The places where a character of UTF-8 starts; bytes that are well formed have behind each of
\* them the continuation bytes it announces, and no others.
Starts(bytes) == {i \in 1..Len(bytes) : Lead(bytes[i]) >= 0}
Covered(bytes, i) == i..i + Lead(bytes[i])
WellFormed8(bytes) ==
  /\ \A i \in Starts(bytes) :
       \A j \in Covered(bytes, i) \ {i} : j <= Len(bytes) /\ bytes[j] \in 128..191
  /\ UNION {Covered(bytes, i) : i \in Starts(bytes)} = 1..Len(bytes)

\* The number of the character that starts at i, and those of all characters in order.
CharAt(bytes, i) ==
  LET more(j) == bytes[i + j] % 64
  IN CASE Lead(bytes[i]) = 0 -> bytes[i] % 128
       [] Lead(bytes[i]) = 1 -> (bytes[i] % 32) * 64 + more(1)
       [] Lead(bytes[i]) = 2 -> (bytes[i] % 16) * 4096 + more(1) * 64 + more(2)
       [] Lead(bytes[i]) = 3 -> (bytes[i] % 8) * 262144 + more(1) * 4096 + more(2) * 64 + more(3)
Chars(bytes) ==
  LET chars[i \in 0..Len(bytes)] ==
        IF i = 0 THEN <<>>
        ELSE IF i \in Starts(bytes) THEN Append(chars[i - 1], CharAt(bytes, i)) ELSE chars[i - 1]
  IN chars[Len(bytes)]

WellFormed16(units) ==
  \A i \in 1..Len(units) :
    /\ Sur1(units[i]) => i < Len(units) /\ Sur2(units[i + 1])
    /\ Sur2(units[i]) => i > 1 /\ Sur1(units[i - 1])

\* The decoder of UTF-8 reports no error and is between characters if and only if the bytes have
\* the structure of UTF-8 (overlong forms and numbers out of range included); then the codes are
\* those of the characters.
DecodesUtf8(bytes) ==
  /\ Clean(Utf8(bytes)) <=> WellFormed8(bytes)
  /\ WellFormed8(bytes) => Utf8(bytes).codes = Chars(bytes)

\* Encoding codes and decoding them again gives the same codes, in UTF-16 if none is a surrogate;
\* the decoder of UTF-16 accepts exactly the units whose surrogates come in pairs.
InvertsCodes(codes) ==
  /\ Clean(Utf8(Written8(codes))) /\ Utf8(Written8(codes)).codes = codes
  /\ (\A i \in 1..Len(codes) : ~Sur1(codes[i]) /\ ~Sur2(codes[i])) =>
       Clean(Utf16(Written16(codes))) /\ Utf16(Written16(codes)).codes = codes
  /\ (\A i \in 1..Len(codes) : codes[i] < 65536) => (Clean(Utf16(codes)) <=> WellFormed16(codes))
=============================================================================
