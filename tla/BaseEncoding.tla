---------------------------- MODULE BaseEncoding ----------------------------
(***************************************************************************)
(* Base 16 and base 64 (src/src/encoding/base_encoding.c).  Characters are *)
(* their ASCII codes, and a text ends before its NUL.                      *)
(***************************************************************************)
EXTENDS Integers, Sequences, SequencesExt

Min2(a, b) == IF a < b THEN a ELSE b

Bases == {16, -16, 64, -64}
NUL == 0
Equals == 61
Rejected == <<-1>>

\* base64_alphabet: A-Z, a-z, 0-9, + and /.
base64_alphabet(d) ==
  CASE d < 26 -> 65 + d
    [] d \in 26..51 -> 97 + d - 26
    [] d \in 52..61 -> 48 + d - 52
    [] d = 62 -> 43
    [] d = 63 -> 47

\* Upper case for base 16, lower case for -16.
base16_digit(d, base) == d + (IF d < 10 THEN 48 ELSE IF base = 16 THEN 55 ELSE 87)

\* The d-th last group of 6 bits.
Digit64(val, d) == base64_alphabet((val \div 64^d) % 64)

\* The value of three bytes, or of the two or one at the end, whose bits are filled up with
\* zeros on the right.
Joined(bytes) ==
  CASE Len(bytes) = 3 -> bytes[1] * 65536 + bytes[2] * 256 + bytes[3]
    [] Len(bytes) = 2 -> (bytes[1] * 256 + bytes[2]) * 4
    [] Len(bytes) = 1 -> bytes[1] * 16
Group64(bytes, padded) ==
  LET n == Len(bytes)
  IN [i \in 1..n + 1 |-> Digit64(Joined(bytes), n + 1 - i)]
     \o [i \in 1..IF padded THEN 3 - n ELSE 0 |-> Equals]

\* vial_base_encode
base_encode(src, base) ==
  IF base \in {16, -16}
  THEN [i \in 1..2 * Len(src) |->
         base16_digit(IF i % 2 = 1 THEN src[(i + 1) \div 2] \div 16 ELSE src[i \div 2] % 16, base)]
  ELSE LET groups == (Len(src) + 2) \div 3
           group(g) == Group64(SubSeq(src, 3 * g - 2, Min2(3 * g, Len(src))), base = 64)
           count == IF groups = 0 THEN 0 ELSE 4 * (groups - 1) + Len(group(groups))
       IN [i \in 1..count |-> group((i + 3) \div 4)[1 + ((i - 1) % 4)]]

\* The value of a character, or -1.
Value16(c) ==
  CASE c \in 48..57 -> c - 48 [] c \in 65..70 -> c - 55 [] c \in 97..102 -> c - 87 [] OTHER -> -1
Value64(c) ==
  CASE c \in 65..90 -> c - 65 [] c \in 97..122 -> c - 97 + 26 [] c \in 48..57 -> c - 48 + 52
    [] c = 43 -> 62 [] c = 47 -> 63 [] OTHER -> -1

Progress(len, val, out) == [len |-> len, val |-> val, out |-> out, bad |-> FALSE]
Start == Progress(0, 0, <<>>)
Failed == [len |-> 0, val |-> 0, out |-> <<>>, bad |-> TRUE]

\* One turn of the loop of base 16.
Read16(r, c) ==
  IF r.bad \/ Value16(c) = -1 THEN Failed
  ELSE IF r.len % 2 = 0 THEN Progress(r.len + 1, Value16(c) * 16, r.out)
  ELSE Progress(r.len + 1, 0, Append(r.out, r.val + Value16(c)))

\* The three bytes of a value.
Bytes(val) == <<val \div 65536, (val \div 256) % 256, val % 256>>

\* One turn of the loop of base 64: the value keeps the digits of a group of four.
Read64(r, c) ==
  LET val == r.val + Value64(c)
  IN IF r.bad \/ Value64(c) = -1 THEN Failed
     ELSE IF (r.len + 1) % 4 # 0 THEN Progress(r.len + 1, val * 64, r.out)
     ELSE Progress(r.len + 1, 0, r.out \o Bytes(val))

\* The loops over a text.
Loop16(text) ==
  LET read[i \in 0..Len(text)] == IF i = 0 THEN Start ELSE Read16(read[i - 1], text[i])
  IN read[Len(text)]
Loop64(text) ==
  LET read[i \in 0..Len(text)] == IF i = 0 THEN Start ELSE Read64(read[i - 1], text[i])
  IN read[Len(text)]

\* Mutant: the bits of an incomplete group are shifted by a digit too few.
TailShort(r) ==
  CASE r.len % 4 = 3 -> r.out \o <<(r.val \div 16384) % 256, (r.val \div 64) % 256>>
    [] r.len % 4 = 2 -> Append(r.out, (r.val \div 1024) % 256)
    [] r.len % 4 = 1 -> Rejected
    [] OTHER -> r.out

\* The one or two bytes of an incomplete group; one digit alone is none.
Tail64(r) ==
  CASE r.len % 4 = 3 -> r.out \o <<(r.val \div 65536) % 256, (r.val \div 256) % 256>>
    [] r.len % 4 = 2 -> Append(r.out, (r.val \div 1024) % 256)
    [] r.len % 4 = 1 -> Rejected
    [] OTHER -> r.out

\* The text up to the first character of a set.
UpTo(text, ends) == SelectInSeq(text, LAMBDA c : c \in ends)
Before(text, ends) == IF UpTo(text, ends) = 0 THEN text ELSE SubSeq(text, 1, UpTo(text, ends) - 1)

\* vial_base_decode: in base 64 whatever follows the first = is ignored.
base_decode(text, base) ==
  IF base \in {16, -16}
  THEN LET r == Loop16(Before(text, {NUL}))
       IN IF r.bad \/ r.len % 2 = 1 THEN Rejected ELSE r.out
  ELSE LET r == Loop64(Before(text, {NUL, Equals}))
       IN IF r.bad THEN Rejected ELSE Tail64(r)

-----------------------------------------------------------------------------
\* The k-th bit of numbers of some width one after the other, and the eight bits behind the k-th.
Bit(numbers, width, k) ==
  (numbers[1 + ((k - 1) \div width)] \div 2^(width - 1 - ((k - 1) % width))) % 2
Octet(numbers, width, k) ==
  128 * Bit(numbers, width, k + 1) + 64 * Bit(numbers, width, k + 2)
  + 32 * Bit(numbers, width, k + 3) + 16 * Bit(numbers, width, k + 4)
  + 8 * Bit(numbers, width, k + 5) + 4 * Bit(numbers, width, k + 6)
  + 2 * Bit(numbers, width, k + 7) + Bit(numbers, width, k + 8)

\* Whole bytes; fewer bits than a number has may be left over.
Octets(numbers, width) ==
  LET bits == width * Len(numbers)
  IN IF (\E i \in 1..Len(numbers) : numbers[i] = -1) \/ bits % 8 >= width THEN Rejected
     ELSE [j \in 1..bits \div 8 |-> Octet(numbers, width, 8 * (j - 1))]

\* What a text means: the bits of its digits one after the other.
Meaning(text, base) ==
  IF base \in {16, -16}
  THEN LET t == Before(text, {NUL}) IN Octets([i \in 1..Len(t) |-> Value16(t[i])], 4)
  ELSE LET t == Before(text, {NUL, Equals}) IN Octets([i \in 1..Len(t) |-> Value64(t[i])], 6)

\* Encoding and decoding again gives the same bytes in every base; and a text of any characters
\* is decoded to the bytes its digits mean, or rejected when a character before its end is no
\* digit, or a digit is left over from whole bytes.
InvertsBases(input) ==
  \A base \in Bases :
    /\ base_decode(base_encode(input, base), base) = input
    /\ base_decode(input, base) = Meaning(input, base)
=============================================================================
