----------------------------- MODULE JsonParser -----------------------------
(***************************************************************************)
(* The decoder and the encoder of JSON (src/src/encoding/json.c).  The     *)
(* recursive descent is a machine that reads one token per step; the stack *)
(* (open) holds the calls of parse_value that are inside a container, so   *)
(* that its length is the level of the next value.  White space is skipped *)
(* around every token and left out.  The text is made up as it is read.    *)
(* When a text has been decoded, the encoding of the result may be decoded *)
(* too.                                                                    *)
(***************************************************************************)
EXTENDS Integers, Sequences, FiniteSets, SequencesExt

CONSTANTS
  Literal,    \* what the decoder takes for a number or for null, false, true
  Printed,    \* what "%g" prints for a scalar: rounded to six digits, perhaps no scalar ("nan")
  Quoted,     \* what may stand between quotes: sequences of characters
  MaxLevel,   \* the deepest level of a value: 1000 in the code
  MaxTokens,  \* bound: the tokens of a text
  MaxLength   \* bound: the items of an array

ASSUME LevelAssumption == MaxLevel \in Nat

VARIABLES
  text,       \* the tokens read so far
  script,     \* the text that is read, when it is an encoding; else empty
  phase,      \* where the innermost parse_value is
  open,       \* the containers that are open: their values so far, the key of the next value
  result,     \* the value of the last text decoded
  first,      \* the value whose encoding is decoded
  allocated   \* how many blocks are allocated

parserVars == <<text, script, phase, open, result, first, allocated>>

NULL == <<"NULL">>
Invalid == <<"invalid">>
Token ==
  {<<"[">>, <<"]">>, <<"{">>, <<"}">>, <<",">>, <<":">>, <<"end">>}
  \cup {<<"scalar", x>> : x \in Literal} \cup {<<"string", q>> : q \in Quoted}

-----------------------------------------------------------------------------
\* Strings.

Escape == [c \in {"\"", "'", "\\", "b", "f", "n", "r", "t"} |->
            CASE c = "b" -> "BS" [] c = "f" -> "\f" [] c = "n" -> "\n"
              [] c = "r" -> "\r" [] c = "t" -> "\t" [] OTHER -> c]
Control == {"BS", "\f", "\n", "\r", "\t", "SOH", "NUL"}

\* One character of a quoted string.
Unescape(read, c) ==
  IF read.escaped
  THEN [escaped |-> FALSE,
        chars |-> IF read.chars = NULL \/ c \notin DOMAIN Escape THEN NULL ELSE Append(read.chars, Escape[c])]
  ELSE [escaped |-> c = "\\",
        chars |-> IF c = "\\" \/ read.chars = NULL THEN read.chars
                  ELSE IF c \in Control THEN NULL ELSE Append(read.chars, c)]

parse_string(t) ==
  IF t[1] # "string" THEN NULL
  ELSE LET read == FoldLeft(Unescape, [escaped |-> FALSE, chars |-> <<>>], t[2])
       IN IF read.escaped THEN NULL ELSE read.chars

\* Mutant: a new line is written as it is.
AppendRaw(chars) ==
  <<"string", FlattenSeq([i \in 1..Len(chars) |->
      IF chars[i] = "\n" THEN <<chars[i]>>
      ELSE IF \E e \in DOMAIN Escape \ {"'"} : Escape[e] = chars[i]
      THEN <<"\\", CHOOSE e \in DOMAIN Escape : Escape[e] = chars[i]>>
      ELSE <<chars[i]>>])>>

append_string(chars) ==
  <<"string", FlattenSeq([i \in 1..Len(chars) |->
      IF \E e \in DOMAIN Escape \ {"'"} : Escape[e] = chars[i]
      THEN <<"\\", CHOOSE e \in DOMAIN Escape : Escape[e] = chars[i]>>
      ELSE <<chars[i]>>])>>

\* Commas between what is not empty.
Separated(pieces) ==
  FlattenSeq([i \in 1..Len(pieces) |-> IF i = 1 THEN pieces[i] ELSE <<<<",">>>> \o pieces[i]])

\* What is inside a container, and a value with all that is inside it, level by level.
Parts(v) == IF v[1] \in {"array", "object"} THEN {v[2][i] : i \in DOMAIN v[2]} ELSE {}
Inside(v) ==
  LET within[n \in 0..MaxLevel + 1] ==
        IF n = 0 THEN {v} ELSE within[n - 1] \cup UNION {Parts(w) : w \in within[n - 1]}
  IN within[MaxLevel + 1]

\* append_value: white space for the indentation is left out, and so is the order of an
\* object's keys, which are distinct.
append_value(value) ==
  LET append[v \in Inside(value)] ==
        CASE v[1] = "scalar" -> <<<<"scalar", Printed[v[2]]>>>>
          [] v[1] = "string" -> <<append_string(v[2])>>
          [] v[1] = "array" ->
               <<<<"[">>>> \o Separated([i \in 1..Len(v[2]) |-> append[v[2][i]]]) \o <<<<"]">>>>
          [] v[1] = "object" ->
               LET keys == SetToSeq(DOMAIN v[2])
               IN <<<<"{">>>>
                  \o Separated([i \in 1..Len(keys) |->
                       <<append_string(keys[i]), <<":">>>> \o append[v[2][keys[i]]]])
                  \o <<<<"}">>>>
          [] OTHER -> <<>>
  IN append[value]

-----------------------------------------------------------------------------
\* Values: what they allocate, and how a container takes one in.

\* The blocks of a value, when blocks says how many there are in each of its parts: its own,
\* those of its parts, and in an object those of the keys.
WithParts(blocks, v) ==
  CASE v[1] = "string" -> 1
    [] v[1] = "array" -> 1 + SumFunction([i \in DOMAIN v[2] |-> blocks[v[2][i]]])
    [] v[1] = "object" -> 1 + SumFunction([k \in DOMAIN v[2] |-> 1 + blocks[v[2][k]]])
    [] OTHER -> 0
Blocks(value) ==
  LET blocks[v \in Inside(value)] == WithParts(blocks, v)
  IN blocks[value]

Innermost == Last(open)
InArray(frame) == frame.value[1] = "array"

\* vial_json_push_move or vial_json_put_move
Stored(frame, v) ==
  LET old == frame.value[2]
  IN IF InArray(frame) THEN <<"array", Append(old, v)>>
     ELSE <<"object", [k \in DOMAIN old \cup {frame.key} |-> IF k = frame.key THEN v ELSE old[k]]>>

\* How many blocks it adds: the map copies a new key, and leaves the value and the key that
\* were there before; the decoder's own key is freed.
Growth(frame) ==
  IF ~InArray(frame) /\ frame.key \in DOMAIN frame.value[2]
  THEN -1 - Blocks(frame.value[2][frame.key]) ELSE 0

\* A value has been parsed in the container on top of below, or in none.
Complete(v, below, blocks) ==
  IF below = <<>>
  THEN /\ result' = v /\ phase' = "done" /\ open' = below
       /\ allocated' = allocated + blocks
  ELSE LET frame == Last(below)
       IN /\ open' = Append(Front(below), [value |-> Stored(frame, v), key |-> NULL])
          /\ phase' = "more"
          /\ allocated' = allocated + blocks + Growth(frame)
          /\ UNCHANGED result

-----------------------------------------------------------------------------
ParserInit ==
  /\ text = <<>> /\ script = <<>>
  /\ phase = "value"
  /\ open = <<>>
  /\ result = Invalid /\ first = Invalid
  /\ allocated = 0

\* The loop over the items of a container, where one comma may stand after an item.
InLoop == phase \in {"items", "more"}
Comma(t) == phase = "more" /\ t = <<",">>
Closes(t) == InLoop /\ t = IF InArray(Innermost) THEN <<"]">> ELSE <<"}">>

\* parse_value looks at t.
AtValue(t) == phase = "value" \/ (InLoop /\ InArray(Innermost) /\ ~Closes(t) /\ ~Comma(t))
AtKey(t) == InLoop /\ ~InArray(Innermost) /\ ~Closes(t) /\ ~Comma(t)

\* parse_number, and the words
IsLiteral(t) == t[1] = "scalar" /\ t[2] \in Literal

\* Mutant: off by one.
LevelTooFar == Len(open) <= MaxLevel + 1

\* if (level > 1000)
LevelAllows == Len(open) <= MaxLevel

ReadAtom(t) ==
  LET v == IF t[1] = "scalar" THEN t ELSE <<"string", parse_string(t)>>
  IN /\ AtValue(t) /\ LevelAllows
     /\ IsLiteral(t) \/ parse_string(t) # NULL
     /\ Complete(v, open, Blocks(v))

ReadOpen(t) ==
  /\ AtValue(t) /\ LevelAllows
  /\ t \in {<<"[">>, <<"{">>}
  /\ open' = Append(open, [value |-> <<IF t = <<"[">> THEN "array" ELSE "object", <<>>>>, key |-> NULL])
  /\ phase' = "items"
  /\ allocated' = allocated + 1
  /\ UNCHANGED result

ReadComma(t) ==
  /\ InLoop /\ Comma(t)
  /\ phase' = "items"
  /\ UNCHANGED <<open, result, allocated>>

ReadClose(t) ==
  /\ InLoop /\ Closes(t)
  /\ Complete(Innermost.value, Front(open), 0)

ReadKey(t) ==
  /\ AtKey(t) /\ parse_string(t) # NULL
  /\ open' = Append(Front(open), [Innermost EXCEPT !.key = parse_string(t)])
  /\ phase' = "colon"
  /\ allocated' = allocated + 1
  /\ UNCHANGED result

ReadColon(t) ==
  /\ phase = "colon" /\ t = <<":">>
  /\ phase' = "value"
  /\ UNCHANGED <<open, result, allocated>>

\* Mutant: the key is not freed when no colon follows.
NoColonKeeps(t) ==
  /\ phase = "colon" /\ t # <<":">>
  /\ open' = Append(Front(open), [Innermost EXCEPT !.key = NULL])
  /\ phase' = "key_failed"
  /\ UNCHANGED <<result, allocated>>

\* No colon after the key: the key is freed and the object left.
NoColon(t) ==
  /\ phase = "colon" /\ t # <<":">>
  /\ open' = Append(Front(open), [Innermost EXCEPT !.key = NULL])
  /\ phase' = "key_failed"
  /\ allocated' = allocated - 1
  /\ UNCHANGED result

\* A value that is too deep, or that is none, or a key that is none.
Refuse(t) ==
  /\ phase' = IF AtKey(t) THEN "key_failed" ELSE "value_failed"
  /\ \/ /\ AtValue(t)
        /\ \/ ~LevelAllows
           \/ t \notin {<<"[">>, <<"{">>} /\ parse_string(t) = NULL /\ ~IsLiteral(t)
     \/ AtKey(t) /\ parse_string(t) = NULL
  /\ UNCHANGED <<open, result, allocated>>

Read(t) ==
  /\ text' = Append(text, t)
  /\ InLoop /\ InArray(Innermost) /\ Len(Innermost.value[2]) = MaxLength => ~AtValue(t)
  /\ \/ ReadAtom(t) \/ ReadOpen(t) \/ ReadComma(t) \/ ReadClose(t)
     \/ ReadKey(t) \/ ReadColon(t) \/ NoColon(t) \/ Refuse(t)
  /\ UNCHANGED <<script, first>>

\* parse_error in the innermost container: an invalid item is stored first, unless there was
\* not even a key for it; then the container is left, and is itself an invalid item.
Unwind ==
  LET failed == phase = "value_failed"
      v == IF failed THEN Stored(Innermost, Invalid) ELSE Innermost.value
  IN /\ phase \in {"value_failed", "key_failed"} /\ open # <<>>
     /\ allocated' = allocated + (IF failed THEN Growth(Innermost) ELSE 0) - Blocks(v)
     /\ open' = Front(open)
     /\ phase' = "value_failed"
     /\ UNCHANGED <<text, script, result, first>>

\* vial_json_decode returns an invalid value.
Fail ==
  /\ phase = "value_failed" /\ open = <<>>
  /\ phase' = "failed" /\ result' = Invalid
  /\ UNCHANGED <<text, script, open, first, allocated>>

\* The client encodes a value it has decoded, leaves it and decodes the encoding.
Reencode ==
  /\ phase = "done" /\ script = <<>>
  /\ script' = append_value(result)
  /\ first' = result
  /\ allocated' = allocated - Blocks(result)
  /\ text' = <<>> /\ phase' = "value"
  /\ UNCHANGED <<open, result>>

ParserNext ==
  \/ IF script = <<>>
     THEN Len(text) < MaxTokens /\ \E t \in Token : Read(t)
     ELSE Len(text) < Len(script) /\ Read(script[Len(text) + 1])
  \/ Unwind \/ Fail \/ Reencode

ParserSpec == ParserInit /\ [][ParserNext]_parserVars

-----------------------------------------------------------------------------
\* What is allocated belongs to the containers that are open or to the result: whatever goes
\* wrong, nothing leaks and nothing is freed twice.
OwnsWhatItBuilt ==
  allocated = SumFunction([i \in 1..Len(open) |->
                             Blocks(open[i].value) + IF open[i].key = NULL THEN 0 ELSE 1])
              + IF phase = "done" THEN Blocks(result) ELSE 0
=============================================================================
