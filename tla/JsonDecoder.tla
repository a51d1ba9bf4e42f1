----------------------------- MODULE JsonDecoder -----------------------------
(***************************************************************************)
(* What the decoder of JSON promises: the language it accepts with the     *)
(* meaning of its texts, and that the encoder is its inverse.              *)
(***************************************************************************)
EXTENDS JsonParser

-----------------------------------------------------------------------------
\* The language, defined by taking texts apart at every place.

Uncomma(s) == IF s # <<>> /\ Head(s) = <<",">> THEN Tail(s) ELSE s

\* The values, items and members that a text denotes at a level: at most one.
RECURSIVE Values(_, _), Items(_, _), Members(_, _, _)
Values(s, level) ==
  LET n == Len(s)
      inner == SubSeq(s, 2, n - 1)
  IN IF n = 0 \/ level > MaxLevel THEN {}
     ELSE CASE n = 1 /\ s[1][1] = "scalar" -> {s[1]} \cap {<<"scalar", x>> : x \in Literal}
            [] n = 1 /\ s[1][1] = "string" -> {<<"string", parse_string(s[1])>>} \ {<<"string", NULL>>}
            [] n > 1 /\ s[1] = <<"[">> /\ s[n] = <<"]">> ->
                 {<<"array", items>> : items \in Items(inner, level + 1)}
            [] n > 1 /\ s[1] = <<"{">> /\ s[n] = <<"}">> ->
                 {<<"object", map>> : map \in Members(inner, level + 1, <<>>)}
            [] OTHER -> {}
Items(s, level) ==
  IF s = <<>> THEN {<<>>}
  ELSE UNION {UNION {{<<v>> \o rest : rest \in Items(Uncomma(SubSeq(s, i + 1, Len(s))), level)}
                     : v \in Values(SubSeq(s, 1, i), level)}
              : i \in 1..Len(s)}
Members(s, level, map) ==
  IF s = <<>> THEN {map}
  ELSE IF Len(s) < 3 \/ s[2] # <<":">> \/ parse_string(s[1]) = NULL THEN {}
  ELSE LET key == parse_string(s[1])
       IN UNION {UNION {Members(Uncomma(SubSeq(s, i + 1, Len(s))), level,
                                [k \in DOMAIN map \cup {key} |-> IF k = key THEN v ELSE map[k]])
                        : v \in Values(SubSeq(s, 3, i), level)}
                 : i \in 3..Len(s)}

\* What would close the brackets a text has opened.
Closers(s) ==
  FoldLeft(LAMBDA brackets, t :
             IF t = <<"[">> THEN <<<<"]">>>> \o brackets
             ELSE IF t = <<"{">> THEN <<<<"}">>>> \o brackets
             ELSE IF t \in {<<"]">>, <<"}">>} /\ brackets # <<>> THEN Tail(brackets)
             ELSE brackets,
           <<>>, s)

\* A text that more text can complete: by closing it, after a value or a colon and a value.
CanGoOn(s) ==
  LET value == <<"scalar", CHOOSE x \in Literal : TRUE>>
  IN \E pending \in {<<>>, <<value>>, <<<<":">>, value>>} :
       Values(s \o pending \o Closers(s), 0) # {}

\* The decoder accepts the texts of the language, with commas optional after an item, keys that
\* occur twice and at most MaxLevel levels, as the values they denote, and rejects a text only
\* at a token after which nothing could complete it.
DecodesAsMeant ==
  /\ phase = "done" => Values(text, 0) = {result}
  /\ phase = "failed" => ~CanGoOn(text)

\* A value with its numbers as they are printed.
RECURSIVE Rounded(_)
Rounded(v) ==
  CASE v[1] = "scalar" -> <<"scalar", Printed[v[2]]>>
    [] v[1] = "array" -> <<"array", [i \in 1..Len(v[2]) |-> Rounded(v[2][i])]>>
    [] v[1] = "object" -> <<"object", [k \in DOMAIN v[2] |-> Rounded(v[2][k])]>>
    [] OTHER -> v

\* Whatever was decoded, its encoding decodes to the same value but for the digits of numbers,
\* unless it has a number that is printed as something that is none.
EncodingDecodes ==
  script # <<>> =>
    /\ phase = "done" => result = Rounded(first)
    /\ phase \in {"value_failed", "key_failed", "failed"} => ~IsLiteral(Last(text)) /\ Last(text)[1] = "scalar"
    /\ text = script => phase \in {"done", "value_failed", "failed"}
=============================================================================
