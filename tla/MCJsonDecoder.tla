--------------------------- MODULE MCJsonDecoder ---------------------------
(***************************************************************************)
(* The instance of JsonDecoder for TLC.                                    *)
(***************************************************************************)
EXTENDS JsonDecoder

\* "%g" keeps six digits, and prints +nan as nan, which starts like null.
MCLiteral == {"1", "1.0000001", "+nan"}
MCPrinted == [x \in MCLiteral |-> IF x = "+nan" THEN "nan" ELSE "1"]

\* Two ways to write the same string, an escape, and one the decoder does not know.
MCQuoted == {<<"'">>, <<"\\", "'">>, <<"\\", "n">>, <<"\\", "u">>}
=============================================================================
