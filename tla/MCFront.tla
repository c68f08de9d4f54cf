------------------------------ MODULE MCFront ------------------------------
(* Texts for the front end: every short sequence of the units of an alphabet,
   operator expressions with up to three operators, and a few longer programs *)
EXTENDS FrontEnd

Plain(s) == CASE s = "nl" -> <<"\n">> [] s = "in1" -> <<"\n", " ">> [] s = "in2" -> <<"\n", " ", " ">>
              [] s = "out" -> <<"\n", "\n">> [] s = "tab" -> <<"\t">> [] s = "${" -> <<"$", "{">>
              [] s = "\":" -> <<"\"", ":">> [] s = "---" -> <<"-", "-", "-">> [] s = "uu" -> <<"u1", "u2">>
              [] s = "**" -> <<"*", "*">> [] s = "==" -> <<"=", "=">> [] s = "|=" -> <<"|", "=">>
              [] s = ".." -> <<".", ".">> [] s = "in" -> <<"i", "n">> [] s = "and" -> <<"a", "n", "d">>
              [] s = "or" -> <<"o", "r">> [] s = "not" -> <<"n", "o", "t">> [] s = "fn" -> <<"f", "n">>
              [] s = "fnmatch" -> <<"f", "n", " ", "m", "a", "t", "c", "h">>
              [] s = "match" -> <<"m", "a", "t", "c", "h">> [] s = "type" -> <<"t", "y", "p", "e">>
              [] s = "union" -> <<"u", "n", "i", "o", "n">> [] s = "enum" -> <<"e", "n", "u", "m">>
              [] s = "try" -> <<"t", "r", "y">> [] s = "true" -> <<"t", "r", "u", "e">>
              [] s = "import" -> <<"i", "m", "p", "o", "r", "t">> [] s = "ink" -> <<"u1", "u2", "i", "n", "k">>
              [] s = "tok" -> <<"u1", "u2", "t", "o", "k">> [] s = "0x" -> <<"0", "x", "a">>
              [] s = "0b" -> <<"0", "b", "1">> [] s = "0o" -> <<"0", "o", "1", "8">> [] s = "1." -> <<"1", ".", "2">>
              [] s = "1e" -> <<"1", ".", "2", "e", "-", "1">> [] s = "1d" -> <<"1", "d", "-", "2">>
              [] s = "url" -> <<"'", "f", "i", "n", "k", "/", "b", "l", "o", "c", "k", "s", ".", "f", "n", "k", "'">>
              [] OTHER -> <<s>>
Text_(units) == FlattenSeq([k \in DOMAIN units |-> Plain(units[k])])
Spaced(units) == FlattenSeq([k \in DOMAIN units |-> Append(Plain(units[k]), " ")])
UpTo(alphabet, n) == UNION {[1..m -> alphabet] : m \in 0..n}

CONSTANTS TextLen, LayoutLen, BracketLen
LexTexts == {Text_(f) : f \in UpTo({"a", " ", "nl", "in1", "(", ")", "'", "${", "}", "uu", "\":"}, TextLen)}
Layouts == {Spaced(f) : f \in UpTo({"a", "nl", "in1", ",", ";", "fn", ":", "=", "|"}, LayoutLen)}
Brackets == {Text_(f) : f \in UpTo({"a", "[", "]", ",", "..", "-", "1", "nl", " "}, BracketLen)}

Operators == {"+", "*", "**", "==", "in", "or", "..", "-"}
Operands == {<<"a">>, <<"-", "a">>, <<"not", "a">>, <<"(", "a", "or", "a", ")">>, <<"a", ".", "a">>}
Expressions ==
  {Spaced(x \o <<o>> \o y \o <<p>> \o z) : x, y, z \in Operands, o, p \in Operators}
  \cup {Spaced(<<"a", o, "a", p, "a", q, "a">>) : o, p, q \in Operators \cup {"and"}}

Programs == {Text_(p) : p \in {
  <<"a", "=", "fn", " ", "x", ":", "in1", "x", "+", "1", "nl", "a", " ", "1">>,
  <<"fnmatch", " ", "a", ",", " ", "..", "b", ":", "in1", "1", ",", " ", "..", ":", " ", "b", "in1", "_", ":", "in2", "a">>,
  <<"match", " ", "a", " ", "b", ":", "in1", "[", "]", ":", " ", "1", "in1", "{", "a", ",", "b", ":", "c", "}", ":", " ", "c">>,
  <<"a", "nl", "|", " ", "b", " ", "c", "nl", "|", " ", "d">>,
  <<"a", " ", "b", "nl", "|=", " ", "{", "a", "}", "nl", "c">>,
  <<"{", "ink", ",", "tok", "}", "=", "import", " ", "url", "nl", "ink", " ", "a", ":", "in1", "b", "nl", "#", "c", "nl", "d">>,
  <<"{", "tok", "}", "=", "import", " ", "url", "nl", "x", "=", "tok", " ", "a", ":", " ", "b", "+", "nl", "d">>,
  <<"{", "ink", "}", "=", "import", " ", "url", "nl", "a", " ", "ink", ":", "in1", "b", "nl", "c">>,
  <<"(", "in1", "a", "in1", "b", " ", "c", "nl", ")", "nl", "d">>,
  <<"type", " ", "a", ":", "in1", "b", ":", " ", "c", "in1", "..", "d", "nl", "e", "=", "type", " ", "_">>,
  <<"union", ":", " ", "a", ",", "b", "nl", "enum", " ", "t", ":", "in1", "a", " ", "t">>,
  <<"try", " ", "a", " ", "b", "nl", "1", "a", "nl", "[", "1", "]", "a", "nl", "(", "a", ")", "b">>,
  <<"a", "'", "b", "${", "c", "}", "d", "'", "nl", "'", "a", "in1", "b", "'", "nl", "a", "\":", "in1", "b", "nl", "c">>,
  <<"---", "a", "nl", "b", "---", "nl", "a", " ", "---", "nl", "in1", "---", "b", "nl">>,
  <<"0x", "nl", "0b", "nl", "0o", "nl", "1.", "nl", "1e", "nl", "1d", "nl", "-", "1", "nl", "?", "tab">>,
  <<"a", "-", "b", " ", "a", "-", "nl", "a", "@", "true">>,
  <<"a", " ", "b", ",", "in1", "c", ",", "in1", "-", "d", "nl", "f">>,
  <<"a", " ", "b", " ", "c", ";", " ", "d", " ", "e", ";", " ", "f", "nl", "a", ".", "b", " ", "c", "=", "1">>,
  <<"a", " ", "not", " ", "in", " ", "b", " ", "in", " ", "c">>,
  <<"fn", " ", ",", " ", ",", "c", "=", "1", ",", " ", "..", "d", ":", " ", "c", ";", " ", "d">>,
  <<"a", "=", "in1", "b", "nl", "c", "=", "1">>,
  <<"'", "a", "\\", "'", "b", "'", "nl", "\":", "a", "\\", "$", "${", "b", "}", "in1", "c">>,
  <<"a", "\":", "\\", "nl">>, <<"'", "a", "\\", "nl", "b", "'", "c", "\\">>,
  <<"a", "in2", "\":", "${", "}", "in1", "b", "nl", "c">>, <<"in2", "\":", "b", "${", "c", "}", "nl", "in2", "d", "nl", "d">> }}

Texts == LexTexts \cup Layouts \cup Brackets \cup Expressions \cup Programs
Seps_ == {Plain(s) : s \in {"+", "-", "*", "**", "/", "==", "<", ".", "|", "|=", "=", ".."}} \cup {<<".", ".", ".">>}
=============================================================================
