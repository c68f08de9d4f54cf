------------------------------- MODULE Lexer -------------------------------
(***************************************************************************)
(* The lexer of the compiler: a source text, byte by byte, to tokens that  *)
(* say where blocks of indented lines start, continue and end.  One action *)
(* per arm of next_token; a token the lexer has buffered is handed out     *)
(* before anything else is read.                                           *)
(*                                                                         *)
(* A byte is a one-character string; the two bytes of a character outside  *)
(* ASCII are "u1" and "u2".  An index is 0-based, as in the code.          *)
(***************************************************************************)
EXTENDS Integers, Sequences, SequencesExt, FiniteSets, FiniteSetsExt

CONSTANTS Sources,  \* the texts that may be lexed: sequences of bytes
          Seps      \* the operators the caller has registered: sequences of bytes

NoByte == ""   \* what stands for the end of the text
Space == " "
OpenBrace == "{"
CloseBrace == "}"
Quote == "\""
Byte == STRING \ {NoByte}
ASSUME SourcesAssumption == Sources \subseteq Seq(Byte)

VARIABLES src,      \* the text
          pos,      \* where the lexer stands: index, line, column in utf-16
          mode,     \* what encloses the position: blocks, brackets, strings
          ind,      \* the indentation of the enclosing blocks
          started,  \* the block of the whole text has been opened
          pending,  \* tokens made and not yet handed out
          toks,     \* the tokens handed out
          panicked  \* the lexer has indexed past the end of the text

lexVars == <<src, pos, mode, ind, started, pending, toks, panicked>>

Letters == {"a", "b", "c", "d", "e", "f", "g", "h", "i", "j", "k", "l", "m", "n", "o",
            "p", "q", "r", "s", "t", "u", "v", "w", "x", "y", "z", "$", "_"}
Digits == {"0", "1", "2", "3", "4", "5", "6", "7", "8", "9"}
DecDigits == Digits \cup {"_"}
OctDigits == {"0", "1", "2", "3", "4", "5", "6", "7", "_"}
BinDigits == {"0", "1", "_"}
Opening == {"(", "[", OpenBrace}
Closing == {")", "]", CloseBrace}
IdentBytes == Letters \cup Digits \cup {"u1", "u2"}
HexDigits == Digits \cup {"a", "b", "c", "d", "e", "f", "_"}

At(i) == IF i \in 0..(Len(src) - 1) THEN src[i + 1] ELSE NoByte
Text(i, j) == SubSeq(src, i + 1, j)
(* utf16_len: the second byte of a character adds nothing *)
Width(i, j) == Cardinality({k \in i..(j - 1) : At(k) # "u2"})

(* The end of the longest run of bytes of a class that starts at i *)
Run(i, class) == Min({j \in i..Len(src) : At(j) \notin class})
Spaces(i) == Run(i, {Space}) - i
(* The members of a set of indices, from the smallest to the largest *)
InOrder(S) == [n \in 1..Cardinality(S) |-> CHOOSE x \in S : Cardinality({y \in S : y <= x}) = n]

Top == Last(mode)
Block == [m |-> "Block"]
Bracket(open, depth) == [m |-> "Bracket", open |-> open, depth |-> depth]
StrText == [m |-> "StrText"]
StrExpr == [m |-> "StrExpr"]
StrBlock(floor) == [m |-> "StrBlock", floor |-> floor]

Pos(i, l, c) == [idx |-> i, line |-> l, col |-> c]
MovedBytes(p, j) == Pos(j, p.line, p.col + (j - p.idx))
Moved(p, j) == Pos(j, p.line, p.col + Width(p.idx, j))
NextLineOff(i, p, col) == Pos(i, p.line + 1, col - 1)
NextLine(i, p, col) == Pos(i, p.line + 1, col)
Token(kind, from, to) ==
  [kind |-> kind, start |-> from, end |-> to, text |-> Text(from.idx, to.idx)]
Mark(kind, p) == [kind |-> kind, start |-> p, end |-> p, text |-> <<>>]

LexInit ==
  /\ src \in Sources
  /\ pos = Pos(0, 1, 0)
  /\ mode = <<Block>>
  /\ ind = <<0, 0>>
  /\ started = FALSE
  /\ pending = <<>>
  /\ toks = <<>>
  /\ panicked = FALSE

Done == toks # <<>> /\ Last(toks).kind = "EOF"
Reading == started /\ pending = <<>> /\ ~panicked /\ ~Done
(* The arms of the match are reached outside string text, and behind the
   closing brace of an interpolation *)
InCode == Reading /\ Top.m \notin {"StrText", "StrBlock"}
                  /\ ~(Top.m = "StrExpr" /\ At(pos.idx) = CloseBrace)
Give(t) == toks' = Append(toks, t)
(* Consume up to j and hand the bytes out as one token *)
Consume(j, kind) ==
  /\ Give(Token(kind, pos, Moved(pos, j)))
  /\ pos' = Moved(pos, j)
Queue(ts) == /\ Give(Head(ts))
             /\ pending' = Tail(ts)

Drain ==
  /\ pending # <<>>
  /\ Queue(pending)
  /\ UNCHANGED <<src, pos, mode, ind, started, panicked>>

Start ==
  /\ ~started
  /\ started' = TRUE
  /\ Give(Mark("BlockStart", pos))
  /\ UNCHANGED <<src, pos, mode, ind, pending, panicked>>

-----------------------------------------------------------------------------
(* Layout *)

(* Lines of nothing but spaces are passed over: to the last newline in front of
   something else, or to the end of the text *)
PastBlank(p) ==
  LET e == Run(p.idx, {"\n", Space})
      stop == IF At(e) = NoByte THEN e ELSE Max({k \in p.idx..(e - 1) : At(k) = "\n"})
      passed == {k \in p.idx..(stop - 1) : At(k) = "\n"}
  IN IF passed = {} THEN p
     ELSE Pos(stop, p.line + Cardinality(passed), stop - Max(passed) - 1)

Newline ==
  LET p == PastBlank(pos)
      n == IF At(p.idx) = "\n" THEN Spaces(p.idx + 1) ELSE 0
      after == IF At(p.idx) = "\n" THEN NextLine(p.idx + 1 + n, p, n) ELSE p
      outer == Front(ind)
  IN /\ InCode /\ At(pos.idx) = "\n"
     /\ \/ /\ n > Last(ind)
           /\ ind' = Append(ind, n)
           /\ pos' = after
           /\ Give(Token("BlockStart", pos, after))
        \/ /\ n < Last(ind)
           /\ Last(outer) < n
           /\ ind' = Append(outer, n)
           /\ pos' = after
           /\ Give(Token("Err", pos, after))
        \/ /\ n < Last(ind)
           /\ Last(outer) >= n
           /\ ind' = outer
           /\ pos' = p
           /\ Give(Mark("BlockEnd", pos))
        \/ /\ n = Last(ind)
           /\ pos' = after
           /\ IF Top.m = "Bracket" /\ Top.depth = Len(ind)
              THEN UNCHANGED toks  \* no separator between the items of a bracket
              ELSE Give(Token("BlockCont", pos, after))
           /\ UNCHANGED ind
     /\ UNCHANGED <<src, mode, started, pending, panicked>>

Blank ==
  /\ InCode /\ At(pos.idx) = Space
  /\ pos' = Moved(pos, pos.idx + 1)
  /\ UNCHANGED <<src, mode, ind, started, pending, toks, panicked>>

AtEndKeepsMode ==
  /\ InCode /\ At(pos.idx) = NoByte
  /\ Give(Mark("Err", pos))
  /\ UNCHANGED <<src, pos, mode, ind, started, pending, panicked>>
AtEnd ==
  /\ InCode /\ At(pos.idx) = NoByte
  /\ \/ /\ Top.m \in {"StrExpr", "Bracket"}
        /\ mode' = Front(mode)
        /\ Give(Mark("Err", pos))
        /\ UNCHANGED ind
     \/ /\ Top.m = "Block" /\ Len(ind) > 1
        /\ ind' = Front(ind)
        /\ Give(Mark("BlockEnd", pos))
        /\ UNCHANGED mode
     \/ /\ Top.m = "Block" /\ Len(ind) = 1
        /\ Give(Mark("EOF", pos))
        /\ UNCHANGED <<mode, ind>>
  /\ UNCHANGED <<src, pos, started, pending, panicked>>

(* push_block_ends: what is left of ind, and one BlockEnd for each level closed *)
Kept(col) == SelectInSeq(ind, LAMBDA n : n > col)
Shallower(col) == IF Kept(col) = 0 THEN ind ELSE SubSeq(ind, 1, Kept(col) - 1)
BlockEnds(col, p) ==
  [k \in 1..(Len(ind) - Len(Shallower(col))) |-> Mark("BlockEnd", p)]

-----------------------------------------------------------------------------
(* Brackets and punctuation *)

Closer(open) == CASE open = "(" -> ")" [] open = "[" -> "]" [] open = OpenBrace -> CloseBrace

Open ==
  /\ InCode /\ At(pos.idx) \in Opening
  /\ mode' = Append(mode, Bracket(At(pos.idx), Len(ind)))
  /\ Consume(pos.idx + 1, "BracketOpen")
  /\ UNCHANGED <<src, ind, started, pending, panicked>>

CloseForgets ==   \* a bracket that forgets the blocks still open in it
  LET closes == Top.m = "Bracket" /\ At(pos.idx) = Closer(Top.open)
  IN /\ InCode /\ At(pos.idx) \in Closing
     /\ mode' = IF closes THEN Front(mode) ELSE mode
     /\ ind' = IF closes THEN SubSeq(ind, 1, Min({Len(ind), Top.depth})) ELSE ind
     /\ Consume(pos.idx + 1, IF closes THEN "BracketClose" ELSE "Err")
     /\ UNCHANGED <<src, started, pending, panicked>>
(* A block still open inside the bracket is closed first *)
Close ==
  /\ InCode /\ At(pos.idx) \in Closing
  /\ \/ /\ Top.m = "Bracket" /\ Len(ind) > Top.depth
        /\ ind' = Front(ind)
        /\ Give(Mark("BlockEnd", pos))
        /\ UNCHANGED <<pos, mode>>
     \/ /\ Top.m = "Bracket" /\ Len(ind) <= Top.depth /\ At(pos.idx) = Closer(Top.open)
        /\ mode' = Front(mode)
        /\ Consume(pos.idx + 1, "BracketClose")
        /\ UNCHANGED ind
     \/ /\ Top.m = "Bracket" => Len(ind) <= Top.depth /\ At(pos.idx) # Closer(Top.open)
        /\ Consume(pos.idx + 1, "Err")
        /\ UNCHANGED <<mode, ind>>
  /\ UNCHANGED <<src, started, pending, panicked>>

Mono == [c \in {",", ";", ":", "?", "\t"} |->
          CASE c = "," -> "Comma" [] c = ";" -> "Semicolon" [] c = ":" -> "Colon"
            [] c = "?" -> "Partial" [] c = "\t" -> "Err"]
Punct ==
  /\ InCode /\ At(pos.idx) \in DOMAIN Mono
  /\ Consume(pos.idx + 1, Mono[At(pos.idx)])
  /\ UNCHANGED <<src, mode, ind, started, pending, panicked>>

-----------------------------------------------------------------------------
(* Numbers, names and operators *)

Scanned(kind, j) == [kind |-> kind, end |-> j]
DecimalFrom(j) ==
  IF At(j + 1) \in {"-", "+"} /\ At(j + 2) \in Digits
  THEN Scanned("Decimal", Run(j + 2, DecDigits))
  ELSE Scanned("Decimal", j + 1)
FractionFrom(j) ==
  LET k == Run(j, DecDigits)
      e == IF At(k + 1) \in {"+", "-"} THEN k + 2 ELSE k + 1
  IN IF At(k) = "e" /\ At(e) \in Digits THEN Scanned("Float", Run(e, DecDigits))
     ELSE IF At(k) = "d" THEN DecimalFrom(k)
     ELSE Scanned("Float", k)
NumberFrom(i) ==
  LET j == Run(i, DecDigits)
  IN CASE At(i) = "0" /\ At(i + 1) = "x" -> Scanned("Int", Run(i + 2, HexDigits))
       [] At(i) = "0" /\ At(i + 1) = "b" -> Scanned("Int", Run(i + 2, BinDigits))
       [] At(i) = "0" /\ At(i + 1) = "o" -> Scanned("Int", Run(i + 2, OctDigits))
       [] OTHER -> IF At(j) = "." /\ At(j + 1) \in Digits THEN FractionFrom(j + 1)
                   ELSE IF At(j) = "d" THEN DecimalFrom(j)
                   ELSE Scanned("Int", j)

(* A minus sign in front of a digit belongs to the number *)
Number ==
  LET i == IF At(pos.idx) = "-" THEN pos.idx + 1 ELSE pos.idx
  IN /\ InCode /\ At(i) \in Digits
     /\ Consume(NumberFrom(i).end, NumberFrom(i).kind)
     /\ UNCHANGED <<src, mode, ind, started, pending, panicked>>

(* A name may have single hyphens inside; one at its end is an error of its own *)
IdentEnd(i) ==
  Min({j \in i..Len(src) : /\ At(j) \notin IdentBytes
                           /\ At(j) = "-" => At(j + 1) \notin IdentBytes})
Ident ==
  LET j == IdentEnd(pos.idx)
      end == Moved(pos, j)
      past == Moved(pos, j + 1)
  IN /\ InCode /\ At(pos.idx) \in IdentBytes \ Digits
     /\ Give(Token("Ident", pos, end))
     /\ IF At(j) = "-"
        THEN pos' = past /\ pending' = <<Token("Err", end, past)>>
        ELSE pos' = end /\ UNCHANGED pending
     /\ UNCHANGED <<src, mode, ind, started, panicked>>

(* The line up to the position is blank *)
LineStart == \/ pos.col = 0
             \/ \E k \in 0..pos.idx :
                  /\ k = 0 \/ At(k - 1) = "\n"
                  /\ \A m \in k..(pos.idx - 1) : At(m) \in {Space, "\t"}
Fence(i) == At(i) = "-" /\ At(i + 1) = "-" /\ At(i + 2) = "-"

(* The longest registered operator; a byte that starts none is an error *)
Op ==
  LET fits == {n \in 1..(Len(src) - pos.idx) : Text(pos.idx, pos.idx + n) \in Seps}
  IN /\ InCode
     /\ At(pos.idx) \notin IdentBytes \cup DOMAIN Mono \cup Opening \cup Closing
                            \cup {NoByte, Space, "\n", "#", "'"}
     /\ ~(Fence(pos.idx) /\ LineStart)
     /\ ~(At(pos.idx) = "-" /\ At(pos.idx + 1) \in Digits)
     /\ ~(At(pos.idx) = Quote /\ At(pos.idx + 1) = ":")
     /\ IF fits # {} THEN Consume(pos.idx + Max(fits), "Sep")
                     ELSE Consume(pos.idx + 1, "Err")
     /\ UNCHANGED <<src, mode, ind, started, pending, panicked>>

-----------------------------------------------------------------------------
(* Text: strings, block strings, comments *)

LineComment ==
  /\ InCode /\ At(pos.idx) = "#"
  /\ Consume(Min({j \in pos.idx..Len(src) : At(j) \in {"\n", NoByte}}), "Comment")
  /\ UNCHANGED <<src, mode, ind, started, pending, panicked>>

OpenString ==
  /\ InCode /\ At(pos.idx) = "'"
  /\ mode' = Append(mode, StrText)
  /\ Consume(pos.idx + 1, "StrStart")
  /\ UNCHANGED <<src, ind, started, pending, panicked>>

(* A block string is closed by a line that is not deeper than the block it
   opened in; the newline behind its opening mark is not part of it *)
OpenBlockString ==
  LET p == Moved(pos, pos.idx + 2)
  IN /\ InCode /\ At(pos.idx) = Quote /\ At(pos.idx + 1) = ":"
     /\ mode' = Append(mode, StrBlock(Last(ind)))
     /\ Give(Token("StrStart", pos, p))
     /\ pos' = IF At(p.idx) = "\n" THEN NextLine(p.idx + 1, p, 0) ELSE p
     /\ UNCHANGED <<src, ind, started, pending, panicked>>

InterpAt(i) == At(i) = "$" /\ At(i + 1) = OpenBrace
OpenInterp ==
  /\ Reading /\ Top.m \in {"StrText", "StrBlock"} /\ InterpAt(pos.idx)
  /\ mode' = Append(mode, StrExpr)
  /\ Consume(pos.idx + 2, "StrExprStart")
  /\ UNCHANGED <<src, ind, started, pending, panicked>>
CloseInterp ==
  /\ Reading /\ Top.m = "StrExpr" /\ At(pos.idx) = CloseBrace
  /\ mode' = Front(mode)
  /\ Consume(pos.idx + 1, "StrExprEnd")
  /\ UNCHANGED <<src, ind, started, pending, panicked>>
CloseString ==
  /\ Reading /\ Top.m = "StrText" /\ At(pos.idx) \in {"'", NoByte}
  /\ mode' = Front(mode)
  /\ IF At(pos.idx) = "'" THEN Consume(pos.idx + 1, "StrEnd")
                          ELSE Give(Mark("Err", pos)) /\ UNCHANGED pos
  /\ UNCHANGED <<src, ind, started, pending, panicked>>

(* In text that starts at i, a backslash takes the next byte with it, whatever and
   wherever that is: byte j is taken if an odd number of backslashes stand before it *)
Taken(kind, i, j) ==
  kind # "comment" /\ (j - Max({i} \cup {k \in (i + 1)..j : At(k - 1) # "\\"})) % 2 = 1
(* Where the text ends: at what closes it, or at the end of the source *)
Closes(kind, i) == CASE kind = "text" -> At(i) = "'" \/ InterpAt(i)
                     [] kind = "block" -> InterpAt(i)
                     [] kind = "comment" -> Fence(i)
TextEnd(kind, i) ==
  Min({j \in i..(Len(src) + 1) : ~Taken(kind, i, j) /\ (j >= Len(src) \/ Closes(kind, j))})

(* The raw lines of the text from p on, newlines included *)
RawLines(kind, p) ==
  LET last == TextEnd(kind, p.idx)
      breaks == InOrder({k \in p.idx..(last - 1) : At(k) = "\n" /\ ~Taken(kind, p.idx, k)})
      Start_(k) == IF k = 1 THEN p ELSE Pos(breaks[k - 1] + 1, p.line + k - 1, 0)
      Stop(k) == IF k \in DOMAIN breaks THEN breaks[k] ELSE last
  IN [k \in 1..(Len(breaks) + 1) |->
       [start |-> Start_(k), indent |-> Spaces(Start_(k).idx),
        end |-> IF k \in DOMAIN breaks THEN Start_(k + 1) ELSE Moved(Start_(k), last),
        blank |-> \A b \in Start_(k).idx..(Stop(k) - 1) : At(b) = Space,
        at |-> At(Stop(k))]]
Overrun(raw) == Last(raw).end.idx > Len(src)
Unended(raw) == Last(raw).at = NoByte

(* What closes text alone on its line is not text *)
ClosingOnly(kind, l) == l.blank /\ l.at = (IF kind = "text" THEN "'" ELSE "-")
(* The first line below the floor of the block cuts the text off *)
CutAt(kind, raw, floor) ==
  LET low == {k \in 2..Len(raw) : /\ ~raw[k].blank \/ (kind = "comment" /\ ClosingOnly(kind, raw[k]))
                                  /\ raw[k].indent < floor}
  IN IF low = {} THEN 0 ELSE Min(low)
(* The indentation that all lines of the text share *)
StripLevel(indents) == IF indents = {} THEN 0 ELSE Min(indents)
(* Where the content of a line starts, its shared indentation left out *)
ContentDeep(l, skip, first) ==
  Pos(l.start.idx + skip + 1, l.start.line, IF first THEN l.start.col + skip ELSE skip)
Content(l, skip, first) ==
  Pos(l.start.idx + skip, l.start.line, IF first THEN l.start.col + skip ELSE skip)
(* The lines as tokens, from[k] being where line k starts; empty ones give none *)
Pieces(kind, lines, from) ==
  LET shown == InOrder({k \in DOMAIN lines : from[k].idx # lines[k].end.idx})
  IN [n \in DOMAIN shown |-> Token(kind, from[shown[n]], lines[shown[n]].end)]
TextTokens(kind, raw, token) ==
  LET cut == CutAt(kind, raw, Last(ind))
      lines == IF cut = 0 THEN raw ELSE SubSeq(raw, 1, cut - 1)
      level == StripLevel({lines[k].indent : k \in
                 {m \in 2..Len(lines) : ~lines[m].blank
                                        \/ (kind = "comment" /\ ClosingOnly(kind, lines[m]))}})
  IN Pieces(token, lines,
            [k \in DOMAIN lines |->
              IF ClosingOnly(kind, lines[k]) THEN lines[k].end
              ELSE Content(lines[k], IF k = 1 \/ lines[k].blank THEN 0
                                     ELSE Min({level, lines[k].indent}), k = 1)])

(* consume_str_text: up to the quote or the next interpolation *)
ReadText(raw) ==
  LET cut == CutAt("text", raw, Last(ind))
      p == IF cut # 0 THEN raw[cut].start ELSE Last(raw).end
      low == cut # 0 \/ (Unended(raw) /\ p.col < Last(ind))
      stop == cut # 0 \/ Unended(raw)
      made == TextTokens("text", raw, "StrText")
              \o (IF low THEN BlockEnds(p.col, p) ELSE <<>>)
              \o (IF stop THEN <<Mark("Err", p)>> ELSE <<>>)
  IN /\ ~Overrun(raw)
     /\ pos' = p
     /\ mode' = IF stop THEN Front(mode) ELSE mode
     /\ ind' = IF low THEN Shallower(p.col) ELSE ind
     /\ IF made = <<>> THEN Give(Mark("StrText", p)) /\ UNCHANGED pending ELSE Queue(made)
StringText ==
  /\ Reading /\ Top.m = "StrText" /\ At(pos.idx) \notin {"'", NoByte} /\ ~InterpAt(pos.idx)
  /\ ReadText(RawLines("text", pos))
  /\ UNCHANGED <<src, started, panicked>>

(* consume_block_comment: up to the next fence, what opens it ending at p0 *)
ReadComment(raw, p0) ==
  LET cut == CutAt("comment", raw, Last(ind))
      p == IF cut # 0 THEN raw[cut].start ELSE Last(raw).end
      close == Moved(p, p.idx + 3)
  IN /\ Give(Token("CommentStart", pos, p0))
     /\ pending' = TextTokens("comment", raw, "CommentText")
          \o (IF cut # 0 THEN Append(BlockEnds(p.col, p), Mark("Err", p))
              ELSE IF Unended(raw) THEN <<Mark("Err", p)>>
              ELSE <<Token("CommentEnd", p, close)>>)
     /\ ind' = IF cut # 0 THEN Shallower(p.col) ELSE ind
     /\ pos' = IF cut # 0 \/ Unended(raw) THEN p ELSE close
BlockComment ==
  LET p0 == Moved(pos, pos.idx + 3)
  IN /\ InCode /\ Fence(pos.idx) /\ LineStart
     /\ ReadComment(RawLines("comment", p0), p0)
     /\ UNCHANGED <<src, mode, started, panicked>>

(* Past empty lines: the first index that is not a newline *)
PastNewlines(i) == Run(IF i < Len(src) THEN i + 1 ELSE i, {"\n"})
EmptyAt(i) == At(i) \in {"\n", NoByte}
(* A line, or the first line behind empty ones, is too shallow for the block string *)
Dedents(i, floor) ==
  IF EmptyAt(i)
  THEN LET j == PastNewlines(i) IN At(j) # NoByte /\ Spaces(j) <= floor
  ELSE Spaces(i) <= floor
(* The lines of a block string from p on, as far as it goes *)
BlockLines(p, floor) ==
  LET raw == RawLines("block", p)
      out == {k \in 2..Len(raw) :
               LET i == raw[k].start.idx
               IN Dedents(i, floor) \/ (EmptyAt(i) /\ At(PastNewlines(i)) = NoByte)}
  IN IF out = {} THEN raw ELSE SubSeq(raw, 1, Min(out) - 1)
(* The newline that ends a block string is not part of it *)
Trimmed(raw) ==
  LET l == Last(raw)
      e == l.end.idx - 1
  IN IF At(e) # "\n" THEN raw
     ELSE IF e <= l.start.idx THEN Front(raw)
     ELSE Append(Front(raw),
                 [l EXCEPT !.end = Pos(e, @.line - 1, l.start.col + Width(l.start.idx, e))])

(* consume_str_block_text: up to the next interpolation or the end of the block *)
ReadBlock(lines) ==
  LET sameLine == pos.col > 0
      interp == InterpAt(Last(lines).end.idx)
      raw == IF interp THEN lines ELSE Trimmed(lines)
      Inline(k) == k = 1 /\ sameLine
      level == StripLevel({raw[k].indent : k \in {m \in DOMAIN raw : ~raw[m].blank /\ ~Inline(m)}})
      texts == Pieces("StrText", raw,
                 [k \in DOMAIN raw |->
                   Content(raw[k], IF raw[k].blank THEN 0 ELSE IF Inline(k) THEN raw[k].indent
                                   ELSE Min({level, raw[k].indent}), TRUE)])
      p == IF raw # <<>> THEN Last(raw).end
           ELSE Pos(Last(lines).end.idx - 1, Last(lines).end.line - 1, 0)
  IN /\ ~Overrun(lines)
     /\ pos' = p
     /\ mode' = IF interp THEN mode ELSE Front(mode)
     /\ Queue(IF interp THEN texts ELSE Append(texts, Mark("StrEnd", p)))
BlockText ==
  /\ Reading /\ Top.m = "StrBlock" /\ ~InterpAt(pos.idx)
  /\ IF pos.col = 0 /\ Dedents(pos.idx, Top.floor)
     THEN /\ mode' = Front(mode)    \* a block string with no content
          /\ Give(Mark("Err", pos))
          /\ pending' = <<Mark("StrEnd", pos)>>
          /\ UNCHANGED pos
     ELSE ReadBlock(BlockLines(pos, Top.floor))
  /\ UNCHANGED <<src, ind, started, panicked>>

(* A backslash as the last byte of the source: the segment ends one past it,
   and slicing the source there panics *)
Panic ==
  /\ Reading
  /\ \/ Top.m = "StrText" /\ At(pos.idx) \notin {"'", NoByte} /\ ~InterpAt(pos.idx)
        /\ Overrun(RawLines("text", pos))
     \/ Top.m = "StrBlock" /\ ~InterpAt(pos.idx) /\ ~(pos.col = 0 /\ Dedents(pos.idx, Top.floor))
        /\ Overrun(BlockLines(pos, Top.floor))
  /\ panicked' = TRUE
  /\ UNCHANGED <<src, pos, mode, ind, started, pending, toks>>

-----------------------------------------------------------------------------
Scan == \/ Drain \/ Start
        \/ Newline \/ Blank \/ AtEnd
        \/ Open \/ Close \/ Punct
        \/ Number \/ Ident \/ Op
        \/ LineComment \/ BlockComment
        \/ OpenString \/ OpenBlockString \/ OpenInterp \/ CloseInterp \/ CloseString
        \/ StringText \/ BlockText \/ Panic

LexSpec == LexInit /\ [][Scan]_lexVars

-----------------------------------------------------------------------------
LexTypeOK ==
  /\ pos.idx \in 0..Len(src) /\ pos.line \in Nat /\ pos.col \in Nat
  /\ \A k \in DOMAIN mode : mode[k].m \in {"Block", "Bracket", "StrText", "StrExpr", "StrBlock"}
  /\ mode[1] = Block
  /\ ind[1] = 0 /\ \A k \in 2..Len(ind) : ind[k - 1] <= ind[k]
  /\ started \in BOOLEAN /\ panicked \in BOOLEAN

Made == toks \o pending
White(i, j) == \A b \in i..(j - 1) : At(b) \in {Space, "\n"}
(* Up to the first error, tokens come in the order of the text, and what lies
   between two of them is white space: nothing is read twice and nothing but
   layout is lost, through every change of mode and every buffered token
   (next_token, consume_str_text, consume_str_block_text). *)
Clean(k) == \A j \in 1..k : Made[j].kind # "Err"
Tiled ==
  \A k \in 2..Len(Made) :
    Clean(k) => /\ Made[k - 1].end.idx <= Made[k].start.idx
                /\ Made[k].start.idx <= Made[k].end.idx
                /\ White(Made[k - 1].end.idx, Made[k].start.idx)

(* Where the lexer says a token stands is where it stands: the line, on which
   breakpoints depend, of every token and the column of every one that is not
   layout (Pos, advance, and the positions the three text scanners compute).
   Layout is what consume_newline makes, its error of an indentation between
   two levels included: a block string that ends behind an interpolation gives
   the newline it steps back to column 0.
   A newline behind a backslash is not counted where it is part of a string, so
   texts with one are left out. *)
Line(i) == 1 + Cardinality({k \in 0..(i - 1) : At(k) = "\n"})
Column(i) == Width(Max({k \in 0..i : k = 0 \/ At(k - 1) = "\n"}), i)
Standing(p) == p.line = Line(p.idx) /\ p.col = Column(p.idx)
Indents(t) == \/ t.start = t.end
              \/ t.kind \in {"BlockStart", "BlockCont"}
              \/ t.kind = "Err" /\ At(t.start.idx) = "\n"
BreakTaken == \E k \in 1..Len(src) : At(k - 1) = "\\" /\ At(k) = "\n"
PositionsAgree ==
  ~BreakTaken =>
    \A k \in DOMAIN Made :
      LET t == Made[k]
      IN IF Indents(t) THEN t.start.line = Line(t.start.idx)
                       ELSE Standing(t.start) /\ Standing(t.end)

(* However the text ends and whatever it lacks, each block that was started is
   ended once, and none is ended that was not started *)
Blocks(kind, n) == Cardinality({k \in 1..n : toks[k].kind = kind})
BlocksBalance ==
  /\ \A n \in DOMAIN toks : Blocks("BlockEnd", n) <= Blocks("BlockStart", n)
  /\ Done => Blocks("BlockEnd", Len(toks)) = Blocks("BlockStart", Len(toks))

(* No text keeps the lexer busy for ever: each call hands out a token or moves
   on, and the tokens are at most three a byte (blank lines, a lost bracket or
   a string cut off close several blocks at one place). *)
TokensBounded == Len(toks) <= 3 * Len(src) + 4
============================================================================
