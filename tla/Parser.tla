------------------------------- MODULE Parser -------------------------------
(***************************************************************************)
(* The parser of the compiler: recursive descent with a Pratt loop for the *)
(* infix operators, over the tokens of the lexer without its comments.     *)
(*                                                                         *)
(* A parser state s holds what Parser holds: the position, the arena of    *)
(* nodes, the names that open blocks.  Every parse_ function is an         *)
(* operator from a state to the state it leaves, with the node it returns  *)
(* in s.id and the list it returns in s.items; Then runs the next one      *)
(* unless the one before failed, as `?` does.                              *)
(*                                                                         *)
(* A node has a kind, its children in source order, the byte span of its   *)
(* loc, and the tokens it holds as operator, literal or name.              *)
(***************************************************************************)
EXTENDS Lexer

Infix == {"and", "or", "xor", "not", "in"}
Dispatch == Infix \cup {"true", "false", "_", "try"}
TypeWords == {"type", "enum", "union"}
InitialBlocks == [w \in {"fn", "match"} \cup TypeWords |-> "Ast"]

Comments == {"Comment", "CommentStart", "CommentText", "CommentEnd"}
Layout == {"BlockStart", "BlockCont", "BlockEnd"}
(* The tokens the parser sees.  trivia is where the comments before one end,
   glued says that a byte other than white space follows. *)
Visible(ts) ==
  LET Keep == SelectSeq([k \in DOMAIN ts |-> k], LAMBDA k : ts[k].kind \notin Comments)
      Trivia(k) == {ts[j].end.idx : j \in {m \in 1..k : ts[m].kind \in Comments}}
  IN [k \in DOMAIN Keep |->
       LET t == ts[Keep[k]]
       IN [kind |-> t.kind, text |-> t.text, from |-> t.start.idx, to |-> t.end.idx,
           trivia |-> Max({0} \cup Trivia(Keep[k])),
           glued |-> At(t.end.idx) \notin {"", " ", "\n", "\t"}]]

-----------------------------------------------------------------------------
(* Tokens *)

Tok(s) == s.toks[s.i]
Following(s) == s.toks[Min({s.i + 1, Len(s.toks)})]
Is(s, kind) == Tok(s).kind = kind
IsSep(s, op) == Is(s, "Sep") /\ Tok(s).text = op
IsWord(s, w) == Is(s, "Ident") /\ Tok(s).text = w
IsParen(s) == Is(s, "BracketOpen") /\ Tok(s).text = "("
IsSpread(s) == IsSep(s, "..") \/ IsSep(s, "...")
IsItemSep(s) == Is(s, "Comma") \/ Is(s, "Semicolon")

Bump(s) == LET i == Min({s.i + 1, Len(s.toks)})
           IN [s EXCEPT !.i = i, !.seen = Max({@, i})]
(* peek_next reads one token ahead, and with it the comments before that *)
Peek(s) == [s EXCEPT !.seen = Max({@, s.i + 1})]
BumpWhile(s, kinds) ==
  LET i == Min({j \in s.i..Len(s.toks) : s.toks[j].kind \notin kinds})
  IN [s EXCEPT !.i = i, !.seen = Max({@, i})]
SkipBlockTokens(s) == BumpWhile(s, Layout)

Fail(s) == [s EXCEPT !.ok = FALSE]
Then(s, F(_)) == IF s.ok THEN F(s) ELSE s
Expect(s, kind) == IF Is(s, kind) THEN Bump(s) ELSE Fail(s)

(* is_arg_start, is_arg_start_after_sep, can_start_expr: whether an argument
   may begin here; a minus sign only when the operand follows at once *)
ArgStart(s) ==
  \/ Is(s, "Ident") /\ Tok(s).text \notin Infix
  \/ Tok(s).kind \in {"Int", "Float", "Decimal", "Partial", "StrStart", "BracketOpen"}
  \/ (IsSep(s, "-") \/ IsSep(s, "~")) /\ Tok(s).glued
ArgStartAfterSep(s) == ArgStart(s) \/ IsWord(s, "not")
CanStartExpr(s) == ArgStart(s) \/ IsSep(s, "-") \/ IsSep(s, "+") \/ IsSep(s, "~") \/ IsWord(s, "not")

-----------------------------------------------------------------------------
(* Nodes *)

NodeAt(s, kind, own, kids, from, to) ==
  [s EXCEPT !.ast = Append(@, [kind |-> kind, own |-> own, kids |-> kids, n |-> 0,
                               from |-> from, to |-> to]),
            !.id = Len(s.ast) + 1]
From(s, id) == s.ast[id].from
To(s, id) == s.ast[id].to
KindOf(s, id) == s.ast[id].kind
TextOf(s, id) == FoldLeft(LAMBDA t, k : t \o s.toks[k].text, "", s.ast[id].own)
EndOr(s, items, default) == IF items = <<>> THEN default ELSE To(s, Last(items))
(* A node for the current token; one that spans its children *)
Leaf(s, kind) == NodeAt(Bump(s), kind, <<s.i>>, <<>>, Tok(s).from, Tok(s).to)
Over(s, kind, own, kids) ==
  NodeAt(s, kind, own, kids, From(s, Head(kids)), To(s, Last(kids)))
PatternsAt(s, items, from, to) == NodeAt(s, "Patterns", <<>>, items, from, to)

(* handle_import: names taken from the module of block names open blocks from here on *)
BlockModes == [w \in {"u1u2ink", "u1u2tok"} |-> IF w = "u1u2ink" THEN "Ast" ELSE "Tokens"]
Registered(s, lhs, rhs) ==
  LET kids == s.ast[rhs].kids
      names == {TextOf(s, k) : k \in {j \in Range(s.ast[lhs].kids) : KindOf(s, j) = "Ident"}}
  IN IF /\ KindOf(s, rhs) = "Apply" /\ Len(kids) > 1
        /\ KindOf(s, kids[1]) = "Ident" /\ TextOf(s, kids[1]) = "import"
        /\ KindOf(s, kids[2]) = "LitStr" /\ TextOf(s, kids[2]) = "fink/blocks.fnk"
        /\ KindOf(s, lhs) = "LitRec"
     THEN [s EXCEPT !.blocks = [w \in DOMAIN BlockModes \cap names |-> BlockModes[w]] @@ @]
     ELSE s

RECURSIVE Pipe(_), PipeRest(_, _), Apply(_), Named(_, _),
          CollectOrBlock(_, _), CollectArgs(_, _, _), ArgLoop(_, _, _, _),
          InfixFrom(_, _), CmpRest(_, _, _, _), UnaryOrAtom(_), Atom(_),
          StringParts(_, _, _), SeqItems(_, _), RecItems(_, _),
          TypeDecl(_, _, _), InlineItems(_, _, _), Fn(_, _), ParamList(_, _, _),
          Body(_, _), Item(_, _), MatchExpr(_, _), Arm(_), ArmPatterns(_, _),
          BlockOf(_, _), ArmBody(_), Elisions(_, _, _, _)

RECURSIVE Rule(_, _, _)
(* Rules that lead back to each other are called by name (the one recursive operator) *)
Expr(s) == Rule("Expr", s, <<>>)
InfixAt(s, bp) == Rule("InfixAt", s, <<bp>>)
SingleArg(s, how) == Rule("SingleArg", s, <<how>>)
BlockItems(s, how, items) == Rule("BlockItems", s, <<how, items>>)
Spread(s) == Rule("Spread", s, <<>>)
ApplyNoBlock(s) == Rule("ApplyNoBlock", s, <<>>)
Group(s) == Rule("Group", s, <<>>)
String(s, raw) == Rule("String", s, <<raw>>)
Params(s, defaults) == Rule("Params", s, <<defaults>>)

-----------------------------------------------------------------------------
(* Bindings and pipes *)

(* parse_binding: an `=` may stand on the line below, in the column of the left side *)
ExprRule(s) ==
  Then(Pipe(s), LAMBDA a :
    LET below == Is(a, "BlockCont") /\ Following(a).kind = "Sep" /\ Following(a).text \in {"=", "|="}
        p == IF Is(a, "BlockCont") THEN Peek(a) ELSE a
        b == IF below THEN Bump(p) ELSE p
    IN IF IsSep(b, "=")
       THEN Then(Expr(SkipBlockTokens(Bump(b))), LAMBDA r :
              Over(Registered(r, a.id, r.id), "Bind", <<b.i>>, <<a.id, r.id>>))
       ELSE IF IsSep(b, "|=")
       THEN Then(Expr(SkipBlockTokens(Bump(b))), LAMBDA r :
              Over(r, "BindRight", <<b.i>>, <<a.id, r.id>>))
       ELSE b)

PipeRest(s, parts) ==
  LET below == Is(s, "BlockCont") /\ Following(s).kind = "Sep" /\ Following(s).text = "|"
      p == IF Is(s, "BlockCont") THEN Peek(s) ELSE s
  IN IF IsSep(s, "|") \/ below
     THEN Then(Apply(Bump(IF below THEN Bump(p) ELSE p)), LAMBDA a : PipeRest(a, Append(parts, a.id)))
     ELSE IF Len(parts) = 1 THEN [p EXCEPT !.id = parts[1]]
     ELSE Over(p, "Pipe", <<>>, parts)
Pipe(s) == Then(Apply(s), LAMBDA a : PipeRest(a, <<a.id>>))

-----------------------------------------------------------------------------
(* Application *)

IsName(s) == Is(s, "Ident") /\ Tok(s).text \notin Dispatch
Keyword(s) ==
  LET w == Tok(s).text
  IN CASE w = "fn" -> Fn(Bump(s), Tok(s).from)
       [] w = "match" -> MatchExpr(Bump(s), Tok(s).from)
       [] w \in TypeWords -> TypeDecl(Bump(s), Tok(s).from, w)
       [] OTHER -> BlockOf(Bump(s), s.i)
(* `10sec`: a name that follows at once takes what precedes it as its argument *)
TaggedName(s) ==
  IF Is(s, "Ident") /\ Tok(s).from = To(s, s.id)
  THEN LET f == Leaf(s, "Ident")
       IN NodeAt(f, "Apply", <<>>, <<f.id, s.id>>, From(f, f.id), To(f, f.id))
  ELSE s
Tagged(s) ==
  IF Is(s, "Ident") /\ Tok(s).from = To(s, s.id)
  THEN LET f == Leaf(s, "Ident")
       IN NodeAt(f, "Apply", <<>>, <<f.id, s.id>>, From(s, s.id), To(f, f.id))
  ELSE s

(* A name in front of arguments: how they are collected depends on where it stands *)
Named(s, how) ==
  IF Tok(s).text \in DOMAIN s.blocks THEN Keyword(s)
  ELSE LET f == Leaf(s, "Ident")
       IN IF Is(f, "StrStart") /\ Tok(f).from = Tok(s).to
          THEN Then(String(f, TRUE), LAMBDA a : Over(a, "Apply", <<>>, <<f.id, a.id>>))
          ELSE Then(CASE how = "apply" -> CollectOrBlock(f, FALSE)
                      [] how = "argument" -> CollectOrBlock(f, TRUE)
                      [] how = "noBlock" -> CollectArgs(f, TRUE, "argNoBlock")
                      [] how = "argNoBlock" -> CollectArgs(f, TRUE, "argument"),
                    LAMBDA r : IF KindOf(r, r.id) = "Ident" THEN InfixFrom(r, 0) ELSE r)

(* parse_apply *)
Apply(s) ==
  IF IsName(s)
  THEN Then(Named(s, "apply"), LAMBDA a :
         IF KindOf(a, a.id) = "Member" /\ ArgStart(a) THEN CollectOrBlock(a, FALSE) ELSE a)
  ELSE Then(InfixAt(s, 0), LAMBDA b : Tagged(b))

(* parse_apply_no_block: an argument, a parameter or a pattern, behind which a
   colon is not the start of a block *)
ApplyNoBlockRule(s) ==
  LET p == Peek(s)
      member == Following(s).kind = "Sep" /\ Following(s).text = "."
  IN IF IsWord(s, "not")
     THEN Then(InfixAt(Bump(s), 35), LAMBDA a :
            NodeAt(a, "UnaryOp", <<s.i>>, <<a.id>>, Tok(s).from, To(a, a.id)))
     ELSE IF IsName(s) /\ ~member THEN Named(p, "noBlock")
     ELSE Then(InfixAt(p, 0), LAMBDA b :
            IF KindOf(b, b.id) = "Member" /\ ArgStart(b)
            THEN CollectArgs(b, TRUE, "argNoBlock") ELSE Tagged(b))

(* parse_single_arg_inner *)
SingleArgRule(s, how) == IF IsName(s) THEN Named(s, how) ELSE InfixAt(s, 0)

(* The loop that collects arguments.  L holds those there are, where the last
   one ends, whether a separator came behind it, and whether the arguments
   stand in an indented block. *)
ArgLoop(s, nested, how, L) ==
  LET spread == Tok(s).from > L.last /\ IsSep(s, "..")
      starts == IF L.sep THEN ArgStartAfterSep(s) ELSE ArgStart(s)
      Stop(t, args) == [t EXCEPT !.items = args, !.inBlock = L.block]
      One(t) == IF how = "apply" THEN ApplyNoBlock(t) ELSE SingleArg(t, how)
      AfterComma(c, args) ==
        IF Is(c, "BlockEnd") /\ L.block THEN Fail(c)
        ELSE LET block == L.block \/ Is(c, "BlockStart")
             IN ArgLoop(IF Is(c, "BlockStart") \/ (Is(c, "BlockCont") /\ L.block) THEN Bump(c) ELSE c,
                        nested, how, [args |-> args, last |-> To(c, c.id), sep |-> TRUE, block |-> block])
      AfterSemicolon(c, args) ==
        IF Is(c, "BlockEnd") /\ L.block THEN Fail(c)
        ELSE IF ArgStart(c) THEN Then(One(c), LAMBDA d : Stop(d, Append(args, d.id)))
        ELSE Stop(c, args)
      AfterCont(c) ==
        IF how # "apply" /\ (IsSep(c, "|=") \/ IsSep(c, "|") \/ Is(c, "EOF") \/ Is(c, "BlockEnd"))
        THEN Stop(c, L.args)
        ELSE ArgLoop(c, nested, how, [L EXCEPT !.last = 0, !.sep = TRUE])
  IN IF Is(s, "BlockCont") /\ L.block THEN AfterCont(Bump(s))
     ELSE IF ~starts /\ ~spread THEN Stop(s, L.args)
     ELSE Then(IF spread THEN Spread(s) ELSE One(s), LAMBDA a :
            LET args == Append(L.args, a.id)
            IN IF Is(a, "Comma") THEN AfterComma(Bump(a), args)
               ELSE IF Is(a, "Semicolon")
               THEN IF nested THEN Stop(a, args) ELSE AfterSemicolon(Bump(a), args)
               ELSE ArgLoop(a, nested, how, [L EXCEPT !.args = args, !.last = To(a, a.id), !.sep = FALSE]))

(* The arguments of the node s.id, up to the end of their block *)
Arguments(s, nested, how) ==
  LET block == Is(s, "BlockStart")
  IN Then(ArgLoop(IF block THEN Bump(s) ELSE s, nested, how,
                  [args |-> <<>>, last |-> To(s, s.id), sep |-> FALSE, block |-> block]),
          LAMBDA z :
            IF ~z.inBlock THEN z
            ELSE LET e == BumpWhile(z, {"BlockCont"}) IN IF Is(e, "BlockEnd") THEN Bump(e) ELSE e)
AppliedOne(s, f, args) == IF args = <<>> THEN [s EXCEPT !.id = f] ELSE Over(s, "Apply", <<>>, <<f, Head(args)>>)
Applied(s, f, args) == IF args = <<>> THEN [s EXCEPT !.id = f] ELSE Over(s, "Apply", <<>>, <<f>> \o args)

CollectArgs(s, nested, how) ==
  Then(Arguments(s, nested, how), LAMBDA y : Applied(y, s.id, y.items))

(* A block, once its name and its parameters are known *)
BlockBody(s, name, params) ==
  Then(Body(s, "exprOrArm"), LAMBDA b :
    NodeAt(b, "Block", <<>>, <<name, params>> \o b.items, From(b, name), EndOr(b, b.items, To(b, params))))
CollectOrBlock(s, nested) ==
  Then(Arguments(s, nested, "apply"), LAMBDA y :
    LET f == s.id
        args == y.items
        Opens(id) == KindOf(y, id) = "Ident" /\ TextOf(y, id) \in DOMAIN y.blocks
        Bare(id) == PatternsAt(y, <<>>, From(y, id), To(y, id))
    IN IF ~Is(y, "Colon") \/ ~(Opens(f) \/ (Len(args) = 1 /\ Opens(args[1])))
       THEN Applied(y, f, args)
       ELSE IF Len(args) = 1 /\ Opens(args[1])
       THEN Then(BlockBody(Bare(args[1]), args[1], Bare(args[1]).id), LAMBDA b :
              Over(b, "Apply", <<>>, <<f, b.id>>))
       ELSE LET p == IF args = <<>> THEN Bare(f)
                     ELSE PatternsAt(y, args, To(y, f), To(y, Last(args)))
            IN BlockBody(p, f, p.id))

-----------------------------------------------------------------------------
(* Infix operators *)

(* infix_bp: how strongly an operator binds to its left and to its right; 0 for no operator *)
Cmp == {"==", "!=", "<", "<=", ">", ">=", "><"}
PowerLeft(t) ==
  CASE t.text \in {"or", "xor"} -> <<20, 21>>
    [] t.text = "and" -> <<30, 31>>
    [] t.text = "in" -> <<40, 41>>
    [] t.text \in {"..", "..."} -> <<50, 51>>
    [] t.text \in Cmp -> <<60, 61>>
    [] t.text \in {"+", "-"} -> <<100, 101>>
    [] t.text \in {"*", "/", "**"} -> <<110, 111>>
    [] t.text = "." -> <<140, 141>>
    [] OTHER -> <<0, 0>>
Power(t) ==
  IF t.kind = "Ident"
  THEN CASE t.text \in {"or", "xor"} -> <<20, 21>>
         [] t.text = "and" -> <<30, 31>>
         [] t.text = "in" -> <<40, 41>>
         [] OTHER -> <<0, 0>>
  ELSE IF t.kind = "Sep"
  THEN CASE t.text \in {"..", "..."} -> <<50, 51>>
         [] t.text \in Cmp -> <<60, 61>>
         [] t.text \in {">>", "<<", ">>>", "<<<"} -> <<90, 91>>
         [] t.text \in {"+", "-"} -> <<100, 101>>
         [] t.text \in {"*", "/", "//", "%", "%%", "/%"} -> <<110, 111>>
         [] t.text = "**" -> <<121, 120>>
         [] t.text = "." -> <<140, 141>>
         [] OTHER -> <<0, 0>>
  ELSE <<0, 0>>
IsCmp(s) == Power(Tok(s)) = <<60, 61>> \/ IsWord(s, "in")

CmpRestPaired(s, ops, operands, bp) ==
  IF IsCmp(s)
  THEN Then(InfixAt(Bump(s), bp), LAMBDA a :
         LET l == Over(a, "InfixOp", ops, operands)
             r == Over(l, "InfixOp", <<s.i>>, <<Last(operands), a.id>>)
         IN Over(r, "InfixOp", <<s.i>>, <<l.id, r.id>>))
  ELSE Over(s, "InfixOp", ops, operands)
CmpRest(s, ops, operands, bp) ==
  IF IsCmp(s)
  THEN Then(InfixAt(Bump(s), bp), LAMBDA a : CmpRest(a, Append(ops, s.i), Append(operands, a.id), bp))
  ELSE Over(s, IF Len(ops) = 1 THEN "InfixOp" ELSE "ChainedCmp", ops, operands)

(* parse_infix_from: s.id is the left operand.  An operator `not` that no `in`
   follows starts over, and the left operand is gone. *)
InfixFrom(s, bp) ==
  LET l == s.id
      b == Bump(s)
      power == Power(Tok(s))
      Name(t) == IF IsParen(t) THEN Group(t)
                 ELSE IF Is(t, "StrStart") THEN String(t, FALSE)
                 ELSE IF Is(t, "Ident") THEN Leaf(t, "Ident") ELSE Fail(t)
      Rest(t, kind, own) == InfixFrom(Over(t, kind, own, <<l, t.id>>), bp)
  IN IF bp <= 40 /\ IsWord(s, "not")
     THEN IF IsWord(b, "in")
          THEN Then(InfixAt(Bump(b), 41), LAMBDA r : Rest(r, "InfixOp", <<s.i, b.i>>))
          ELSE Then(InfixAt(b, 35), LAMBDA r :
                 NodeAt(r, "UnaryOp", <<s.i>>, <<r.id>>, Tok(s).from, To(r, r.id)))
     ELSE IF power[1] = 0 \/ power[1] < bp THEN s
     ELSE IF IsSep(s, ".") THEN Then(Name(b), LAMBDA r : Rest(r, "Member", <<s.i>>))
     ELSE IF IsSep(s, "..") /\ ~CanStartExpr(b)
     THEN InfixFrom(NodeAt(b, "PostfixOp", <<s.i>>, <<l>>, From(s, l), Tok(s).to), bp)
     ELSE IF IsCmp(s)
     THEN Then(InfixAt(b, power[2]), LAMBDA r :
            Then(CmpRest(r, <<s.i>>, <<l, r.id>>, power[2]), LAMBDA c : InfixFrom(c, bp)))
     ELSE Then(InfixAt(b, power[2]), LAMBDA r : Rest(r, "InfixOp", <<s.i>>))

(* parse_infix: right of an operator a name takes the arguments that follow it *)
InfixAtRule(s, bp) ==
  Then(UnaryOrAtom(s), LAMBDA a :
    Then(IF /\ bp > 0 /\ KindOf(a, a.id) = "Ident" /\ TextOf(a, a.id) \notin Infix
            /\ Is(a, "BlockStart") \/ ArgStart(a)
         THEN CollectOrBlock(a, FALSE) ELSE a, LAMBDA l : InfixFrom(l, bp)))

UnaryOrAtom(s) ==
  LET b == Bump(s)
      Prefix(t, kind) ==
        Then(t, LAMBDA r : NodeAt(r, kind, <<s.i>>, <<r.id>>, Tok(s).from, To(r, r.id)))
  IN CASE IsWord(s, "fn") -> Fn(b, Tok(s).from)
       [] IsWord(s, "match") -> MatchExpr(b, Tok(s).from)
       [] IsWord(s, "try") -> Prefix(Apply(b), "Try")
       [] IsWord(s, "not") -> Prefix(InfixAt(b, 35), "UnaryOp")
       [] IsSep(s, "-") -> Prefix(UnaryOrAtom(b), "UnaryOp")
       [] IsSep(s, "+") ->
            IF Tok(b).from = Tok(s).to /\ Tok(b).kind \in {"Int", "Float", "Decimal"}
            THEN NodeAt(Bump(b), "Lit" \o Tok(b).kind, <<s.i, b.i>>, <<>>, Tok(s).from, Tok(b).to)
            ELSE Fail(b)
       [] OTHER -> Atom(s)

-----------------------------------------------------------------------------
(* Literals, groups, spreads *)

(* parse_string: neighbouring pieces of text become one literal, a string
   without interpolations is a literal itself *)
StringParts(s, open, parts) ==
  LET textLast == parts # <<>> /\ KindOf(s, Last(parts)) = "LitStr"
      Again(t, own, to) ==     \* the arena only grows: a literal is changed by a new one
        NodeAt(t, "LitStr", own, <<>>, From(t, Last(parts)), to)
      Closed(t) == IF textLast THEN Again(t, t.ast[Last(parts)].own, To(t, Last(parts))) ELSE t
      ClosedParts(t) == IF textLast THEN Append(Front(parts), t.id) ELSE parts
  IN IF Is(s, "StrEnd")
     THEN LET c == Closed(Bump(s)) IN [c EXCEPT !.items = ClosedParts(c)]
     ELSE IF Is(s, "StrText")
     THEN IF textLast
          THEN LET a == Again(Bump(s), Append(s.ast[Last(parts)].own, s.i), Tok(s).to)
               IN StringParts(a, open, Append(Front(parts), a.id))
          ELSE LET a == Leaf(s, "LitStr") IN StringParts(a, open, Append(parts, a.id))
     ELSE IF Is(s, "StrExprStart")
     THEN LET c == Closed(Bump(s))
          IN Then(IF IsSpread(c) THEN Spread(c) ELSE Expr(c), LAMBDA e :
               Then(Expect(e, "StrExprEnd"), LAMBDA x :
                 StringParts(x, open, Append(ClosedParts(c), e.id))))
     ELSE Fail(s)
StringRule(s, raw) ==
  Then(Expect(s, "StrStart"), LAMBDA o :
    Then(StringParts(o, s.i, <<>>), LAMBDA z :
      LET end == z.toks[z.i - 1].to
          whole == ~raw /\ Len(z.items) = 1 /\ KindOf(z, z.items[1]) = "LitStr"
      IN IF ~raw /\ z.items = <<>> THEN NodeAt(z, "LitStr", <<>>, <<>>, Tok(s).from, end)
         ELSE IF whole THEN NodeAt(z, "LitStr", z.ast[z.items[1]].own, <<>>, Tok(s).from, end)
         ELSE NodeAt(z, IF raw THEN "StrRawTempl" ELSE "StrTempl", <<>>, z.items, Tok(s).from, end)))

(* A separator with nothing in front of it stands for a wildcard.  at is the
   separator whose place the wildcards take, each its own when there is none. *)
Elisions(s, at, inSeq, items) ==
  IF ~(Is(s, "Comma") \/ (inSeq /\ Is(s, "Semicolon"))) THEN [s EXCEPT !.items = items]
  ELSE LET place == s.toks[IF at = 0 THEN s.i ELSE at]
           w == NodeAt(s, "Wildcard", <<>>, <<>>, place.from, place.to)
           b == Bump(w)
       IN Elisions(IF inSeq THEN SkipBlockTokens(b) ELSE b, at, inSeq, Append(items, w.id))

SeqItems(s, items) ==
  IF Is(s, "BracketClose") \/ Is(s, "EOF") THEN [s EXCEPT !.items = items]
  ELSE Then(IF IsSpread(s) THEN Spread(s)
            ELSE Then(SingleArg(s, "argument"), LAMBDA a :
                   IF IsSep(a, "=") \/ IsSep(a, "|=")
                   THEN Then(Expr(SkipBlockTokens(Bump(a))), LAMBDA r :
                          Over(r, IF IsSep(a, "=") THEN "Bind" ELSE "BindRight", <<a.i>>, <<a.id, r.id>>))
                   ELSE a),
            LAMBDA b :
              LET c == SkipBlockTokens(b)
                  d == Elisions(SkipBlockTokens(Bump(c)), c.i, TRUE, Append(items, b.id))
              IN IF IsItemSep(c) THEN SeqItems(d, d.items) ELSE SeqItems(c, Append(items, b.id)))

RecItems(s, items) ==
  IF Is(s, "BracketClose") \/ Is(s, "EOF") THEN [s EXCEPT !.items = items]
  ELSE Then(IF IsSpread(s) THEN Spread(s)
            ELSE Then(IF IsParen(s) THEN Group(s) ELSE InfixAt(s, 0), LAMBDA k :
                   LET a == SkipBlockTokens(k)
                   IN IF ~Is(a, "Colon") THEN a
                      ELSE Then(Expr(SkipBlockTokens(Bump(a))), LAMBDA v :
                             Over(v, "Arm", <<>>, <<k.id, v.id>>))),
            LAMBDA b :
              LET c == SkipBlockTokens(b)
              IN RecItems(IF IsItemSep(c) THEN SkipBlockTokens(Bump(c)) ELSE c, Append(items, b.id)))

SpreadRule(s) ==
  LET b == Bump(s)
      Guarded(t) ==
        IF IsSep(t, "|=")
        THEN Then(Expr(SkipBlockTokens(Bump(t))), LAMBDA r : Over(r, "BindRight", <<t.i>>, <<t.id, r.id>>))
        ELSE t
      Inner == IF IsParen(b)
               THEN Then(Group(b), LAMBDA g : IF IsSpread(g) THEN InfixFrom(g, 0) ELSE g)
               ELSE Apply(b)
  IN IF IsParen(b) \/ ArgStart(b)
     THEN Then(Inner, LAMBDA a : Then(Guarded(a), LAMBDA r :
            NodeAt(r, "Spread", <<s.i>>, <<r.id>>, Tok(s).from, To(r, r.id))))
     ELSE NodeAt(b, "Spread", <<s.i>>, <<>>, Tok(s).from, Tok(s).to)

(* parse_group: an indented group is a function without parameters *)
GroupRule(s) ==
  LET b == Bump(s)
      Thunk(t) == LET p == PatternsAt(t, <<>>, Tok(s).from, Tok(s).to)
                  IN NodeAt(p, "Fn", <<>>, <<p.id>> \o t.items, Tok(s).from, Tok(s).to)
      Inner == IF Is(b, "BlockStart")
               THEN Then(BlockItems(Bump(b), "expr", <<>>), LAMBDA a : Thunk(a))
               ELSE Then(Expr(SkipBlockTokens(b)), LAMBDA e : SkipBlockTokens(e))
  IN Then(Inner, LAMBDA g : Then(Expect(g, "BracketClose"), LAMBDA c :
       NodeAt(c, "Group", <<s.i, g.i>>, <<g.id>>, Tok(s).from, Tok(g).to)))

Atom(s) ==
  LET Bracketed(kind, t) ==
        Then(t, LAMBDA a : Then(Expect(a, "BracketClose"), LAMBDA c :
          NodeAt(c, kind, <<s.i, a.i>>, a.items, Tok(s).from, Tok(a).to)))
      b == SkipBlockTokens(Bump(s))
      w == Elisions(b, 0, TRUE, <<>>)
  IN CASE Is(s, "Ident") ->
            Leaf(s, CASE Tok(s).text \in {"true", "false"} -> "LitBool"
                      [] Tok(s).text = "_" -> "Wildcard" [] OTHER -> "Ident")
       [] Tok(s).kind \in {"Int", "Float", "Decimal"} -> Leaf(s, "Lit" \o Tok(s).kind)
       [] Is(s, "Partial") -> Leaf(s, "Partial")
       [] Is(s, "StrStart") -> String(s, FALSE)
       [] Is(s, "BracketOpen") /\ Tok(s).text = "[" -> Bracketed("LitSeq", SeqItems(w, w.items))
       [] Is(s, "BracketOpen") /\ Tok(s).text = "{" -> Bracketed("LitRec", RecItems(b, <<>>))
       [] IsParen(s) -> Then(Group(s), LAMBDA g : Tagged(g))
       [] OTHER -> Fail(s)

-----------------------------------------------------------------------------
(* Functions, matches, blocks, types *)

TypeDecl(s, from, w) ==
  LET kind == CASE w = "type" -> "Type" [] w = "enum" -> "Enum" [] w = "union" -> "Union"
      opaque == IsWord(s, "_") /\ Following(s).kind # "Colon"
      p == IF IsWord(s, "_") THEN Peek(s) ELSE s
      none == PatternsAt(Bump(p), <<>>, Tok(s).from, Tok(s).to)
      Items(t) == IF Is(t, "BlockStart") THEN BlockItems(Bump(t), "typeItem", <<>>)
                  ELSE InlineItems(t, {"Comma"}, <<>>)
  IN IF opaque THEN NodeAt(none, kind, <<s.i>>, <<none.id>>, from, Tok(s).to)
     ELSE Then(Params(p, TRUE), LAMBDA a : Then(Expect(a, "Colon"), LAMBDA c : Then(Items(c), LAMBDA b :
            NodeAt(b, kind, <<>>, <<a.id>> \o b.items, from, EndOr(b, b.items, To(b, a.id))))))
InlineItems(s, seps, items) ==
  Then(Expr(s), LAMBDA a :
    IF Tok(a).kind \in seps THEN InlineItems(Bump(a), seps, Append(items, a.id))
    ELSE [a EXCEPT !.items = Append(items, a.id)])

(* A Match keeps how many of its children are subjects *)
Match(s, subjects, arms, from, to) ==
  LET m == NodeAt(s, "Match", <<>>, subjects \o arms, from, to)
  IN [m EXCEPT !.ast[m.id].n = Len(subjects)]
MatchExpr(s, from) ==
  Then(Params(s, TRUE), LAMBDA a : Then(Body(a, "arm"), LAMBDA b :
    [Match(b, b.ast[a.id].kids, b.items, from, EndOr(b, b.items, To(b, a.id))) EXCEPT
       !.items = <<a.id>>]))
(* parse_fn: `fn match` matches on its own parameters, which both nodes then share *)
Fn(s, from) ==
  IF IsWord(s, "match")
  THEN Then(MatchExpr(Bump(s), from), LAMBDA m :
         NodeAt(m, "Fn", <<>>, Append(m.items, m.id), from, To(m, m.id)))
  ELSE Then(Params(s, TRUE), LAMBDA a : Then(Body(a, "inline"), LAMBDA b :
         NodeAt(b, "Fn", <<>>, <<a.id>> \o b.items, from, EndOr(b, b.items, To(b, a.id)))))

ParamList(s, defaults, items) ==
  LET Default(t) ==
        IF defaults /\ IsSep(t, "=")
        THEN Then(InfixAt(Bump(t), 0), LAMBDA r : Over(r, "Bind", <<t.i>>, <<t.id, r.id>>))
        ELSE t
  IN IF Is(s, "Colon") \/ Is(s, "EOF") THEN [s EXCEPT !.items = items]
     ELSE Then(IF IsSpread(s) THEN Spread(s) ELSE Then(ApplyNoBlock(s), LAMBDA a : Default(a)), LAMBDA p :
            LET more == Append(items, p.id)
                b == Bump(p)
                c == IF Is(b, "BlockStart") \/ Is(b, "BlockCont") THEN Bump(b) ELSE b
                e == Elisions(c, p.i, FALSE, more)
            IN IF Is(p, "Comma") THEN ParamList(e, defaults, e.items)
               ELSE IF Is(p, "BlockCont") \/ Is(p, "Semicolon")
               THEN ParamList(SkipBlockTokens(b), defaults, more)
               ELSE [SkipBlockTokens(p) EXCEPT !.items = more])
ParamsRule(s, defaults) ==
  LET e == Elisions(s, 0, FALSE, <<>>)
  IN Then(ParamList(SkipBlockTokens(e), defaults, e.items), LAMBDA a :
       PatternsAt(a, a.items, Tok(s).from, EndOr(a, a.items, Tok(s).from)))

(* What follows a colon: an indented block of items, or items on the same line *)
Body(s, how) ==
  Then(Expect(s, "Colon"), LAMBDA c :
    IF Is(c, "BlockStart") THEN BlockItems(Bump(c), IF how = "inline" THEN "expr" ELSE how, <<>>)
    ELSE IF how = "inline" THEN InlineItems(c, {"Comma", "Semicolon"}, <<>>)
    ELSE Then(IF how = "arm" THEN Arm(c) ELSE Expr(c), LAMBDA a : [a EXCEPT !.items = <<a.id>>]))

ArmOf(s, lhs, items, from) == NodeAt(s, "Arm", <<>>, <<lhs>> \o items, from, EndOr(s, items, from))
Item(s, how) ==
  CASE how = "expr" -> Expr(s)
    [] how = "arm" -> Arm(s)
    [] how = "typeItem" /\ IsSpread(s) -> Spread(s)
    [] OTHER -> Then(Expr(s), LAMBDA a :
                  IF ~Is(a, "Colon") THEN a
                  ELSE Then(ArmBody(Bump(a)), LAMBDA z : ArmOf(z, a.id, z.items, From(a, a.id))))
BlockItemsRule(s, how, items) ==
  IF Is(s, "BlockEnd") \/ Is(s, "EOF")
  THEN [(IF Is(s, "BlockEnd") THEN Bump(s) ELSE s) EXCEPT !.items = items]
  ELSE IF Is(s, "BlockCont") THEN BlockItems(Bump(s), how, items)
  ELSE Then(Item(s, how), LAMBDA a :
         LET b == Bump(a)
         IN IF ~IsItemSep(a) THEN BlockItems(a, how, Append(items, a.id))
            ELSE IF Is(b, "BlockCont") THEN Fail(b)
            ELSE BlockItems(IF Is(b, "BlockStart") THEN Bump(b) ELSE b, how, Append(items, a.id)))

(* The body of an arm, behind its colon *)
ArmBody(s) ==
  LET c == BumpWhile(s, {"BlockCont"})
  IN IF Is(c, "BlockStart") THEN BlockItems(Bump(c), "expr", <<>>)
     ELSE Then(Expr(c), LAMBDA a : [a EXCEPT !.items = <<a.id>>])
ArmPatterns(s, items) ==
  Then(IF IsSpread(s) THEN Spread(s) ELSE ApplyNoBlock(s), LAMBDA a :
    IF Is(a, "Comma") THEN ArmPatterns(Bump(a), Append(items, a.id))
    ELSE [a EXCEPT !.items = Append(items, a.id)])
Arm(s) ==
  Then(ArmPatterns(s, <<>>), LAMBDA p : Then(Expect(p, "Colon"), LAMBDA c :
    Then(ArmBody(c), LAMBDA z :
      LET l == PatternsAt(z, p.items, Tok(s).from, EndOr(z, p.items, Tok(s).from))
      IN ArmOf(l, l.id, z.items, Tok(s).from))))

(* A block of tokens is not parsed; the end of its indentation is left where it is *)
RECURSIVE TokenItems(_, _, _)
TokenItems(s, indented, items) ==
  IF Is(s, "BlockEnd") \/ Is(s, "EOF") \/ (Is(s, "BlockCont") /\ ~indented)
  THEN [s EXCEPT !.items = items]
  ELSE IF Is(s, "BlockCont") THEN TokenItems(Bump(s), indented, items)
  ELSE LET a == Leaf(s, "Token") IN TokenItems(a, indented, Append(items, a.id))
TokensBody(s) ==
  Then(Expect(s, "Colon"), LAMBDA c :
    IF Is(c, "BlockStart") THEN TokenItems(Bump(c), TRUE, <<>>) ELSE TokenItems(c, FALSE, <<>>))

(* parse_block: the comments read so far belong to the block *)
BlockOf(s, at) ==
  LET name == NodeAt(s, "Ident", <<at>>, <<>>, s.toks[at].from, s.toks[at].to)
      w == s.toks[at].text
  IN Then(Params(name, FALSE), LAMBDA p :
       IF IsSep(p, "=")
       THEN NodeAt(p, "Apply", <<>>, <<name.id>> \o p.ast[p.id].kids, s.toks[at].from, To(p, p.id))
       ELSE Then(IF p.blocks[w] = "Ast" THEN Body(p, "exprOrArm") ELSE TokensBody(p), LAMBDA b :
              NodeAt(b, "Block", <<>>, <<name.id, p.id>> \o b.items, s.toks[at].from,
                     Max({EndOr(b, b.items, To(b, p.id)), b.toks[Min({b.seen, Len(b.toks)})].trivia}))))

Rule(rule, s, a) ==
  CASE rule = "Expr" -> ExprRule(s)
    [] rule = "InfixAt" -> InfixAtRule(s, a[1])
    [] rule = "SingleArg" -> SingleArgRule(s, a[1])
    [] rule = "BlockItems" -> BlockItemsRule(s, a[1], a[2])
    [] rule = "Spread" -> SpreadRule(s)
    [] rule = "ApplyNoBlock" -> ApplyNoBlockRule(s)
    [] rule = "Group" -> GroupRule(s)
    [] rule = "String" -> StringRule(s, a[1])
    [] rule = "Params" -> ParamsRule(s, a[1])

-----------------------------------------------------------------------------
(* parse: what is left behind the end of the first block is not looked at *)
Parsed(ts, blocks) ==
  LET s == [toks |-> Visible(ts), i |-> 1, seen |-> 1, ast |-> <<>>, id |-> 0, items |-> <<>>,
            inBlock |-> FALSE, ok |-> TRUE, blocks |-> blocks]
  IN Then(Expect(s, "BlockStart"), LAMBDA a : Then(BlockItems(a, "expr", <<>>), LAMBDA b :
       IF b.items = <<>> THEN NodeAt(b, "Module", <<>>, <<>>, Tok(b).from, Tok(b).to)
       ELSE Over(b, "Module", <<>>, b.items)))
=============================================================================
