------------------------------ MODULE FrontEnd ------------------------------
(***************************************************************************)
(* From text to tree: the lexer runs to the end of the text, then the      *)
(* parser.  (In the code the parser pulls one token at a time; the lexer   *)
(* never sees the parser's state, so the tokens are the same.)             *)
(***************************************************************************)
EXTENDS Parser

VARIABLE parsed   \* the state the parser ended in; none before it has run

frontVars == <<lexVars, parsed>>
NotParsed == [ok |-> FALSE, i |-> 0]

FrontInit == LexInit /\ parsed = NotParsed

Lex == Scan /\ UNCHANGED parsed
(* To the parser a token's text is a word *)
Word(bytes) == FoldLeft(LAMBDA w, b : w \o b, "", bytes)
Parse ==
  /\ Done /\ parsed = NotParsed
  /\ parsed' = Parsed([k \in DOMAIN toks |-> [toks[k] EXCEPT !.text = Word(@)]], InitialBlocks)
  /\ UNCHANGED lexVars
(* The program is a tree, or an error has been reported *)
Rest == panicked \/ parsed # NotParsed
Halt == Rest /\ UNCHANGED frontVars

FrontNext == Lex \/ Parse \/ Halt
FrontSpec == FrontInit /\ [][FrontNext]_frontVars

-----------------------------------------------------------------------------
Accepted == parsed.ok
Nodes == DOMAIN parsed.ast
Root == parsed.id
Kids(n) == Range(parsed.ast[n].kids)
Reach == LET RECURSIVE Below(_)
             Below(ns) == LET more == ns \cup UNION {Kids(n) : n \in ns}
                          IN IF more = ns THEN ns ELSE Below(more)
         IN Below({Root})
Own(n) == Range(parsed.ast[n].own)

(* Tokens that mean something by themselves: names, literals, operators *)
Meaningful(k) ==
  LET t == parsed.toks[k]
  IN \/ t.kind \in {"Int", "Float", "Decimal", "Partial", "StrText"}
     \/ t.kind = "Ident" /\ t.text \notin DOMAIN InitialBlocks \cup {"try"}
     \/ t.kind = "Sep" /\ t.text # "|"

(* The arena is what the passes behind the parser take it for: a node comes
   after its children, and no node reached from the root has two parents, but
   for the parameters a `fn match` shares with its match (AstBuilder::append,
   arena-contract.md). *)
ArenaIsTree ==
  Accepted =>
    /\ \A n \in Nodes : \A k \in Kids(n) : k < n
    /\ \A n \in Reach : ~\E p, q \in Reach :
         /\ p # q /\ n \in Kids(p) /\ n \in Kids(q)
         /\ {parsed.ast[p].kind, parsed.ast[q].kind} # {"Patterns", "Match"}

(* A `not` behind a name or an operand that no `in` follows starts the expression
   over, and the parser drops what stood to its left *)
StartsOver ==
  \E k \in 2..parsed.i :
    /\ parsed.toks[k].text = "not" /\ parsed.toks[k + 1].text # "in"
    /\ parsed.toks[k - 1].kind \notin {"BlockStart", "BlockCont", "Comma", "Semicolon", "Colon",
                                      "BracketOpen", "StrExprStart", "Sep"}
(* Nothing else is lost and nothing is used twice: up to where the parser stopped,
   each name, literal and operator is held by exactly one node of the tree,
   whatever was peeked at, taken back as a left operand, rebuilt by a string or
   collected as an argument. *)
KeptOnce ==
  Accepted /\ ~StartsOver =>
    \A k \in 1..(parsed.i - 1) :
      Meaningful(k) => Cardinality({n \in Reach : k \in Own(n)}) = 1

(* A program is parsed to its end, or refused *)
WholeProgram == Accepted => parsed.toks[parsed.i].kind = "EOF"

(* A tree of infix operators groups the way the operators' precedence says: an
   operand that is itself an infix operation binds tighter than the operator it
   is an operand of, or as tightly and on the side to which that associates.
   (parse_infix and infix_bp; parentheses make a Group, which is no such operand,
   and a chain of comparisons is one operation.) *)
Levels == <<{"or", "xor"}, {"and"}, {"in", "not"}, {"..", "..."}, Cmp, {">>", "<<", ">>>", "<<<"},
            {"+", "-"}, {"*", "/", "//", "%", "%%", "/%"}, {"**"}, {"."}>>
RightAssociative == {9}
Level(n) == CHOOSE l \in DOMAIN Levels : parsed.toks[parsed.ast[n].own[1]].text \in Levels[l]
Infixes == {n \in Reach : parsed.ast[n].kind \in {"InfixOp", "ChainedCmp", "Member"}}
GroupsByPower ==
  Accepted =>
    \A n \in Infixes : \A j \in DOMAIN parsed.ast[n].kids :
      LET k == parsed.ast[n].kids[j]
      IN k \in Infixes =>
           \/ Level(k) > Level(n)
           \/ Level(k) = Level(n) /\ (j = 1 <=> Level(n) \notin RightAssociative)

(* Reading the tree from left to right reads the program: the children of a node
   stand in the order of the text and inside its span, except for the name of a
   postfix tag, which stands behind its argument, for the match of a `fn match`,
   which has the span of the function, and for the function that an indented
   group is, which stands at its parenthesis (the loc of every node,
   which diagnostics, breakpoints and source maps are made of) *)
SpansNest ==
  Accepted =>
    \A n \in Reach :
      LET a == parsed.ast[n]
          Span(k) == parsed.ast[k]
          thunk == a.kind = "Fn" /\ a.to = a.from + 1
          postfix == a.kind = "Apply" /\ Len(a.kids) = 2 /\ Span(a.kids[1]).from = Span(a.kids[2]).to
      IN \A j \in DOMAIN a.kids :
           /\ ~thunk => a.from <= Span(a.kids[j]).from /\ Span(a.kids[j]).to <= a.to
           /\ j > 1 /\ ~postfix /\ ~(Span(a.kids[j]).kind = "Match" /\ Span(a.kids[j]).from = a.from) => Span(a.kids[j - 1]).to <= Span(a.kids[j]).from
=============================================================================
