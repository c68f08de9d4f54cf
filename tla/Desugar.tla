------------------------------ MODULE Desugar ------------------------------
(***************************************************************************)
(* The rewriting between the parser and the analysis of scopes: `f _` calls *)
(* f with nothing, a name bound at the top of a module is public, and an    *)
(* expression with holes `?` is a function of one argument.                 *)
(*                                                                         *)
(* The arena only grows (AstBuilder): a rewritten node is a new node, and   *)
(* a node none of whose children changed is the old one.  A state s holds   *)
(* the arena, the node an operator returns, and the counter of the names    *)
(* made for holes.                                                         *)
(***************************************************************************)
EXTENDS Integers, Sequences, SequencesExt, FiniteSets

(* What the passes behind the parser read of a node: its kind, the text of its
   tokens, its children; how many of them are the subjects of a match; for a
   name made up for a hole, its number. *)
Tree(p) ==
  [ast |-> [k \in DOMAIN p.ast |->
      LET a == p.ast[k]
          ops == [j \in DOMAIN a.own |-> p.toks[a.own[j]].text]
          gap == IF p.toks[a.own[2]].from - p.toks[a.own[1]].to = 1 THEN " " ELSE "  "
      IN [kind |-> a.kind, ops |-> ops,
          text |-> IF ops = <<"not", "in">> THEN "not" \o gap \o "in" ELSE FoldLeft(LAMBDA t, o : t \o o, "", ops),
          kids |-> a.kids, n |-> a.n]],
   id |-> p.id, n |-> 0]

Kind(a, id) == a[id].kind
Named(a, id, name) == Kind(a, id) = "Ident" /\ a[id].text = name
IsSourceBlock(a, id) == Named(a, id, "u1u2ink") \/ Named(a, id, "u1u2tok")
All(a, id) == DOMAIN a[id].kids
From2(a, id) == All(a, id) \ {1}

New(s, kind, text, kids, n) ==
  [s EXCEPT !.ast = Append(@, [kind |-> kind, ops |-> <<text>>, text |-> text, kids |-> kids, n |-> n]),
            !.id = Len(s.ast) + 1]
WithKids(s, id, kids) ==
  [s EXCEPT !.ast = Append(@, [s.ast[id] EXCEPT !.kids = kids]), !.id = Len(s.ast) + 1]
Unchanged(s, id) == [s EXCEPT !.id = id]
(* The children at js rewritten from left to right by F, the others kept *)
Mapped(s, id, js, F(_, _)) ==
  FoldLeftDomain(LAMBDA t, j :
      LET r == IF j \in js THEN F(t.s, s.ast[id].kids[j]) ELSE Unchanged(t.s, s.ast[id].kids[j])
      IN [s |-> r, kids |-> Append(t.kids, r.id)],
    [s |-> s, kids |-> <<>>], s.ast[id].kids)
Rebuilt(s, id, m) == IF m.kids = s.ast[id].kids THEN Unchanged(m.s, id) ELSE WithKids(m.s, id, m.kids)

-----------------------------------------------------------------------------
(* `f _` (rewrite_wildcard_call) *)

(* Patterns are not looked into, nor are type declarations and blocks of source text *)
CallKids(a, id) ==
  CASE Kind(a, id) = "Bind" -> {2}
    [] Kind(a, id) = "BindRight" -> {1}
    [] Kind(a, id) \in {"Fn", "Arm"} -> From2(a, id)
    [] Kind(a, id) = "Block" -> IF IsSourceBlock(a, a[id].kids[1]) THEN {} ELSE From2(a, id) \ {2}
    [] Kind(a, id) \in {"Type", "Union", "Enum", "Patterns"} -> {}
    [] OTHER -> All(a, id)
RECURSIVE WildcardCalls(_, _)
WildcardCalls(s, id) ==
  LET kids == s.ast[id].kids
      soleWildcard == Kind(s.ast, id) = "Apply" /\ Len(kids) = 2 /\ Kind(s.ast, kids[2]) = "Wildcard"
      m == Mapped(s, id, IF soleWildcard THEN {1} ELSE CallKids(s.ast, id), LAMBDA t, k : WildcardCalls(t, k))
  IN IF soleWildcard THEN WithKids(m.s, id, <<m.kids[1]>>) ELSE Rebuilt(s, id, m)

-----------------------------------------------------------------------------
(* Public names (inject_implicit_pub) *)

IsImport(a, id) == Kind(a, id) = "Apply" /\ Named(a, a[id].kids[1], "import")
TopBind(s, id) ==
  LET kids == s.ast[id].kids
  IN IF Kind(s.ast, id) # "Bind" \/ Kind(s.ast, kids[1]) # "Ident" \/ IsImport(s.ast, kids[2])
     THEN Unchanged(s, id)
     ELSE LET p == New(s, "Ident", "pub", <<>>, 0)
              l == New(p, "Apply", "", <<p.id, kids[1]>>, 0)
          IN WithKids(l, id, <<l.id, kids[2]>>)
ImplicitPub(s, id) ==
  IF Kind(s.ast, id) # "Module" THEN Unchanged(s, id)
  ELSE Rebuilt(s, id, Mapped(s, id, All(s.ast, id), LAMBDA t, k : TopBind(t, k)))

-----------------------------------------------------------------------------
(* Holes *)

(* has_partial: a group or a pipe is a boundary; of a member's computed key the
   inside counts.  Of a function only the parameters count, but has_partial_builder,
   which looks at what has just been built (inBody), looks at the body, too. *)
RECURSIVE HasHole(_, _, _)
HasHole(a, id, inBody) ==
  LET kids == a[id].kids
      js == CASE Kind(a, id) \in {"Group", "Pipe"} -> {}
              [] Kind(a, id) = "Bind" -> {2}
              [] Kind(a, id) = "BindRight" -> {1}
              [] Kind(a, id) = "Fn" /\ ~inBody -> {1}
              [] Kind(a, id) = "Block" /\ IsSourceBlock(a, kids[1]) -> {1, 2}
              [] OTHER -> DOMAIN kids
      Inside(k) == IF Kind(a, id) = "Member" /\ k = kids[2] /\ Kind(a, k) = "Group" THEN a[k].kids[1] ELSE k
  IN Kind(a, id) = "Partial" \/ \E j \in js : HasHole(a, Inside(kids[j]), inBody)

(* needs_descent: somewhere below there is a hole to be turned into a parameter *)
RECURSIVE NeedsDescent(_, _)
NeedsDescent(a, id) ==
  LET js == CASE Kind(a, id) \in {"Module", "Patterns", "Block", "Type", "Enum", "Union"} -> {}
              [] Kind(a, id) = "Bind" -> {2}
              [] Kind(a, id) = "BindRight" -> {1}
              [] Kind(a, id) = "Arm" -> From2(a, id)
              [] OTHER -> All(a, id)
  IN Kind(a, id) = "Partial" \/ \E j \in js : NeedsDescent(a, a[id].kids[j])

(* replace_partial: the holes of one scope become the name made for it.  Below the
   kinds it does not list, holes stay. *)
ReplaceKids(a, id) ==
  CASE Kind(a, id) \in {"LitSeq", "LitRec", "StrTempl", "StrRawTempl", "UnaryOp", "InfixOp",
                        "PostfixOp", "ChainedCmp", "Spread", "Member", "Apply"} -> All(a, id)
    [] Kind(a, id) = "Bind" -> {2}
    [] Kind(a, id) = "BindRight" -> {1}
    [] Kind(a, id) = "Arm" -> From2(a, id)
    [] OTHER -> {}
RECURSIVE Replace(_, _, _, _)
Replace(s, id, n, inBody) ==
  LET a == s.ast
      key == IF Kind(a, id) = "Member" /\ Kind(a, a[id].kids[2]) = "Group" THEN a[id].kids[2] ELSE 0
      Child(t, k) ==
        IF k # key THEN Replace(t, k, n, inBody)
        ELSE Rebuilt(t, k, Mapped(t, k, {1}, LAMBDA u, i : Replace(u, i, n, inBody)))
      m == Mapped(s, id, ReplaceKids(a, id), Child)
  IN IF ~HasHole(a, id, inBody) THEN Unchanged(s, id)
     ELSE IF Kind(a, id) = "Partial" THEN New(s, "SynthIdent", "$" \o ToString(n), <<>>, n)
     ELSE WithKids(m.s, id, m.kids)

(* wrap_if_partial_on_builder: a node that stood in the source is looked at as the source does *)
Wrap(s, id, known) ==
  LET inBody == id > known
      b == Replace([s EXCEPT !.n = @ + 1], id, s.n, inBody)
      p == New(b, "SynthIdent", "$" \o ToString(s.n), <<>>, s.n)
      params == New(p, "Patterns", "", <<p.id>>, 0)
  IN IF ~HasHole(s.ast, id, inBody) THEN Unchanged(s, id)
     ELSE New(params, "Fn", "", <<params.id, b.id>>, 0)

(* transform_stmt, where an expression is a scope of its own, and transform, where it
   is part of one; both are one operator because each leads to the other.  known is
   the length of the arena before the pass. *)
RECURSIVE Transform(_, _, _, _)
Statement(s, id, known) ==
  LET a == s.ast
      Stmt(t, k) == Transform(t, k, known, TRUE)
      Part(t, k) == Transform(t, k, known, FALSE)
      js == CASE Kind(a, id) = "Bind" -> {2}
              [] Kind(a, id) = "BindRight" -> {1}
              [] Kind(a, id) \in {"Arm", "Fn"} -> From2(a, id)
              [] OTHER -> All(a, id)
      r == Part(s, id)
  IN IF Kind(a, id) = "Group" /\ HasHole(a, a[id].kids[1], FALSE) THEN Stmt(s, a[id].kids[1])
     ELSE IF Kind(a, id) \in {"Bind", "BindRight", "Arm", "Group", "Pipe", "Fn", "Module"}
     THEN Rebuilt(s, id, Mapped(s, id, js, Stmt))
     ELSE IF ~NeedsDescent(a, id) THEN Unchanged(s, id)
     ELSE Wrap(r, r.id, known)
Part(s, id, known) ==
  LET a == s.ast
      Stmt(t, k) == Transform(t, k, known, TRUE)
      Child(t, k) == Transform(t, k, known, FALSE)
      key == IF Kind(a, id) = "Member" /\ Kind(a, a[id].kids[2]) = "Group" THEN a[id].kids[2] ELSE 0
      Key(t, k) == IF k # key THEN Child(t, k)
                   ELSE LET m == Mapped(t, k, {1}, Child) IN WithKids(m.s, k, m.kids)
      Each(t, k) == IF Kind(a, id) = "Fn" /\ k # a[id].kids[1] THEN Stmt(t, k) ELSE Key(t, k)
      m == Mapped(s, id, All(a, id), Each)
  IN IF Kind(a, id) = "Group" THEN Stmt(s, a[id].kids[1])
     ELSE IF a[id].kids = <<>> /\ Kind(a, id) \in {"LitBool", "LitInt", "LitFloat", "LitDecimal", "LitStr",
                                                   "Ident", "SynthIdent", "Partial", "Wildcard", "Token"}
     THEN Unchanged(s, id)
     ELSE WithKids(m.s, id, m.kids)
Transform(s, id, known, stmt) == IF stmt THEN Statement(s, id, known) ELSE Part(s, id, known)

-----------------------------------------------------------------------------
(* apply *)
Desugared(t) ==
  LET w == WildcardCalls(t, t.id)
      p == ImplicitPub(w, w.id)
  IN Transform(p, p.id, Len(p.ast), TRUE)
=============================================================================
