------------------------------- MODULE Naming -------------------------------
(***************************************************************************)
(* Which names a module asks for, and which modules, said of its tree.     *)
(*                                                                         *)
(* A module's names are in scope all over it, whatever their order; those  *)
(* of a body from the statement that binds them on, and a single name in   *)
(* what it is bound to; parameters and the names of an arm's patterns from *)
(* their place on.  The passes are held against this.                      *)
(***************************************************************************)
EXTENDS Integers, Sequences, FiniteSets, SequencesExt
LOCAL INSTANCE Urls

Text(t, id) == t.ast[id].text
KindOf(t, id) == t.ast[id].kind
Headed(t, id, name) ==
  LET kids == t.ast[id].kids
  IN KindOf(t, id) = "Apply" /\ Len(kids) = 2 /\ KindOf(t, kids[1]) = "Ident" /\ Text(t, kids[1]) = name
(* What is a name, rather than the use of one: of a field, of a case, or of what the parser knows *)
Label(t, id) == KindOf(t, id) \in {"Ident", "LitStr"}

(* The names that a pattern, or a statement, binds *)
RECURSIVE NamesIn(_, _)
NamesIn(t, id) ==
  LET n == t.ast[id]
      parts == CASE n.kind \in {"LitSeq", "LitRec", "Spread", "BindRight", "Patterns", "StrTempl"} -> Range(n.kids)
                 [] n.kind \in {"Bind", "InfixOp"} -> {n.kids[1]}
                 [] n.kind = "Apply" -> Range(Tail(n.kids))
                 [] n.kind = "Arm" -> {Last(n.kids)}
                 [] OTHER -> {}
  IN IF n.kind \in {"Ident", "SynthIdent"} THEN {n.text} ELSE UNION {NamesIn(t, k) : k \in parts}
Binds(t, s) ==
  LET kids == t.ast[s].kids
  IN CASE KindOf(t, s) = "Bind" -> NamesIn(t, kids[1]) [] KindOf(t, s) = "BindRight" -> NamesIn(t, kids[2]) [] OTHER -> {}

(* The names that are asked for around an expression (or a pattern), whose own are not *)
RECURSIVE Asks(_, _), AsksOf(_, _)
AllAsk(t, ids) == UNION {Asks(t, id) : id \in Range(ids)}
(* From the last to the first, each binding what stands behind it *)
InOrder(t, ids, Asked(_), Bound(_), after) == FoldRight(LAMBDA id, names : Asked(id) \cup (names \ Bound(id)), ids, after)
BodyAsks(t, stmts) == InOrder(t, stmts, LAMBDA s : Asks(t, s), LAMBDA s : Binds(t, s), {})
PatternsAsk(t, pats, after) == InOrder(t, pats, LAMBDA p : AsksOf(t, p), LAMBDA p : NamesIn(t, p), after)
BindAsks(t, pat, rhs) == AsksOf(t, pat) \cup (Asks(t, rhs) \ IF KindOf(t, pat) = "Ident" THEN {Text(t, pat)} ELSE {})
(* A field, an argument of a case: its value, and a key that is computed *)
EntryAsks(t, id, Of(_)) ==
  LET kids == t.ast[id].kids
  IN IF KindOf(t, id) # "Arm" THEN Of(id) ELSE Of(Last(kids)) \cup IF Label(t, kids[1]) THEN {} ELSE Asks(t, kids[1])
CaseAsks(t, id) ==
  IF KindOf(t, id) = "Ident" THEN {} ELSE UNION {EntryAsks(t, k, LAMBDA f : Asks(t, f)) : k \in Range(Tail(t.ast[id].kids))}
Asks(t, id) ==
  LET n == t.ast[id]
      all == AllAsk(t, n.kids)
      items == Range(Tail(n.kids))
      generic == NamesIn(t, n.kids[1])
  IN CASE n.kind \in {"Ident", "SynthIdent"} -> {n.text}
       [] n.kind = "Bind" -> BindAsks(t, n.kids[1], n.kids[2])
       [] n.kind = "BindRight" -> BindAsks(t, n.kids[2], n.kids[1])
       [] n.kind \in {"Fn", "Arm"} ->
            LET pats == IF KindOf(t, n.kids[1]) = "Patterns" THEN t.ast[n.kids[1]].kids ELSE <<n.kids[1]>>
            IN PatternsAsk(t, pats, BodyAsks(t, Tail(n.kids)))
       [] n.kind = "Apply" -> IF Headed(t, id, "import") THEN {} ELSE all
       [] n.kind = "Member" -> IF Label(t, n.kids[2]) THEN Asks(t, n.kids[1]) ELSE all
       [] n.kind = "LitRec" -> UNION {EntryAsks(t, k, LAMBDA f : Asks(t, f)) : k \in Range(n.kids)}
       [] n.kind = "Type" -> UNION {EntryAsks(t, k, LAMBDA f : Asks(t, f)) : k \in items} \ generic
       [] n.kind = "Union" -> AllAsk(t, Tail(n.kids)) \ generic
       [] n.kind = "Enum" -> UNION {CaseAsks(t, k) : k \in items} \ generic
       [] n.kind = "Module" -> BodyAsks(t, n.kids)
       [] OTHER -> all
AsksOf(t, pat) ==
  LET n == t.ast[pat]
  IN CASE n.kind \in {"LitSeq", "StrTempl", "Spread"} -> PatternsAsk(t, n.kids, {})
       [] n.kind = "LitRec" -> UNION {EntryAsks(t, k, LAMBDA f : AsksOf(t, f)) : k \in Range(n.kids)}
       [] n.kind = "InfixOp" -> AllAsk(t, n.kids) \ NamesIn(t, n.kids[1])
       [] n.kind = "Apply" ->
            (IF Headed(t, pat, "pub") THEN {} ELSE Asks(t, n.kids[1])) \cup PatternsAsk(t, Tail(n.kids), {})
       [] n.kind = "BindRight" -> AsksOf(t, n.kids[1])
       [] OTHER -> {}
(* What nothing in the module binds *)
Strays(t) == AllAsk(t, t.ast[t.id].kids) \ UNION {Binds(t, s) : s \in Range(t.ast[t.id].kids)}

(* The modules that it imports, wherever in it, and the names that are taken of each *)
Imported(t, importer) ==
  LET IsOne(id) == Headed(t, id, "import") /\ KindOf(t, t.ast[id].kids[2]) = "LitStr"
      Taker(id, s) == LET k == t.ast[s].kids IN KindOf(t, s) = "Bind" /\ k[2] = id /\ KindOf(t, k[1]) = "LitRec"
      Fields(id) == UNION {Range(t.ast[t.ast[s].kids[1]].kids) : s \in {s \in DOMAIN t.ast : Taker(id, s)}}
      Key(k) == IF KindOf(t, k) = "Arm" THEN t.ast[k].kids[1] ELSE k
      Taken(id) == {Text(t, Key(k)) : k \in {k \in Fields(id) : KindOf(t, k) # "Spread"}}
  IN {[url |-> Canonical(importer, Text(t, t.ast[id].kids[2])), names |-> Taken(id)] : id \in {id \in DOMAIN t.ast : IsOne(id)}}
(* Those that stand where the documentation has them: as a statement of the module, or bound
   to a record by one *)
Stated(t, importer) ==
  LET Right(s) == IF KindOf(t, s) = "Bind" /\ KindOf(t, t.ast[s].kids[1]) = "LitRec" THEN t.ast[s].kids[2] ELSE s
      right == {Right(s) : s \in Range(t.ast[t.id].kids)}
  IN {Canonical(importer, Text(t, t.ast[id].kids[2])) :
        id \in {id \in right : Headed(t, id, "import") /\ KindOf(t, t.ast[id].kids[2]) = "LitStr"}}
(* Those that are not there: not in the package, nor a module of the runtime with such names *)
Unfound(t, importer, package) ==
  {i \in Imported(t, importer) : i.url \notin package /\ ~(i.url \in DOMAIN Natives /\ i.names \subseteq Natives[i.url])}
=============================================================================
