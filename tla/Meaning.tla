------------------------------ MODULE Meaning ------------------------------
(***************************************************************************)
(* What a program means, said of its trees: an expression has a value in   *)
(* an environment, a pattern matches a value and extends the environment.  *)
(* Nothing here knows of continuations, closures, slots or cells that are  *)
(* shared; it is what the passes and the machine are held against.         *)
(*                                                                         *)
(* A state st holds the variables, the names of each module that the host  *)
(* is shown (mods) and all of them (tops), the types that were declared,   *)
(* how many values with an identity were made, the context, and the        *)
(* suspensions that were not resumed so far.  An environment holds the     *)
(* variable of each name in scope, the names that are in scope before they *)
(* are bound, and the module.  An outcome has a status: "ok", "fail" of a  *)
(* pattern, "trap", "resumed", on the way back to the suspension that goes *)
(* on, "idle", for a program that is over without a result, "late", for    *)
(* one that asks for a name of a module above the place that binds it, or  *)
(* "outside", for what is not said here.                                   *)
(***************************************************************************)
EXTENDS Integers, Sequences, FiniteSets, SequencesExt, TLC
LOCAL INSTANCE Types
LOCAL INSTANCE Urls
LOCAL INSTANCE Naming

NoVariables == [vars |-> <<>>, mods |-> [u \in {} |-> NoFields], tops |-> [u \in {} |-> NoFields], types |-> <<>>, made |-> 0,
                ctx |-> Bool(FALSE), open |-> {}]
Scope(trees, url) == [names |-> [x \in {} |-> 0], early |-> {}, trees |-> trees, url |-> url]
Out(is, v, env, st) == [is |-> is, v |-> v, env |-> env, st |-> st]

Node(env, id) == env.trees[env.url].ast[id]
IsPub(env, id) == Headed(env.trees[env.url], id, "pub")

(* What a name of a module stands for until it is bound *)
Late == <<"late">>
(* A name gets its value: in the variable that is waiting for it, or in a new one; all
   the names of a module are there for those who import it *)
Binding(name, v, env, st) ==
  LET i == env.names[name]
      bound == [st EXCEPT !.vars[i] = v]
      top == [bound EXCEPT !.tops[env.url] = (Sym(name) :> v) @@ @]
  IN IF name \in env.early
     THEN Out("ok", v, [env EXCEPT !.early = @ \ {name}], IF st.vars[i] = Late THEN top ELSE bound)
     ELSE Out("ok", v, [env EXCEPT !.names = (name :> Len(st.vars) + 1) @@ @], [st EXCEPT !.vars = Append(@, v)])
(* Names that are in scope before they are bound *)
WithEarly(env, st, names, v) ==
  LET ns == FoldSet(LAMBDA x, s : Append(s, x), <<>>, names)
  IN Out("ok", Null,
         [env EXCEPT !.names = [x \in names |-> Len(st.vars) + CHOOSE j \in DOMAIN ns : ns[j] = x] @@ @,
                     !.early = names],
         [st EXCEPT !.vars = @ \o [j \in DOMAIN ns |-> v]])

-----------------------------------------------------------------------------
(* Equality is of contents, all the way down, whenever and however they were made; a value
   of fink's own making (opaque) is equal to itself alone.  Null is for what is not said: whether
   two functions that were made apart are equal, and what a number, a string, a boolean or a
   function is compared with that is not of its kind *)
Conjunction(answers) == IF Null \in answers THEN Null ELSE Bool(Bool(FALSE) \notin answers)
RECURSIVE Same(_, _, _)
Same(ts, a, b) ==
  LET unions == Is("type", a) /\ Is("type", b) /\ ts[a[2]].kind = "union" /\ ts[b[2]].kind = "union"
  IN CASE a[1] # b[1] /\ ~(IsClosure(a) /\ IsClosure(b)) ->
            IF a[1] \in {"seq", "rec", "range", "type", "inst", "opaque"} THEN Bool(FALSE) ELSE Null
       [] a[1] = b[1] /\ a[1] \in {"seq", "rec"} ->
            IF DOMAIN a[2] # DOMAIN b[2] THEN Bool(FALSE) ELSE Conjunction({Same(ts, a[2][k], b[2][k]) : k \in DOMAIN a[2]})
       [] Is("inst", a) /\ Is("inst", b) -> IF a[3] # b[3] THEN Bool(FALSE) ELSE Same(ts, a[5], b[5])
       [] unions -> Bool(ts[a[2]].members = ts[b[2]].members)
       [] Is("clo", a) /\ Is("clo", b) -> IF a = b THEN Bool(TRUE) ELSE Null
       [] OTHER -> Bool(a = b)
(* A range has its numbers, a list its elements, a record its keys, which are named or quoted *)
IsIn(ts, a, b) ==
  LET found == IF Is("seq", b) THEN {Same(ts, a, x) : x \in Range(b[2])} ELSE {}
  IN CASE Is("range", b) -> IF Is("int", a) THEN In(a, b) ELSE Null
       [] Is("seq", b) -> IF Bool(TRUE) \in found THEN Bool(TRUE) ELSE IF Null \in found THEN Null ELSE Bool(FALSE)
       [] Is("rec", b) -> Bool(a \in DOMAIN b[2] \/ (Is("str", a) /\ Sym(a[2]) \in DOMAIN b[2]))
       [] b[1] \in {"int", "bool"} -> Trap
       [] OTHER -> Null
(* What an operator gives *)
Answer(ts, op, vals) ==
  LET Not(v) == IF v \in {Null, Trap} THEN v ELSE Negated(v)
  IN CASE op = "==" -> Same(ts, vals[1], vals[2])
       [] op = "!=" -> Not(Same(ts, vals[1], vals[2]))
       [] op = "in" -> IsIn(ts, vals[1], vals[2])
       [] op = "not in" -> Not(IsIn(ts, vals[1], vals[2]))
       [] OTHER -> Applied(op, OnTypes(ts, op, vals))
Giving(r, v) == CASE v = Null -> [r EXCEPT !.is = "outside"] [] v = Trap -> [r EXCEPT !.is = "trap"] [] OTHER -> [r EXCEPT !.v = v]

-----------------------------------------------------------------------------
(* Everything, as one operator: q.do says what is asked *)
Eval(id, env, st) == [do |-> "eval", id |-> id, env |-> env, st |-> st]
All(ids, env, st) == [do |-> "all", ids |-> ids, env |-> env, st |-> st]
Statements(stmts, env, st) == [do |-> "body", stmts |-> stmts, env |-> env, st |-> st]
Matching(id, v, env, st) == [do |-> "match", id |-> id, v |-> v, env |-> env, st |-> st]
Matches(ids, vals, env, st) == [do |-> "matches", ids |-> ids, vals |-> vals, env |-> env, st |-> st]
Call(f, vals, env, st) == [do |-> "call", f |-> f, vals |-> vals, env |-> env, st |-> st]
Arms(ids, vals, env, st) == [do |-> "arms", ids |-> ids, vals |-> vals, env |-> env, st |-> st]
Declaring(id, name, env, st) == [do |-> "declare", id |-> id, name |-> name, env |-> env, st |-> st]
Module(url, env, st) == [do |-> "module", url |-> url, env |-> env, st |-> st]

RECURSIVE does
Does(q) == does[q]

(* One after the other, as long as all is well *)
InTurn(ids, first, F(_, _)) ==
  FoldLeft(LAMBDA r, id : IF r.is = "ok" THEN F(r, id) ELSE r, first, ids)
(* The values of some expressions; a spread one gives its items *)
DoesAll(q) ==
  LET Value(r, id) ==
        LET spread == Node(q.env, id).kind = "Spread"
            e == Does(Eval(IF spread THEN Node(q.env, id).kids[1] ELSE id, r.env, r.st))
            s == Bare(e.st.types, e.v)
        IN IF e.is # "ok" THEN e
           ELSE IF ~spread THEN [e EXCEPT !.v = Append(r.v, @)]
           ELSE IF Is("seq", s) THEN [e EXCEPT !.v = r.v \o s[2]] ELSE [e EXCEPT !.is = IF s = e.v THEN "trap" ELSE "outside"]
  IN InTurn(q.ids, Out("ok", <<>>, q.env, q.st), Value)
(* Types.  One has a kind and a name, the types that its instances belong to, and its
   members: fields, positions, the members of a union or the cases of an enum.  A generic
   one has the function that makes its types *)
Declarations == {"Type", "Union", "Enum"}
DoesMint(kind, name, members, bases, r) ==
  LET n == Len(r.st.types) + 1
      t == [kind |-> kind, name |-> Sym(name), members |-> members, is |-> bases \cup {n}, make |-> Null]
  IN [r EXCEPT !.v = Type(n), !.st.types = Append(@, t)]
(* The type of a field, of which nothing but that it has a value is seen *)
DoesFieldType(id, r) ==
  CASE Node(r.env, id).kind = "Wildcard" -> DoesMint("unit", "", <<>>, {}, r)
    [] Node(r.env, id).kind = "Fn" -> [r EXCEPT !.is = "outside"]
    [] OTHER -> Does(Eval(id, r.env, r.st))
(* A type of functions, of fields or of positions, the last two perhaps on top of others *)
DoesType(items, name, q) ==
  LET Kind(id) == Node(q.env, id).kind
      kids == Node(q.env, items[1]).kids
      derived == items # <<>> /\ Kind(items[1]) = "Spread"
      own == IF derived THEN Tail(items) ELSE items
      kind == CASE own = <<>> -> "unit" [] own # <<>> /\ Kind(own[1]) = "Arm" -> "rec" [] OTHER -> "tuple"
      mixed == \E id \in Range(own) : Kind(id) = "Spread" \/ (Kind(id) = "Arm") # (kind = "rec")
      start == Out("ok", Null, q.env, q.st)
      b == IF derived THEN Does(Eval(kids[1], q.env, q.st)) ELSE start
      base == b.st.types[b.v[2]]
      Of(id) == IF kind = "rec" THEN Node(q.env, id).kids[2] ELSE id
      r == InTurn(own, b, LAMBDA t, id : DoesFieldType(Of(id), t))
      fields == [k \in {Sym(Node(q.env, Node(q.env, id).kids[1]).text) : id \in Range(own)} |-> Null]
      members == IF kind = "rec" THEN fields ELSE <<>>
      sig == InTurn(Node(q.env, kids[1]).kids \o Tail(kids), start, LAMBDA t, id : DoesFieldType(id, t))
  IN IF Len(items) = 1 /\ Kind(items[1]) = "Fn"
     THEN IF sig.is # "ok" THEN sig ELSE IF ~Is("type", sig.v) THEN [sig EXCEPT !.is = "trap"]
          ELSE DoesMint("fn", name, <<>>, {}, sig)
     ELSE IF mixed \/ (derived /\ kids = <<>>) THEN [start EXCEPT !.is = "outside"]
     ELSE IF b.is # "ok" THEN b
     ELSE IF derived /\ ~Is("type", b.v) THEN [b EXCEPT !.is = "trap"]
     ELSE IF r.is # "ok" THEN r
     ELSE IF ~derived THEN DoesMint(kind, name, members, {}, r)
     ELSE CASE kind = "unit" -> DoesMint(base.kind, name, base.members, base.is, r)
            [] base.kind \in {"unit", kind} ->
                 DoesMint(kind, name, IF kind = "rec" /\ base.kind = "rec" THEN members @@ base.members ELSE members, base.is, r)
            [] OTHER -> [r EXCEPT !.is = "outside"]
(* The cases of an enum are types of their own, and their instances belong to it *)
DoesCase(n, r, id) ==
  LET c == Node(r.env, id)
      at == IF c.kind = "Ident" THEN c ELSE Node(r.env, c.kids[1])
      block == Len(c.kids) = 2 /\ Node(r.env, c.kids[2]).kind = "LitRec"
      fields == IF c.kind = "Ident" THEN <<>> ELSE IF block THEN Node(r.env, c.kids[2]).kids ELSE Tail(c.kids)
      t == DoesType(fields, at.text, r)
  IN IF c.kind \notin {"Ident", "Apply"} \/ \E f \in Range(fields) : Node(r.env, f).kind = "Spread"
     THEN [r EXCEPT !.is = "outside"]
     ELSE IF t.is # "ok" THEN t
     ELSE [t EXCEPT !.st.types[n].members = (Sym(at.text) :> t.v) @@ @, !.st.types[t.v[2]].is = @ \cup {n}]
DoesDeclare(q) ==
  LET n == Node(q.env, q.id)
      items == Tail(n.kids)
      r == Does(All(items, q.env, q.st))
      new == Len(q.st.types) + 1
      e == InTurn(items, DoesMint("enum", q.name, NoFields, {}, Out("ok", Null, q.env, q.st)),
                  LAMBDA t, id : DoesCase(new, t, id))
  IN CASE n.kind = "Type" -> DoesType(items, q.name, q)
       [] n.kind = "Union" ->
            IF \E id \in Range(items) : Node(q.env, id).kind = "Spread" THEN Out("outside", Null, q.env, q.st)
            ELSE IF r.is # "ok" THEN r ELSE IF \E v \in Range(r.v) : ~Is("type", v) THEN [r EXCEPT !.is = "outside"]
            ELSE DoesMint("union", q.name, Range(r.v), {}, r)
       [] n.kind = "Enum" -> IF e.is = "ok" THEN [e EXCEPT !.v = Type(new)] ELSE e
DoesDeclaration(id, name, q) ==
  LET params == Node(q.env, Node(q.env, id).kids[1]).kids
      r == DoesMint("unit", name, <<>>, {}, Out("ok", Null, q.env, q.st))
  IN IF params = <<>> THEN Does(Declaring(id, name, q.env, q.st))
     ELSE [r EXCEPT !.st.types[r.v[2]].make = <<"clo", name, id, q.env>>]
(* A type makes an instance of what it is called with; a generic one makes a type, whose
   instances belong to it *)
DoesMake(q) ==
  LET n == q.f[2]
      t == q.st.types[n]
      flavour == IF t.kind \in {"rec", "fn"} THEN t.kind ELSE "tuple"
      payload == CASE flavour = "tuple" -> Seq_(q.vals)
                   [] flavour = "rec" -> IF q.vals # <<>> /\ Is("rec", q.vals[1]) THEN q.vals[1] ELSE Trap
                   [] flavour = "fn" -> IF q.vals # <<>> THEN q.vals[1] ELSE Trap
      made == Instance(flavour, n, q.st.made + 1, payload)
      r == Does(Call(t.make, q.vals, q.env, q.st))
  IN IF t.make # Null THEN IF r.is # "ok" THEN r ELSE [r EXCEPT !.st.types[r.v[2]].is = @ \cup {n}]
     ELSE IF payload = Trap THEN Out("trap", Null, q.env, q.st)
     ELSE Out("ok", made, q.env, [q.st EXCEPT !.made = @ + 1])

(* The last statement is the value of a body; a name has a value, a pattern has none *)
DoesBody(q) ==
  LET n == Node(q.env, Last(q.stmts))
      pat == CASE n.kind = "Bind" -> n.kids[1] [] n.kind = "BindRight" -> n.kids[2] [] OTHER -> 0
      valued == pat = 0 \/ IsPub(q.env, pat) \/ Node(q.env, pat).kind \in {"Ident", "Wildcard"}
      r == InTurn(q.stmts, Out("ok", Null, q.env, q.st), LAMBDA t, id : Does(Eval(id, t.env, t.st)))
  IN IF r.is = "ok" /\ ~valued THEN [r EXCEPT !.is = "outside"] ELSE r
(* An operator of the runtime, on the values of expressions *)
DoesOp(op, ids, q) ==
  LET r == Does(All(ids, q.env, q.st))
  IN IF r.is # "ok" THEN r ELSE IF op \notin Operators THEN [r EXCEPT !.is = "outside"]
     ELSE Giving(r, Answer(r.st.types, op, r.v))
(* A binding: no match is a trap; a declaration is named by what it is bound to *)
DoesBind(pat, rhs, q) ==
  LET name == Node(q.env, IF IsPub(q.env, pat) THEN Node(q.env, pat).kids[2] ELSE pat)
      named == name.kind = "Ident" /\ Node(q.env, rhs).kind \in Declarations
      r == IF named THEN DoesDeclaration(rhs, name.text, q) ELSE Does(Eval(rhs, q.env, q.st))
      m == Does(Matching(pat, r.v, r.env, r.st))
  IN IF r.is # "ok" THEN r ELSE IF m.is = "fail" THEN [m EXCEPT !.is = "trap"] ELSE [m EXCEPT !.v = r.v]
(* In a body, a single name is in scope in what it is bound to *)
DoesNamed(pat, rhs, q) ==
  LET name == Node(q.env, pat).text
      e == WithEarly(q.env, q.st, {name}, Null)
      early == [q EXCEPT !.env = [e.env EXCEPT !.early = @ \cup q.env.early], !.st = e.st]
  IN IF Node(q.env, pat).kind = "Ident" /\ name \notin q.env.early THEN DoesBind(pat, rhs, early)
     ELSE DoesBind(pat, rhs, q)
(* A function without parameters in parentheses is called *)
DoesGroup(n, q) ==
  LET r == Does(Eval(n.kids[1], q.env, q.st))
      f == Node(q.env, n.kids[1])
  IN IF r.is = "ok" /\ f.kind = "Fn" /\ Node(q.env, f.kids[1]).kids = <<>> THEN Does(Call(r.v, <<>>, r.env, r.st)) ELSE r
DoesApply(n, q) ==
  LET f == Does(Eval(n.kids[1], q.env, q.st))
      r == Does(All(Tail(n.kids), f.env, f.st))
      c == Does(Call(f.v, r.v, r.env, r.st))
  IN IF f.is # "ok" THEN f ELSE IF r.is # "ok" THEN r ELSE c
DoesImport(n, q) ==
  LET url == Canonical(q.env.url, Node(q.env, n.kids[2]).text)
      r == Does(Module(url, q.env, q.st))
      natives == Rec([k \in {Sym(x) : x \in Natives[url]} |-> <<"rt", k[2]>>])
  IN IF url \in DOMAIN Natives THEN Out("ok", natives, q.env, q.st)
     ELSE IF url \in DOMAIN q.st.mods THEN Out("ok", Rec(q.st.tops[url]), q.env, q.st)
     ELSE IF r.is # "ok" THEN r ELSE Out("ok", Rec(r.st.tops[url]), q.env, r.st)
DoesPipe(n, q) ==
  LET Stage(r, id) ==
        LET f == Does(Eval(id, r.env, r.st))
        IN IF f.is # "ok" THEN f ELSE Does(Call(f.v, <<r.v>>, f.env, f.st))
  IN InTurn(Tail(n.kids), Does(Eval(n.kids[1], q.env, q.st)), Stage)
DoesChain(n, q) ==
  LET r == Does(All(n.kids, q.env, q.st))
      cmps == {Answer(r.st.types, n.ops[j], SubSeq(r.v, j, j + 1)) : j \in DOMAIN n.ops}
  IN IF r.is # "ok" THEN r ELSE Giving(r, IF Trap \in cmps THEN Trap ELSE Conjunction(cmps))
DoesMember(n, q) ==
  LET l == Does(Eval(n.kids[1], q.env, q.st))
      key == Node(q.env, n.kids[2])
      k == IF key.kind = "Ident" THEN Out("ok", Sym(key.text), l.env, l.st) ELSE Does(Eval(n.kids[2], l.env, l.st))
      v == Get(Bare(k.st.types, l.v), k.v)
  IN IF l.is # "ok" THEN l ELSE IF k.is # "ok" THEN k ELSE Out(IF v = Trap THEN "trap" ELSE "ok", v, k.env, k.st)
DoesRec(n, q) ==
  LET Field(r, id) ==
        LET f == Node(q.env, id)
            key == IF f.kind = "Ident" THEN f ELSE Node(q.env, f.kids[1])
            spread == f.kind = "Spread"
            k == CASE spread \/ key.kind = "Ident" -> [r EXCEPT !.v = Sym(key.text)]
                   [] ~spread /\ key.kind \in {"LitStr", "Group"} -> Does(Eval(f.kids[1], r.env, r.st))
                   [] OTHER -> [r EXCEPT !.is = "outside"]
            e == Does(Eval(IF f.kind = "Ident" THEN id ELSE Last(f.kids), k.env, k.st))
            s == Bare(e.st.types, e.v)
        IN IF k.is # "ok" THEN k
           ELSE IF e.is # "ok" THEN e
           ELSE IF spread
           THEN IF Is("rec", s) THEN [e EXCEPT !.v = Rec(s[2] @@ r.v[2])] ELSE [e EXCEPT !.is = IF s = e.v THEN "trap" ELSE "outside"]
           ELSE [e EXCEPT !.v = Rec((k.v :> @) @@ r.v[2])]
  IN InTurn(n.kids, Out("ok", Rec(NoFields), q.env, q.st), Field)
DoesMatch(n, q) ==
  LET r == Does(All(SubSeq(n.kids, 1, n.n), q.env, q.st))
      arms == SubSeq(n.kids, n.n + 1, Len(n.kids))
  IN IF r.is # "ok" THEN r ELSE Does(Arms(arms, r.v, r.env, r.st))
(* The first arm whose patterns all match; what they bind is only seen in its body *)
DoesArms(q) ==
  LET n == Node(q.env, q.ids[1])
      lhs == Node(q.env, n.kids[1])
      pats == IF lhs.kind = "Patterns" THEN lhs.kids ELSE <<n.kids[1]>>
      m == Does(Matches(pats, q.vals, [q.env EXCEPT !.early = {}], q.st))
      b == Does(Statements(Tail(n.kids), m.env, m.st))
  IN IF q.ids = <<>> THEN Out("trap", Null, q.env, q.st)
     ELSE IF m.is = "fail" THEN Does(Arms(Tail(q.ids), q.vals, q.env, m.st))
     ELSE IF m.is # "ok" THEN m ELSE [b EXCEPT !.env = q.env]
(* Parameters are patterns; more arguments than parameters are dropped *)
DoesFunction(q) ==
  LET env == [q.f[4] EXCEPT !.early = {}]
      n == Node(env, q.f[3])
      params == Node(env, n.kids[1]).kids
      last == IF params = <<>> THEN Null ELSE Node(env, Last(params))
      rest == params # <<>> /\ last.kind = "Spread"
      own == IF rest THEN Front(params) ELSE params
      m == Does(Matches(own, SubSeq(q.vals, 1, Len(own)), env, q.st))
      s == IF rest /\ last.kids # <<>>
           THEN Does(Matching(last.kids[1], Seq_(SubSeq(q.vals, Len(own) + 1, Len(q.vals))), m.env, m.st)) ELSE m
      b == IF n.kind = "Fn" THEN Does(Statements(Tail(n.kids), s.env, s.st)) ELSE Does(Declaring(q.f[3], q.f[2], s.env, s.st))
      done == CASE Len(q.vals) < Len(own) -> Out("trap", Null, q.env, q.st)
                [] Len(q.vals) >= Len(own) /\ m.is # "ok" -> m
                [] Len(q.vals) >= Len(own) /\ m.is = "ok" /\ s.is # "ok" -> s
                [] OTHER -> b
  IN [done EXCEPT !.env = q.env, !.is = IF @ = "fail" THEN "trap" ELSE @]
(* The functions of the runtime *)
DoesNative(q) ==
  LET fresh == q.st.made + 1
      v == q.vals[1]
      made == [q.st EXCEPT !.made = fresh]
      f == Does(Call(v, <<<<"resumek", fresh>>>>, q.env, [made EXCEPT !.open = @ \cup {fresh}]))
  IN CASE q.f[2] = "get_ctx" -> Out("ok", q.st.ctx, q.env, q.st)
       [] q.f[2] # "get_ctx" /\ q.vals = <<>> -> Out("trap", Null, q.env, q.st)
       [] q.f[2] = "set_ctx" /\ q.vals # <<>> -> Out("ok", q.st.ctx, q.env, [q.st EXCEPT !.ctx = v])
       [] q.f[2] = "opaque" /\ q.vals # <<>> -> Out("ok", <<"opaque", fresh>>, q.env, made)
       [] OTHER -> IF f.is = "ok" THEN [f EXCEPT !.is = "idle"]
                   ELSE IF f.is = "resumed" /\ f.v.to = fresh THEN Out("ok", f.v.v, q.env, [f.st EXCEPT !.open = q.st.open])
                   ELSE f
(* Who resumes does not go on; what is resumed goes on once, and not when it has gone on *)
DoesResume(q) ==
  IF q.vals = <<>> THEN Out("trap", Null, q.env, q.st)
  ELSE IF q.f[2] \notin q.st.open THEN Out("outside", Null, q.env, q.st)
  ELSE Out("resumed", [to |-> q.f[2], v |-> q.vals[1]], q.env, q.st)
DoesCall(q) ==
  CASE Is("clo", q.f) -> DoesFunction(q)
    [] Is("rt", q.f) -> DoesNative(q)
    [] Is("resumek", q.f) -> DoesResume(q)
    [] Is("type", q.f) -> DoesMake(q)
    [] IsInstance(q.f, {"fn"}) -> Does(Call(q.f[5], q.vals, q.env, q.st))
    [] OTHER -> Out("trap", Null, q.env, q.st)
DoesModule(q) ==
  LET tree == q.env.trees[q.url]
      stmts == tree.ast[tree.id].kids
      st == [q.st EXCEPT !.mods = (q.url :> NoFields) @@ @, !.tops = (q.url :> NoFields) @@ @]
      e == WithEarly(Scope(q.env.trees, q.url), st, UNION {Binds(tree, s) : s \in Range(stmts)}, Late)
  IN [Does(Statements(stmts, e.env, e.st)) EXCEPT !.env = q.env]

(* Patterns, each against its value, from left to right *)
DoesMatches(q) ==
  InTurn([j \in DOMAIN q.ids |-> j], Out("ok", Null, q.env, q.st),
         LAMBDA r, j : Does(Matching(q.ids[j], q.vals[j], r.env, r.st)))
(* A list of that length; a spread takes what is left *)
MatchSeq(elems, q) ==
  LET n == Len(elems)
      at == {j \in 1..n : Node(q.env, elems[j]).kind = "Spread"}
      s == Min(at)
      spread == Node(q.env, elems[s])
      size == n - Cardinality(at) + (IF at # {} /\ spread.text = "..." /\ spread.kids = <<>> THEN 1 ELSE 0)
      items == q.v[2]
      back == SubSeq(elems, s + 1, n)
      m == Does(Matches(elems, items, q.env, q.st))
      h == Does(Matches(SubSeq(elems, 1, s - 1) \o back,
                        SubSeq(items, 1, s - 1) \o SubSeq(items, Len(items) - Len(back) + 1, Len(items)), q.env, q.st))
      middle == Seq_(SubSeq(items, s, Len(items) - Len(back)))
      fail == Out("fail", Null, q.env, q.st)
  IN CASE ~Is("seq", q.v) -> fail
       [] Is("seq", q.v) /\ at = {} -> IF Len(items) # n THEN fail ELSE m
       [] Is("seq", q.v) /\ Cardinality(at) > 1 -> [fail EXCEPT !.is = "outside"]
       [] OTHER -> IF Len(items) < size THEN fail
                   ELSE IF h.is # "ok" \/ spread.kids = <<>> THEN h
                   ELSE Does(Matching(spread.kids[1], middle, h.env, h.st))
(* A record that has those fields, and perhaps others; `{}` has none *)
MatchRec(n, q) ==
  LET Kind(id) == Node(q.env, id).kind
      fields == SelectSeq(n.kids, LAMBDA f : Kind(f) # "Spread")
      spreads == SelectSeq(n.kids, LAMBDA f : Kind(f) = "Spread")
      Key(f) == LET k == IF Kind(f) = "Ident" THEN f ELSE Node(q.env, f).kids[1]
                    named == Kind(k) = "Group" /\ Kind(Node(q.env, k).kids[1]) = "Ident"
                IN CASE Kind(k) = "Ident" -> Sym(Node(q.env, k).text) [] Kind(k) = "LitStr" -> Str(Node(q.env, k).text)
                     [] named -> Does(Eval(k, q.env, q.st)).v
                     [] OTHER -> Null
      pats == [j \in DOMAIN fields |-> IF Kind(fields[j]) = "Ident" THEN fields[j] ELSE Last(Node(q.env, fields[j]).kids)]
      keys == [j \in DOMAIN fields |-> Key(fields[j])]
      f == q.v[2]
      m == Does(Matches(pats, [j \in DOMAIN keys |-> f[keys[j]]], q.env, q.st))
      rest == Node(q.env, spreads[1]).kids
      fail == Out("fail", Null, q.env, q.st)
  IN CASE ~Is("rec", q.v) -> fail
       [] Is("rec", q.v) /\ (Null \in Range(keys) \/ Len(spreads) > 1) -> [fail EXCEPT !.is = "outside"]
       [] Is("rec", q.v) /\ n.kids = <<>> -> IF DOMAIN f = {} THEN Out("ok", Null, q.env, q.st) ELSE fail
       [] OTHER ->
            IF ~Range(keys) \subseteq DOMAIN f THEN fail
            ELSE IF m.is # "ok" \/ spreads = <<>> THEN m
            ELSE IF rest = <<>> THEN [m EXCEPT !.is = "outside"]
            ELSE Does(Matching(rest[1], Rec(Restrict(f, DOMAIN f \ Range(keys))), m.env, m.st))
(* A guard: a test of the value, with the name it is bound to *)
MatchGuard(n, q) ==
  LET left == Node(q.env, n.kids[1])
      b == Binding(left.text, q.v, q.env, q.st)
      r == Does(Eval(n.kids[2], b.env, b.st))
      t == Answer(r.st.types, n.text, <<q.v, r.v>>)
      isRange == n.text \in {"..", "..."}
      range == DoesOp(n.text, n.kids, q)
      Says(o, v) == IF v \in {Trap, Null} THEN Giving(o, v) ELSE [o EXCEPT !.is = IF v[2] THEN "ok" ELSE "fail"]
  IN CASE isRange -> IF range.is # "ok" THEN range ELSE Says(range, IF Is("int", q.v) THEN In(q.v, range.v) ELSE Bool(FALSE))
       [] ~isRange /\ left.kind # "Ident" -> Out("outside", Null, q.env, q.st)
       [] OTHER -> IF r.is # "ok" THEN r ELSE Says(r, t)
(* A type in front of patterns: for the positions of its instance, for all of what it sees
   of it, or for its fields *)
MatchType(n, f, q) ==
  LET t == f.v[2]
      ts == f.st.types
      args == Tail(n.kids)
      arg == Node(q.env, args[1])
      alone == Len(args) = 1
      named == IF ts[t].kind = "union" THEN {m[2] : m \in ts[t].members} ELSE {t}
      belongs == Is("inst", q.v) /\ ts[q.v[3]].is \cap named # {}
      seen == Projected(ts, q.v, t, f.st.made + 1)
      st == [f.st EXCEPT !.made = @ + 1]
      positions == [q EXCEPT !.env = f.env, !.st = st, !.v = IF Whole(ts, t) THEN Seq_(<<q.v>>) ELSE Bare(ts, seen)]
      all == alone /\ arg.kind = "Spread" /\ arg.kids # <<>>
      positional == \A id \in Range(args) : Node(q.env, id).kind \in {"Ident", "Wildcard", "Spread", "LitInt", "LitBool", "LitStr"}
      inner == IF all THEN arg.kids[1] ELSE args[1]
      structure == alone /\ arg.kind \in {"LitSeq", "LitRec"}
  IN IF ~belongs THEN Out("fail", Null, f.env, f.st)
     ELSE IF seen = Trap THEN Out("trap", Null, f.env, f.st)
     ELSE CASE alone /\ arg.kind = "Wildcard" -> Out("ok", Null, f.env, st)
            [] (all \/ structure) /\ ~Whole(ts, t) -> Does(Matching(inner, seen, f.env, st))
            [] positional /\ ~all /\ ~(alone /\ arg.kind = "Wildcard") -> MatchSeq(args, positions)
            [] OTHER -> Out("outside", Null, f.env, st)
(* A type, or a predicate, in front of patterns for the value; the context is what it was
   before the predicate was called *)
MatchHead(n, q) ==
  LET f == Does(Eval(n.kids[1], q.env, q.st))
      c == Does(Call(f.v, <<q.v>>, f.env, f.st))
      args == Tail(n.kids)
      function == IsClosure(f.v) \/ IsInstance(f.v, {"fn"})
      st == [c.st EXCEPT !.ctx = f.st.ctx]
      simple == Len(args) = 1 /\ Node(q.env, args[1]).kind \in {"Ident", "Wildcard", "LitInt"}
  IN CASE f.is # "ok" -> f
       [] f.is = "ok" /\ Is("type", f.v) -> MatchType(n, f, q)
       [] f.is = "ok" /\ ~Is("type", f.v) /\ ~(function /\ simple) -> [f EXCEPT !.is = "outside"]
       [] OTHER -> IF c.is # "ok" THEN c
                   ELSE IF ~Is("bool", c.v) THEN [c EXCEPT !.is = "trap"]
                   ELSE IF ~c.v[2] THEN Out("fail", Null, c.env, st)
                   ELSE Does(Matching(args[1], q.v, c.env, st))
MatchTemplate(n, q) ==
  LET at == {j \in DOMAIN n.kids : Node(q.env, n.kids[j]).kind # "LitStr"}
      j == Min(at)
      found == StrMatch(q.v, Str(IF j = 1 THEN "" ELSE Node(q.env, n.kids[1]).text),
                        Str(IF j = Len(n.kids) THEN "" ELSE Node(q.env, Last(n.kids)).text))
  IN IF Cardinality(at) # 1 THEN Out("outside", Null, q.env, q.st)
     ELSE IF found = Fails THEN Out("fail", Null, q.env, q.st)
     ELSE Does(Matching(n.kids[j], found[1], q.env, q.st))
(* A public name is shown to the host as soon as it is bound *)
MatchPub(n, q) ==
  LET m == Does(Matching(n.kids[2], q.v, q.env, q.st))
      name == Sym(Node(q.env, n.kids[2]).text)
  IN IF m.is # "ok" THEN m ELSE [m EXCEPT !.st.mods[q.env.url] = (name :> q.v) @@ @]

DoesPattern(q) ==
  LET n == Node(q.env, q.id)
      equal == Same(q.st.types, q.v, OfLiteral(n.kind, n.text)) = Bool(TRUE)
      bare == [q EXCEPT !.v = Bare(q.st.types, @)]
      both == Binding(Node(q.env, Last(n.kids)).text, q.v, q.env, q.st)
  IN CASE n.kind \in {"Ident", "SynthIdent"} -> Binding(n.text, q.v, q.env, q.st)
       [] n.kind = "Wildcard" -> Out("ok", Null, q.env, q.st)
       [] n.kind \in {"LitInt", "LitBool", "LitStr"} ->
            Out(IF equal THEN "ok" ELSE "fail", Null, q.env, q.st)
       [] n.kind = "InfixOp" -> MatchGuard(n, q)
       [] n.kind = "LitSeq" -> MatchSeq(n.kids, bare)
       [] n.kind = "LitRec" -> MatchRec(n, bare)
       [] n.kind = "Apply" -> IF IsPub(q.env, q.id) THEN MatchPub(n, q) ELSE MatchHead(n, q)
       [] n.kind = "StrTempl" -> MatchTemplate(n, q)
       [] n.kind = "BindRight" -> Does(Matching(n.kids[1], q.v, both.env, both.st))
       [] OTHER -> Out("outside", Null, q.env, q.st)

DoesEval(q) ==
  LET n == Node(q.env, q.id)
      v == q.st.vars[q.env.names[n.text]]
  IN CASE n.kind \in {"LitInt", "LitBool", "LitStr"} -> Out("ok", OfLiteral(n.kind, n.text), q.env, q.st)
       [] n.kind \in {"Ident", "SynthIdent"} ->
            IF n.text \notin DOMAIN q.env.names THEN Out("trap", Null, q.env, q.st)
            ELSE Out(CASE v = Null -> "trap" [] v = Late -> "late" [] OTHER -> "ok", v, q.env, q.st)
       [] n.kind = "Group" -> DoesGroup(n, q)
       [] n.kind = "Bind" -> DoesNamed(n.kids[1], n.kids[2], q)
       [] n.kind = "BindRight" -> DoesNamed(n.kids[2], n.kids[1], q)
       [] n.kind = "Fn" -> Out("ok", <<"clo", q.st.made + 1, q.id, q.env>>, q.env, [q.st EXCEPT !.made = @ + 1])
       [] n.kind = "Apply" ->
            IF Node(q.env, n.kids[1]).kind = "Ident" /\ Node(q.env, n.kids[1]).text = "import" THEN DoesImport(n, q)
            ELSE DoesApply(n, q)
       [] n.kind = "Pipe" -> DoesPipe(n, q)
       [] n.kind \in {"InfixOp", "UnaryOp"} -> DoesOp(n.text, n.kids, q)
       [] n.kind = "ChainedCmp" -> DoesChain(n, q)
       [] n.kind = "Member" -> DoesMember(n, q)
       [] n.kind = "LitSeq" ->
            LET r == Does(All(n.kids, q.env, q.st)) IN IF r.is = "ok" THEN [r EXCEPT !.v = Seq_(@)] ELSE r
       [] n.kind = "LitRec" -> DoesRec(n, q)
       [] n.kind = "StrTempl" -> DoesOp("StrFmt", n.kids, q)
       [] n.kind = "Match" -> DoesMatch(n, q)
       [] n.kind = "Module" -> DoesBody(Statements(n.kids, q.env, q.st))
       [] n.kind \in Declarations -> DoesDeclaration(q.id, "", q)
       [] OTHER -> Out("outside", Null, q.env, q.st)
does == [q \in Any |->
  CASE q.do = "eval" -> DoesEval(q)
    [] q.do = "all" -> DoesAll(q)
    [] q.do = "body" -> DoesBody(q)
    [] q.do = "match" -> DoesPattern(q)
    [] q.do = "matches" -> DoesMatches(q)
    [] q.do = "call" -> DoesCall(q)
    [] q.do = "arms" -> DoesArms(q)
    [] q.do = "declare" -> DoesDeclare(q)
    [] q.do = "module" -> DoesModule(q)]

(* The program that starts with a module; and what can be seen of a value *)
Meant(trees, url) == Does(Module(url, Scope(trees, url), NoVariables))
RECURSIVE Seen(_, _)
Seen(types, v) ==
  CASE IsClosure(v) -> <<"function">>
    [] Is("opaque", v) -> <<"opaque">>
    [] Is("seq", v) -> Seq_([j \in DOMAIN v[2] |-> Seen(types, v[2][j])])
    [] Is("rec", v) -> Rec([k \in DOMAIN v[2] |-> Seen(types, v[2][k])])
    [] Is("type", v) -> <<"type", types[v[2]].name>>
    [] Is("inst", v) -> <<"inst", v[2], types[v[3]].name, Seen(types, v[5])>>
    [] OTHER -> v
SeenOf(types, mods) == [u \in DOMAIN mods |-> [k \in DOMAIN mods[u] |-> Seen(types, mods[u][k])]]
=============================================================================
