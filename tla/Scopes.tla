------------------------------- MODULE Scopes -------------------------------
(***************************************************************************)
(* The analysis of scopes: which binding each name refers to.  A walk over *)
(* the tree pushes bindings on a stack of names and resolves a reference   *)
(* against it, newest first; leaving a scope takes its bindings off.       *)
(*                                                                         *)
(* A context c holds the tree, the scopes, the bindings, the stack, the    *)
(* reference each name was resolved to, and the name being bound (cur).    *)
(* A binding's origin is the node that binds it, 0 for a builtin.          *)
(***************************************************************************)
EXTENDS Integers, Sequences, SequencesExt, FiniteSets, FiniteSetsExt

Builtins == {"import"}

NewContext(t) ==
  [ast |-> t.ast, scopes |-> <<>>, binds |-> <<>>, stack |-> <<>>, refs |-> <<>>,
   res |-> [k \in DOMAIN t.ast |-> 0], cur |-> 0]

KindOf(c, id) == c.ast[id].kind
KidsOf(c, id) == c.ast[id].kids
IsIdent(c, id) == KindOf(c, id) = "Ident"
IsNamed(c, id, name) == IsIdent(c, id) /\ c.ast[id].text = name
IsModule(c, scope) == c.scopes[scope].kind = "Module"
(* A context after F has been applied to each of a list of nodes *)
Each(c, ids, F(_, _)) == FoldLeft(F, c, ids)

PushScope(c, kind, parent, id) ==
  [c EXCEPT !.scopes = Append(@, [kind |-> kind, parent |-> parent, ast |-> id])]
(* mutant: a binding that hides another is put behind it *)
PushBindBehind(c, scope, id) ==
  LET name == c.ast[id].text
  IN [c EXCEPT !.binds = Append(@, [scope |-> scope, name |-> name, origin |-> id]),
               !.stack = <<[name |-> name, bind |-> Len(c.binds) + 1, scope |-> scope]>> \o @]
PushBind(c, scope, id) ==
  LET name == c.ast[id].text
  IN [c EXCEPT !.binds = Append(@, [scope |-> scope, name |-> name, origin |-> id]),
               !.stack = Append(@, [name |-> name, bind |-> Len(c.binds) + 1, scope |-> scope])]
(* mutant: the bindings of a scope outlive it *)
PopScopeKept(c, scope) == c
PopScope(c, scope) == [c EXCEPT !.stack = SelectSeq(@, LAMBDA e : e.scope # scope)]
Bound(c, id) == \E b \in DOMAIN c.binds : c.binds[b].origin = id
BindOf(c, id) == Min({b \in DOMAIN c.binds : c.binds[b].origin = id})

-----------------------------------------------------------------------------
(* References *)

RECURSIVE Depth(_, _, _)
Depth(c, from, to) ==
  IF from = to \/ c.scopes[from].parent = 0 THEN 0 ELSE 1 + Depth(c, c.scopes[from].parent, to)

Refer(c, kind, id, scope, bind, depth) ==
  [c EXCEPT !.res[id] = IF kind = "Unresolved" THEN @ ELSE bind,
            !.refs = Append(@, [kind |-> kind, id |-> id, scope |-> scope, bind |-> bind, depth |-> depth])]

(* resolve: the newest binding of the name; one made further down in a module is
   seen from inside a function, and from the module's own statements not at all *)
Resolve(c, id, scope) ==
  LET name == c.ast[id].text
      at == SelectLastInSeq(c.stack, LAMBDA e : e.name = name)
      bind == c.stack[at].bind
      depth == Depth(c, scope, c.stack[at].scope)
      ahead == IsModule(c, c.stack[at].scope) /\ id < c.binds[bind].origin
      builtin == {b \in DOMAIN c.binds : c.binds[b].name = name /\ c.binds[b].origin = 0}
      new == [c EXCEPT !.binds = Append(@, [scope |-> scope, name |-> name, origin |-> 0])]
  IN IF at # 0 /\ ~(ahead /\ depth = 0)
     THEN Refer(c, CASE c.cur # 0 /\ c.binds[bind].origin = c.cur -> "SelfRef"
                     [] ahead -> "FwdRef" [] OTHER -> "Ref", id, scope, bind, depth)
     ELSE IF name \notin Builtins THEN Refer(c, "Unresolved", id, scope, 0, 0)
     ELSE IF builtin # {} THEN Refer(c, "Ref", id, scope, Min(builtin), 0)
     ELSE Refer(new, "Ref", id, scope, Len(new.binds), 0)

-----------------------------------------------------------------------------
(* Patterns *)

RECURSIVE BindingIdent(_, _)
BindingIdent(c, id) ==
  LET kids == KidsOf(c, id)
  IN CASE IsIdent(c, id) -> id
       [] KindOf(c, id) = "InfixOp" -> BindingIdent(c, kids[1])
       [] KindOf(c, id) = "Apply" /\ Len(kids) = 2 /\ IsNamed(c, kids[1], "pub") -> BindingIdent(c, kids[2])
       [] OTHER -> 0

(* register_pattern_binds: each name a pattern binds *)
RECURSIVE Register(_, _, _)
Register(c, id, scope) ==
  LET kids == KidsOf(c, id)
      names == CASE KindOf(c, id) \in {"LitSeq", "LitRec", "Patterns", "Spread", "BindRight"} -> kids
                 [] KindOf(c, id) \in {"Bind", "InfixOp"} -> <<kids[1]>>
                 [] KindOf(c, id) \in {"Apply", "Arm"} -> Tail(kids)
                 [] KindOf(c, id) = "StrTempl" -> SelectSeq(kids, LAMBDA k : KindOf(c, k) # "LitStr")
                 [] OTHER -> <<>>
  IN IF KindOf(c, id) \in {"Ident", "SynthIdent"} THEN PushBind(c, scope, id)
     ELSE Each(c, names, LAMBDA d, k : Register(d, k, scope))
RegisterAll(c, ids, scope) == Each(c, ids, LAMBDA d, k : Register(d, k, scope))

-----------------------------------------------------------------------------
(* The walk.  as says what the node is looked at as: a node, a pattern whose guards
   and keys are references, or a member of a type or of an enum. *)

RECURSIVE Walk(_, _, _, _)
WalkAll(c, ids, scope) == Each(c, ids, LAMBDA d, k : Walk(d, k, scope, "node"))
WalkPatterns(c, ids, scope) == Each(c, ids, LAMBDA d, k : Walk(d, k, scope, "pattern"))
WalkMembers(c, ids, scope, as) == Each(c, ids, LAMBDA d, k : Walk(d, k, scope, as))

(* walk_stmts: functions that a body binds are known before its first statement *)
Statements(c, ids, scope) ==
  LET hoisted == SelectSeq(ids, LAMBDA k :
        /\ ~IsModule(c, scope) /\ KindOf(c, k) = "Bind"
        /\ KindOf(c, KidsOf(c, k)[2]) = "Fn" /\ IsIdent(c, KidsOf(c, k)[1]))
  IN WalkAll(RegisterAll(c, [j \in DOMAIN hoisted |-> KidsOf(c, hoisted[j])[1]], scope), ids, scope)

WalkPattern(c, id, scope) ==
  LET kids == KidsOf(c, id)
  IN CASE KindOf(c, id) = "InfixOp" -> WalkAll(c, kids, scope)
       [] KindOf(c, id) = "Apply" ->
            IF IsNamed(c, kids[1], "pub") /\ Len(kids) = 2 THEN WalkPatterns(c, <<kids[2]>>, scope)
            ELSE WalkPatterns(WalkAll(c, <<kids[1]>>, scope), Tail(kids), scope)
       [] KindOf(c, id) \in {"LitSeq", "LitRec", "Patterns", "Spread"} -> WalkPatterns(c, kids, scope)
       [] KindOf(c, id) = "Bind" -> WalkPatterns(c, <<kids[1]>>, scope)
       [] KindOf(c, id) = "Arm" ->
            WalkPatterns(IF IsIdent(c, kids[1]) THEN c ELSE WalkAll(c, <<kids[1]>>, scope), Tail(kids), scope)
       [] OTHER -> c

WalkMember(c, id, scope, as) ==
  LET kids == KidsOf(c, id)
      enum == as = "enum"
  IN CASE KindOf(c, id) = "Spread" -> WalkAll(c, kids, scope)
       [] KindOf(c, id) = "Arm" ->
            WalkAll(c, IF IsIdent(c, kids[1]) THEN Tail(kids) ELSE kids, scope)
       [] KindOf(c, id) = "Apply" /\ enum -> WalkAll(c, Tail(kids), scope)
       [] KindOf(c, id) \in {"Ident", "SynthIdent"} /\ enum -> c
       [] KindOf(c, id) = "Fn" -> WalkMembers(c, KidsOf(c, kids[1]) \o Tail(kids), scope, "type")
       [] OTHER -> WalkAll(c, <<id>>, scope)

(* A new scope around F, with the names that patterns bind in it *)
Scoped(c, kind, parent, id, patterns, F(_, _)) ==
  LET s == PushScope(c, kind, parent, id)
      inner == Len(s.scopes)
  IN PopScope(F(RegisterAll(s, patterns, inner), inner), inner)

(* `lhs = rhs`: outside a module a plain name is known on its own right side; in a
   module every name that a statement binds is known from the start *)
WalkBind(c, id, scope) ==
  LET lhs == KidsOf(c, id)[1]
      rhs == KidsOf(c, id)[2]
      plain == IsIdent(c, lhs) /\ ~IsModule(c, scope)
      name == BindingIdent(c, lhs)
      a == IF name # 0 THEN [c EXCEPT !.cur = name] ELSE c
      b == IF plain /\ ~Bound(a, lhs) THEN Register(a, lhs, scope) ELSE a
      d == [Walk(b, rhs, scope, "node") EXCEPT !.cur = c.cur]
      known == IF IsModule(c, scope) \/ plain THEN name = 0 \/ Bound(d, name) ELSE FALSE
  IN Walk(IF known THEN d ELSE Register(d, lhs, scope), lhs, scope, "pattern")
WalkBindRight(c, id, scope) ==
  LET lhs == KidsOf(c, id)[1]
      rhs == KidsOf(c, id)[2]
      name == BindingIdent(c, rhs)
      a == IF IsIdent(c, rhs) THEN [c EXCEPT !.cur = rhs] ELSE c
      d == [Walk(a, lhs, scope, "node") EXCEPT !.cur = c.cur]
      known == IsModule(c, scope) /\ (name = 0 \/ Bound(d, name))
  IN Walk(IF known THEN d ELSE Register(d, rhs, scope), rhs, scope, "pattern")

(* The items of a record literal: what stands before the colon is a name, not a reference *)
FieldRefs(c, k) ==
  IF KindOf(c, k) # "Arm" THEN <<k>>
  ELSE IF IsIdent(c, KidsOf(c, k)[1]) THEN Tail(KidsOf(c, k)) ELSE KidsOf(c, k)

WalkNode(c, id, scope) ==
  LET kids == KidsOf(c, id)
  IN CASE KindOf(c, id) = "Bind" -> WalkBind(c, id, scope)
       [] KindOf(c, id) = "BindRight" -> WalkBindRight(c, id, scope)
       [] KindOf(c, id) \in {"Ident", "SynthIdent"} -> Resolve(c, id, scope)
       [] KindOf(c, id) = "Fn" ->
            Scoped(c, "Fn", scope, id, KidsOf(c, kids[1]), LAMBDA d, s : Statements(d, Tail(kids), s))
       [] KindOf(c, id) = "Arm" ->
            Scoped(c, "Arm", scope, id, <<kids[1]>>, LAMBDA d, s :
              Statements(Walk(d, kids[1], s, "pattern"), Tail(kids), s))
       [] KindOf(c, id) \in {"Type", "Enum", "Union"} ->
            Scoped(c, KindOf(c, id), scope, id, KidsOf(c, kids[1]), LAMBDA d, s :
              WalkMembers(d, Tail(kids), s, IF KindOf(c, id) = "Enum" THEN "enum" ELSE "type"))
       [] KindOf(c, id) = "Block" ->
            LET d == WalkAll(c, SubSeq(kids, 1, 2), scope)
            IN IF IsNamed(c, kids[1], "u1u2ink") THEN d ELSE Statements(d, SubSeq(kids, 3, Len(kids)), scope)
       [] KindOf(c, id) = "Module" -> Statements(c, kids, scope)
       [] KindOf(c, id) = "Member" ->
            WalkAll(c, IF IsIdent(c, kids[2]) THEN <<kids[1]>> ELSE kids, scope)
       [] KindOf(c, id) = "LitRec" ->
            WalkAll(c, FlattenSeq([j \in DOMAIN kids |-> FieldRefs(c, kids[j])]), scope)
       [] KindOf(c, id) = "Patterns" -> c
       [] OTHER -> WalkAll(c, kids, scope)

Walk(c, id, scope, as) ==
  CASE as = "node" -> WalkNode(c, id, scope)
    [] as = "pattern" -> WalkPattern(c, id, scope)
    [] OTHER -> WalkMember(c, id, scope, as)

(* analyse: the names the statements of a module bind are registered first *)
TopPattern(c, k) ==
  CASE KindOf(c, k) = "Bind" -> <<KidsOf(c, k)[1]>>
    [] KindOf(c, k) = "BindRight" -> <<KidsOf(c, k)[2]>>
    [] OTHER -> <<>>
Analysed(t) ==
  LET c == PushScope(NewContext(t), "Module", 0, t.id)
      items == KidsOf(c, t.id)
      known == RegisterAll(c, FlattenSeq([j \in DOMAIN items |-> TopPattern(c, items[j])]), 1)
  IN Statements(known, items, 1)

(* unresolved_refs: a program with one is refused *)
Unresolved(c) == {r \in Range(c.refs) : r.kind = "Unresolved"}
=============================================================================
