-------------------------------- MODULE Cps --------------------------------
(***************************************************************************)
(* The transformation of a tree into continuation-passing style.           *)
(*                                                                         *)
(* Lower gives for an expression the value it has and the pending bindings *)
(* that must be made, in order, before it has it; Wrap closes a list of    *)
(* pending bindings over what comes after them.  A pattern is lowered to   *)
(* bindings and to matchers, functions that get what to do on success and  *)
(* on failure.  c is the context the analysis of scopes leaves.            *)
(*                                                                         *)
(* An id is a tuple: <<b, "name">> for binding b of the source, otherwise  *)
(* the node a bind was made for, and its role.                             *)
(***************************************************************************)
EXTENDS Integers, FiniteSets, FiniteSetsExt, Ir

CONSTANT c   \* what the analysis of scopes leaves

Kind(id) == c.ast[id].kind
Kids(id) == c.ast[id].kids
Text(id) == c.ast[id].text
IsName(id, name) == Kind(id) = "Ident" /\ Text(id) = name

-----------------------------------------------------------------------------
(* Pending bindings; each has the name it binds *)

PVal(name, val) == [p |-> "Val", name |-> name, val |-> val]
PFn(name, params, closure, body) ==
  [p |-> "Fn", name |-> name, params |-> params, closure |-> closure, body |-> body]
PApp(name, func, args) == [p |-> "App", name |-> name, func |-> func, args |-> args]
PBind(name, val) == [p |-> "Bind", name |-> name, val |-> val]
PGuard(name, head, args) == [p |-> "Guard", name |-> name, func |-> head, args |-> args]
PMatch(id, subject, names, body) ==
  [p |-> "Match", name |-> <<id, "matcher">>, subject |-> subject, names |-> names,
   params |-> <<P(<<id, "succ">>), P(<<id, "fail">>), P(<<id, "subj">>)>>, body |-> body]

Value(v) == [val |-> v, pend |-> <<>>]
(* A call behind the pending ones, and its result *)
Calling(pend, name, func, args) == [val |-> Ref(name), pend |-> Append(pend, PApp(name, func, args))]
Builtin(pend, name, op, vals) == Calling(pend, name, Op(op), Vals(vals))

IrrefutablePattern == Op("IrrefutablePattern")
CallFail(fail) == App(IF fail = <<>> THEN IrrefutablePattern ELSE ContRef(fail), <<>>)

(* One pending binding in front of what comes after it *)
Wrap1(p, cont, fail) ==
  LET body == Append(p.name, "body")
      thunk == Append(p.name, "thunk")
      Called ==
        LET k == ContArg(IF cont.c = "ref" THEN cont ELSE Then(<<p.name>>, cont.body))
        IN IF p.func.k = "op" THEN App(p.func, Append(p.args, k)) ELSE App(p.func, <<k>> \o p.args)
      Guarded ==
        LET yes == Then(<<p.name>>, IF cont.c = "ref" THEN App(ContRef(cont.id), <<>>) ELSE cont.body)
        IN App(Op("GuardApply"), <<Val(p.func)>> \o Vals(p.args) \o <<ContArg(yes), ContArg(Then(<<>>, CallFail(fail)))>>)
      Match(onFail) == App(Ref(p.name), Vals(<<Ref(body), onFail, p.subject>>))
      Called2 == IF fail # <<>> THEN Match(ContRef(fail))
                 ELSE LetFn(thunk, <<>>, TRUE, CallFail(fail), Then(<<>>, Match(Ref(thunk))))
      Rest == IF cont.c = "expr" THEN cont.body
              ELSE App(ContRef(cont.id), Vals(<<IF p.names # <<>> THEN Ref(p.names[1])
                                                ELSE BuiltInVal("IrrefutablePattern")>>))
      Matched == LetFn(body, [j \in DOMAIN p.names |-> P(p.names[j])], TRUE, Rest,
                   Then(<<>>, LetFn(p.name, p.params, TRUE, p.body, Then(<<>>, Called2))))
  IN CASE p.p \in {"Val", "Bind"} -> LetVal(p.name, p.val, cont)
       [] p.p = "Fn" -> LetFn(p.name, p.params, p.closure, p.body, cont)
       [] p.p = "App" -> Called
       [] p.p = "Guard" -> Guarded
       [] p.p = "Match" -> Matched
WrapFail(pend, tail, fail) ==
  FoldRight(LAMBDA p, acc :
      [inner |-> TRUE,
       cont |-> Then(<<>>, Wrap1(p, IF acc.inner THEN Then(<<Append(p.name, "arg")>>, acc.cont.body)
                                    ELSE acc.cont, fail))],
    pend, [inner |-> FALSE, cont |-> tail]).cont.body
Wrap(pend, tail) == WrapFail(pend, tail, <<>>)
(* prepend_pat_binds, and where the code wraps only if something is pending *)
Prepend(pend, body) == IF pend = <<>> THEN body ELSE Wrap(pend, Then(<<>>, body))

-----------------------------------------------------------------------------
(* Names *)

BoundAt(id) == {b \in DOMAIN c.binds : c.binds[b].origin = id}
BindName(id) == IF BoundAt(id) = {} THEN <<0, "panic">> ELSE <<Max(BoundAt(id)), "name">>
(* scope_ref_val *)
NameVal(id) ==
  LET b == c.res[id]
  IN IF b = 0 THEN [k |-> "unresolved", v |-> id]
     ELSE IF c.binds[b].origin = 0 THEN BuiltInVal(c.binds[b].name) ELSE Ref(<<b, "name">>)
Nth(id, role, j) == <<id, role, ToString(j)>>
Panic(id) == [k |-> "panic", v |-> id]
NameSymbol(id) == IF Kind(id) = "Ident" THEN Symbol(Text(id)) ELSE Panic(id)

(* unwrap_modifier_lhs: `pub x` *)
IsPub(id) == Kind(id) = "Apply" /\ Len(Kids(id)) = 2 /\ IsName(Kids(id)[1], "pub")
Unmodified(id) == IF IsPub(id) THEN Kids(id)[2] ELSE id
IsImportCall(id) == Kind(id) = "Apply" /\ IsName(Kids(id)[1], "import")

(* walk_bind_lhs, collect_module_locals: the slots of a body, names its statements bind *)
RECURSIVE SlotsOf(_)
SlotsOf(id) ==
  LET at == Unmodified(id)
      kids == Kids(at)
      parts == CASE Kind(at) \in {"LitSeq", "LitRec", "Patterns", "Spread", "BindRight"} -> kids
                 [] Kind(at) \in {"Bind", "InfixOp"} -> <<kids[1]>>
                 [] OTHER -> <<>>
  IN IF Kind(at) = "Ident" THEN IF BoundAt(at) = {} THEN <<>> ELSE <<BindName(at)>>
     ELSE FlattenSeq([j \in DOMAIN parts |-> SlotsOf(parts[j])])
Locals(stmts) ==
  LET binds == SelectSeq(stmts, LAMBDA s : Kind(s) = "Bind" /\ ~IsImportCall(Kids(s)[2]))
  IN FlattenSeq([j \in DOMAIN binds |-> SlotsOf(Kids(binds[j])[1])])
Exports(stmts) ==
  {BindName(Kids(Kids(s)[1])[2]) : s \in {s \in Range(stmts) :
     /\ Kind(s) = "Bind" /\ IsPub(Kids(s)[1])
     /\ Kind(Kids(Kids(s)[1])[2]) = "Ident"}}

(* What follows a binding, with the name passed on when it is a continuation *)
Follow(cont, name) == IF cont.c = "expr" THEN cont.body ELSE TailApp(cont.id, Ref(name))

(* inject_pub_calls: a public name is published where it is bound *)
RECURSIVE Published(_, _)
Published(e, exports) ==
  LET r == Below(e, LAMBDA x : Published(x, exports), {TRUE})
      args == IF r.cont.c = "expr" THEN r.cont.args ELSE <<>>
  IN IF e.e = "LetVal" /\ e.name \in exports
     THEN [r EXCEPT !.cont = Then(args, App(Op("Pub"),
            <<Val(Ref(e.name)), ContArg(Then(<<>>, Follow(r.cont, e.name)))>>))]
     ELSE r

(* rewrite_lets_to_sets, wrap_module_in_letrec: a slot is set where it was bound; the
   bodies of functions, closures included, are left as they are *)
RECURSIVE Setting(_, _)
Setting(e, slots) ==
  LET r == Below(e, LAMBDA x : Setting(x, slots), {})
  IN IF e.e = "LetVal" /\ e.name \in slots
     THEN SetSlot(e.name, e.val, Then(<<>>, Follow(r.cont, e.name)))
     ELSE r
InLetRec(body, slots) == IF slots = <<>> THEN body ELSE LetRec(slots, Setting(body, Range(slots)))

-----------------------------------------------------------------------------
(* Lowering *)

(* What lowering the parts of a node gives *)
RECURSIVE low
Lower(id) == low[<<"expression", id, "">>]
TypeExpr(id, name) == low[<<"type", id, name>>]
(* A pattern is lowered for a subject, and then put where its subject is known *)
Subject == [k |-> "subject", v |-> 0]
Put(val, at) == IF val.k = "subject" THEN at ELSE val
Pattern(id, val) ==
  LET p == low[<<"pattern", id, "">>]
      PutIn(b) == CASE b.p = "Bind" -> [b EXCEPT !.val = Put(@, val)]
                    [] b.p = "Match" -> [b EXCEPT !.subject = Put(@, val)]
                    [] b.p = "Guard" -> [b EXCEPT !.args = [j \in DOMAIN @ |-> Put(@[j], val)]]
                    [] OTHER -> b
  IN [val |-> IF p.val.k = "subject" /\ val.k \notin {"ref", "subject"} THEN Panic(id) ELSE Put(p.val, val),
      pend |-> [j \in DOMAIN p.pend |-> PutIn(p.pend[j])]]

(* Several expressions from left to right *)
LowerAll(ids) ==
  FoldLeft(LAMBDA r, id :
      LET l == Lower(id) IN [vals |-> Append(r.vals, l.val), pend |-> r.pend \o l.pend],
    [vals |-> <<>>, pend |-> <<>>], ids)
Patterns(ids, vals) ==
  FlattenSeq([j \in DOMAIN ids |-> Pattern(ids[j], vals[j]).pend])

IsSpread(id) == Kind(id) = "Spread"
Inner(id) == IF IsSpread(id) /\ Kids(id) # <<>> THEN Kids(id)[1] ELSE id

(* lower_bind, lower_bind_stmt, lower_bind_rhs: a type is named by what it is bound to *)
BindRhs(lhs, rhs) ==
  IF Kind(lhs) = "Ident" /\ Kind(rhs) \in {"Type", "Union", "Enum"}
  THEN TypeExpr(rhs, Text(lhs)) ELSE Lower(rhs)
LowerBind(left, rhs) ==
  LET lhs == Unmodified(left)
      r == BindRhs(lhs, rhs)
      p == Pattern(lhs, r.val)
  IN IF Kind(lhs) = "Wildcard" THEN r ELSE [val |-> p.val, pend |-> r.pend \o p.pend]

Statement(id) ==
  LET kids == Kids(id)
      r == Lower(id)
  IN CASE Kind(id) = "Bind" -> LowerBind(kids[1], kids[2]).pend
       [] Kind(id) = "BindRight" -> LowerBind(kids[2], kids[1]).pend
       [] OTHER -> Append(r.pend, PVal(<<id, "discard">>, r.val))
(* lower_seq: the value of the last statement goes to the continuation k *)
LowerSeq(ids, k) ==
  LET front == FlattenSeq([j \in 1..(Len(ids) - 1) |-> Statement(ids[j])])
      last == Lower(Last(ids))
      all == front \o last.pend
  IN IF all = <<>> THEN TailApp(k, last.val)
     ELSE Wrap(all, IF last.pend = <<>> THEN Then(<<>>, TailApp(k, last.val)) ELSE ToCont(k))

-----------------------------------------------------------------------------
(* Functions *)

(* extract_params_with_gen: a parameter that is a pattern is matched in the body *)
Param(p) ==
  LET kids == Kids(p)
      temp == <<p, "param">>
      One(id) == [params |-> <<P(id)>>, pend |-> <<>>]
  IN CASE Kind(p) \in {"Ident", "SynthIdent"} -> One(BindName(p))
       [] Kind(p) = "Wildcard" -> One(temp)
       [] Kind(p) = "Patterns" ->
            [params |-> [j \in DOMAIN kids |-> P(BindName(kids[j]))], pend |-> <<>>]
       [] IsSpread(p) ->
            [params |-> <<[id |-> IF kids # <<>> /\ Kind(kids[1]) = "Ident" THEN BindName(kids[1]) ELSE temp,
                           spread |-> TRUE]>>, pend |-> <<>>]
       [] OTHER -> [One(temp) EXCEPT !.pend = Pattern(p, Ref(temp)).pend]
Params(id) ==
  LET ps == Kids(id)
      each == [j \in DOMAIN ps |-> Param(ps[j])]
  IN [params |-> FlattenSeq([j \in DOMAIN each |-> each[j].params]),
      pend |-> FlattenSeq([j \in DOMAIN each |-> each[j].pend])]

(* lower_fn: the function made for the node id, with its continuation in front of its
   parameters; slots are the names its body binds *)
FnFor(id, params, stmts) ==
  LET ps == Params(params)
      k == <<id, "k">>
      body == InLetRec(Prepend(ps.pend, LowerSeq(stmts, k)), Locals(stmts))
  IN PFn(<<id, "fn">>, <<P(k)>> \o ps.params, FALSE, body)
LowerFn(id, fn) == [val |-> Ref(<<id, "fn">>), pend |-> <<FnFor(id, Kids(fn)[1], Tail(Kids(fn)))>>]
LowerIife(id, fn) == Calling(LowerFn(id, fn).pend, <<id, "result">>, Ref(<<id, "fn">>), <<>>)
LowerModuleAsFn(id) ==
  LET k == <<id, "k">>
  IN [val |-> Ref(<<id, "fn">>), pend |-> <<PFn(<<id, "fn">>, <<P(k)>>, FALSE, LowerSeq(Kids(id), k))>>]
(* lower_block: the body is a function that the block's name is called with; extract_param
   takes names, wildcards and spreads, and drops other patterns *)
LowerBlock(id) ==
  LET kids == Kids(id)
      k == <<id, "k">>
      ps == SelectSeq(Kids(kids[2]), LAMBDA p :
              Kind(p) \in {"Ident", "SynthIdent", "Wildcard", "Patterns", "Spread"})
      name == Lower(kids[1])
      params == FlattenSeq([j \in DOMAIN ps |-> Param(ps[j]).params])
      fn == PFn(<<id, "fn">>, <<P(k)>> \o params, FALSE, LowerSeq(SubSeq(kids, 3, Len(kids)), k))
  IN IF IsName(kids[1], "u1u2ink") THEN Value(Lit("LitStr", "text"))
     ELSE Calling(Append(name.pend, fn), <<id, "result">>, name.val, Vals(<<Ref(<<id, "fn">>)>>))

-----------------------------------------------------------------------------
(* Application and operators *)

(* lower_apply: the function, then the arguments; a raw template is an argument spread
   from the list of its parts, which are lowered from the last to the first *)
RawParts(id) ==
  LET parts == Kids(id)
  IN FoldRight(LAMBDA part, r :
        LET l == Lower(part)
        IN Builtin(r.pend \o l.pend, <<part, "raw">>, "SeqPrepend", <<l.val, r.val>>),
      parts, Value(Lit("Seq", "")))
Argument(arg) ==
  LET in == Inner(arg)
      r == IF Kind(in) = "StrRawTempl" THEN RawParts(in) ELSE Lower(in)
  IN [pend |-> r.pend,
      arg |-> IF IsSpread(arg) \/ Kind(in) = "StrRawTempl" THEN Spread(r.val) ELSE Val(r.val)]
LowerApply(id) ==
  LET kids == Kids(id)
      f == Lower(kids[1])
      args == [j \in 1..(Len(kids) - 1) |-> Argument(kids[j + 1])]
      pend == f.pend \o FlattenSeq([j \in DOMAIN args |-> args[j].pend])
  IN Calling(pend, <<id, "result">>, IF f.val.k = "builtin" THEN Op(f.val.v) ELSE f.val,
             [j \in DOMAIN args |-> args[j].arg])

LowerPipe(id) ==
  LET stages == Kids(id)
  IN FoldLeft(LAMBDA r, stage :
        LET f == Lower(stage)
        IN Calling(r.pend \o f.pend, <<stage, "stage">>, f.val, Vals(<<r.val>>)),
      Lower(stages[1]), Tail(stages))

(* lower_infix, lower_unary, lower_range, lower_postfix; `not in` is an operator only with
   one blank in it *)
LowerOp(id) ==
  LET r == LowerAll(Kids(id))
  IN IF Text(id) = "not  in" THEN Value(Panic(id))
     ELSE Builtin(r.pend, <<id, "result">>, IF Kind(id) = "PostfixOp" THEN "RangeFrom" ELSE Text(id), r.vals)

(* lower_chained_cmp: every operand once, every comparison, then their conjunction *)
LowerChain(id) ==
  LET ops == c.ast[id].ops
      r == LowerAll(Kids(id))
      cmps == [j \in DOMAIN ops |-> PApp(Nth(id, "cmp", j), Op(ops[j]), Vals(SubSeq(r.vals, j, j + 1)))]
      Conj(j) == IF j = 1 THEN Ref(Nth(id, "cmp", 1)) ELSE Ref(Nth(id, "and", j))
      ands == [j \in 1..(Len(ops) - 1) |->
                 PApp(Nth(id, "and", j + 1), Op("and"), Vals(<<Conj(j), Ref(Nth(id, "cmp", j + 1))>>))]
  IN [val |-> Conj(Len(ops)), pend |-> r.pend \o cmps \o ands]

LowerMember(id) ==
  LET kids == Kids(id)
      l == Lower(kids[1])
      r == IF Kind(kids[2]) = "Ident" THEN Value(Symbol(Text(kids[2]))) ELSE Lower(kids[2])
  IN Builtin(l.pend \o r.pend, <<id, "result">>, "Get", <<l.val, r.val>>)

-----------------------------------------------------------------------------
(* Literals with parts *)

(* lower_lit_seq: elements are evaluated from the left and put together from the right *)
LowerLitSeq(id) ==
  LET elems == Kids(id)
      r == LowerAll([j \in DOMAIN elems |-> Inner(elems[j])])
  IN FoldRight(LAMBDA j, acc :
        Builtin(acc.pend, <<elems[j], "elem">>, IF IsSpread(elems[j]) THEN "SeqConcat" ELSE "SeqPrepend",
                <<r.vals[j], acc.val>>),
      [j \in DOMAIN elems |-> j], [val |-> Lit("Seq", ""), pend |-> r.pend])

(* lower_lit_rec: field by field; a key that is not a name is evaluated before its value *)
LowerLitRec(id) ==
  LET Field(acc, f) ==
        LET kids == Kids(f)
            named == Kind(kids[1]) = "Ident"
            k == IF named THEN Value(Symbol(Text(kids[1]))) ELSE Lower(kids[1])
            v == Lower(Last(kids))
            m == Lower(IF IsSpread(f) THEN kids[1] ELSE f)
        IN CASE Kind(f) \in {"Bind", "Arm"} ->
                  Builtin(acc.pend \o k.pend \o v.pend, <<f, "field">>, "RecPut", <<acc.val, k.val, v.val>>)
             [] Kind(f) = "Ident" ->
                  Builtin(acc.pend, <<f, "field">>, "RecPut", <<acc.val, Symbol(Text(f)), NameVal(f)>>)
             [] OTHER -> Builtin(acc.pend \o m.pend, <<f, "field">>, "RecMerge", <<acc.val, m.val>>)
  IN FoldLeft(Field, Value(Lit("Rec", "")), Kids(id))

(* lower_str_templ, lower_str_raw_templ *)
LowerTemplate(id) ==
  LET r == LowerAll(Kids(id))
  IN IF Kind(id) = "StrRawTempl" /\ Len(r.vals) = 1 THEN [val |-> r.vals[1], pend |-> r.pend]
     ELSE Builtin(r.pend, <<id, "result">>, "StrFmt", r.vals)

-----------------------------------------------------------------------------
(* Match *)

(* lower_match_arm: a function for the body, which gets the names that the patterns bind,
   and one that matches, and calls it or goes to the next arm *)
Arm(arm) ==
  LET lhs == Kids(arm)[1]
      pats == IF Kind(lhs) = "Patterns" THEN Kids(lhs) ELSE <<lhs>>
      Subj(j) == Nth(arm, "subject", j)
      succ == <<arm, "succ">>
      fail == <<arm, "fail">>
      k == <<arm, "k">>
      mb == <<arm, "body">>
      wrapper == <<arm, "wrapper">>
      pend == Patterns(pats, [j \in DOMAIN pats |-> Ref(Subj(j))])
      binds == SelectSeq(pend, LAMBDA p : p.p = "Bind")
      CallBody(vals) == App(Ref(mb), Vals(<<ContRef(succ)>> \o vals))
      passed == CallBody([j \in DOMAIN binds |-> binds[j].val])
      m == pend[1]
      single == LetFn(wrapper, <<>>, TRUE, CallBody(<<>>),
                  Then(<<>>, LetFn(m.name, m.params, TRUE, m.body,
                    Then(<<>>, App(Ref(m.name), Vals(<<Ref(wrapper), ContRef(fail), Ref(Subj(1))>>))))))
      mp == CASE Len(binds) = Len(pend) -> passed
              [] Len(pend) = 1 /\ m.p = "Match" -> single
              [] OTHER -> WrapFail(pend, Then(<<>>, passed), fail)
  IN <<PFn(mb, <<P(k)>> \o [j \in DOMAIN binds |-> P(binds[j].name)], TRUE, LowerSeq(Tail(Kids(arm)), k)),
       PFn(<<arm, "matcher">>, <<P(succ), P(fail)>> \o [j \in DOMAIN pats |-> P(Subj(j))], FALSE, mp)>>

(* lower_match: the arms in order, each one's failure the call of the next *)
LowerMatch(id) ==
  LET n == c.ast[id].n
      s == LowerAll(SubSeq(Kids(id), 1, n))
      arms == SubSeq(Kids(id), n + 1, Len(Kids(id)))
      subjs == [j \in 1..n |-> Nth(id, "subject", j)]
      k == <<id, "k">>
      chain == FoldRight(LAMBDA arm, next :
                   App(Ref(<<arm, "matcher">>), <<Val(ContRef(k)), ContArg(Then(<<>>, next))>>
                         \o Vals([j \in 1..n |-> Ref(subjs[j])])),
                 arms, App(Op("MatchExhausted"), <<>>))
      fn == PFn(<<id, "fn">>, <<P(k)>> \o [j \in 1..n |-> P(subjs[j])], FALSE, chain)
  IN Calling(s.pend \o FlattenSeq([j \in DOMAIN arms |-> Arm(arms[j])]) \o <<fn>>,
             <<id, "result">>, Ref(<<id, "fn">>), Vals(s.vals))

-----------------------------------------------------------------------------
(* Patterns *)

Succ(id, vals) == App(ContRef(<<id, "succ">>), Vals(vals))
Fail(id) == CallFail(<<id, "fail">>)
(* Call op, and go on with yes or with no as its result says *)
Test(id, op, vals, yes, no) ==
  App(Op(op), Append(Vals(vals), ContArg(Then(<<<<id, "test">>>>, If(Ref(<<id, "test">>), yes, no)))))
(* The value of a pattern that binds nothing is a name nobody binds *)
Unbound(id, pend) == [val |-> Ref(<<id, "unbound">>), pend |-> pend]
Guarded(id, protocol, inner) ==
  App(Op("GuardApply"), Vals(<<BuiltInVal(protocol), Ref(<<id, "subj">>)>>)
        \o <<ContArg(Then(<<<<id, "checked">>>>, inner)), ContArg(Then(<<>>, Fail(id)))>>)

(* emit_literal_pattern, emit_range_pattern, and `x < 3` *)
LiteralPattern(id) ==
  LET eq == Test(id, "==", <<Ref(<<id, "subj">>), Lower(id).val>>, Succ(id, <<>>), Fail(id))
  IN Unbound(id, <<PMatch(id, Subject, <<>>, eq)>>)
RangePattern(id) ==
  LET r == LowerOp(id)
      in == Test(id, "in", <<Ref(<<id, "subj">>), r.val>>, Succ(id, <<>>), Fail(id))
  IN Unbound(id, <<PMatch(id, Subject, <<<<id, "dummy">>>>, Prepend(r.pend, in))>>)
RECURSIVE Leftmost(_)
Leftmost(id) == IF Kind(id) = "InfixOp" THEN Leftmost(Kids(id)[1]) ELSE id
ComparePattern(id) ==
  LET name == BindName(Leftmost(Kids(id)[1]))
      r == Lower(Kids(id)[2])
      subj == Ref(<<id, "subj">>)
      test == Test(id, Text(id), <<subj, r.val>>, Succ(id, <<subj>>), Fail(id))
  IN [val |-> Ref(name), pend |-> <<PBind(name, Subject), PMatch(id, Subject, <<name>>, Prepend(r.pend, test))>>]

(* fold_seq_pops_to, fold_seq_pop_backs, fold_rec_pops: pop one after the other, the
   first from the cursor first, and leave the rest in the cursor inner *)
Cursors(id, n, first, inner, role) ==
  [j \in 1..n + 1 |-> IF j = 1 THEN first ELSE IF j > n THEN inner ELSE Nth(id, role, j)]
Pops(id, n, first, inner, body, role, Pop(_, _, _, _)) ==
  LET cur == Cursors(id, n, first, inner, role)
  IN IF n = 0 THEN LetVal(inner, Ref(first), Then(<<>>, body))
     ELSE FoldRight(LAMBDA j, rest : Pop(j, cur[j], cur[j + 1], rest), [j \in 1..n |-> j], body)

(* emit_seq_pattern *)
SeqPattern(id, elems, val) ==
  LET spreads == {j \in DOMAIN elems : IsSpread(elems[j])}
      heads == SubSeq(elems, 1, IF spreads = {} THEN Len(elems) ELSE Min(spreads) - 1)
      tails == IF spreads = {} THEN <<>>
               ELSE SelectSeq(SubSeq(elems, Min(spreads), Len(elems)), LAMBDA e : ~IsSpread(e))
      spread == elems[Max(spreads)]
      bound == spreads # {} /\ Kids(spread) # <<>>
      more == \E j \in spreads : Kids(elems[j]) = <<>> /\ Text(elems[j]) = "..."
      head == [j \in DOMAIN heads |-> Nth(id, "head", j)]
      tail == [j \in DOMAIN tails |-> Nth(id, "tail", j)]
      rest == <<id, "rest">>
      names == head \o (IF bound THEN <<rest>> ELSE <<>>) \o tail
      cursor == <<id, "cursor">>
      outer == IF tails = <<>> THEN cursor ELSE <<id, "outer">>
      fail == ContRef(<<id, "fail">>)
      succ == Succ(id, [j \in DOMAIN names |-> Ref(names[j])])
      terminal ==
        CASE spreads = {} -> Test(id, "Empty", <<Ref(cursor)>>, succ, Fail(id))
          [] spreads # {} /\ bound -> LetVal(rest, Ref(cursor), Then(<<>>, succ))
          [] spreads # {} /\ ~bound /\ ~more -> succ
          [] spreads # {} /\ ~bound /\ more ->
               App(Op("SeqPop"), Vals(<<Ref(cursor), fail>>)
                     \o <<ContArg(Then(<<<<id, "discardHead">>, <<id, "discardTail">>>>, succ))>>)
      PopFront(j, cur, next, body) ==
        App(Op("SeqPop"), Append(Vals(<<Ref(cur), fail>>), ContArg(Then(<<head[j], next>>, body))))
      PopBack(j, cur, next, body) ==
        App(Op("SeqPopBack"), Append(Vals(<<Ref(cur), fail>>),
              ContArg(Then(<<next, tail[Len(tail) + 1 - j]>>, body))))
      fromBack == IF tails = <<>> THEN terminal
                  ELSE Pops(id, Len(tails), outer, cursor, terminal, "back", PopBack)
      body == Pops(id, Len(heads), <<id, "checked">>, outer, fromBack, "front", PopFront)
      sub == Patterns(heads, [j \in DOMAIN heads |-> Ref(head[j])])
             \o Patterns(tails, [j \in DOMAIN tails |-> Ref(tail[j])])
      restBind == IF bound /\ Kind(Kids(spread)[1]) = "Ident"
                  THEN <<PBind(BindName(Kids(spread)[1]), Ref(rest))>> ELSE <<>>
  IN Unbound(id, <<PMatch(id, val, names, Guarded(id, "TupleProtocol", body))>> \o sub \o restBind)

(* emit_rec_pattern.  The rest after the fields is empty, not empty, or bound: *)
RestOf(f) ==
  LET in == Inner(f)
  IN CASE Kids(f) = <<>> -> "more"
       [] Kids(f) # <<>> /\ Kind(in) = "Ident" -> "bound"
       [] Kids(f) # <<>> /\ Kind(in) = "LitRec" -> IF Kids(in) = <<>> THEN "empty" ELSE "bound"
       [] OTHER -> "more"
RecPattern(id) ==
  LET kids == Kids(id)
      spreads == SelectSeq(kids, LAMBDA f : IsSpread(f))
      KeyOf(f) == IF Kind(f) = "Ident" THEN f ELSE Kids(f)[1]
      Accepted(f) == \/ Kind(f) = "Ident"
                     \/ Kind(f) = "Bind" /\ Kind(KeyOf(f)) \in {"Ident", "LitStr"}
                     \/ Kind(f) = "Arm" /\ Kind(KeyOf(f)) \in {"Ident", "LitStr", "Group"}
      fields == SelectSeq(kids, Accepted)
      pats == [j \in DOMAIN fields |-> IF Kind(fields[j]) = "Ident" THEN fields[j] ELSE Last(Kids(fields[j]))]
      Key(f) == CASE Kind(KeyOf(f)) = "Ident" -> Value(Symbol(Text(KeyOf(f))))
                  [] Kind(KeyOf(f)) = "LitStr" -> Value(Lit("LitStr", Text(KeyOf(f))))
                  [] OTHER -> Lower(Kids(KeyOf(f))[1])
      after == IF spreads = <<>> THEN IF fields = <<>> THEN "empty" ELSE "any" ELSE RestOf(Last(spreads))
      temp == [j \in DOMAIN fields |-> Nth(id, "field", j)]
      rest == <<id, "rest">>
      passed == temp \o (IF after = "bound" THEN <<rest>> ELSE <<>>)
      names == IF passed = <<>> THEN <<<<id, "dummy">>>> ELSE passed
      cursor == <<id, "cursor">>
      succ == Succ(id, [j \in DOMAIN passed |-> Ref(passed[j])])
      terminal == CASE after = "any" -> succ
                    [] after = "empty" -> Test(id, "Empty", <<Ref(cursor)>>, succ, Fail(id))
                    [] after = "more" -> Test(id, "Empty", <<Ref(cursor)>>, Fail(id), succ)
                    [] after = "bound" -> LetVal(rest, Ref(cursor), Then(<<>>, succ))
      Pop(j, cur, next, body) ==
        LET k == Key(fields[j])
        IN Prepend(k.pend, App(Op("RecPop"), Append(Vals(<<Ref(cur), k.val, ContRef(<<id, "fail">>)>>),
                                                    ContArg(Then(<<temp[j], next>>, body)))))
      body == Pops(id, Len(fields), <<id, "checked">>, cursor, terminal, "pop", Pop)
      in == Inner(Last(spreads))
      restBind == IF after # "bound" THEN <<>>
                  ELSE IF Kind(in) = "Ident" THEN <<PBind(BindName(in), Ref(rest))>>
                  ELSE Pattern(in, Ref(rest)).pend
  IN Unbound(id, <<PMatch(id, Subject, names, Guarded(id, "RecProtocol", body))>>
                 \o Patterns(pats, [j \in DOMAIN pats |-> Ref(temp[j])]) \o restBind)

(* emit_str_templ_pattern: one capture between two literal texts *)
TemplatePattern(id) ==
  LET kids == Kids(id)
      captures == SelectSeq(kids, LAMBDA k : Kind(k) # "LitStr")
      at == CHOOSE j \in DOMAIN kids : Kind(kids[j]) # "LitStr"
      prefix == Lit("LitStr", IF at > 1 THEN Text(kids[1]) ELSE "")
      suffix == Lit("LitStr", IF at < Len(kids) THEN Text(Last(kids)) ELSE "")
      capture == <<id, "capture">>
      body == App(Op("StrMatch"), Vals(<<Ref(<<id, "subj">>), prefix, suffix, ContRef(<<id, "fail">>)>>)
                    \o <<ContArg(Then(<<capture>>, Succ(id, <<Ref(capture)>>)))>>)
      p == Pattern(kids[at], Ref(capture))
  IN IF Len(captures) # 1 \/ Len(kids) > 3 THEN [val |-> Panic(id), pend |-> <<>>]
     ELSE [p EXCEPT !.pend = <<PMatch(id, Subject, <<capture>>, body)>> \o @]

(* A type, a protocol or a predicate in front of arguments: names, wildcards, literals
   and spreads take the value apart by position; otherwise the value is an argument of
   the head, with what else is given *)
HeadPattern(id) ==
  LET args == Tail(Kids(id))
      Is(j, kinds) == Kind(args[j]) \in kinds
      positional == /\ args # <<>> /\ ~(Len(args) = 1 /\ Is(1, {"Wildcard"}))
                    /\ \A j \in DOMAIN args :
                         Is(j, {"Ident", "Wildcard", "Spread", "LitInt", "LitFloat", "LitBool", "LitStr"})
      v1 == <<id, "v1">>
      f == Lower(Kids(id)[1])
      spreadName == BindName(Inner(args[1]))
      whole == Len(args) = 1 /\ Is(1, {"Spread"}) /\ Kids(args[1]) # <<>>
      subs == SelectSeq(args, LAMBDA a : Kind(a) \in {"LitRec", "LitSeq"})
      idents == SelectSeq(args, LAMBDA a : Kind(a) = "Ident")
      given == SelectSeq(args, LAMBDA a : Kind(a) \notin {"LitRec", "LitSeq"})
      r == FoldLeft(LAMBDA t, a :
               LET l == IF Kind(a) \in {"Ident", "Wildcard"} THEN Value(Subject) ELSE Lower(a)
               IN [vals |-> Append(t.vals, l.val), pend |-> t.pend \o l.pend],
             [vals |-> <<>>, pend |-> <<>>], given)
      guard == PGuard(v1, f.val, IF positional \/ (given = <<>> /\ subs # <<>>) THEN <<Subject>> ELSE r.vals)
      named == IF idents = <<>> THEN <<>> ELSE <<PBind(BindName(Last(idents)), Ref(v1))>>
  IN CASE positional /\ whole ->
            [val |-> Ref(spreadName), pend |-> f.pend \o <<guard, PBind(spreadName, Ref(v1))>>]
       [] positional /\ ~whole ->
            LET s == SeqPattern(id, args, Ref(v1)) IN [s EXCEPT !.pend = f.pend \o <<guard>> \o @]
       [] OTHER ->
            Unbound(id, r.pend \o f.pend \o <<guard>> \o named
                          \o Patterns(subs, [j \in DOMAIN subs |-> Ref(v1)]))

(* lower_pat_lhs *)
LowerPattern(id) ==
  LET kids == Kids(id)
      named == BindName(kids[2])
      right == Pattern(kids[1], Subject)
  IN CASE Kind(id) \in {"Ident", "SynthIdent"} ->
            [val |-> Ref(BindName(id)), pend |-> <<PBind(BindName(id), Subject)>>]
       [] Kind(id) = "Wildcard" -> Value(Subject)
       [] Kind(id) = "InfixOp" ->
            IF Text(id) \in {"..", "..."} THEN RangePattern(id) ELSE ComparePattern(id)
       [] Kind(id) \in {"LitInt", "LitFloat", "LitBool", "LitStr"} -> LiteralPattern(id)
       [] Kind(id) = "LitSeq" -> SeqPattern(id, kids, Subject)
       [] Kind(id) = "LitRec" -> RecPattern(id)
       [] Kind(id) = "Apply" -> HeadPattern(id)
       [] Kind(id) = "StrTempl" -> TemplatePattern(id)
       [] Kind(id) = "BindRight" ->
            IF Kind(kids[2]) # "Ident" THEN Value(Panic(id))
            ELSE [right EXCEPT !.pend = <<PBind(named, Subject)>> \o @]
       [] OTHER -> Value(Panic(id))

-----------------------------------------------------------------------------
(* Types: a new type, and one call for each thing it is made of *)

Minted(id, role, op, name) == Builtin(<<>>, <<id, role>>, op, <<Symbol(name)>>)
(* lower_type_expr_named: the type of a function, or an expression *)
FnType(id, name) ==
  LET params == Kids(Kids(id)[1])
      Add(acc, at, role, op) ==
        LET t == TypeExpr(at, "")
        IN Builtin(acc.pend \o t.pend, <<at, role>>, op, <<acc.val, t.val>>)
  IN Add(FoldLeft(LAMBDA acc, p : Add(acc, p, "typeParam", "FnTypeParam"),
                  Minted(id, "fnType", "NewFnType", name), params),
         Kids(id)[2], "typeResult", "FnTypeResult")
(* lower_type_body *)
TypeBody(id, fields, name) ==
  LET Field(acc, f) ==
        LET kids == Kids(f)
            base == Lower(kids[1])
            t == TypeExpr(IF Kind(f) = "Arm" THEN kids[2] ELSE f, "")
        IN CASE IsSpread(f) /\ kids # <<>> ->
                  Builtin(acc.pend \o base.pend, <<f, "typeField">>, "TypeInherit", <<acc.val, base.val>>)
             [] Kind(f) = "Arm" ->
                  Builtin(acc.pend \o t.pend, <<f, "typeField">>, "TypeSetField",
                          <<acc.val, NameSymbol(kids[1]), t.val>>)
             [] OTHER -> Builtin(acc.pend \o t.pend, <<f, "typeField">>, "TypePush", <<acc.val, t.val>>)
  IN IF Len(fields) = 1 /\ Kind(fields[1]) = "Fn" THEN FnType(fields[1], name)
     ELSE FoldLeft(Field, Minted(id, "type", "NewType", name), fields)
(* lower_union_body *)
UnionBody(id, members, name) ==
  FoldLeft(LAMBDA acc, m :
      LET r == Lower(m) IN Builtin(acc.pend \o r.pend, <<m, "member">>, "UnionAdd", <<acc.val, r.val>>),
    Minted(id, "type", "NewUnion", name), members)
(* lower_enum_body, enum_member_parts *)
EnumBody(id, members, name) ==
  LET Member(acc, m) ==
        LET kids == Kids(m)
            at == IF Kind(m) = "Ident" THEN m ELSE kids[1]
            fields == IF Kind(m) = "Ident" THEN <<>>
                      ELSE IF Len(kids) = 2 /\ Kind(kids[2]) = "LitRec" THEN Kids(kids[2]) ELSE Tail(kids)
            t == TypeBody(m, fields, Text(at))
        IN Builtin(acc.pend \o t.pend, <<m, "member">>, "EnumAdd", <<acc.val, NameSymbol(at), t.val>>)
  IN FoldLeft(Member, Minted(id, "type", "NewEnum", name), members)

(* wrap_decl_in_params_fn: a declaration with parameters is a function that builds it *)
Decl(id, name) ==
  LET kids == Kids(id)
      body == CASE Kind(id) = "Type" -> TypeBody(id, Tail(kids), name)
                [] Kind(id) = "Union" -> UnionBody(id, Tail(kids), name)
                [] Kind(id) = "Enum" -> EnumBody(id, Tail(kids), name)
      ps == Params(kids[1])
      k == <<id, "k">>
      fn == PFn(<<id, "fn">>, <<P(k)>> \o ps.params, FALSE,
                Prepend(ps.pend, Prepend(body.pend, TailApp(k, body.val))))
      shell == Minted(id, "shell", "NewType", name)
  IN IF Kids(kids[1]) = <<>> THEN body
     ELSE Builtin(<<fn>> \o shell.pend, <<id, "result">>, "TypeSetNew", <<shell.val, Ref(<<id, "fn">>)>>)

-----------------------------------------------------------------------------
(* lower *)
LowerExpr(id) ==
  LET kids == Kids(id)
      kind == Kind(id)
  IN CASE kind \in {"LitBool", "LitInt", "LitFloat", "LitDecimal", "LitStr"} -> Value(Lit(kind, Text(id)))
       [] kind \in {"Ident", "SynthIdent", "Wildcard"} -> Value(NameVal(id))
       [] kind = "Group" ->
            IF Kind(kids[1]) = "Fn" /\ Kids(Kids(kids[1])[1]) = <<>>
            THEN LowerIife(id, kids[1]) ELSE Lower(kids[1])
       [] kind = "Try" -> Lower(kids[1])
       [] kind = "Bind" -> LowerBind(kids[1], kids[2])
       [] kind = "BindRight" -> LowerBind(kids[2], kids[1])
       [] kind = "Fn" -> LowerFn(id, id)
       [] kind = "Apply" -> LowerApply(id)
       [] kind = "Pipe" -> LowerPipe(id)
       [] kind \in {"InfixOp", "PostfixOp", "UnaryOp"} -> LowerOp(id)
       [] kind = "ChainedCmp" -> LowerChain(id)
       [] kind = "Member" -> LowerMember(id)
       [] kind = "LitSeq" -> LowerLitSeq(id)
       [] kind = "LitRec" -> LowerLitRec(id)
       [] kind \in {"StrTempl", "StrRawTempl"} -> LowerTemplate(id)
       [] kind = "Match" -> LowerMatch(id)
       [] kind = "Block" -> LowerBlock(id)
       [] kind = "Module" -> IF Len(kids) = 1 THEN Lower(kids[1]) ELSE LowerModuleAsFn(id)
       [] kind = "Spread" -> IF kids = <<>> THEN Value(Panic(id)) ELSE Lower(kids[1])
       [] kind \in {"Type", "Union", "Enum"} -> Decl(id, "")
       [] OTHER -> Value(Panic(id))   \* Partial, Patterns, Arm, Token
LowerType(id, name) ==
  CASE Kind(id) \in {"Type", "Union", "Enum"} /\ name # "" -> Decl(id, name)
    [] Kind(id) = "Wildcard" -> Minted(id, "type", "NewType", "")
    [] Kind(id) = "Fn" -> FnType(id, name)
    [] OTHER -> Lower(id)
(* lower_module: the module is a continuation that the host gives a context and a
   continuation of its own *)
LowerModule(root) ==
  LET stmts == Kids(root)
      done == <<root, "done">>
      body == IF stmts = <<>> THEN App(ContRef(done), <<>>)
              ELSE InLetRec(Published(LowerSeq(stmts, done), Exports(stmts)), Locals(stmts))
  IN App(Op("FinkModule"), <<ContArg(Then(<<<<root, "ctx">>, done>>, body))>>)

Rules == {"expression", "pattern", "type", "module"} \X Nat \X STRING
low == [q \in Rules |->
  CASE q[1] = "expression" -> LowerExpr(q[2])
    [] q[1] = "pattern" -> LowerPattern(q[2])
    [] q[1] = "type" -> LowerType(q[2], q[3])
    [] q[1] = "module" -> LowerModule(q[2])]
Lowered(root) == low[<<"module", root, "">>]
=============================================================================
