---------------------------------- MODULE Ir ----------------------------------
(***************************************************************************)
(* The expressions in continuation-passing style that the middle passes    *)
(* hand to each other.                                                     *)
(***************************************************************************)
EXTENDS Sequences, SequencesExt

(* Values, arguments, continuations, expressions *)

Ref(id) == [k |-> "ref", v |-> id]
ContRef(id) == [k |-> "cont", v |-> id]
Lit(kind, x) == [k |-> "lit", v |-> <<kind, x>>]
BuiltInVal(op) == [k |-> "builtin", v |-> op]   \* a builtin as a value
Op(op) == [k |-> "op", v |-> op]                \* a builtin that is called
IsOp(v, op) == v.k = "op" /\ v.v = op
Symbol(text) == Lit("Symbol", text)

Val(v) == [a |-> "val", x |-> v]
Spread(v) == [a |-> "spread", x |-> v]
ContArg(cont) == [a |-> "cont", x |-> cont]
Vals(vs) == [j \in DOMAIN vs |-> Val(vs[j])]
ToCont(id) == [c |-> "ref", id |-> id]
Then(args, body) == [c |-> "expr", args |-> args, body |-> body]
P(id) == [id |-> id, spread |-> FALSE]

LetVal(name, val, cont) == [e |-> "LetVal", name |-> name, val |-> val, cont |-> cont]
LetFn(name, params, closure, body, cont) ==
  [e |-> "LetFn", name |-> name, params |-> params, closure |-> closure, body |-> body, cont |-> cont]
App(func, args) == [e |-> "App", func |-> func, args |-> args]
If(cond, yes, no) == [e |-> "If", cond |-> cond, yes |-> yes, no |-> no]
LetRec(slots, body) == [e |-> "LetRec", slots |-> slots, body |-> body]
SetSlot(name, val, cont) == [e |-> "Set", name |-> name, val |-> val, cont |-> cont]
TailApp(k, val) == App(ContRef(k), Vals(<<val>>))

(* The same sequence; TLC evaluates its items here, and not again wherever one is used *)
Tuple(s) == s \o <<>>
(* An expression with F applied to what follows it, and to the body of a function
   that is a closure, or not, as into says *)
ContOf(cont, F(_)) == IF cont.c = "ref" THEN cont ELSE [cont EXCEPT !.body = F(@)]
Below(e, F(_), into) ==
  CASE e.e = "LetFn" ->
         [e EXCEPT !.body = IF e.closure \in into THEN F(@) ELSE @, !.cont = ContOf(@, F)]
    [] e.e = "App" ->
         [e EXCEPT !.args = Tuple([j \in DOMAIN @ |->
            IF @[j].a = "cont" THEN ContArg(ContOf(@[j].x, F)) ELSE @[j]])]
    [] e.e = "If" -> [e EXCEPT !.yes = F(@), !.no = F(@)]
    [] e.e = "LetRec" -> [e EXCEPT !.body = F(@)]
    [] OTHER -> [e EXCEPT !.cont = ContOf(@, F)]
=============================================================================
