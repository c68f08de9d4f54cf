-------------------------------- MODULE Lift --------------------------------
(***************************************************************************)
(* From continuation-passing style to flat functions: the context is       *)
(* threaded through every function and call, continuations become          *)
(* functions, functions get what they use from outside as captures, and    *)
(* all of them move to the front of the program.                           *)
(*                                                                         *)
(* Closure makes a closure of a function, LetCaps takes the captures apart *)
(* on entry.  New ids extend the id of what they are made for.             *)
(***************************************************************************)
EXTENDS Ir

Closure(func, captures, cont) == [e |-> "Closure", func |-> func, captures |-> captures, cont |-> cont]
LetCaps(caps, binds, cont) == [e |-> "LetCaps", caps |-> caps, binds |-> binds, cont |-> cont]

-----------------------------------------------------------------------------
(* thread_ctx: every function and every continuation that is an argument has a context
   of its own, every call passes the one it runs in; at is where in the program e is *)
RECURSIVE Threaded(_, _, _)
Threaded(e, ctx, at) ==
  LET own == Append(e.name, "ctx")
      Arg(j) ==
        LET there == Append(at, ToString(j))
            given == Append(there, "ctx")
        IN IF e.args[j].a = "cont" /\ e.args[j].x.c = "expr"
           THEN ContArg(Then(<<given>> \o e.args[j].x.args, Threaded(e.args[j].x.body, given, there)))
           ELSE e.args[j]
  IN CASE e.e = "LetFn" ->
            [e EXCEPT !.params = <<P(own)>> \o @, !.body = Threaded(@, own, e.name),
                      !.cont = ContOf(@, LAMBDA x : Threaded(x, ctx, at))]
       [] e.e = "App" -> [e EXCEPT !.args = <<Val(Ref(ctx))>> \o [j \in DOMAIN @ |-> Arg(j)]]
       [] e.e = "If" -> [e EXCEPT !.yes = Threaded(@, ctx, Append(at, "yes")),
                                  !.no = Threaded(@, ctx, Append(at, "no"))]
       [] OTHER -> Below(e, LAMBDA x : Threaded(x, ctx, at), {})
(* the context of the module is the host's *)
WithContext(root) ==
  [root EXCEPT !.args = <<ContArg([@[1].x EXCEPT !.body = Threaded(@, root.args[1].x.args[1], <<0, "module">>)])>>]

(* cont_lift: a continuation that is an argument becomes a function made in front of the
   call, except where the back end takes it as it is *)
KeepsInline(func) == func.k = "op" /\ func.v \in {"Pub", "IrrefutablePattern", "MatchExhausted", "FinkModule"}
ContName(arg) == Append(Front(arg.x.args[1]), "cont")
RECURSIVE Lifted(_)
Lifted(e) ==
  LET r == Below(e, Lifted, BOOLEAN)
      Inline(arg) == arg.a = "cont" /\ arg.x.c = "expr"
      call == [r EXCEPT !.args = [j \in DOMAIN @ |-> IF Inline(@[j]) THEN Val(Ref(ContName(@[j]))) ELSE @[j]]]
      conts == SelectSeq(r.args, Inline)
      Made(arg, rest) == LetFn(ContName(arg), [j \in DOMAIN arg.x.args |-> P(arg.x.args[j])],
                               TRUE, arg.x.body, Then(<<>>, rest))
  IN IF e.e # "App" THEN r ELSE IF KeepsInline(e.func) THEN r ELSE FoldRight(Made, conts, call)

-----------------------------------------------------------------------------
(* convert *)

(* collect_slot_ids *)
RECURSIVE SlotIds(_)
SlotIds(e) ==
  LET Conts(args) == {args[j].x : j \in {j \in DOMAIN args : args[j].a = "cont"}}
      bodies == CASE e.e = "LetRec" -> {e.body}
                  [] e.e = "If" -> {e.yes, e.no}
                  [] e.e = "App" -> {k.body : k \in {k \in Conts(e.args) : k.c = "expr"}}
                  [] e.e = "LetFn" -> {e.body} \cup (IF e.cont.c = "expr" THEN {e.cont.body} ELSE {})
                  [] OTHER -> IF e.cont.c = "expr" THEN {e.cont.body} ELSE {}
      own == IF e.e = "LetRec" THEN Range(e.slots)
             ELSE IF e.e = "LetCaps" THEN {b.id : b \in {b \in Range(e.binds) : b.kind = "slot"}} ELSE {}
  IN own \cup UNION {SlotIds(b) : b \in bodies}

(* collect_free_in_expr: the ids an expression uses and does not bind, in the order they
   occur.  The name a Set writes to is not one of them, nor are those of the body of a
   function: its closure has them already *)
Uses(vals) == FlattenSeq([j \in DOMAIN vals |-> IF vals[j].k \in {"ref", "cont"} THEN <<vals[j].v>> ELSE <<>>])
RECURSIVE Free(_, _)
Free(e, bound) ==
  LET Of(cont, more) == IF cont.c = "ref" THEN <<cont.id>> ELSE Free(cont.body, more \cup Range(cont.args))
      InArg(arg) == IF arg.a = "cont" THEN Of(arg.x, {}) ELSE Uses(<<arg.x>>)
      all == CASE e.e = "LetVal" -> Uses(<<e.val>>) \o Of(e.cont, {e.name})
               [] e.e = "LetFn" -> Of(e.cont, {e.name})
               [] e.e = "App" -> Uses(<<e.func>>) \o FlattenSeq([j \in DOMAIN e.args |-> InArg(e.args[j])])
               [] e.e = "If" -> Uses(<<e.cond>>) \o Free(e.yes, {}) \o Free(e.no, {})
               [] e.e = "LetRec" -> Free(e.body, Range(e.slots))
               [] e.e = "Set" -> Uses(<<e.val>>) \o Of(e.cont, {})
               [] e.e = "Closure" -> Uses(<<e.func>> \o [j \in DOMAIN e.captures |-> e.captures[j].val]) \o Of(e.cont, {})
               [] e.e = "LetCaps" -> Uses(<<e.caps>>) \o Of(e.cont, {b.id : b \in Range(e.binds)})
  IN SelectSeq(all, LAMBDA id : id \notin bound)
Distinct(s) == FoldLeft(LAMBDA t, x : IF Contains(t, x) THEN t ELSE Append(t, x), <<>>, s)

(* rename_refs_in_expr: the public name of a Pub stays, and bodies of functions *)
RECURSIVE Renamed(_, _)
Renamed(e, to) ==
  LET New(id) == IF id \in DOMAIN to THEN to[id] ELSE id
      InVal(v) == IF v.k \in {"ref", "cont"} THEN [v EXCEPT !.v = New(@)] ELSE v
      Of(cont) == IF cont.c = "ref" THEN [cont EXCEPT !.id = New(@)] ELSE [cont EXCEPT !.body = Renamed(@, to)]
      Arg(j) == IF IsOp(e.func, "Pub") /\ j = 2 THEN e.args[j]
                ELSE [e.args[j] EXCEPT !.x = IF e.args[j].a = "cont" THEN Of(@) ELSE InVal(@)]
  IN CASE e.e = "LetVal" -> [e EXCEPT !.val = InVal(@), !.cont = Of(@)]
       [] e.e = "LetFn" -> [e EXCEPT !.cont = Of(@)]
       [] e.e = "App" -> [e EXCEPT !.func = InVal(@), !.args = Tuple([j \in DOMAIN @ |-> Arg(j)])]
       [] e.e = "If" -> [e EXCEPT !.cond = InVal(@), !.yes = Renamed(@, to), !.no = Renamed(@, to)]
       [] e.e = "LetRec" -> [e EXCEPT !.body = Renamed(@, to)]
       [] e.e = "Set" -> [e EXCEPT !.name = New(@), !.val = InVal(@), !.cont = Of(@)]
       [] e.e = "Closure" ->
            [e EXCEPT !.func = InVal(@), !.cont = Of(@),
                      !.captures = [j \in DOMAIN @ |-> [@[j] EXCEPT !.val = InVal(@)]]]
       [] e.e = "LetCaps" -> [e EXCEPT !.caps = InVal(@), !.cont = Of(@)]

(* outer_bind_kind: what the back end does with a capture *)
KindOf(id, slots) == IF id \in slots THEN "slot" ELSE IF Last(id) \in {"k", "done"} THEN "ret" ELSE "value"

(* convert_expr: the inner functions first *)
RECURSIVE Converted(_, _, _)
Converted(e, slots, ctx) ==
  LET body == Converted(e.body, slots, e.params[1].id)
      frees == Distinct(Free(body, {p.id : p \in Range(e.params)}))
      local == [j \in DOMAIN frees |-> e.name \o <<"local", ToString(j)>>]
      binds == [j \in DOMAIN frees |-> [id |-> local[j], kind |-> KindOf(frees[j], slots)]]
      captures == [j \in DOMAIN frees |->
                     [id |-> local[j], kind |-> KindOf(frees[j], slots), val |-> Ref(frees[j])]]
      renamed == Renamed(body, [id \in Range(frees) |-> local[CHOOSE j \in DOMAIN frees : frees[j] = id]])
      caps == Append(e.name, "caps")
      lifted == Append(e.name, "lifted")
      after == IF e.cont.c = "expr" THEN Converted(e.cont.body, slots, ctx)
               ELSE App(ContRef(e.cont.id), Vals(<<Ref(ctx), Ref(e.name)>>))
  IN IF e.e # "LetFn" THEN Below(e, LAMBDA x : Converted(x, slots, ctx), {})
     ELSE LetFn(lifted, <<P(caps)>> \o e.params, e.closure,
                IF frees = <<>> THEN renamed ELSE LetCaps(Ref(caps), binds, Then(<<>>, renamed)),
                Then(<<>>, Closure(Ref(lifted), captures, Then(<<e.name>>, after))))

-----------------------------------------------------------------------------
(* hoist: what is left of an expression without the functions it makes, and those
   functions, an inner one before the one it is in *)
RECURSIVE Flat(_)
Flat(e) ==
  CASE e.e # "LetFn" -> Below(e, Flat, {})
    [] e.e = "LetFn" /\ e.cont.c = "expr" -> Flat(e.cont.body)
    [] e.e = "LetFn" /\ e.cont.c = "ref" -> App(ContRef(e.cont.id), <<>>)
RECURSIVE Fns(_)
Fns(e) ==
  LET Of(cont) == IF cont.c = "ref" THEN <<>> ELSE Fns(cont.body)
  IN CASE e.e = "LetFn" -> Append(Fns(e.body), [e EXCEPT !.body = Flat(@)]) \o Of(e.cont)
       [] e.e = "App" -> FlattenSeq([j \in DOMAIN e.args |-> IF e.args[j].a = "cont" THEN Of(e.args[j].x) ELSE <<>>])
       [] e.e = "If" -> Fns(e.yes) \o Fns(e.no)
       [] e.e = "LetRec" -> Fns(e.body)
       [] OTHER -> Of(e.cont)
Hoisted(root) == [fns |-> Fns(root), root |-> Flat(root)]

Convert(root) == Converted(root, SlotIds(root), <<>>)
=============================================================================
