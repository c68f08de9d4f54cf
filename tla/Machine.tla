------------------------------ MODULE Machine ------------------------------
(***************************************************************************)
(* The back end and the runtime, as one: the instructions of a lowered     *)
(* function do nothing but what is said here of its expressions, so an     *)
(* expression is run as it stands, one step for each.                      *)
(*                                                                         *)
(* A slot is a cell, held by a global of its module or by the local that a *)
(* capture was put in.  Every call is a tail call through apply_3; what is *)
(* left to do after it is a closure, too.                                  *)
(***************************************************************************)
EXTENDS Lift, Types, Urls

VARIABLES
  images,     \* what each module was lowered to
  at,         \* the function that runs, its context, and the expression it is at
  env,        \* its locals
  call,       \* the call that is pending, or NoCall
  heap,       \* the cells, and the captures of each closure
  types,      \* the types that were made
  globals,    \* the cell that each global of each module holds
  registry,   \* what each module that was started has published
  outcome     \* whether the program runs, and its result

machineVars == <<images, at, env, call, heap, types, globals, registry, outcome>>

NoCall == [to |-> Null]
Running == <<"run">>
Trapped == <<"trap">>
(* A context is what the program has put in it, the unit at first *)
ContextOf(v) == <<"ctx", v>>
EmptyContext == ContextOf(Bool(FALSE))
Idle == [url |-> "", fn |-> <<>>, ctx |-> Null, e |-> [e |-> "none"]]

-----------------------------------------------------------------------------
(* lower: a program in flat functions as the back end takes it.  The module itself is
   the function <<>>; names gives the names of bindings, natives what the module takes
   of modules of the runtime. *)

(* The expressions of a body *)
RECURSIVE Exprs(_)
Exprs(e) ==
  LET Below1(k) == IF k.c = "expr" THEN Exprs(k.body) ELSE <<>>
      next == CASE e.e = "If" -> Exprs(e.yes) \o Exprs(e.no)
                [] e.e = "LetRec" -> Exprs(e.body)
                [] e.e = "App" -> FlattenSeq([j \in DOMAIN e.args |->
                                     IF e.args[j].a = "cont" THEN Below1(e.args[j].x) ELSE <<>>])
                [] OTHER -> Below1(e.cont)
  IN <<e>> \o next

Image(url, p, names, natives) ==
  LET k == p.root.args[1].x
      module == [params |-> <<P(k.args[1]), P(k.args[2])>>, body |-> k.body]
      Made(f) == [params |-> f.params, body |-> f.body]
      Index(id) == CHOOSE j \in DOMAIN p.fns : p.fns[j].name = id
      fns == (<<>> :> module) @@ [id \in {p.fns[j].name : j \in DOMAIN p.fns} |-> Made(p.fns[Index(id)])]
      all == Exprs(k.body) \o FlattenSeq([j \in DOMAIN p.fns |-> Exprs(p.fns[j].body)])
      Calls(op) == {j \in DOMAIN all : all[j].e = "App" /\ IsOp(all[j].func, op)}
      published == {all[j].args[2].x.v : j \in Calls("Pub")}
      binds == UNION {Range(all[j].binds) : j \in {j \in DOMAIN all : all[j].e = "LetCaps"}}
  IN [fns |-> fns,
      slots |-> UNION {Range(all[j].slots) : j \in {j \in DOMAIN all : all[j].e = "LetRec"}}
                \cup {b.id : b \in {x \in binds : x.kind = "slot"}},
      imports |-> {Canonical(url, all[j].args[2].x.v[2]) : j \in Calls("import")} \ DOMAIN Natives,
      natives |-> natives,
      pubs |-> [id \in published |-> names[id[1]]]]

(* What lowering panics on *)
Literal(v) == v.k = "lit"
Shapeless(e) ==
  LET vals == CASE e.e \in {"LetVal", "Set"} -> {e.val}
                [] e.e = "App" -> {a.x : a \in {x \in Range(e.args) : x.a # "cont"}}
                [] OTHER -> {}
      Passed(v) == \/ v.k \in {"ref", "cont", "lit"}
                   \/ v.k = "builtin" /\ v.v \in {"IrrefutablePattern", "RecProtocol", "TupleProtocol"}
  IN \/ \E v \in vals : ~Passed(v)
     \/ e.e = "App" /\ e.func.k \notin {"ref", "cont", "op"}
     \/ e.e = "App" /\ \E a \in Range(e.args) : a.a = "spread" /\ Literal(a.x)
     \/ e.e = "App" /\ e.func.k = "op" /\ e.func.v \in Operators /\ Len(e.args) < Arity(e.func.v) + 2
Broken(image, f) ==
  LET all == Exprs(f.body)
      outer == Range(Free(f.body, {p.id : p \in Range(f.params)})) \ DOMAIN image.fns
      Copied(e) == e.e = "LetVal" /\ e.name \notin image.slots /\ e.val.k \in {"ref", "cont"}
  IN \/ ~outer \subseteq image.slots
     \/ \E j \in DOMAIN all : Copied(all[j]) /\ all[j].val.v \in outer \ DOMAIN image.pubs
     \/ \E j \in DOMAIN all : Shapeless(all[j])
     \/ \E j \in DOMAIN all : /\ all[j].e = "App" /\ IsOp(all[j].func, "import")
                             /\ all[j].args[2].x.v[2] \in DOMAIN Natives \ DOMAIN image.natives
Refused(image) == \E id \in DOMAIN image.fns : Broken(image, image.fns[id])

-----------------------------------------------------------------------------
Mine == images[at.url]
(* slot_cell_ref, resolve_id_as_operand *)
CellOf(id) == IF id \in DOMAIN env THEN env[id] ELSE globals[at.url][id]
Held(cell) == IF cell = Null THEN Trap ELSE heap[cell[2]]
Operand(v) ==
  CASE Literal(v) -> OfLiteral(v.v[1], v.v[2])
    [] v.k = "builtin" -> IF v.v = "IrrefutablePattern" THEN <<"panic">> ELSE <<"proto", v.v>>
    [] v.k \in {"ref", "cont"} -> IF v.v \in Mine.slots THEN Held(CellOf(v.v)) ELSE env[v.v]
(* The arguments of a builtin behind the context; the last is where it goes on *)
ArgOf(j) ==
  LET a == at.e.args[j]
  IN IF a.a = "cont" THEN Operand(ContRef(a.x.id)) ELSE Operand(a.x)
Args == [j \in 1..(Len(at.e.args) - 1) |-> ArgOf(j + 1)]
Context == Operand(at.e.args[1].x)

Step(kind) == outcome = Running /\ call = NoCall /\ at.e.e = kind
StepOp(ops) == Step("App") /\ at.e.func.k = "op" /\ at.e.func.v \in ops

Fail == outcome' = Trapped /\ UNCHANGED <<images, at, env, call, heap, types, globals, registry>>
Apply(to, args, ctx) == call' = [to |-> to, args |-> args, ctx |-> ctx]
(* apply_3 with what was computed, or a trap on the way to it *)
Deliver(to, args, ctx) ==
  IF \E v \in Range(args) : v = Trap THEN Fail
  ELSE Apply(to, args, ctx) /\ UNCHANGED <<images, at, env, heap, types, globals, registry, outcome>>
(* lower_cont: go on with locals scope *)
Onward(cont, scope) ==
  IF cont.c = "expr"
  THEN /\ at' = [at EXCEPT !.e = cont.body]
       /\ env' = [id \in {x \in Range(cont.args) : Last(x) = "ctx"} |-> at.ctx] @@ scope
       /\ UNCHANGED call
  ELSE Apply(scope[cont.id], <<>>, at.ctx) /\ env' = scope /\ UNCHANGED at

-----------------------------------------------------------------------------
(* The instructions *)

(* A local; a slot that is not captured is copied as the cell it is *)
Let ==
  /\ Step("LetVal") /\ at.e.name \notin Mine.slots
  /\ Onward(at.e.cont, (at.e.name :> IF Literal(at.e.val) THEN Operand(at.e.val) ELSE CellOf(at.e.val.v)) @@ env)
  /\ UNCHANGED <<images, heap, types, globals, registry, outcome>>
(* A slot is written through its cell *)
Write ==
  /\ Step("Set") \/ (Step("LetVal") /\ at.e.name \in Mine.slots)
  /\ IF CellOf(at.e.name) = Null \/ Operand(at.e.val) = Trap THEN Fail
     ELSE /\ heap' = [heap EXCEPT ![CellOf(at.e.name)[2]] = Operand(at.e.val)]
          /\ Onward(at.e.cont, env)
          /\ UNCHANGED <<images, types, globals, registry, outcome>>
(* LetRec: fresh cells, put in the globals whatever they hold *)
Fresh ==
  /\ Step("LetRec")
  /\ heap' = heap \o [j \in DOMAIN at.e.slots |-> Null]
  /\ globals' = [globals EXCEPT ![at.url] =
       [id \in Range(at.e.slots) |->
          <<"cell", Len(heap) + CHOOSE j \in DOMAIN at.e.slots : at.e.slots[j] = id>>] @@ @]
  /\ at' = [at EXCEPT !.e = at.e.body]
  /\ UNCHANGED <<images, env, call, types, registry, outcome>>
MakeClosure ==
  LET Captured(c) == IF c.val.v \in Mine.slots THEN CellOf(c.val.v) ELSE env[c.val.v]
  IN /\ Step("Closure")
     /\ heap' = Append(heap, [j \in DOMAIN at.e.captures |-> Captured(at.e.captures[j])])
     /\ Onward(at.e.cont, (at.e.cont.args[1] :> <<"clo", Len(heap) + 1, at.url, at.e.func.v>>) @@ env)
     /\ UNCHANGED <<images, types, globals, registry, outcome>>
TakeCaptures ==
  /\ Step("LetCaps")
  /\ Onward(at.e.cont, [id \in {b.id : b \in Range(at.e.binds)} |->
       env[at.e.caps.v][CHOOSE j \in DOMAIN at.e.binds : at.e.binds[j].id = id]] @@ env)
  /\ UNCHANGED <<images, heap, types, globals, registry, outcome>>
Branch ==
  LET cond == Operand(at.e.cond)
  IN /\ Step("If")
     /\ IF ~Is("bool", cond) THEN Fail
        ELSE /\ at' = [at EXCEPT !.e = IF cond[2] THEN at.e.yes ELSE at.e.no]
             /\ UNCHANGED <<images, env, call, heap, types, globals, registry, outcome>>
(* mutant: a published name takes the place of those before it *)
PublishAlone ==
  LET id == at.e.args[2].x.v
  IN /\ StepOp({"Pub"})
     /\ registry' = (at.url :> (Sym(Mine.pubs[id]) :> Held(globals[at.url][id]))) @@ registry
     /\ Onward(at.e.args[3].x, env)
     /\ UNCHANGED <<images, heap, types, globals, outcome>>
(* Pub: the field of the module's record is what the name's global holds *)
Publish ==
  LET id == at.e.args[2].x.v
      before == IF at.url \in DOMAIN registry THEN registry[at.url] ELSE NoFields
  IN /\ StepOp({"Pub"})
     /\ registry' = (at.url :> ((Sym(Mine.pubs[id]) :> Held(globals[at.url][id])) @@ before)) @@ registry
     /\ Onward(at.e.args[3].x, env)
     /\ UNCHANGED <<images, heap, types, globals, outcome>>
(* The call of a function or of a continuation *)
Invoke ==
  LET callee == Operand(at.e.func)
      Items(j) == CASE at.e.args[j + 1].a # "spread" -> IF Args[j] = Null THEN <<Trap>> ELSE <<Args[j]>>
                    [] OTHER -> IF Is("seq", Args[j]) THEN Args[j][2] ELSE <<Trap>>
      items == FlattenSeq([j \in DOMAIN Args |-> Items(j)])
  IN /\ Step("App") /\ at.e.func.k # "op"
     /\ IF callee = Trap \/ \E v \in Range(items) : v = Trap THEN Fail
        ELSE /\ Apply(callee, items, Context)
             /\ UNCHANGED <<images, at, env, heap, types, globals, registry, outcome>>
(* The operators give their result to the continuation *)
Operate ==
  /\ StepOp(Operators)
  /\ Deliver(Last(Args), <<Applied(at.e.func.v, OnTypes(types, at.e.func.v, Front(Args)))>>, Context)
(* The primitives of destructuring choose between two continuations *)
Destructure ==
  LET n == Len(Args)
      found == CASE at.e.func.v = "SeqPop" -> SeqPop(Args[1]) [] at.e.func.v = "SeqPopBack" -> SeqPopBack(Args[1])
                 [] at.e.func.v = "RecPop" -> RecPop(Args[1], Args[2])
                 [] at.e.func.v = "StrMatch" -> StrMatch(Args[1], Args[2], Args[3])
  IN /\ StepOp({"SeqPop", "SeqPopBack", "RecPop", "StrMatch"})
     /\ Deliver(IF found = Fails THEN Args[n - 1] ELSE Args[n], found, Context)
(* guard_apply: a protocol is asked (a boolean is taken for one), a predicate is called *)
Guard ==
  LET n == Len(Args)
      asked == IF Is("proto", Args[1]) THEN Args[1][2] ELSE IF Args[1][2] THEN "TupleProtocol" ELSE "RecProtocol"
      found == OfProtocol(asked, Bare(types, Args[2]))
  IN /\ StepOp({"GuardApply"}) /\ ~Is("type", Args[1])
     /\ CASE Is("proto", Args[1]) \/ Is("bool", Args[1]) ->
               Deliver(IF found = Fails THEN Args[n] ELSE Args[n - 1], found, Context)
          [] Null \in {Args[1], Args[2]} -> Fail
          [] OTHER -> Deliver(Args[1], <<<<"guardk", Args[2], Args[n - 1], Args[n], Context>>, Args[2]>>, Context)
(* A type is asked whether the value belongs to it; what goes on is the value as the type
   sees it *)
GuardType ==
  LET n == Len(Args)
      t == Args[1][2]
      holds == Belongs(types, Args[2], t)
      got == IF Whole(types, t) THEN Seq_(<<Args[2]>>) ELSE Projected(types, Args[2], t, Len(heap) + 1)
  IN /\ StepOp({"GuardApply"}) /\ Is("type", Args[1])
     /\ IF holds /\ got = Trap THEN Fail
        ELSE /\ heap' = IF holds THEN Append(heap, Null) ELSE heap
             /\ Apply(Args[IF holds THEN n - 1 ELSE n], IF holds THEN <<got>> ELSE <<>>, Context)
             /\ UNCHANGED <<images, at, env, types, globals, registry, outcome>>
(* A step of the declaration of a type *)
Declare ==
  LET made == Declared(types, at.e.func.v, Front(Args))
  IN /\ StepOp(TypeOps)
     /\ IF made.v = Trap THEN Fail
        ELSE /\ types' = made.types
             /\ Apply(Last(Args), <<made.v>>, Context)
             /\ UNCHANGED <<images, at, env, heap, globals, registry, outcome>>
(* A module that was started before is not started again: what it has published so far
   is what the import gets *)
Import ==
  LET url == Canonical(at.url, at.e.args[2].x.v[2])
      k == Args[2]
  IN /\ StepOp({"import"}) /\ url \notin DOMAIN Natives
     /\ IF url \in DOMAIN registry
        THEN Deliver(k, <<Rec(registry[url])>>, Context)
        ELSE /\ registry' = (url :> NoFields) @@ registry
             /\ Apply(<<"clo", 0, url, <<>>>>, <<<<"importk", url, k>>>>, at.ctx)
             /\ UNCHANGED <<images, at, env, heap, types, globals, outcome>>
(* lower_import_virtual_stdlib: a record of the functions of the runtime *)
ImportNative ==
  LET url == at.e.args[2].x.v[2]
  IN /\ StepOp({"import"}) /\ url \in DOMAIN Natives
     /\ Deliver(Args[2], <<Rec([k \in {Sym(n) : n \in Mine.natives[url]} |-> <<"rt", k[2]>>])>>, Context)
Panic == StepOp({"IrrefutablePattern", "MatchExhausted"}) /\ Fail

-----------------------------------------------------------------------------
(* apply_3 *)

Called(kind) == outcome = Running /\ call # NoCall /\ Is(kind, call.to)

(* Parameters take the arguments in order, and may leave some; a spread takes what is
   left, and so does what follows it *)
Enter ==
  LET f == images[call.to[3]].fns[call.to[4]]
      own == SelectSeq(f.params, LAMBDA p : Last(p.id) \notin {"caps", "ctx"})
      Place(j) == 1 + Cardinality({i \in 1..(j - 1) : ~own[i].spread})
      Given(j) == IF own[j].spread THEN Seq_(SubSeq(call.args, Place(j), Len(call.args)))
                  ELSE IF Place(j) \in DOMAIN call.args THEN call.args[Place(j)] ELSE Trap
      ByName(id) == CASE Last(id) = "ctx" -> call.ctx
                      [] Last(id) = "caps" -> IF call.to[2] = 0 THEN <<>> ELSE heap[call.to[2]]
                      [] OTHER -> Given(CHOOSE j \in DOMAIN own : own[j].id = id)
  IN /\ Called("clo")
     /\ IF \E j \in DOMAIN own : Given(j) = Trap THEN Fail
        ELSE /\ at' = [url |-> call.to[3], fn |-> call.to[4], ctx |-> call.ctx, e |-> f.body]
             /\ env' = [id \in {p.id : p \in Range(f.params)} |-> ByName(id)]
             /\ call' = NoCall
             /\ UNCHANGED <<images, heap, types, globals, registry, outcome>>
(* type_apply: a type is called for an instance, a generic one for a type *)
Construct ==
  LET n == call.to[2]
      t == types[n]
      given == Tail(call.args)
      flavour == IF t.kind \in {"rec", "fn"} THEN t.kind ELSE "tuple"
      payload == CASE flavour = "tuple" -> Seq_(given)
                   [] flavour = "rec" -> IF given # <<>> /\ Is("rec", given[1]) THEN given[1] ELSE Trap
                   [] flavour = "fn" -> IF given # <<>> THEN given[1] ELSE Trap
  IN /\ Called("type")
     /\ CASE t.new # Null ->
               /\ Apply(t.new, <<<<"stampk", Head(call.args), n>>>> \o given, call.ctx)
               /\ UNCHANGED <<images, at, env, heap, types, globals, registry, outcome>>
          [] t.new = Null /\ payload = Trap -> Fail
          [] OTHER ->
               /\ heap' = Append(heap, Null)
               /\ Apply(Head(call.args), <<Instance(flavour, n, Len(heap) + 1, payload)>>, call.ctx)
               /\ UNCHANGED <<images, at, env, types, globals, registry, outcome>>
(* $_type_stamp_fn: the type that a generic one has made keeps it *)
Stamp ==
  /\ Called("stampk")
  /\ IF call.args # <<>> /\ Is("type", call.args[1])
     THEN /\ types' = [types EXCEPT ![call.args[1][2]].by = call.to[3]]
          /\ Apply(call.to[2], <<call.args[1]>>, call.ctx)
          /\ UNCHANGED <<images, at, env, heap, globals, registry, outcome>>
     ELSE Fail
(* The instance of a type of functions is called as the function it holds *)
Unwrap ==
  /\ Called("inst") /\ IsInstance(call.to, {"fn"}) /\ IsClosure(call.to[5])
  /\ Apply(call.to[5], call.args, call.ctx)
  /\ UNCHANGED <<images, at, env, heap, types, globals, registry, outcome>>
(* $_guard_branch_fn: what a predicate says of a value; the value goes on in a list *)
Decide ==
  /\ Called("guardk")
  /\ IF call.args # <<>> /\ Is("bool", call.args[1])
     THEN LET yes == call.args[1][2]
          IN Deliver(call.to[IF yes THEN 3 ELSE 4], IF yes THEN <<Seq_(<<call.to[2]>>)>> ELSE <<>>, call.to[5])
     ELSE Fail
Imported == Called("importk") /\ Deliver(call.to[3], <<Rec(registry[call.to[2]])>>, call.ctx)
(* set_ctx and get_ctx: what the context held goes on, under the new context or the same *)
SetContext ==
  /\ Called("rt") /\ call.to[2] = "set_ctx"
  /\ IF Len(call.args) < 2 THEN Fail
     ELSE Deliver(call.args[1], <<call.ctx[2]>>, ContextOf(call.args[2]))
GetContext ==
  /\ Called("rt") /\ call.to[2] = "get_ctx"
  /\ Deliver(call.args[1], <<call.ctx[2]>>, call.ctx)
(* suspend: the function it is given gets what resumes, and returns to nothing *)
Suspend ==
  /\ Called("rt") /\ call.to[2] = "suspend"
  /\ IF Len(call.args) < 2 THEN Fail
     ELSE /\ heap' = Append(heap, <<call.args[1]>>)
          /\ Apply(call.args[2], <<<<"noop">>, <<"resumek", Len(heap) + 1>>>>, call.ctx)
          /\ UNCHANGED <<images, at, env, types, globals, registry, outcome>>
(* $_suspend_resume_fn: who resumes is left, but not its context *)
Resume ==
  /\ Called("resumek")
  /\ IF Len(call.args) < 2 THEN Fail
     ELSE Deliver(heap[call.to[2]][1], <<call.args[2]>>, call.ctx)
(* $_noop_cont_fn: nothing is left to do, and nobody was told a result *)
Return ==
  /\ Called("noop")
  /\ outcome' = <<"idle">>
  /\ UNCHANGED <<images, at, env, call, heap, types, globals, registry>>
(* opaque: a value like no other *)
MakeOpaque ==
  /\ Called("rt") /\ call.to[2] = "opaque"
  /\ IF Len(call.args) < 2 THEN Fail
     ELSE /\ heap' = Append(heap, Null)
          /\ Apply(call.args[1], <<<<"opaque", Len(heap) + 1>>>>, call.ctx)
          /\ UNCHANGED <<images, at, env, types, globals, registry, outcome>>
(* The host gets the value of the entry module *)
Finish ==
  /\ Called("hostk")
  /\ outcome' = IF call.args = <<>> THEN Trapped ELSE <<"ok", call.args[1]>>
  /\ UNCHANGED <<images, at, env, call, heap, types, globals, registry>>
Uncallable ==
  /\ outcome = Running /\ call # NoCall
  /\ call.to[1] \notin Closures \cup {"guardk", "importk", "hostk", "noop", "type", "stampk"}
  /\ ~(IsInstance(call.to, {"fn"}) /\ IsClosure(call.to[5]))
  /\ Fail

(* The host wrapper and init_module *)
Start(url) ==
  /\ registry' = (url :> NoFields) @@ registry
  /\ Apply(<<"clo", 0, url, <<>>>>, <<<<"hostk">>>>, EmptyContext)
  /\ outcome' = Running
  /\ UNCHANGED <<at, env, heap, types>>

Run ==
  \/ Let \/ Write \/ Fresh \/ MakeClosure \/ TakeCaptures \/ Branch \/ Publish
  \/ Invoke \/ Operate \/ Destructure \/ Guard \/ GuardType \/ Declare \/ Import \/ ImportNative \/ Panic
  \/ Enter \/ Construct \/ Stamp \/ Unwrap \/ Decide \/ Imported
  \/ SetContext \/ GetContext \/ Suspend \/ Resume \/ Return \/ MakeOpaque \/ Finish \/ Uncallable
=============================================================================
