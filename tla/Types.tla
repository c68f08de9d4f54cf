-------------------------------- MODULE Types -------------------------------
(***************************************************************************)
(* Types, their instances, and what the operators of the runtime see of    *)
(* them.  A type is a number in the table of types, where its name, kind,  *)
(* base and members are.  A declaration makes a type step by step; a step  *)
(* changes the type it is given, or makes another one with it as its base. *)
(*                                                                         *)
(* An instance is <<"inst", flavour, type, place, payload>>; the place is  *)
(* what tells it from another one with the same payload.                   *)
(***************************************************************************)
EXTENDS Values

Type(n) == <<"type", n>>
Instance(flavour, n, place, payload) == <<"inst", flavour, n, place, payload>>
IsInstance(v, flavours) == Is("inst", v) /\ v[2] \in flavours
(* kind is "unit", "rec", "tuple", "fn", "union" or "enum"; by is the generic type that
   made it, new what makes the types of a generic one *)
TypeNode(kind, name, base, members) ==
  [kind |-> kind, name |-> name, base |-> base, by |-> 0, new |-> Null, members |-> members]

-----------------------------------------------------------------------------
(* Declarations: what a step does to the table ts, and the type that the next step gets *)
TypeOps == {"NewType", "NewUnion", "NewEnum", "NewFnType", "TypeSetField", "TypePush", "TypeInherit",
            "TypeSetNew", "UnionAdd", "EnumAdd", "FnTypeParam", "FnTypeResult"}
Registered(ts, node) == [types |-> Append(ts, node), v |-> Type(Len(ts) + 1)]
(* type_inherit: the name of the new type is that of the one it takes the place of *)
Derived(ts, name, base) ==
  LET b == ts[base]
  IN Registered(ts, IF b.kind \in {"rec", "tuple"} THEN TypeNode(b.kind, name, base, b.members)
                    ELSE TypeNode("unit", name, base, <<>>))
Declared(ts, op, vals) ==
  LET n == vals[1][2]
      t == ts[n]
      v == vals[2]
      Stays(changed) == [types |-> [ts EXCEPT ![n] = changed], v |-> vals[1]]
      None == [types |-> ts, v |-> Trap]
  IN CASE \E j \in DOMAIN vals : vals[j] \in {Null, Trap} -> None
       [] op = "NewType" -> Registered(ts, TypeNode("unit", vals[1], 0, <<>>))
       [] op = "NewFnType" -> Registered(ts, TypeNode("fn", vals[1], 0, <<>>))
       [] op = "NewUnion" -> Registered(ts, TypeNode("union", vals[1], 0, {}))
       [] op = "NewEnum" -> Registered(ts, TypeNode("enum", vals[1], 0, NoFields))
       [] op = "TypeSetField" ->
            IF t.kind = "rec" THEN Stays([t EXCEPT !.members = (v :> vals[3]) @@ @])
            ELSE Registered(ts, TypeNode("rec", t.name, n, v :> vals[3]))
       [] op = "TypePush" ->
            IF t.kind = "tuple" THEN Stays([t EXCEPT !.members = Append(@, v)])
            ELSE Registered(ts, TypeNode("tuple", t.name, n, <<v>>))
       [] op = "TypeInherit" -> IF Is("type", v) THEN Derived(ts, t.name, v[2]) ELSE None
       [] op = "TypeSetNew" -> Stays([t EXCEPT !.new = v])
       [] op = "UnionAdd" -> IF ~Hashed(v) THEN None ELSE Stays([t EXCEPT !.members = @ \cup {v}])
       [] op = "EnumAdd" ->
            IF ~Is("type", vals[3]) THEN None
            ELSE [types |-> [ts EXCEPT ![vals[3][2]].base = n, ![n].members = (v :> vals[3]) @@ @], v |-> vals[1]]
       [] op = "FnTypeParam" -> Stays([t EXCEPT !.members = Append(@, v)])
       [] op = "FnTypeResult" -> IF Is("type", v) THEN Stays([t EXCEPT !.members = Append(@, v)]) ELSE None

-----------------------------------------------------------------------------
(* Membership: an instance is one of its type, of the bases of that, and of the generic
   types that made any of them *)
Chain(ts, n) ==
  LET upward[m \in 0..Len(ts)] == IF m = 0 THEN {} ELSE {m} \cup upward[ts[m].base]
  IN upward[n]
IsA(ts, v, n) == Is("inst", v) /\ \E m \in Chain(ts, v[3]) : n \in {m, ts[m].by}
IsMember(ts, v, n) == Is("inst", v) /\ \E m \in Chain(ts, v[3]) : Type(m) \in ts[n].members
Belongs(ts, v, n) == IF ts[n].kind = "union" THEN IsMember(ts, v, n) ELSE IsA(ts, v, n)
(* A type that has nothing to take apart gives its instance in a list *)
Whole(ts, n) == ts[n].kind \in {"union", "enum", "fn"}
(* project_inst: a type with fields makes an instance of its own, with the fields it has *)
Projected(ts, v, n, place) ==
  IF ts[n].kind # "rec" THEN v
  ELSE IF ~Is("rec", v[5]) THEN Trap
  ELSE Instance("rec", n, place, Rec(Restrict(v[5][2], DOMAIN ts[n].members \cap DOMAIN v[5][2])))

(* What reads see: the payload of an instance, the cases of an enum; what comparisons
   see: the members of a union *)
Bare(ts, v) ==
  CASE IsInstance(v, {"rec", "tuple"}) -> v[5]
    [] Is("type", v) -> IF ts[v[2]].kind = "enum" THEN Rec(ts[v[2]].members) ELSE v
    [] OTHER -> v
Compared(ts, v) ==
  IF Is("type", v) THEN IF ts[v[2]].kind = "union" THEN <<"members", ts[v[2]].members>> ELSE v ELSE v
OnTypes(ts, op, vals) ==
  CASE op = "Get" -> <<Bare(ts, vals[1]), vals[2]>>
    [] op \in {"==", "!="} -> <<Compared(ts, vals[1]), Compared(ts, vals[2])>>
    [] OTHER -> vals
=============================================================================
