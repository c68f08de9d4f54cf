------------------------------- MODULE Values -------------------------------
(***************************************************************************)
(* The values of a running program, and the operators of the runtime that  *)
(* are applied to them: integers, booleans, strings, sequences, records,   *)
(* ranges of integers, closures, types, instances and opaque values, which *)
(* are only compared here.  A value is its kind and its content; an        *)
(* operator that the runtime has no case for ends in a trap.               *)
(***************************************************************************)
EXTENDS Integers, Sequences, SequencesExt, Functions

Int_(n) == <<"int", n>>
Bool(b) == <<"bool", b>>
Str(s) == <<"str", s>>
Sym(name) == <<"sym", name>>
Seq_(s) == <<"seq", s>>
Rec(f) == <<"rec", f>>
Null == <<"null">>
Trap == <<"trap">>
NoFields == [k \in {} |-> Null]
Is(kind, v) == v[1] = kind
(* What is a closure: of the program, of the runtime, or one that resumes a suspension *)
Closures == {"clo", "rt", "resumek"}
IsClosure(v) == v[1] \in Closures
Sequential(v) == Is("seq", v)

(* A literal *)
Digits == [n \in 0..9 |-> ToString(n)]
OfLiteral(kind, text) ==
  CASE kind = "LitInt" ->
         LET sign == IF SubSeq(text, 1, 1) = "-" THEN -1 ELSE 1
             digits == SelectSeq([j \in 1..Len(text) |-> SubSeq(text, j, j)], LAMBDA d : d \in Range(Digits))
         IN Int_(sign * FoldLeft(LAMBDA n, d : 10 * n + CHOOSE m \in 0..9 : Digits[m] = d, 0, digits))
    [] kind = "LitBool" -> Bool(text = "true")
    [] kind = "LitStr" -> Str(text)
    [] kind = "Seq" -> Seq_(<<>>)
    [] kind = "Rec" -> Rec(NoFields)
    [] kind = "Symbol" -> Sym(text)
    [] OTHER -> Trap

Arithmetic(op, m, n) ==
  CASE op = "+" -> Int_(m + n) [] op = "-" -> Int_(m - n) [] op = "*" -> Int_(m * n) [] OTHER -> Trap
Comparison(op, m, n) ==
  CASE op = "<" -> Bool(m < n) [] op = "<=" -> Bool(m <= n) [] op = ">" -> Bool(m > n) [] op = ">=" -> Bool(m >= n)
    [] OTHER -> Trap
Logical(op, p, q) ==
  CASE op = "and" -> Bool(p /\ q) [] op = "or" -> Bool(p \/ q) [] op = "xor" -> Bool(p # q) [] OTHER -> Trap
(* deep_eq, of what is inside lists and records: anything may be compared, but a string
   only with a string; instances and types are what they are.  Which field of two records
   is looked at first is not said: a difference is found before a trap *)
RECURSIVE Deep(_, _)
Deep(a, b) ==
  LET different == {j \in DOMAIN a[2] \cap DOMAIN b[2] : Deep(a[2][j], b[2][j]) # Bool(TRUE)}
      first == a[2][Min(different)]
      fields == {IF k \in DOMAIN b[2] THEN Deep(a[2][k], b[2][k]) ELSE Bool(FALSE) : k \in DOMAIN a[2]}
  IN CASE Is("str", a) -> IF Is("str", b) THEN Bool(a = b) ELSE Trap
       [] Is("seq", a) /\ Is("seq", b) ->
            IF different = {} THEN Bool(Len(a[2]) = Len(b[2])) ELSE Deep(first, b[2][Min(different)])
       [] Is("rec", a) /\ Is("rec", b) ->
            IF Cardinality(DOMAIN a[2]) # Cardinality(DOMAIN b[2]) \/ Bool(FALSE) \in fields THEN Bool(FALSE)
            ELSE IF Trap \in fields THEN Trap ELSE Bool(TRUE)
       [] OTHER -> Bool(a = b)
(* op_eq: numbers, strings, booleans and closures are compared with their own kind only,
   the others with everything; two instances are equal if their types and payloads are,
   those of functions never; an opaque value is itself alone *)
Equal(a, b) ==
  CASE a[1] \in {"int", "str", "bool"} -> IF Is(a[1], b) THEN Bool(a = b) ELSE Trap
    [] IsClosure(a) -> IF IsClosure(b) THEN Bool(a = b) ELSE Trap
    [] a[1] \in {"seq", "rec", "range"} -> IF Is(a[1], b) THEN Deep(a, b) ELSE Bool(FALSE)
    [] Is("inst", a) ->
         IF ~Is("inst", b) THEN Bool(FALSE)
         ELSE IF a[2] = "fn" \/ a[3] # b[3] THEN Bool(FALSE) ELSE Deep(a[5], b[5])
    [] a[1] \in {"type", "members", "opaque"} -> Bool(a = b)
    [] OTHER -> Trap
(* hash_i31 has no hash for lists, ranges and instances *)
Hashed(key) == key[1] \notin {"seq", "range", "inst"}
In(a, b) ==
  CASE Is("range", b) -> IF Is("int", a) THEN Bool(b[2] <= a[2] /\ (a[2] < b[3] \/ (b[4] /\ a[2] = b[3]))) ELSE Trap
    [] Is("rec", b) -> IF Hashed(a) THEN Bool(a \in DOMAIN b[2]) ELSE Trap
    [] OTHER -> Trap
Negated(v) == IF Is("bool", v) THEN Bool(~v[2]) ELSE Trap
(* a field of a record, an item of a list, counted from its end if the index is negative *)
Get(a, key) ==
  LET at == IF key[2] < 0 THEN Len(a[2]) + key[2] + 1 ELSE key[2] + 1
  IN CASE Is("rec", a) -> IF key \in DOMAIN a[2] THEN a[2][key] ELSE Trap
       [] Is("seq", a) -> IF Is("int", key) THEN IF at \in DOMAIN a[2] THEN a[2][at] ELSE Trap ELSE Trap
       [] OTHER -> Trap
(* str_fmt of the parts of a template *)
Shown(v) == CASE Is("str", v) -> v[2] [] Is("int", v) \/ Is("bool", v) -> ToString(v[2]) [] OTHER -> "?"
Formatted(vals) == Str(FoldLeft(LAMBDA s, v : s \o Shown(v), "", vals))

Unary(op, v) ==
  CASE op = "not" -> Negated(v)
    [] op = "Empty" -> CASE Is("seq", v) -> Bool(v[2] = <<>>) [] Is("rec", v) -> Bool(DOMAIN v[2] = {})
                         [] Is("null", v) -> Bool(TRUE) [] OTHER -> Trap
    [] OTHER -> Trap
Binary(op, a, b) ==
  CASE op \in {"+", "-", "*"} -> IF Is("int", a) /\ Is("int", b) THEN Arithmetic(op, a[2], b[2]) ELSE Trap
    [] op \in {"<", "<=", ">", ">="} -> IF Is("int", a) /\ Is("int", b) THEN Comparison(op, a[2], b[2]) ELSE Trap
    [] op \in {"and", "or", "xor"} -> IF Is("bool", a) /\ Is("bool", b) THEN Logical(op, a[2], b[2]) ELSE Trap
    [] op = "==" -> Equal(a, b)
    [] op = "!=" -> Negated(Equal(a, b))
    [] op = "in" -> In(a, b)
    [] op = "not in" -> Negated(In(a, b))
    [] op \in {"..", "..."} -> IF Is("int", a) /\ Is("int", b) THEN <<"range", a[2], b[2], op = "...">> ELSE Trap
    [] op = "Get" -> Get(a, b)
    [] op = "SeqPrepend" -> IF Is("seq", b) THEN Seq_(<<a>> \o b[2]) ELSE Trap
    [] op = "SeqConcat" -> IF Is("seq", a) /\ Is("seq", b) THEN Seq_(a[2] \o b[2]) ELSE Trap
    [] op = "RecMerge" -> IF Is("rec", a) /\ Is("rec", b) THEN Rec(b[2] @@ a[2]) ELSE Trap
    [] OTHER -> Trap
Applied(op, vals) ==
  CASE \E j \in DOMAIN vals : Is("trap", vals[j]) \/ (Is("null", vals[j]) /\ op # "Empty") -> Trap
    [] op = "StrFmt" -> Formatted(vals)
    [] op = "RecPut" -> IF Is("rec", vals[1]) /\ Hashed(vals[2]) THEN Rec((vals[2] :> vals[3]) @@ vals[1][2]) ELSE Trap
    [] OTHER -> IF Len(vals) = 1 THEN Unary(op, vals[1]) ELSE Binary(op, vals[1], vals[2])
(* How many values an operator takes; a template any number *)
Arity(op) == CASE op \in {"not", "Empty"} -> 1 [] op = "RecPut" -> 3 [] op = "StrFmt" -> 0 [] OTHER -> 2
Operators == {"+", "-", "*", "<", "<=", ">", ">=", "and", "or", "xor", "==", "!=", "in", "not in", "..", "...",
              "not", "Empty", "Get", "SeqPrepend", "SeqConcat", "RecMerge", "RecPut", "StrFmt"}

(* What a destructuring primitive finds in a value: the arguments of the continuation
   for success, nothing for the one for failure, or a trap *)
Fails == <<>>
SeqPop(v) ==
  IF ~Is("seq", v) THEN <<Trap>> ELSE IF v[2] = <<>> THEN Fails ELSE <<Head(v[2]), Seq_(Tail(v[2]))>>
SeqPopBack(v) ==
  IF ~Is("seq", v) THEN <<Trap>> ELSE IF v[2] = <<>> THEN Fails ELSE <<Seq_(Front(v[2])), Last(v[2])>>
RecPop(v, key) ==
  IF ~Is("rec", v) \/ ~Hashed(key) THEN <<Trap>> ELSE IF key \notin DOMAIN v[2] THEN Fails
  ELSE <<v[2][key], Rec(Restrict(v[2], DOMAIN v[2] \ {key}))>>
StrMatch(v, prefix, suffix) ==
  LET m == Len(prefix[2])
      n == Len(suffix[2])
  IN IF ~Is("str", v) THEN Fails ELSE IF Len(v[2]) < m + n THEN Fails
     ELSE IF SubSeq(v[2], 1, m) # prefix[2] \/ SubSeq(v[2], Len(v[2]) - n + 1, Len(v[2])) # suffix[2] THEN Fails
     ELSE <<Str(SubSeq(v[2], m + 1, Len(v[2]) - n))>>
(* a protocol: the value itself when it is of that kind *)
OfProtocol(name, v) ==
  IF (name = "TupleProtocol" /\ Is("seq", v)) \/ (name = "RecProtocol" /\ Is("rec", v)) THEN <<v>> ELSE Fails
=============================================================================
