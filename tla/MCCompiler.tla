----------------------------- MODULE MCCompiler -----------------------------
(* Programs for the compiler and the machine: every pattern against every value, in a
   match and in a binding, operators on operands of each kind, and programs that name,
   call, capture, recurse and import *)
EXTENDS Compiler

Chars(t) == [k \in 1..Len(t) |-> SubSeq(t, k, k)]
NoText == {<<>>}
Seps_ == {Chars(t) : t \in {"+", "-", "*", "==", "!=", "<", ">", ".", "|", "|=", "=", "..", "..."}}

(* A pattern, and what is made of the names it binds *)
Patterns == {
  <<"1", "0">>, <<"[]", "0">>, <<"[a, ..b]", "[a, b]">>, <<"[..b, a]", "[a, b]">>,
  <<"[a, [b]]", "[a, b]">>, <<"[a, ...]", "a">>, <<"[..]", "1">>, <<"{a}", "a">>,
  <<"{a: b, ..c}", "[b, c]">>, <<"{}", "0">>, <<"a > 0", "a">>, <<"0..2", "0">>,
  <<"'a${b}'", "b">>, <<"[[a, ...] |= b]", "[a, b]">>, <<"true", "0">>}
Vals == {"1", "'ab'", "true", "[1]", "[1, [2]]", "[]", "{}", "{a: 1}", "{a: [2], b: 1}", "[[1]]", "fn: 1"}
Matches_ == {"match " \o v \o ":\n " \o p[1] \o ": " \o p[2] \o "\n _: 'no'" : p \in Patterns, v \in Vals}
Bindings == {p[1] \o " = " \o v \o "\n" \o p[2] : p \in {p \in Patterns : p[2] # "0"}, v \in {"[1, [2]]", "[]", "{a: 1}", "1"}}
Calls_ == {"f = fn " \o p[1] \o ": " \o p[2] \o "\nf " \o v : p \in {p \in Patterns : p[2] # "0"}, v \in {"[1, [2]]", "{a: 1}"}}
Operations == {x \o " " \o o \o " " \o y : o \in {"+", "<", "==", "in", "and"}, x, y \in {"1", "true", "'a'", "[2]", "{a: 1}"}}

(* One module *)
Programs == {
  \* names: before they are bound, bound again inside, public ones, and in what they are bound to
  "m = fn: h _\nh = fn: 2\nm _", "f = fn x: x + y\ny = 2\nz = f 1\nz", "f = fn x: x + y\ny = 2\nf 1",
  "x = 1\nf = fn x:\n x = x + 1\n x\n[f 1, x]", "x = 1\nf = fn:\n g = fn: x\n x = 2\n [g _; x]\nf _",
  "a = 1\nb = a\nf = fn: [a, b]\nf _", "f = fn a:\n b = a\nf 1\n", "f = g 1", "a = (\n b = 1\n b + 1\n)\na",
  "1 |= a\na", "[1, 2] |= [a |= b, c]\n[a, b, c]", "[1, 2] |= [a, b]\na + b",
  \* functions: captures, recursion through several functions, and calls that are not the last
  "f = fn x:\n g = fn y: x + y\n g\nh = f 1\nh 2", "f = fn x:\n g = fn: f\n g\nh = f 1\nh _",
  "f = fn x:\n [a, b] = x\n g = fn: [a, b]\n g _\nf [1, 2]",
  "f = fn n:\n match n:\n  0: [0]\n  _: [n, ..f n - 1]\nf 2",
  "f = fn n:\n g = match n:\n  0: fn: 0\n  _: f n - 1\n a = n\n fn: [a, g _]\nh = f 1\nh _",
  "f = fn x, g:\n match x:\n  0: g _\n  _:\n   [y] = [x]\n   f x - 1, fn: [y; g _]\nf 2, fn: 0",
  "f = fn x:\n match x:\n  [a, ..b]:\n   c = f b\n   [..c, a]\n  []: []\nf [1, 2, 0]",
  "f = fn x, g:\n match x:\n  0: g _\n  _: f x - 1, fn: [x; g _]\nf 2, fn: 0",
  \* calls: too many arguments, too few, the rest, what is no function, pipes and holes
  "f = fn a, b: a\nf 1", "f = fn a: a\nf 1, 2", "f = fn a, ..b: b\nf 1, 2, 0", "f = fn ..xs: xs\nf 1, 2, ..[0, 1]",
  "f = 1\nf 2", "f = fn a: a\nx = 1\nf ..x", "[1, 2] | fn [a, b]: [b, a]", "a = [?, 1]\na 2", "a = ? | ? + 1\na 2", "[1, 2] | [0, ..?]",
  "(fn: 1)", "fn: 1\n2", "2 | f 1",
  \* matching: several values, predicates, protocols, no arm, and arms in a row
  "match 1, 2:\n 1, x: x\n _, _: 0", "match 1:\n 0: 1", "match 1:\n x > 1: 0\n x: [x]", "a = match 1:\n 1: \n  b = 2\n  b\n[a]",
  "p = fn x: x == 1\n[p y; x] = [1, 2]\n[y, x]", "x = fn a: a > 1\nmatch 2:\n x b: b\n _: 0", "p = fn x: x\nmatch 2:\n p b: b",
  "p = 1\nmatch 2:\n p b: b", "f = fn n:\n match n:\n  0: 1\n  [a, b]: a\n  {c: 1}: 2\n  _: f n - 1\n[f 2, f {c: 1}, f [2, 1]]",
  "match 1:\n x: x\nx", "match 1, [2]:\n a, [b]: [a, b]", "match [[1, 2]]:\n [[b, c] |= a]: [a, b]\n _: 0",
  \* values
  "a = {b: {c: 2}}\na.b.c", "a = {b: 1}\na.'b'", "a = {b: [1, 2]}\na.b.1", "a = [1, 2]\na.(0 - 1)", "1 < 2 < 1", "1 == 1 and 2 < 1 or not true",
  "a = 1..2\n[1 in a, 2 in a, not (1 in a), 0 not in a]", "x = {a: 1}\ny = {..x, b: 2}\n[y.a, y.b]", "'a${1}b'", "not 1", "-1", "a ="}

(* Types: declared, called for instances, put in front of patterns, compared, and taken
   for what they are not *)
Typed == {
  \* what tells types from each other, and instances
  "foo = type _\nbar = foo\nfoo == bar", "foo = type _\nbar = type _\n[foo == bar, foo != bar]",
  "a = type _\nb = type _\nc = union:\n a\n b\nd = union: b, a\n[c == d, c == a, a == c, c != c]",
  "foo = type:\n a: _\n b: _\nx = foo {a: 1, b: 2}\n[x == foo {a: 1, b: 2}; x == {a: 1}; {a: 1} == x; x.b; x]",
  "foo = type: _, _\nx = foo 1, 2\ny = foo 1, 2\nfoo a, b = x\n[a, b, x == y, x.(1)]",
  "b = type:\n c: _\nd = type:\n ..b\n e: _\nx = d {c: 1, e: 2}\nb ..y = x\n[y, y == b {c: 1}]",
  "o = enum:\n some {a: _}\n none\nx = o.some {a: 1}\n{some, none} = o\nsome ..y = x\no c = x\n[y.a, c == x, y == x]",
  "foo = type t:\n a: t\nbit = type _\nf_b = foo bit\nx = f_b {a: 1}\nfoo ..y = x\n[y, y == x, f_b == foo bit]",
  "bit = type _\nfoo = type: fn bit, bit: bit\nadd = foo fn a, b: [a, b]\n[add 1, 2]",
  "foo = type: _\nx = foo 1\n[x] == [x]", "foo = type: _\n1 == foo 1",
  "foo = type:\n a: _\n(foo {a: 1}) == (foo {a: 1})",
  "foo = enum:\n a\n b\n{a, b} = foo\n[a == foo.a, a == b, foo == foo]", "foo = type: _\nfoo 1 < foo 2",
  "foo = type: _\n1 in foo 1", "foo = type: _\nfoo < foo", "foo = type: _\nnot foo", "foo = type: _\nfoo == 1",
  "foo = type: _\n1 == foo", "foo = type: _\n[foo] == [foo]", "foo = type: _\n{a: foo} == {a: foo}",
  \* functions as instances, generic types, cases and unions
  "b = type _\nd = type:\n ..b\nu = union: b\nf = fn x:\n match x:\n  u y: y\n  _: 0\n[f d 1; f b 1; f 2]",
  "o = enum:\n some {a: _}\n none\nf = fn x:\n match x:\n  o.some {a}: a\n  o _: 0\n  _: 2\n[f o.some {a: 1}; f o.none 1; f 1]",
  "foo = type t:\n a: t\nbit = type _\nd = type:\n ..foo bit\n b: _\nfoo ..y = d {a: 1, b: 2}\ny",
  "foo = type t:\n a: t\nbit = type _\nf = fn x:\n match x:\n  foo _: 1\n  _: 0\nd = foo bit\n[f d {a: 1}; f 1]",
  "bit = type _\nfoo = type: fn bit: _\nadd = foo fn a: a\nf = fn g:\n match g:\n  foo h: h 2\n  _: 0\n[f add; f fn a: a]",
  "foo = type: fn _: 1", "o = enum: a\no.b", "o = enum:\n a _\nx = o.a 1\n[b] = x\nb",
  "foo = type: fn _: _\nx = foo 1\nx 2", "foo = type: fn _: _\nx = foo 1\nfoo _ = x\n2",
  "foo = type: fn _: _\nx = foo fn a: a\nfoo h = x\nh 2", "foo = type: fn _: _\nx = foo fn a: a\nfoo [h] = x\nh 2",
  "foo = type t, u:\n a: t\n b: u\nfoo 1", "foo = type t: t\nbar = foo 1\nbar 2",
  "foo = type [t, u]:\n a: t\nx = foo [1, 2]\n1", "foo = enum:\n a\n b\nmatch foo.b 1:\n foo.a c: 0\n foo.b c: c",
  "foo = enum:\n a\n b {c: _}\nu = union: foo\nmatch foo.b {c: 1}:\n u x: x\n _: 0", "foo = enum: a, b\nfoo",
  "foo = enum:\n a\nbar = type:\n ..foo\n b: _\nbar.a", "foo = enum:\n a\nfoo 1", "foo = union: 1\nfoo 1",
  "foo = type _\nbar = union: foo\nbar 1",
  \* bases, and what a type in front of a pattern sees of an instance
  "b = type:\n c: _\nd = type:\n ..b\n e: _\nf = fn x:\n match x:\n  d _: 1\n  b _: 2\n  _: 0\n[f d {c: 1, e: 2}; f b {c: 1}; f {c: 1}; f 1]",
  "foo = 1\nbar = type:\n ..foo\n a: _", "foo = type: _, _\nmatch foo 1, 2:\n foo ..: 1",
  "foo = type: _, _\nmatch foo 1, 2:\n foo a, ..b: [a, b]", "foo = type:\n a: _\nmatch foo {a: 1}:\n foo ..: 1\n _: 0",
  "foo = type:\n a: _\nmatch foo {a: 1}:\n foo b: 1\n _: 0", "foo = type: _\n{a: 1, ..foo 1}",
  "foo = type:\n a: _\n{..b} = foo {a: 1}\nb",
  "p = fn x: true\nmatch [1, 2]:\n p [a, b]: [a, b]\n _: 0",
  "foo = type: _\nmatch foo 1:\n foo 0: 2\n foo 1: 1\n _: 0",
  "foo = type: _\nmatch foo [1, 2]:\n foo [a, b]: [a, b]\n _: 0",
  "foo = type: _\nmatch 1, foo 2:\n a, foo b: [a, b]\n _, _: 0",
  "foo = type:\n a: _\n b: _\nbar = type:\n ..foo\n c: _\nmatch bar {a: 1, b: 2, c: 0}:\n foo {a, b, ..c}: c",
  "foo = type _\nbar = type:\n ..foo\n a: _\nc = type:\n ..bar\n b: _\nmatch c {a: 1, b: 2}:\n foo x: x\n _: 0",
  "foo = type _\nbar = type:\n ..foo\n a: _\nmatch bar {a: 1}:\n foo _: 1\n _: 0",
  "f = fn foo, x:\n match x:\n  foo a: a\n  _: 0\nfoo = type: _\n[f foo, foo 1; f foo, 2]",
  \* calls, fields and positions, names that are bound late
  "foo = type _\nbar = type:\n c: _\nbar {c} = bar {c: foo}\nc", "foo = type:\n a: _\nfoo 1",
  "foo = type:\n a: _\nfoo {a: 1, b: 2}", "foo = type:\n a: _\nfoo {}",
  "foo = type _\nfoo 1, 2", "foo = type _\n(foo 1).(0)", "foo = type: _\nfoo.a",
  "f = fn x:\n t = type: x\n t 1\n[f type _; f type _]", "x = 1\nfoo = type:\n a: x\n[foo {a: 1}]",
  "f = fn x: x\nfoo = type: _\nfoo f", "foo = type: _, _\nfoo [a, b] = foo 1, 2\n[a, b]",
  "foo = type:\n a: _\nfoo {a: b} = foo {a: 2}\nb", "foo = type:\n a: _\nfoo {} = foo {a: 2}\n1",
  "foo = type:\n a: _\nfoo {a} = foo {}\na", "foo = type:\n a: _\n{a} = foo {a: 1}\na",
  "foo = type: _\nbar = type: _\nfoo a = bar 1\na", "foo = fn a:\n type: a\nbar = foo 1\nbar 2",
  "f = fn:\n foo = type: _\n x = foo 1\n fn:\n  foo a = x\n  a\ng = f _\ng _",
  "foo = type: _\nfoo 1 | fn x:\n foo a = x\n a", "foo = type: _\n1 | foo",
  "foo = type: _\n[a, foo b] = [1, foo 2]\n[a, b]", "foo = type: _\n'${foo 1}'",
  "b = type:\n c: _\nd = type:\n ..b\n e: _\nd {c, e} = d {c: 1, e: 2}\n[c, e]",
  "b = type:\n c: _\nd = type:\n ..b\n e: _\nd", "b = type: _, _\nd = type:\n ..b\n _\nd"}

(* Names that are out of scope where they are used, or that nothing binds *)
Unbound == {
  "fn x: y", "f = fn n:\n b = n\n b\nb", "a = (\n b = 1\n b\n)\nb", "match 1:\n [a]: b\n _: 0", "match 1:\n x: 0\n _: x",
  "match 1:\n a > b: a\n _: 0", "{a: b} = {a: 1}\na", "{(k): b} = {a: 1}\nb", "x = {a: 1}\n[x.a, x.(a)]", "{a: 1, b: a}", "{a}", "[1, ..b]", "'a${b}'",
  "foo = type t:\n a: t\nt", "foo = type:\n a: b\n1", "foo = enum:\n a {c: b}\n1", "foo = enum:\n a\na", "foo = union: b\n1",
  "f = fn a, b > a: c\n1", "f = fn ..xs: ys\n1", "f = fn x:\n [a] = [a]\n a\nf 1", "foo x = 1\nx", "1 |= [a |= b]\nc", "f = fn: f g\n1"}

(* What a module of the runtime gives, in front of a program that uses it *)
Runtime_ == "{suspend, get_ctx, set_ctx} = import 'rt/apply.wat'\n"
Opaques_ == "{opaque} = import 'rt/opaque.wat'\n"

(* Several modules: one imported twice, one that is not there, two that import each other,
   a name that is not published, imports where they are looked for and where they are not *)
Linked == {
  "./m" :> "{a} = import './n'\na" @@ "./n" :> "a = 1",
  "./m" :> "{a} = import './n'\na 1" @@ "./n" :> "a = fn x: [x, b]\nb = 2",
  "./m" :> "{b} = import './n'\na = 1\nb _" @@ "./n" :> "{a} = import './m'\nb = fn: a",
  "./m" :> "a = 1\n{b} = import './n'\nb _" @@ "./n" :> "{a} = import './m'\nb = fn: a",
  "./m" :> "{b} = import './n'\n{c} = import './o'\n[b, c]" @@ "./n" :> "{c} = import './o'\nb = c" @@ "./o" :> "c = fn x: x",
  "./m" :> "{b} = import './n'\n{c} = import './o'\n[b 1, c]" @@ "./n" :> "b = fn x: [x]" @@ "./o" :> "{b} = import './n'\nc = b 2",
  "./m" :> "{b} = import './n'\nb", "./m" :> "{b} = import './n'\nb" @@ "./n" :> "{c} = import './o'\nb = 1",
  "./m" :> "{b} = import './n'\nb" @@ "./n" :> "a = 1",
  "./m" :> "{f} = import './n'\na = 1\nf a" @@ "./n" :> "f = fn x: x + a\na = 2",
  "./m" :> "{foo, x} = import './n'\nbar = type: _\nmatch x:\n bar a: 0\n foo a: a" @@ "./n" :> "foo = type: _\nx = foo 1",
  "./m" :> "{foo} = import './n'\nbar = type:\n ..foo\n b: _\nfoo ..x = bar {a: 1, b: 2}\nx" @@ "./n" :> "foo = type:\n a: _",
  "./m" :> "{f} = import './n'\nfoo = type: _\nf foo 1" @@ "./n" :> "{foo} = import './m'\nf = fn x:\n foo a = x\n a",
  "./m" :> Runtime_ \o "set_ctx 1\n{a} = import './n'\n[a; get_ctx _]" @@ "./n" :> Runtime_ \o "a = get_ctx _\nset_ctx 2",
  "./m" :> Runtime_ \o "{a} = import './n'\nset_ctx 1\n{b} = import './n'\n[a, b; get_ctx _]" @@ "./n" :> Runtime_ \o "a = set_ctx 2\nb = 1",
  "./m" :> "{none} = import 'rt/apply.wat'\n1", "./m" :> "f = fn: import './n'\n1",
  "./m" :> "{a} = import './n'\nb = import './n'\n[a, b.a]" @@ "./n" :> "a = 1",
  "./m" :> "f = fn:\n {a} = import './n'\n a\nimport './n'\nf _" @@ "./n" :> "a = 1",
  "./m" :> "a = 1\n{b} = import './n'" @@ "./n" :> Runtime_ \o "b = 1\nsuspend fn a: 0\nc = 2"} \cup {
  "./m" :> s @@ "./n" :> "a = 1" : s \in {"b = import './n'", "f = fn:\n {a} = import './n'\n a\nf _", "(import './n').a"}}

(* The context: what a call, an operator, a match or an import leaves of it *)
Contexts == {Runtime_ \o s : s \in {
  "get_ctx _", "set_ctx _", "set_ctx 1\nget_ctx _", "[set_ctx 1; set_ctx 2; get_ctx _]", "{a: (set_ctx 1), b: (get_ctx _)}",
  "set_ctx [1, 2]\nx = 1 + 2 * 3\ny = 1 in 0..2\nz = {a: 1}.a\na = {..{a: 1}, b: 2}\nb = [1, 2].(1)\nget_ctx _",
  "set_ctx 1\nx = '${get_ctx _}'\ny = 1 < 2 < 3 and not false\n[x; y; get_ctx _]",
  "set_ctx 1\nmatch 2:\n 0: 1\n x: get_ctx _", "match 1:\n x:\n  set_ctx x\n  0\nget_ctx _",
  "set_ctx 1\nmatch [1, {a: 2}]:\n [a]: 0\n [a, {b}]: 1\n [a, ..b]: [a, b; get_ctx _]", "set_ctx 0\nmatch 1:\n x < set_ctx 2: 0\n _: get_ctx _",
  "p = fn x:\n set_ctx x\n x == 2\nf = fn x:\n match x:\n  p x: [get_ctx _]\n  _: get_ctx _\nset_ctx 0\n[f 1; f 2]",
  "f = fn x:\n set_ctx x\n fn: get_ctx _\ng = f 1\nset_ctx 2\ng _", "f = fn: get_ctx _\nset_ctx 1\nx = f _\nset_ctx 2\n[x; f _]",
  "f = fn n:\n match n:\n  0: get_ctx _\n  _:\n   set_ctx n\n   f n - 1\nf 2", "f = fn g, x:\n a = g x\n b = g a\n [a, b]\nx = f set_ctx, 2\n[x; get_ctx _]",
  "f = fn n:\n match n:\n  0: 0\n  _:\n   set_ctx [n, get_ctx _]\n   x = f n - 1\n   [x; get_ctx _]\nf 2",
  "f = fn:\n n = get_ctx _\n set_ctx n + 1\n n\nset_ctx 0\n[f _; f _; {a: (f _), b: [f _]}; f _]", "set_ctx 1\nset_ctx 2 | fn x: [x; get_ctx _]",
  "foo = type: _\nset_ctx 1\nx = foo 2\nfoo y = x\n[y; get_ctx _]", "foo = type: fn _: _\nx = foo set_ctx\nx 1\nx 2",
  "foo = type a:\n b: a\nset_ctx 1\nbar = foo foo\nx = bar {b: 1}\nfoo {b} = x\n[b; get_ctx _]",
  "set_ctx == set_ctx", "[set_ctx == get_ctx, set_ctx != fn: 1]", "set_ctx == 1", "set_ctx get_ctx\nf = get_ctx _\nf _"}}
(* Suspensions: resumed at once, from further down, from inside another one, or never *)
Suspensions == {Runtime_ \o s : s \in {
  "suspend fn a: a 1", "x = suspend fn a:\n y = a 1\n 2\n[x]", "a = 1\nx = suspend fn a: 0\nb = 2", "suspend fn: 1", "suspend 1", "suspend _",
  "suspend fn a: a _", "[1; suspend fn a: a 2; 0]", "x = suspend fn a:\n set_ctx 1\n a 2\n[x; get_ctx _]",
  "f = fn x:\n y = suspend fn a:\n  set_ctx [x, get_ctx _]\n  a x + 1\n [x, y]\nx = f 1\ny = f 2\n[x, y; get_ctx _]",
  "suspend fn a:\n suspend fn b:\n  a 1\n 2", "x = suspend fn a:\n y = suspend fn b: b 1\n a [y]\nx", "suspend fn a:\n x = suspend fn b: 1\n a 2",
  "f = fn g, n:\n match n:\n  0: g 1\n  _: [f g, n - 1]\nx = suspend fn g: f g, 2\n[x]", "x = suspend fn a:\n match 1:\n  a x: 0\n  _: 1\nx",
  "p = fn x:\n suspend fn a:\n  set_ctx x\n  a x == 1\nmatch 1:\n p x: get_ctx _", "suspend fn a:\n set_ctx a\n b = get_ctx _\n b 2",
  "x = suspend fn a:\n foo = type: fn _: _\n b = foo a\n b 1\n[x]", "f = fn a: a [1, 2]\n[b, c] = suspend f\n[c, b]", "suspend fn a: a a == a",
  "f = fn n:\n match n:\n  0: []\n  _:\n   x = suspend fn a: a n\n   [x, ..f n - 1]\nf 2", "suspend suspend"}}
Identities == {Opaques_ \o s : s \in {
  "a = opaque 1\nb = opaque 1\n[a == b, a == a, a == 1, a != b, a]", "1 == opaque 1", "opaque _", "a = opaque 1\n[[a] == [a], {b: a} == {b: opaque 1}]",
  "f = fn a, b:\n c = {(a): 1, (b): 2}\n {(b): x, (a): y} = c\n [x, y, a in c, 1 in c]\nf (opaque 1), (opaque 1)", "(opaque 1) + 1", "match opaque 1:\n [a]: 0\n _: 1",
  "f = fn: 1\ng = fn: 1\nh = fn a:\n {(g): x} = a\n [x, f in a; (fn: 1) in a]\nh {(f): 1, (g): 2}", "match {(opaque 1): 1}:\n {a}: 0\n _: 1"}}
(* std/effects.fnk, up to its slots of the context and its identities *)
Effects == "{suspend: _suspend, get_ctx, set_ctx} = import 'rt/apply.wat'\n{opaque} = import 'rt/opaque.wat'\n"
  \o "suspend = _suspend\nset_ctx {}\n"
  \o "set_ctx_for = fn ctx_id, value:\n ctx = get_ctx _\n set_ctx {..ctx, (ctx_id): value}\n value\n"
  \o "get_ctx_for = fn ctx_id:\n {(ctx_id): ctx} = get_ctx _\n ctx\n"
  \o "upd_ctx_for = fn ctx_id, update:\n ctx = get_ctx_for ctx_id\n upd_rslt = update ctx\n match upd_rslt:\n"
  \o "  [result, updates]:\n   set_ctx_for ctx_id, {..ctx, ..updates}\n   result\n  updates:\n   set_ctx_for ctx_id, {..ctx, ..updates}\n"
  \o "init_ctx = fn ctx_id, initial:\n set_ctx_for ctx_id, initial\n upd_ctx_for ctx_id, ?\n"
  \o "unique = fn:\n {id} = upd_ctx_unique fn {id}:\n  {id: id + 1}\n opaque id\nupd_ctx_unique = init_ctx unique, {id: 0}\n"

Slots == {"./m" :> "{suspend, init_ctx, get_ctx_for, set_ctx_for, unique} = import './e'\nc = unique _\n" \o s @@ "./e" :> Effects : s \in {
  "upd = init_ctx c, {a: 1, b: 2}\n{a, b} = upd fn {b: old, a}:\n b = old * 2\n [{a, b}, {b}]\nd = unique _\nset_ctx_for d, a\n[b, c == d, get_ctx_for c; get_ctx_for d]",
  "upd = init_ctx c, {a: 0}\nx = suspend fn b:\n upd fn {a}: {a: a + 1}\n b 'a'\n{a} = get_ctx_for c\n[a, x]",
  "upd = init_ctx c, {n: 0}\nf = fn:\n {n} = upd fn {n}: {n: n + 1}\n n\n[f _; f _; {a: (f _); b: (f _)}]"}}
(* A module's source, or several: a character each *)
Texts(sources) == {[u \in DOMAIN t |-> Chars(t[u])] : t \in sources}
OneModule(sources) == {"./m" :> s : s \in sources}

(* What the documentation says of these is not what they do, and no run has them: the README
   says how they differ.  Membership; equality of what is inside lists, and of functions as
   instances; arms for values of another kind; names of a body that are used above the place
   that binds them; instances that are spread *)
Members_ == {"1 in [2]", "[2] in [2]", "{a: 1} in [2]", "[2] in {a: 1}", "'a' in {a: 1}"}
Equals_ == {
  "foo = type: _\n[foo 1] == [foo 1]", "foo = type:\n a: _\n{b: foo {a: 1}} == {b: foo {a: 1}}",
  "bit = type _\nfoo = type: fn bit, bit: bit\nadd = foo fn a, b: [a, b]\nadd == add"}
Alien(p) == IF p = "0..2" THEN Vals \ {"1"} ELSE {"1", "true", "'ab'", "fn: 1"} \ {p}
Arms_ == UNION {{"match " \o v \o ":\n " \o p \o ": 0\n _: 'no'" : v \in Alien(p)} : p \in {"1", "true", "0..2"}}
Early_ == {
  "f = fn:\n a = fn: b _\n b = fn: 2\n a _\nf _",
  "f = fn n:\n a = fn k: b k\n b = fn k: match k:\n  0: n\n  _: a k - 1\n a 2\nf 1"}
Spreads_ == {"foo = type:\n a: _\n{..foo {a: 1}}", "foo = type: _\n[..foo 1]"}
(* Names of a module that are used above the place that binds them, at once or, below, in
   a function above an import; names that a pattern binds, for those who import them *)
Late_ == {"foo = type: bar\nbar = type _\nfoo 1", "foo = type:\n a: x\nx = type _\nfoo {a: 1}", "foo = type:\n a: _\n b: foo\nfoo {a: 1}"}
Order_ == OneModule({"b = a\na = 1"}) \cup {"./m" :> "f = fn: a\n{a} = import './n'\nf _" @@ "./n" :> "a = 1"}
Exports_ == {"./m" :> "{a} = import './n'\na" @@ "./n" :> s \o "\nc = 1" @@ "./o" :> "a = 1" :
              s \in {"[a, b] = [1, 2]", "1 |= a", "{a} = import './o'"}}
(* Types and predicates in front of parameters *)
Params_ == {"foo = type: _\nf = fn foo x: x\nf foo 1", "p = fn x: x == 1\nf = fn p x: x\nf 1"}

Pk == Texts(Linked \cup Slots \cup OneModule(
        Contexts \cup Suspensions \cup Identities \cup (Matches_ \ Arms_) \cup Bindings \cup Calls_
        \cup (Operations \ Members_) \cup Programs \cup Typed \cup Unbound))
(* Functions that are called again, below the place that bound what their closures use *)
Reentry == Texts(OneModule({
  "f = fn n:\n g = match n:\n  0: fn: 0\n  _: f n - 1\n [a] = [n]\n fn: [a, g _]\nh = f 1\nh _",
  "f = fn n:\n g = fn: h _\n x = match n:\n  0: 0\n  _: f n - 1\n h = fn: n\n g _\nf 1"}))
(* What no run has *)
DifferPk == Texts(Exports_ \cup Order_ \cup OneModule(
              Members_ \cup Equals_ \cup Arms_ \cup Early_ \cup Spreads_ \cup Late_ \cup Params_))

(* What these modules publish, and what becomes of them *)
Public == {"a", "b", "c", "d", "f", "g", "h", "m", "o", "p", "u", "x", "y", "z",
           "add", "bar", "bit", "f_b", "foo", "none", "some", "upd",
           "suspend", "set_ctx_for", "get_ctx_for", "upd_ctx_for", "init_ctx", "unique", "upd_ctx_unique"}
Load_ == INSTANCE Loading WITH
  Urls <- {"./e", "./m", "./n", "./o"}, Names <- Public,
  imports <- [u \in DOMAIN images |-> images[u].imports],
  published <- [u \in DOMAIN registry |-> {k[2] : k \in DOMAIN registry[u]}]
(* Whatever modules say to each other, they are loaded as Loading says *)
ImplementsLoading == Load_!Spec
====
