------------------------------ MODULE Compiler ------------------------------
(***************************************************************************)
(* A package from its entry module to its result: the modules it imports   *)
(* are compiled breadth first, each one pass after the other, then linked; *)
(* then the host starts the entry module, and imports start the others.    *)
(***************************************************************************)
EXTENDS FrontEnd, Meaning

CONSTANTS
  Packages,   \* each package a function from the urls of its modules to their texts
  Entry       \* the url of the module the host starts

VARIABLES
  package,    \* what is compiled and run
  queue,      \* urls to compile
  doing,      \* the module being compiled, or ""
  tree,       \* its tree, desugared
  sc,         \* what the analysis of scopes leaves of it
  cps,        \* its continuation-passing style
  trees,      \* the desugared trees of the modules compiled so far
  images, at, env, call, heap, types, globals, registry, outcome

D == INSTANCE Desugar
S == INSTANCE Scopes
C == INSTANCE Cps WITH c <- sc
L == INSTANCE Lift
M == INSTANCE Machine
N == INSTANCE Naming

moduleVars == <<doing, frontVars, tree, sc, cps>>
runVars == <<at, env, call, heap, types, globals, registry>>
machineVars == <<images, runVars, outcome>>
compilerVars == <<package, queue, moduleVars, trees, machineVars>>

NoTree == [id |-> 0]
NoScopes == [refs |-> <<>>]
NoCps == [e |-> ""]
Compiling == <<"compiling">>
Refused == <<"refused">>

(* The lexer in front of a text; without one between two modules *)
FrontAt(text) ==
  /\ src' = text /\ pos' = Pos(0, 1, 0) /\ mode' = <<Block>> /\ ind' = <<0, 0>>
  /\ started' = FALSE /\ pending' = <<>> /\ toks' = <<>> /\ panicked' = FALSE /\ parsed' = NotParsed
NoModule == doing' = "" /\ FrontAt(<<>>) /\ tree' = NoTree /\ sc' = NoScopes /\ cps' = NoCps

Init ==
  /\ FrontInit /\ src = <<>>
  /\ package \in Packages
  /\ queue = <<Entry>> /\ doing = "" /\ tree = NoTree /\ sc = NoScopes /\ cps = NoCps
  /\ trees = [u \in {} |-> NoTree] /\ images = [u \in {} |-> 0]
  /\ at = M!Idle /\ env = [x \in {} |-> 0] /\ call = M!NoCall /\ heap = <<>> /\ types = <<>>
  /\ globals = [u \in {} |-> 0] /\ registry = [u \in {} |-> 0]
  /\ outcome = Compiling

Refuse == outcome' = Refused /\ UNCHANGED <<package, queue, moduleVars, trees, images, runVars>>
Pass == outcome = Compiling /\ doing # ""

(* compile_package: the next url; one compiled already is skipped *)
Load ==
  /\ outcome = Compiling /\ doing = "" /\ queue # <<>>
  /\ IF Head(queue) \notin DOMAIN package THEN Refuse
     ELSE /\ queue' = Tail(queue)
          /\ IF Head(queue) \in DOMAIN images THEN UNCHANGED <<moduleVars>>
             ELSE doing' = Head(queue) /\ FrontAt(package[Head(queue)]) /\ UNCHANGED <<tree, sc, cps>>
          /\ UNCHANGED <<package, trees, images, runVars, outcome>>
FrontStep ==
  /\ Pass /\ ~Rest /\ (Lex \/ Parse)
  /\ UNCHANGED <<package, queue, doing, tree, sc, cps, trees, machineVars>>
FrontFails == Pass /\ Rest /\ ~Accepted /\ Refuse
DesugarPass ==
  /\ Pass /\ Accepted /\ tree = NoTree
  /\ tree' = D!Desugared(D!Tree(parsed))
  /\ UNCHANGED <<package, queue, doing, frontVars, sc, cps, trees, machineVars>>
ScopesPass ==
  /\ Pass /\ tree # NoTree /\ sc = NoScopes
  /\ sc' = S!Analysed(tree)
  /\ UNCHANGED <<package, queue, doing, frontVars, tree, cps, trees, machineVars>>
(* to_cps refuses names that nothing binds *)
CpsPass ==
  /\ Pass /\ sc # NoScopes /\ cps = NoCps
  /\ IF S!Unresolved(sc) # {} THEN Refuse
     ELSE /\ cps' = C!Lowered(tree.id)
          /\ UNCHANGED <<package, queue, doing, frontVars, tree, sc, trees, machineVars>>

(* collect_module_imports: the imports that stand in the module's own statements, and the
   names they take; enqueue_dep passes over the modules of the runtime *)
ImportsOf(t) ==
  LET Name(id) == LET n == t.ast[id]
                  IN IF n.kind = "Ident" THEN {n.text}
                     ELSE IF n.kind = "Arm" /\ t.ast[n.kids[1]].kind = "Ident" THEN {t.ast[n.kids[1]].text} ELSE {}
      Names(id) == UNION {Name(k) : k \in Range(t.ast[id].kids)}
      Url(id) == LET k == t.ast[id].kids IN t.ast[k[2]].text
      Called(id) == D!IsImport(t.ast, id) /\ Len(t.ast[id].kids) = 2 /\ t.ast[t.ast[id].kids[2]].kind = "LitStr"
      Of(id) == CASE Called(id) -> <<[url |-> Url(id), names |-> {}]>>
                  [] t.ast[id].kind = "Bind" ->
                       LET k == t.ast[id].kids
                       IN IF Called(k[2]) /\ t.ast[k[1]].kind = "LitRec" THEN <<[url |-> Url(k[2]), names |-> Names(k[1])]>> ELSE <<>>
                  [] OTHER -> <<>>
  IN FlattenSeq([j \in DOMAIN t.ast[t.id].kids |-> Of(t.ast[t.id].kids[j])])
LiftPass ==
  LET flat == L!Hoisted(L!Convert(L!Lifted(L!WithContext(cps))))
      names == [b \in DOMAIN sc.binds |-> sc.binds[b].name]
      imports == ImportsOf(tree)
      natives == [u \in {i.url : i \in Range(imports)} \cap DOMAIN M!Natives |->
                    UNION {i.names : i \in {i \in Range(imports) : i.url = u}}]
      texts == SelectSeq(imports, LAMBDA i : i.url \notin DOMAIN M!Natives)
      next == [j \in DOMAIN texts |-> M!Canonical(doing, texts[j].url)]
  IN /\ Pass /\ cps # NoCps
     /\ \E image \in {M!Image(doing, p, names, natives) : p \in {flat}} :
        IF M!Refused(image) THEN Refuse
        ELSE /\ images' = (doing :> image) @@ images
             /\ globals' = (doing :> [id \in image.slots |-> M!Null]) @@ globals
             /\ trees' = (doing :> tree) @@ trees
             /\ queue' = queue \o SelectSeq(next, LAMBDA u : u \notin DOMAIN images \cup {doing})
             /\ NoModule
             /\ UNCHANGED <<package, at, env, call, heap, types, registry, outcome>>

(* link, and the start of the program: what a module imports must be there, and what it
   takes of the runtime, too *)
Link ==
  /\ outcome = Compiling /\ doing = "" /\ queue = <<>>
  /\ IF /\ \A u \in DOMAIN images : images[u].imports \subseteq DOMAIN images
        /\ \A u \in DOMAIN images : \A w \in DOMAIN images[u].natives : images[u].natives[w] \subseteq M!Natives[w]
     THEN M!Start(Entry) /\ UNCHANGED <<package, queue, moduleVars, trees, images, globals>>
     ELSE Refuse
Execute == M!Run /\ UNCHANGED <<package, queue, moduleVars, trees>>

Stopped == outcome \notin {Compiling, M!Running}
Stop == Stopped /\ UNCHANGED compilerVars

CompilerNext ==
  \/ Load \/ FrontStep \/ FrontFails \/ DesugarPass \/ ScopesPass \/ CpsPass \/ LiftPass \/ Link
  \/ Execute \/ Stop
CompilerSpec == Init /\ [][CompilerNext]_compilerVars

-----------------------------------------------------------------------------
(* What can be seen of the end of a program is what its trees mean: its result, and what
   its modules have published.  Destructuring, calls, captures, names that are used before
   they are bound, continuations after a match and modules that import each other all
   reach the machine through passes that rename, reorder, lift and capture *)
Agrees(x) ==
  CASE x.is = "outside" -> TRUE
    [] x.is = "late" -> outcome # M!Trapped
    [] x.is = "trap" -> outcome = M!Trapped
    [] x.is = "idle" -> outcome = <<"idle">> /\ SeenOf(types, registry) = SeenOf(x.st.types, x.st.mods)
    [] OTHER -> /\ outcome[1] = "ok" /\ Seen(types, outcome[2]) = Seen(x.st.types, x.v)
                /\ SeenOf(types, registry) = SeenOf(x.st.types, x.st.mods)
MeaningKept == (Stopped /\ outcome # Refused) => \A x \in {Meant(trees, Entry)} : Agrees(x)

(* A program is refused for what it says, and only then: a text of it is not one of the
   language, a name is used that nothing binds where it stands, or it imports what is not
   there.  Names get their scopes in one pass and their places in another, a function can
   be made or called above what it uses, and imports are collected in one pass, lowered in
   another and linked in a third: none of them may lose what an earlier one let pass.
   What the code does lose is named: a module that is there, but is only imported in a
   place where nobody looks, is refused when the package is linked (Overlooked).  Names of
   the module above their binding and the heads of parameters are left to the README *)
Stray == \E t \in Range(trees) \cup ({tree} \ {NoTree}) : N!Strays(t) # {}
Absent(texts) == \E u \in DOMAIN texts : N!Unfound(texts[u], u, DOMAIN package) # {}
Overlooked(texts) ==
  LET looked == {Entry} \cup UNION {N!Stated(texts[u], u) : u \in DOMAIN texts}
  IN \E u \in DOMAIN texts : \E i \in N!Imported(texts[u], u) : i.url \in DOMAIN package \ looked
RefusedForCause ==
  LET texts == IF tree = NoTree THEN trees ELSE (doing :> tree) @@ trees
  IN Stopped => (outcome = Refused <=>
                   \/ Rest /\ doing # "" /\ ~Accepted
                   \/ Stray \/ Absent(texts) \/ Overlooked(texts))
=============================================================================
