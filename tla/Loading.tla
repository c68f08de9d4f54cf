------------------------------ MODULE Loading ------------------------------
(***************************************************************************)
(* What becomes of the modules of a package, whatever they say: each is    *)
(* compiled once, after a module that imports it or as the entry; when     *)
(* nothing is missing the entry is started, and then an import starts a    *)
(* module that was not started before; what a module publishes stays.      *)
(***************************************************************************)
CONSTANTS
  Urls,    \* of modules
  Names,   \* that modules publish
  Entry    \* the url the host starts

VARIABLES
  imports,    \* of each compiled module, the urls it imports
  published   \* of each started module, the names it has published so far

vars == <<imports, published>>

Compiled == DOMAIN imports
Started == DOMAIN published
Init == imports = [u \in {} |-> {}] /\ published = [u \in {} |-> {}]

Wanted(u) == u = Entry \/ \E w \in Compiled : u \in imports[w]
Compile(u) ==
  /\ Started = {} /\ u \notin Compiled /\ Wanted(u)
  /\ \E needed \in SUBSET Urls : imports' = [w \in Compiled \cup {u} |-> IF w = u THEN needed ELSE imports[w]]
  /\ UNCHANGED published

(* All that is imported is there *)
Closed == \A w \in Compiled : imports[w] \subseteq Compiled
Launch ==
  /\ Started = {} /\ Entry \in Compiled /\ Closed
  /\ published' = [w \in {Entry} |-> {}]
  /\ UNCHANGED imports
Begin(u) ==
  /\ u \notin Started /\ \E w \in Started : u \in imports[w]
  /\ published' = [w \in Started \cup {u} |-> IF w = u THEN {} ELSE published[w]]
  /\ UNCHANGED imports
Publish(u) ==
  /\ u \in Started
  /\ \E x \in Names : published' = [published EXCEPT ![u] = @ \cup {x}]
  /\ UNCHANGED imports

Next ==
  \/ Launch
  \/ \E u \in Urls : Compile(u) \/ Begin(u) \/ Publish(u)
Spec == Init /\ [][Next]_vars

-----------------------------------------------------------------------------
TypeOK ==
  /\ Compiled \subseteq Urls /\ imports \in [Compiled -> SUBSET Urls]
  /\ Started \subseteq Urls /\ published \in [Started -> SUBSET Names]

(* No module is started that was not compiled, and once one is started no import of a
   compiled module can find nothing: import never looks for code that is not there *)
StartedIsLinked == Started \subseteq Compiled /\ (Started # {} => Closed)
=============================================================================
