------------------------------ MODULE DictSpec ------------------------------
(***************************************************************************)
(* What src/runtime/dict.wat promises: a dict is a finite map, and merging *)
(* and projecting are the operations on maps of those names.               *)
(***************************************************************************)
EXTENDS Functions

CONSTANTS
  Names,   \* the variables of a program that hold dicts
  Keys,
  Vals,    \* the values that each key is given
  Missing  \* what a lookup of an absent key gives

VARIABLES
  maps,    \* the map each variable holds
  answer   \* what the last pop gave

vars == <<maps, answer>>

EmptyMap == [k \in {} |-> Missing]

Lookup(m, k) == IF k \in DOMAIN m THEN m[k] ELSE Missing

Init == maps = [x \in Names |-> EmptyMap] /\ answer = Missing

\* m with k bound to v.
With(m, k, v) == [key \in DOMAIN m \cup {k} |-> IF key = k THEN v ELSE m[key]]

\* The entries of n, and those of m under other keys.
Over(n, m) == [k \in DOMAIN n \cup DOMAIN m |-> IF k \in DOMAIN n THEN n[k] ELSE m[k]]

\* What one operation on a variable with the map m may make of it, given the map n of
\* another: put a value, start anew, merge (the source wins), take the fields n has.
Made(m, n) ==
  (UNION {{With(m, k, v) : v \in Vals[k]} : k \in Keys})
  \cup {EmptyMap, Over(n, m), Restrict(m, DOMAIN m \cap DOMAIN n)}

\* One variable is assigned: what an operation makes of it, or what a pop leaves.
Next == \E now \in {maps}, then \in {maps'} : \E x \in Names :
  /\ \A y \in Names \ {x} : then[y] = now[y]
  /\ \/ answer' = Missing /\ \E y \in Names : then[x] \in Made(now[x], now[y])
     \/ \E k \in Keys : answer' = Lookup(now[x], k) /\ then[x] = Restrict(now[x], DOMAIN now[x] \ {k})

Spec == Init /\ [][Next]_vars
=============================================================================
