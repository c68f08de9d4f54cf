------------------------------ MODULE MCHamtSet ------------------------------
(* Small instances of HamtSet. *)
EXTENDS HamtSet

SetLeafs == [tag : {"leaf"}, key : Keys]

\* Three symbols with one hash, a string that shares their slot at the root only, a symbol
\* that shares none: a string met alone in that slot traps, one behind a symbol does not.
CollidingKeys == {"a", "b", "c", "d", "e"}
CollidingHash == [k \in CollidingKeys |->
  CASE k \in {"a", "b", "c"} -> 0 [] k = "d" -> 2 [] k = "e" -> 1]

\* Two keys with one hash, one that parts from them at the last level, one at the first.
SpreadKeys == {"a", "b", "d", "e"}
SpreadHash == [k \in SpreadKeys |-> CASE k \in {"a", "b"} -> 0 [] k = "d" -> 2 [] k = "e" -> 1]

Mixed   == [k \in Keys |-> IF k = "d" THEN "str" ELSE "symbol"]
Symbols == [k \in Keys |-> "symbol"]
=============================================================================
