------------------------------- MODULE MCHamt -------------------------------
(* Small instances of Hamt: tries of three levels of one bit, or two. *)
EXTENDS Hamt

DictLeafs == [tag : {"leaf"}, key : Keys, val : UNION {Vals[k] : k \in Keys}]

\* Three keys with one hash and one that parts from them at the last of three levels:
\* leaves, sub-nodes, and collisions of two and of three.  One key is given two values.
DeepKeys == {"a", "b", "c", "d"}
DeepHash == [k \in DeepKeys |-> IF k = "c" THEN 4 ELSE 0]
DeepVals == [k \in DeepKeys |-> IF k = "a" THEN {"u", "v"} ELSE {"u"}]
Symbols  == [k \in DeepKeys |-> "symbol"]

\* A string and a symbol in one slot of the root.
MixedKeys == {"a", "b"}
MixedHash == [k \in MixedKeys |-> IF k = "a" THEN 0 ELSE 2]
MixedVals == [k \in MixedKeys |-> {"u"}]
Mixed     == [k \in MixedKeys |-> IF k = "a" THEN "str" ELSE "symbol"]
=============================================================================
