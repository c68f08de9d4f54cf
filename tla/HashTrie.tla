------------------------------ MODULE HashTrie ------------------------------
(***************************************************************************)
(* What the tries of src/runtime/dict.wat and src/runtime/set.wat have in  *)
(* common; set.wat writes all of it a second time under other names.  A    *)
(* node has a bitmap and a dense array of children; a child is a leaf, a   *)
(* sub-node, or, at the last level, a collision of leaves with one hash.   *)
(* Nodes are never updated in place, so a dict or a set is the value of    *)
(* its root.                                                               *)
(*                                                                         *)
(* A walk that calls itself on a sub-node is a function from depths and    *)
(* nodes; what it does at one node is an operator of its own, which takes  *)
(* what the walk gives one level down as its argument `below'.             *)
(***************************************************************************)
EXTENDS Integers, SequencesExt

CONSTANTS
  Keys,
  Hash,    \* hash_i31 of each key
  Kind,    \* the runtime type of each key; an integer or a float is an "int"
  Nans,    \* the keys that deep_eq finds different from themselves
  Leafs,   \* what a leaf may be: a key alone, or with a value
  Fanout,  \* slots of a node: two to the bits of the hash per level (32 in the code)
  Levels   \* levels of the trie (7 in the code)

-----------------------------------------------------------------------------
(* The path of a hash                                                      *)

Slots  == 0 .. Fanout - 1
Hashes == {Hash[k] : k \in Keys}
Depths == 0 .. Levels

\* hash >> depth * 5, five bits at a time.
Shifted(h) == LET by[depth \in Depths] == IF depth = 0 THEN h ELSE by[depth - 1] \div Fanout
              IN  by

\* (hash >> depth * 5) & 31
Fragment(h, depth) == Shifted(h)[depth] % Fanout

\* The levels take up all bits of a hash.
ASSUME HashAssumption ==
  /\ Fanout \in Nat \ {0} /\ Levels \in Nat \ {0}
  /\ Hash \in [Keys -> Nat]
  /\ \A k \in Keys : Shifted(Hash[k])[Levels] = 0

ASSUME KindAssumption == Kind \in [Keys -> {"int", "symbol", "str", "decimal"}]

ASSUME LeafAssumption ==
  /\ Nans \subseteq Keys
  /\ \A l \in Leafs : l.tag = "leaf" /\ l.key \in Keys

-----------------------------------------------------------------------------
(* Nodes                                                                   *)

Collision(h, leaves) == [tag |-> "collision", hash |-> h, leaves |-> leaves]
Node(bits, children) == [tag |-> "node", bits |-> bits, children |-> children]

Empty == Node({}, <<>>)

Collisions == [tag : {"collision"}, hash : Hashes, leaves : Seq(Leafs)]

\* The nodes that may stand at each depth.
NodesOver(subnodes) ==
  [tag : {"node"}, bits : SUBSET Slots, children : Seq(Leafs \cup Collisions \cup subnodes)]
Tries[depth \in Depths] == IF depth = Levels THEN {} ELSE NodesOver(Tries[depth + 1])

DeepEq(a, b) == a = b /\ a \notin Nans

\* deep_eq(a, b) with a string or a decimal on the left casts the right operand.
CastFails(a, b) ==
  \/ Kind[a] = "str" /\ Kind[b] # "str"
  \/ Kind[a] = "decimal" /\ Kind[b] \in {"str", "symbol"}

\* The index of the first leaf with the key, or 0.
FindKey(leaves, k) == SelectInSeq(leaves, LAMBDA l : DeepEq(l.key, k))

\* One more than the number of bits set below the fragment's.
Index(bits, fragment) == Cardinality({b \in bits : b < fragment}) + 1

SetChild(n, i, child) == [n EXCEPT !.children = ReplaceAt(@, i, child)]

\* The node without the slot at i; a node's last slot leaves the empty node.
DropSlot(n, fragment, i) == Node(n.bits \ {fragment}, RemoveAt(n.children, i))

\* A collision of two becomes the leaf that survives.
DropLeaf(col, j) ==
  IF Len(col.leaves) = 2 THEN col.leaves[3 - j]
                         ELSE Collision(col.hash, RemoveAt(col.leaves, j))

\* A node with nothing but a leaf: what setting it in an empty node gives.
Alone(leaf, depth) == Node({Fragment(Hash[leaf.key], depth)}, <<leaf>>)

\* The leaves in the order of the walks: children in order, sub-nodes and collisions in
\* their place.
LeavesIn(n, below) ==
  FlattenSeq([i \in DOMAIN n.children |->
    LET child == n.children[i]
    IN  CASE child.tag = "leaf" -> <<child>>
          [] child.tag = "collision" -> child.leaves
          [] child.tag = "node" -> below[child]])
AllLeaves == LET at[depth \in Depths] == [n \in Tries[depth] |-> LeavesIn(n, at[depth + 1])]
             IN  at

Leaves(n) == AllLeaves[0][n]

-----------------------------------------------------------------------------
(* The comparisons on the way to a key                                     *)

\* The stored keys that a walk for k compares with k, in order.
ComparedIn(n, k, depth, below) ==
  LET fragment == Fragment(Hash[k], depth)
      child    == n.children[Index(n.bits, fragment)]
  IN  CASE fragment \notin n.bits -> <<>>
        [] OTHER ->
             CASE child.tag = "leaf" -> <<child.key>>
               [] child.tag = "collision" ->
                    LET j == FindKey(child.leaves, k)
                        keys == [i \in DOMAIN child.leaves |-> child.leaves[i].key]
                    IN  IF j = 0 THEN keys ELSE SubSeq(keys, 1, j)
               [] child.tag = "node" -> below[child]

Compares(k) == LET at[depth \in Depths] ==
                     [n \in Tries[depth] |-> ComparedIn(n, k, depth, at[depth + 1])]
               IN  at

\* mutant: the operands the other way round.
ClashesTurned(n, k) == \E l \in Range(Compares(k)[0][n]) : CastFails(k, l)

\* One of them traps.
Clashes(n, k) == \E l \in Range(Compares(k)[0][n]) : CastFails(l, k)

-----------------------------------------------------------------------------
(* What a trie must be                                                     *)

\* n is a trie at the given depth for keys with hashes in hs: one child per bit, every key
\* on the path of its hash, collisions only at the last level, of two or more leaves, and
\* nothing but a NaN twice.
WellFormedIn(n, depth, hs, below) ==
  /\ Len(n.children) = Cardinality(n.bits)
  /\ \A f \in n.bits :
       LET child == n.children[Index(n.bits, f)]
           under == {h \in hs : Fragment(h, depth) = f}
       IN  CASE child.tag = "leaf" -> Hash[child.key] \in under
             [] child.tag = "collision" ->
                  /\ depth + 1 = Levels /\ Len(child.leaves) > 1
                  /\ \A i \in DOMAIN child.leaves : Hash[child.leaves[i].key] = child.hash
                  /\ \A i, j \in DOMAIN child.leaves :
                       DeepEq(child.leaves[i].key, child.leaves[j].key) => i = j
                  /\ child.hash \in under
             [] child.tag = "node" -> below[child][under]

WellFormedAt == LET at[depth \in Depths] ==
                      [n \in Tries[depth] |-> [hs \in SUBSET Hashes |->
                         WellFormedIn(n, depth, hs, at[depth + 1])]]
                IN  at
=============================================================================
