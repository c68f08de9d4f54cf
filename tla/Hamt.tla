-------------------------------- MODULE Hamt --------------------------------
(***************************************************************************)
(* The dicts and records of src/runtime/dict.wat: persistent hash tries    *)
(* with a value under each key.                                            *)
(***************************************************************************)
EXTENDS HashTrie

CONSTANTS
  Names,    \* the variables of a program that hold dicts
  Vals,     \* the values that each key is given
  Missing,  \* the null of a lookup that finds nothing
  Trap      \* the outcome of an operation that traps the instance

VARIABLES
  dicts,   \* the root of the dict each variable holds
  answer,  \* the value the last pop gave
  trapped  \* an operation has trapped

vars == <<dicts, answer, trapped>>

-----------------------------------------------------------------------------
(* Leaves                                                                  *)

Leaf(k, v) == [tag |-> "leaf", key |-> k, val |-> v]

ASSUME ValuesAssumption ==
  /\ Leafs = [tag : {"leaf"}, key : Keys, val : UNION {Vals[k] : k \in Keys}]
  /\ \A k \in Keys : Missing \notin Vals[k]
  /\ Trap \notin Tries[0]

-----------------------------------------------------------------------------
(* Walks along the hash of a key                                           *)

\* mutant: the leaf found on the hash path is taken for the key's.
GetInUnchecked(n, k, depth, below) ==
  LET fragment == Fragment(Hash[k], depth)
      child    == n.children[Index(n.bits, fragment)]
  IN  CASE fragment \notin n.bits -> Missing
        [] OTHER ->
             CASE child.tag = "leaf" -> child.val
               [] child.tag = "collision" ->
                    LET j == FindKey(child.leaves, k)
                    IN  IF j = 0 THEN Missing ELSE child.leaves[j].val
               [] child.tag = "node" -> below[child]

GetIn(n, k, depth, below) ==
  LET fragment == Fragment(Hash[k], depth)
      child    == n.children[Index(n.bits, fragment)]
  IN  CASE fragment \notin n.bits -> Missing
        [] OTHER ->
             CASE child.tag = "leaf" -> IF DeepEq(child.key, k) THEN child.val ELSE Missing
               [] child.tag = "collision" ->
                    LET j == FindKey(child.leaves, k)
                    IN  IF j = 0 THEN Missing ELSE child.leaves[j].val
               [] child.tag = "node" -> below[child]

Gets(k) == LET at[depth \in Depths] ==
                 [n \in Tries[depth] |-> GetIn(n, k, depth, at[depth + 1])]
           IN  at

Get(n, k) == Gets(k)[0][n]

\* mutant: the keys collide one level early.
SetInShallow(n, k, v, depth, below) ==
  LET fragment == Fragment(Hash[k], depth)
      i        == Index(n.bits, fragment)
      child    == n.children[i]
  IN  CASE fragment \notin n.bits ->
             Node(n.bits \cup {fragment}, InsertAt(n.children, i, Leaf(k, v)))
        [] OTHER -> SetChild(n, i,
             CASE child.tag = "node" -> below[child]
               [] child.tag = "collision" ->
                    LET j == FindKey(child.leaves, k)
                    IN  Collision(child.hash,
                          IF j = 0 THEN Append(child.leaves, Leaf(k, v))
                                   ELSE ReplaceAt(child.leaves, j, Leaf(k, v)))
               [] child.tag = "leaf" /\ DeepEq(child.key, k) -> Leaf(k, v)
               [] child.tag = "leaf" /\ ~DeepEq(child.key, k) /\ depth + 2 >= Levels ->
                    Collision(Hash[k], <<child, Leaf(k, v)>>)
               [] OTHER -> below[Alone(child, depth + 1)])

\* A leaf with another key goes down a level together with the new one, or, at the last
\* level, makes a collision with it.
SetIn(n, k, v, depth, below) ==
  LET fragment == Fragment(Hash[k], depth)
      i        == Index(n.bits, fragment)
      child    == n.children[i]
  IN  CASE fragment \notin n.bits ->
             Node(n.bits \cup {fragment}, InsertAt(n.children, i, Leaf(k, v)))
        [] OTHER -> SetChild(n, i,
             CASE child.tag = "node" -> below[child]
               [] child.tag = "collision" ->
                    LET j == FindKey(child.leaves, k)
                    IN  Collision(child.hash,
                          IF j = 0 THEN Append(child.leaves, Leaf(k, v))
                                   ELSE ReplaceAt(child.leaves, j, Leaf(k, v)))
               [] child.tag = "leaf" /\ DeepEq(child.key, k) -> Leaf(k, v)
               [] child.tag = "leaf" /\ ~DeepEq(child.key, k) /\ depth + 1 >= Levels ->
                    Collision(Hash[k], <<child, Leaf(k, v)>>)
               [] OTHER -> below[Alone(child, depth + 1)])

Sets(k, v) == LET at[depth \in Depths] ==
                    [n \in Tries[depth] |-> SetIn(n, k, v, depth, at[depth + 1])]
              IN  at

HamtSet(n, k, v) == IF n = Trap \/ Clashes(n, k) THEN Trap ELSE Sets(k, v)[0][n]

\* mutant: the collapsed collision keeps the leaf that was to go.
DeleteInKeepsLeaf(n, k, depth, below) ==
  LET fragment == Fragment(Hash[k], depth)
      i        == Index(n.bits, fragment)
      child    == n.children[i]
  IN  CASE fragment \notin n.bits -> n
        [] OTHER ->
             CASE child.tag = "node" -> SetChild(n, i, below[child])
               [] child.tag = "collision" ->
                    LET j == FindKey(child.leaves, k)
                    IN  IF j = 0 THEN n ELSE SetChild(n, i, child.leaves[j])
               [] child.tag = "leaf" ->
                    IF DeepEq(child.key, k) THEN DropSlot(n, fragment, i) ELSE n

\* hamt_delete: a sub-node that loses its last leaf stays in its parent, empty.
DeleteIn(n, k, depth, below) ==
  LET fragment == Fragment(Hash[k], depth)
      i        == Index(n.bits, fragment)
      child    == n.children[i]
  IN  CASE fragment \notin n.bits -> n
        [] OTHER ->
             CASE child.tag = "node" -> SetChild(n, i, below[child])
               [] child.tag = "collision" ->
                    LET j == FindKey(child.leaves, k)
                    IN  IF j = 0 THEN n ELSE SetChild(n, i, DropLeaf(child, j))
               [] child.tag = "leaf" ->
                    IF DeepEq(child.key, k) THEN DropSlot(n, fragment, i) ELSE n

Deletes(k) == LET at[depth \in Depths] ==
                    [n \in Tries[depth] |-> DeleteIn(n, k, depth, at[depth + 1])]
              IN  at

HamtDelete(n, k) == Deletes(k)[0][n]

\* mutant: the value is read off the collision after the leaf is gone.
PopInSurvivor(n, k, depth, below) ==
  LET fragment == Fragment(Hash[k], depth)
      i        == Index(n.bits, fragment)
      child    == n.children[i]
      absent   == [val |-> Missing, rest |-> n]
  IN  CASE fragment \notin n.bits -> absent
        [] OTHER ->
             CASE child.tag = "node" -> [below[child] EXCEPT !.rest = SetChild(n, i, @)]
               [] child.tag = "collision" ->
                    LET j == FindKey(child.leaves, k)
                    IN  IF j = 0 THEN absent
                        ELSE [val |-> child.leaves[(j % Len(child.leaves)) + 1].val,
                              rest |-> SetChild(n, i, DropLeaf(child, j))]
               [] child.tag = "leaf" ->
                    IF DeepEq(child.key, k) THEN [val |-> child.val, rest |-> DropSlot(n, fragment, i)]
                                     ELSE absent

\* hamt_pop: the value of a key and the trie without it, in one traversal.
PopIn(n, k, depth, below) ==
  LET fragment == Fragment(Hash[k], depth)
      i        == Index(n.bits, fragment)
      child    == n.children[i]
      absent   == [val |-> Missing, rest |-> n]
  IN  CASE fragment \notin n.bits -> absent
        [] OTHER ->
             CASE child.tag = "node" -> [below[child] EXCEPT !.rest = SetChild(n, i, @)]
               [] child.tag = "collision" ->
                    LET j == FindKey(child.leaves, k)
                    IN  IF j = 0 THEN absent
                        ELSE [val |-> child.leaves[j].val,
                              rest |-> SetChild(n, i, DropLeaf(child, j))]
               [] child.tag = "leaf" ->
                    IF DeepEq(child.key, k) THEN [val |-> child.val, rest |-> DropSlot(n, fragment, i)]
                                     ELSE absent

Pops(k) == LET at[depth \in Depths] ==
                 [n \in Tries[depth] |-> PopIn(n, k, depth, at[depth + 1])]
           IN  at

HamtPop(n, k) == Pops(k)[0][n]

-----------------------------------------------------------------------------
(* Walks over all entries                                                  *)

HamtSize(n) == Len(Leaves(n))

\* hamt_merge: every entry of src is set in dest, so src wins.
HamtMerge(dest, src) ==
  LET entries == Leaves(src)
      merged[i \in 0 .. Len(entries)] ==
        IF i = 0 THEN dest ELSE HamtSet(merged[i - 1], entries[i].key, entries[i].val)
  IN  merged[Len(entries)]

\* _copy_one_key: no-op if src lacks the key.
CopyOneKey(dest, k, src) ==
  CASE dest = Trap \/ Clashes(src, k) -> Trap
    [] dest # Trap /\ ~Clashes(src, k) /\ Get(src, k) = Missing -> dest
    [] OTHER -> HamtSet(dest, k, Get(src, k))

\* copy_by_keys: a new trie with the keys of `keys' and the values of src.
CopyByKeys(keys, src) ==
  LET entries == Leaves(keys)
      copied[i \in 0 .. Len(entries)] ==
        IF i = 0 THEN Empty ELSE CopyOneKey(copied[i - 1], entries[i].key, src)
  IN  copied[Len(entries)]

\* mutant: the sizes are not compared first.
RecDeepEqUnsized(a, b) ==
  \A i \in DOMAIN Leaves(a) : Get(b, Leaves(a)[i].key) = Leaves(a)[i].val

\* rec_deep_eq: the same size, and every entry of a is in b with an equal value.
RecDeepEq(a, b) ==
  /\ HamtSize(a) = HamtSize(b)
  /\ \A i \in DOMAIN Leaves(a) : Get(b, Leaves(a)[i].key) = Leaves(a)[i].val

-----------------------------------------------------------------------------
(* A program that holds dicts in variables                                 *)

Init ==
  /\ dicts = [x \in Names |-> Empty]
  /\ answer = Missing
  /\ trapped = FALSE

\* The result of an operation is assigned to x, or the operation trapped.
Assign(x, n) ==
  /\ ~trapped
  /\ trapped' = (n = Trap)
  /\ dicts' = IF n = Trap THEN dicts ELSE [dicts EXCEPT ![x] = n]

New(x) == Assign(x, Empty) /\ answer' = Missing

Put(x, k, v) == Assign(x, HamtSet(dicts[x], k, v)) /\ answer' = Missing

\* rec_pop: a pattern takes a field; without it the pattern fails and nothing is bound.
Pop(x, k) ==
  LET popped == HamtPop(dicts[x], k)
  IN  /\ Assign(x, IF Clashes(dicts[x], k) THEN Trap ELSE popped.rest)
      /\ answer' = IF Clashes(dicts[x], k) THEN Missing ELSE popped.val

\* {..x, ..y}
Merge(x, y) == Assign(x, HamtMerge(dicts[x], dicts[y])) /\ answer' = Missing

\* The projection of types.wat: the fields of y with the values of x.
Project(x, y) == Assign(x, CopyByKeys(dicts[y], dicts[x])) /\ answer' = Missing

Next == \E x \in Names :
  \/ New(x)
  \/ \E k \in Keys : \E v \in Vals[k] : Put(x, k, v)
  \/ \E k \in Keys : Pop(x, k)
  \/ \E y \in Names : Merge(x, y) \/ Project(x, y)

Spec == Init /\ [][Next]_vars

-----------------------------------------------------------------------------
(* Properties                                                              *)

\* Every trie a program can build is well formed: however puts, pops, merges and
\* projections follow each other, the bitmap counts the children, each key is where its
\* hash leads, and only keys with one hash collide.
WellFormed ==
  /\ dicts \in [Names -> Tries[0]]
  /\ \A x \in Names : WellFormedAt[0][dicts[x]][Hashes]

Entries(n) ==
  LET ls == Leaves(n)
  IN  [k \in {l.key : l \in Range(ls)} |-> (CHOOSE l \in Range(ls) : l.key = k).val]

\* Lookups along the hash and walks over the entries see the same map: every entry is
\* found under its key, no other key is, and size counts each key once.
LookupsAgree ==
  \A x \in Names :
    /\ \A k \in Keys : Get(dicts[x], k) =
         IF k \in DOMAIN Entries(dicts[x]) THEN Entries(dicts[x])[k] ELSE Missing
    /\ HamtSize(dicts[x]) = Cardinality(DOMAIN Entries(dicts[x]))

\* Two dicts are equal when they have the same entries, whatever the history of each left
\* in its trie: emptied sub-nodes, leaves deeper than they need be, collisions in
\* another order.
EqualityIgnoresShape ==
  \A x, y \in Names :
    RecDeepEq(dicts[x], dicts[y]) <=> Entries(dicts[x]) = Entries(dicts[y])

\* The two removals, written as separate traversals, leave the same trie, and pop gives
\* the value a lookup finds.
DeleteIsPop ==
  \A x \in Names, k \in Keys :
    /\ HamtDelete(dicts[x], k) = HamtPop(dicts[x], k).rest
    /\ Get(dicts[x], k) = HamtPop(dicts[x], k).val

\* "dict keys are arbitrary values": no operation traps on the keys it is given.
NeverTraps == ~trapped

Maps == INSTANCE DictSpec WITH maps <- [x \in Names |-> Entries(dicts[x])]

\* A dict is a finite map: every operation does to the entries what its name says.
ImplementsDict == Maps!Spec
=============================================================================
