------------------------------- MODULE HamtSet -------------------------------
(***************************************************************************)
(* The sets of src/runtime/set.wat: hash tries with leaves that hold a key *)
(* only, and the set algebra on top of them.                               *)
(***************************************************************************)
EXTENDS HashTrie

CONSTANTS
  Names,    \* the variables of a program that hold sets
  MaxSize,  \* bound of the model: leaves of a set (a NaN can be added again and again)
  None,     \* no value
  Trap      \* the outcome of an operation that traps the instance

VARIABLES
  sets,    \* the root of the set each variable holds
  answer,  \* the element the last pop gave
  trapped  \* an operation has trapped

vars == <<sets, answer, trapped>>

-----------------------------------------------------------------------------
(* Leaves                                                                  *)

Leaf(k) == [tag |-> "leaf", key |-> k]

ASSUME SetAssumption ==
  /\ Leafs = [tag : {"leaf"}, key : Keys] /\ MaxSize \in Nat
  /\ None \notin Keys /\ Trap \notin Keys /\ Trap \notin Tries[0]

-----------------------------------------------------------------------------
(* Walks along the hash of a key                                           *)

\* What a lookup answers if its comparisons do not trap.
HasIn(n, k, depth, below) ==
  LET fragment == Fragment(Hash[k], depth)
      child    == n.children[Index(n.bits, fragment)]
  IN  /\ fragment \in n.bits
      /\ CASE child.tag = "leaf" -> DeepEq(child.key, k)
           [] child.tag = "collision" -> FindKey(child.leaves, k) # 0
           [] child.tag = "node" -> below[child]

Looks(k) == LET at[depth \in Depths] ==
                  [n \in Tries[depth] |-> HasIn(n, k, depth, at[depth + 1])]
            IN  at

Has(n, k) == Looks(k)[0][n]

\* mutant: the keys collide one level early.
AddInShallow(n, k, depth, below) ==
  LET fragment == Fragment(Hash[k], depth)
      i        == Index(n.bits, fragment)
      child    == n.children[i]
  IN  CASE fragment \notin n.bits ->
             Node(n.bits \cup {fragment}, InsertAt(n.children, i, Leaf(k)))
        [] OTHER ->
             CASE child.tag = "node" -> SetChild(n, i, below[child])
               [] child.tag = "collision" ->
                    IF FindKey(child.leaves, k) # 0 THEN n
                    ELSE SetChild(n, i, Collision(child.hash, Append(child.leaves, Leaf(k))))
               [] child.tag = "leaf" /\ DeepEq(child.key, k) -> n
               [] child.tag = "leaf" /\ ~DeepEq(child.key, k) /\ depth + 2 >= Levels ->
                    SetChild(n, i, Collision(Hash[k], <<child, Leaf(k)>>))
               [] OTHER -> SetChild(n, i, below[Alone(child, depth + 1)])

\* A leaf with another key goes down a level together with the new one, or, at the last
\* level, makes a collision with it.  A key already there changes nothing.
AddIn(n, k, depth, below) ==
  LET fragment == Fragment(Hash[k], depth)
      i        == Index(n.bits, fragment)
      child    == n.children[i]
  IN  CASE fragment \notin n.bits ->
             Node(n.bits \cup {fragment}, InsertAt(n.children, i, Leaf(k)))
        [] OTHER ->
             CASE child.tag = "node" -> SetChild(n, i, below[child])
               [] child.tag = "collision" ->
                    IF FindKey(child.leaves, k) # 0 THEN n
                    ELSE SetChild(n, i, Collision(child.hash, Append(child.leaves, Leaf(k))))
               [] child.tag = "leaf" /\ DeepEq(child.key, k) -> n
               [] child.tag = "leaf" /\ ~DeepEq(child.key, k) /\ depth + 1 >= Levels ->
                    SetChild(n, i, Collision(Hash[k], <<child, Leaf(k)>>))
               [] OTHER -> SetChild(n, i, below[Alone(child, depth + 1)])

Adds(k) == LET at[depth \in Depths] ==
                 [n \in Tries[depth] |-> AddIn(n, k, depth, at[depth + 1])]
           IN  at

Add(n, k) == IF n = Trap \/ Clashes(n, k) THEN Trap ELSE Adds(k)[0][n]

\* remove: a leaf goes by identity, one of a collision by equality; a sub-node that loses
\* its last leaf stays in its parent, empty.
RemoveIn(n, k, depth, below) ==
  LET fragment == Fragment(Hash[k], depth)
      i        == Index(n.bits, fragment)
      child    == n.children[i]
  IN  CASE fragment \notin n.bits -> n
        [] OTHER ->
             CASE child.tag = "node" -> SetChild(n, i, below[child])
               [] child.tag = "collision" ->
                    LET j == FindKey(child.leaves, k)
                    IN  IF j = 0 THEN n ELSE SetChild(n, i, DropLeaf(child, j))
               [] child.tag = "leaf" ->
                    IF child.key = k THEN DropSlot(n, fragment, i) ELSE n

Removes(k) == LET at[depth \in Depths] ==
                    [n \in Tries[depth] |-> RemoveIn(n, k, depth, at[depth + 1])]
              IN  at

RemoveKey(n, k) == Removes(k)[0][n]

-----------------------------------------------------------------------------
(* Walks over all entries                                                  *)

SetSize(n) == Len(Leaves(n))

\* The keys of src that are picked, added to dest one by one.
Gather(dest, src, picked) ==
  LET entries == Leaves(src)
      gathered[i \in 0 .. Len(entries)] ==
        CASE i = 0 -> dest
          [] i # 0 /\ entries[i].key \in picked -> Add(gathered[i - 1], entries[i].key)
          [] OTHER -> gathered[i - 1]
  IN  gathered[Len(entries)]

\* The lookups in b of the keys of a, one by one until a key of `deciding' ends the walk:
\* one of them traps.
WalkTraps(a, b, deciding) ==
  \E i \in DOMAIN Leaves(a) :
    /\ Clashes(b, Leaves(a)[i].key)
    /\ \A j \in 1 .. i - 1 : Leaves(a)[j].key \notin deciding

Union(dest, src) == Gather(dest, src, Keys)

Intersect(a, b) ==
  IF WalkTraps(a, b, {}) THEN Trap ELSE Gather(Empty, a, {k \in Keys : Has(b, k)})

Difference(a, b) ==
  IF WalkTraps(a, b, {}) THEN Trap ELSE Gather(Empty, a, {k \in Keys : ~Has(b, k)})

SymDifference(a, b) ==
  IF Trap \in {Difference(a, b), Difference(b, a)} THEN Trap
  ELSE Union(Difference(a, b), Difference(b, a))

\* What the comparisons answer if they do not trap, and whether they do.
Subset(a, b)   == \A i \in DOMAIN Leaves(a) : Has(b, Leaves(a)[i].key)
Disjoint(a, b) == \A i \in DOMAIN Leaves(a) : ~Has(b, Leaves(a)[i].key)

SubsetTraps(a, b)   == WalkTraps(a, b, {k \in Keys : ~Has(b, k)})
DisjointTraps(a, b) == WalkTraps(a, b, {k \in Keys : Has(b, k)})

\* mutant: the sizes are not compared first.
SetEqUnsized(a, b) == Subset(a, b)

SetEq(a, b)        == SetSize(a) = SetSize(b) /\ Subset(a, b)
SetEqTraps(a, b)   == SetSize(a) = SetSize(b) /\ SubsetTraps(a, b)

\* op_lt takes both sizes whatever the walk says, and traps when the walk does.
StrictSubset(a, b) == Subset(a, b) /\ SetSize(a) # SetSize(b)

\* _pick_first_key: the first child decides, whatever it is, so an empty sub-node ends the
\* walk in its `unreachable'.
FirstKeyIn(n, below) ==
  LET child == n.children[1]
  IN  CASE n.children = <<>> -> Trap
        [] OTHER -> CASE child.tag = "leaf" -> child.key
                      [] child.tag = "collision" -> child.leaves[1].key
                      [] child.tag = "node" -> below[child]

FirstKeys == LET at[depth \in Depths] == [n \in Tries[depth] |-> FirstKeyIn(n, at[depth + 1])]
             IN  at

PickFirstKey(n) == FirstKeys[0][n]

-----------------------------------------------------------------------------
(* A program that holds sets in variables                                  *)

Init ==
  /\ sets = [x \in Names |-> Empty]
  /\ answer = None
  /\ trapped = FALSE

\* The result of an operator is assigned to x, or the operator trapped.
Assign(x, n) ==
  /\ ~trapped
  /\ \/ /\ n # Trap /\ SetSize(n) <= MaxSize
        /\ sets' = [sets EXCEPT ![x] = n]
        /\ answer' = None
        /\ UNCHANGED trapped
     \/ n = Trap /\ trapped' = TRUE /\ UNCHANGED <<sets, answer>>

New(x)         == Assign(x, Empty)
Include(x, k)  == Assign(x, Add(sets[x], k))
Plus(x, y)     == Assign(x, Union(sets[x], sets[y]))
And(x, y)      == Assign(x, Intersect(sets[x], sets[y]))
Minus(x, y)    == Assign(x, Difference(sets[x], sets[y]))
Xor(x, y)      == Assign(x, SymDifference(sets[x], sets[y]))

\* seq_pop: an empty set fails the pattern.
PopEmpty(x) ==
  /\ ~trapped /\ SetSize(sets[x]) = 0
  /\ answer' = None
  /\ UNCHANGED <<sets, trapped>>

\* The first key is there, and taking it out traps neither in the walk to it nor in `remove',
\* which compares the keys of a collision.
CanPop(x) ==
  PickFirstKey(sets[x]) # Trap /\ ~Clashes(sets[x], PickFirstKey(sets[x]))

\* mutant: the rest is the set itself.
PopKeeps(x) ==
  LET k == PickFirstKey(sets[x])
  IN  /\ ~trapped /\ SetSize(sets[x]) # 0 /\ CanPop(x)
      /\ answer' = k
      /\ UNCHANGED <<sets, trapped>>

\* seq_pop: the first key and the set without it.
Pop(x) ==
  LET k == PickFirstKey(sets[x])
  IN  /\ ~trapped /\ SetSize(sets[x]) # 0 /\ CanPop(x)
      /\ sets' = [sets EXCEPT ![x] = RemoveKey(@, k)]
      /\ answer' = k
      /\ UNCHANGED trapped

\* seq_pop, with entries behind an emptied sub-node, or a NaN before a string.
PopTraps(x) ==
  /\ ~trapped /\ SetSize(sets[x]) # 0 /\ ~CanPop(x)
  /\ trapped' = TRUE
  /\ UNCHANGED <<sets, answer>>

\* A membership test or a comparison that traps; those that answer change nothing.
AskTraps(x, y) ==
  /\ ~trapped
  /\ \/ \E k \in Keys : Clashes(sets[x], k)
     \/ SubsetTraps(sets[x], sets[y]) \/ DisjointTraps(sets[x], sets[y])
     \/ SetEqTraps(sets[x], sets[y])
  /\ trapped' = TRUE
  /\ UNCHANGED <<sets, answer>>

Next == \E x \in Names :
  \/ New(x)
  \/ \E k \in Keys : Include(x, k)
  \/ \E y \in Names : Plus(x, y) \/ And(x, y) \/ Minus(x, y) \/ Xor(x, y) \/ AskTraps(x, y)
  \/ PopEmpty(x) \/ Pop(x) \/ PopTraps(x)

Spec == Init /\ [][Next]_vars

-----------------------------------------------------------------------------
(* Properties                                                              *)

\* Every trie the set operators can build is well formed: the bitmap counts the children,
\* each key is where its hash leads, and only keys with one hash collide.
WellFormed ==
  /\ sets \in [Names -> Tries[0]]
  /\ \A x \in Names : WellFormedAt[0][sets[x]][Hashes]

Elements(n) == {l.key : l \in Range(Leaves(n))}

\* What lookups, comparisons and equality answer is what holds of the sets the tries stand
\* for, whatever the operations that built them left in their shape.
RelationsAgree ==
  \A x, y \in Names :
    LET a == Elements(sets[x])
        b == Elements(sets[y])
    IN  /\ \A k \in Keys : Has(sets[x], k) <=> k \in a
        /\ SetSize(sets[x]) = Cardinality(a)
        /\ Subset(sets[x], sets[y]) <=> a \subseteq b
        /\ StrictSubset(sets[x], sets[y]) <=> a \subseteq b /\ a # b
        /\ Disjoint(sets[x], sets[y]) <=> a \cap b = {}
        /\ SetEq(sets[x], sets[y]) <=> a = b

Uncastable(s, t) == \E j \in s, k \in t : CastFails(j, k)

\* But for a pop an operation traps only where a string meets a key of another type, or a
\* decimal a string or a symbol: a lookup only if such a key is held and the other one asked
\* for, whichever keys lie with them in a slot, and an operator only if the two are held.
TrapsAreMixed ==
  \A x, y \in Names :
    LET a == Elements(sets[x])
        b == Elements(sets[y])
    IN  /\ \A k \in Keys :
             Clashes(sets[x], k) \/ Add(sets[x], k) = Trap => Uncastable(a, {k})
        /\ SubsetTraps(sets[x], sets[y]) \/ DisjointTraps(sets[x], sets[y]) => Uncastable(b, a)
        /\ Trap \in {Union(sets[x], sets[y]), Intersect(sets[x], sets[y]),
                     Difference(sets[x], sets[y]), SymDifference(sets[x], sets[y])}
           => Uncastable(a \cup b, a \cup b)

Algebra == INSTANCE SetSpec WITH members <- [x \in Names |-> Elements(sets[x])]

\* The operators are those of set algebra and pop takes one element away, up to a trap.
ImplementsSet == Algebra!Spec

\* "Trap if empty (caller must check size first)": seq_pop does, so it never traps.
PopNeverTraps == ~trapped
=============================================================================
